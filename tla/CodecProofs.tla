----------------------------- MODULE CodecProofs -----------------------------
(***************************************************************************)
(* Codec, proved for any base, any lengths and any cipher and digest with  *)
(* the properties it assumes: what is taken off a wire is what was put on  *)
(* it, and two ends show the same SAS exactly if they have seen the same   *)
(* keys.                                                                   *)
(***************************************************************************)
EXTENDS Codec, SequenceTheorems, FiniteSetTheorems, TLAPS

(***************************************************************************)
(* Numbers in a base b                                                     *)
(***************************************************************************)

LEMMA DivMod ==
  ASSUME NEW b \in Nat, b > 0, NEW q \in Int, NEW r \in 0..b - 1
  PROVE  (q * b + r) \div b = q /\ (q * b + r) % b = r
BY SMT

LEMMA Divide ==
  ASSUME NEW b \in Nat, b > 0, NEW n \in Nat
  PROVE  \E q \in Nat, r \in 0..b - 1 : q = n \div b /\ r = n % b /\ n = q * b + r
<1>1. n \div b \in Nat /\ n % b \in 0..b - 1
  BY SMT
<1>2. PICK q \in Nat, r \in 0..b - 1 : q = n \div b /\ r = n % b
  BY <1>1
<1>3. n = q * b + r
  BY <1>2, SMT
<1> QED BY <1>2, <1>3

\* Dividing twice.
LEMMA DivDiv ==
  ASSUME NEW b \in Nat, b > 0, NEW c \in Nat, c > 0, NEW n \in Nat
  PROVE  n \div (b * c) = (n \div b) \div c
<1>1. PICK q \in Nat, r \in 0..b - 1 : q = n \div b /\ r = n % b /\ n = q * b + r
  BY Divide
<1>2. PICK p \in Nat, s \in 0..c - 1 : p = q \div c /\ s = q % c /\ q = p * c + s
  BY Divide
<1>3. b * c \in Nat /\ b * c > 0
  BY SMT
<1>4. s * b + r \in 0..b * c - 1
  <2>1. s * b <= (c - 1) * b
    BY SMT
  <2> QED BY <2>1, SMT
<1>5. n = p * (b * c) + (s * b + r)
  BY <1>1, <1>2, SMT
<1> QED BY <1>1, <1>2, <1>3, <1>4, <1>5, DivMod

\* A number below q * b has a quotient below q.
LEMMA DivBelow ==
  ASSUME NEW b \in Nat, b > 0, NEW q \in Nat, NEW n \in Nat, n < q * b
  PROVE  n \div b < q
<1>1. PICK p \in Nat, r \in 0..b - 1 : p = n \div b /\ r = n % b /\ n = p * b + r
  BY Divide
<1>2. p >= q => p * b >= q * b
  BY SMT
<1> QED BY <1>1, <1>2, SMT

LEMMA ModBelow ==
  ASSUME NEW b \in Nat, b > 0, NEW n \in 0..b - 1
  PROVE  n % b = n /\ n \div b = 0
BY SMT

\* The quotients by the powers of the base, one from the other.
LEMMA Quotients ==
  ASSUME NEW b \in Nat, b > 0, NEW n \in Nat
  PROVE  /\ b * b \in Nat /\ b * b > 0 /\ b * b * b \in Nat /\ b * b * b > 0
         /\ n \div (b * b) = (n \div b) \div b
         /\ n \div (b * b * b) = ((n \div b) \div b) \div b
         /\ n \div b \in Nat /\ (n \div b) \div b \in Nat /\ ((n \div b) \div b) \div b \in Nat
<1>1. b * b \in Nat /\ b * b > 0
  BY SMT
<1>2. b * b * b \in Nat /\ b * b * b > 0
  <2> DEFINE c == b * b
  <2>1. c \in Nat /\ c > 0
    BY <1>1
  <2> HIDE DEF c
  <2>2. c * b \in Nat /\ c * b > 0
    BY <2>1, SMT
  <2> QED BY <2>2 DEF c
<1>3. n \div (b * b) = (n \div b) \div b /\ n \div b \in Nat
  BY DivDiv, Divide
<1>4. n \div (b * b * b) = (n \div (b * b)) \div b
  BY <1>1, DivDiv
<1>5. (n \div b) \div b \in Nat
  BY <1>3, Divide
<1>6. ((n \div b) \div b) \div b \in Nat
  BY <1>5, Divide
<1> QED BY <1>1, <1>2, <1>3, <1>4, <1>5, <1>6

\* A number of four digits is its digits.
LEMMA FourDigits ==
  ASSUME NEW b \in Nat, b > 0, NEW n \in Nat, n < b * b * b * b
  PROVE  \E w, x, y, z \in 0..b - 1 :
           /\ w = (n \div (b * b * b)) % b /\ x = (n \div (b * b)) % b
           /\ y = (n \div b) % b /\ z = n % b
           /\ n = ((w * b + x) * b + y) * b + z
<1>1. PICK p \in Nat, q \in Nat, r \in Nat :
        /\ p = n \div b /\ q = p \div b /\ r = q \div b
        /\ n \div (b * b) = q /\ n \div (b * b * b) = r
  BY Quotients
<1>2. b * b * b \in Nat /\ b * b * b > 0
  BY Quotients
<1>3. r < b
  <2> DEFINE c == b * b * b
  <2>1. c \in Nat /\ c > 0 /\ n < b * c
    <3>1. b * b * b * b = b * (b * b * b)
      BY SMT
    <3> QED BY <1>2, <3>1
  <2> HIDE DEF c
  <2>2. n \div c < b
    BY <2>1, DivBelow
  <2> QED BY <1>1, <2>2 DEF c
<1>4. PICK w \in 0..b - 1 : w = r /\ w = r % b
  BY <1>3, ModBelow
<1>5. PICK z \in 0..b - 1 : z = n % b /\ n = p * b + z
  BY <1>1, Divide
<1>6. PICK y \in 0..b - 1 : y = p % b /\ p = q * b + y
  BY <1>1, Divide
<1>7. PICK x \in 0..b - 1 : x = q % b /\ q = r * b + x
  BY <1>1, Divide
<1>8. n = ((w * b + x) * b + y) * b + z
  BY <1>4, <1>5, <1>6, <1>7
<1>9. /\ w = (n \div (b * b * b)) % b /\ x = (n \div (b * b)) % b
      /\ y = (n \div b) % b /\ z = n % b
  BY <1>1, <1>4, <1>5, <1>6, <1>7
<1> QED BY <1>8, <1>9

\* And the other way round: the digits it is made of are its digits.
LEMMA DigitsAre ==
  ASSUME NEW b \in Nat, b > 0, NEW w \in 0..b - 1, NEW x \in 0..b - 1, NEW y \in 0..b - 1,
         NEW z \in 0..b - 1, NEW n, n = ((w * b + x) * b + y) * b + z
  PROVE  /\ n \in Nat /\ n < b * b * b * b
         /\ (n \div (b * b * b)) % b = w /\ (n \div (b * b)) % b = x
         /\ (n \div b) % b = y /\ n % b = z
<1>1. PICK r \in Nat : r = w * b + x
  BY SMT
<1>2. PICK q \in Nat : q = r * b + y
  BY SMT
<1>3. n = q * b + z /\ n \in Nat
  BY <1>1, <1>2, SMT
<1>4. n \div b = q /\ n % b = z /\ q \div b = r /\ q % b = y /\ r \div b = w /\ r % b = x
  <2>1. n \div b = q /\ n % b = z
    BY <1>3, DivMod
  <2>2. q \div b = r /\ q % b = y
    BY <1>2, DivMod
  <2>3. r \div b = w /\ r % b = x
    BY <1>1, DivMod
  <2> QED BY <2>1, <2>2, <2>3
<1>5. n \div (b * b) = r /\ n \div (b * b * b) = w
  BY <1>3, <1>4, Quotients
<1>6. w % b = w
  BY ModBelow
<1>7. n < b * b * b * b
  <2>1. PICK c \in Nat : c = b * b
    BY SMT
  <2>2. r < c
    <3>1. w * b <= (b - 1) * b
      BY SMT
    <3> QED BY <1>1, <2>1, <3>1, SMT
  <2>3. PICK d \in Nat : d = c * b
    BY SMT
  <2>4. q < d
    <3>1. r * b <= (c - 1) * b
      BY <2>2, SMT
    <3> QED BY <1>2, <2>3, <3>1, SMT
  <2>5. n < d * b
    <3>1. q * b <= (d - 1) * b
      BY <2>4, SMT
    <3> QED BY <1>3, <3>1, SMT
  <2> QED BY <2>1, <2>3, <2>5
<1> QED BY <1>3, <1>4, <1>5, <1>6, <1>7

LEMMA Bases ==
  /\ D \in Nat /\ D > 1 /\ Hex \in Nat /\ Hex > 1 /\ Sextet \in Nat /\ Sextet > 7
  /\ Byte \in Nat /\ Byte >= Sextet + 2
  /\ Byte = Hex * Hex /\ Byte = D * Sextet /\ Byte = Sextet * D
  /\ Byte * Byte * Byte = Sextet * Sextet * Sextet * Sextet
<1>1. D \in Nat /\ D > 1
  BY CodecAssumption
<1>2. PICK h \in Nat : h = D * D /\ h > 3
  <2>1. D * D >= 2 * D
    BY <1>1, SMT
  <2> QED BY <1>1, <2>1, SMT
<1>3. PICK s \in Nat : s = h * D /\ s > 7
  <2>1. h * D >= 4 * D
    BY <1>1, <1>2, SMT
  <2> QED BY <1>1, <1>2, <2>1, SMT
<1>4. PICK c \in Nat : c = s * D /\ c >= s + 2
  <2>1. s * D >= s * 2
    BY <1>1, <1>3, SMT
  <2> QED BY <1>1, <1>3, <2>1, SMT
<1>5. Hex = h /\ Sextet = s /\ Byte = c
  BY <1>2, <1>3, <1>4 DEF Hex, Sextet, Byte
<1>6. Byte = Hex * Hex /\ Byte = D * Sextet /\ Byte = Sextet * D
  BY <1>1, SMT DEF Hex, Sextet, Byte
<1>7. Byte * Byte * Byte = Sextet * Sextet * Sextet * Sextet
  BY <1>1, SMT DEF Sextet, Byte
<1> QED BY <1>1, <1>2, <1>3, <1>4, <1>5, <1>6, <1>7

\* What a string is, given by its places.
LEMMA Tabled ==
  ASSUME NEW S, NEW n \in Nat, NEW f, f = [i \in 1..n |-> f[i]], \A i \in 1..n : f[i] \in S
  PROVE  f \in Seq(S) /\ Len(f) = n /\ DOMAIN f = 1..n
<1>1. f \in [1..n -> S]
  OBVIOUS
<1> QED BY <1>1, LenProperties

\* Two strings put together, and cut where the first one ends.
LEMMA CutWhereJoined ==
  ASSUME NEW S, NEW s \in Seq(S), NEW t \in Seq(S)
  PROVE  /\ s \o t \in Seq(S) /\ Len(s \o t) = Len(s) + Len(t)
         /\ SubSeq(s \o t, 1, Len(s)) = s
         /\ SubSeq(s \o t, Len(s) + 1, Len(s \o t)) = t
<1>1. /\ s \o t \in Seq(S) /\ Len(s \o t) = Len(s) + Len(t)
      /\ \A i \in 1..Len(s) + Len(t) :
           (s \o t)[i] \in S /\ (s \o t)[i] = IF i <= Len(s) THEN s[i] ELSE t[i - Len(s)]
  BY ConcatProperties, ElementOfSeq
<1>2. Len(s) \in Nat /\ Len(t) \in Nat
  BY LenProperties
<1>3. SubSeq(s \o t, 1, Len(s)) = s
  <2>1. \A i \in 1..Len(s) : (s \o t)[i] \in S
    BY <1>1, <1>2
  <2>2. /\ SubSeq(s \o t, 1, Len(s)) \in Seq(S) /\ Len(SubSeq(s \o t, 1, Len(s))) = Len(s)
        /\ \A i \in 1..Len(s) : SubSeq(s \o t, 1, Len(s))[i] = (s \o t)[i]
    BY <1>2, <2>1, SubSeqProperties
  <2>3. \A i \in 1..Len(s) : SubSeq(s \o t, 1, Len(s))[i] = s[i]
    BY <1>1, <1>2, <2>2
  <2> QED BY <2>2, <2>3, SeqEqual
<1>4. SubSeq(s \o t, Len(s) + 1, Len(s) + Len(t)) = t
  <2> DEFINE u == SubSeq(s \o t, Len(s) + 1, Len(s) + Len(t))
  <2>1. \A i \in Len(s) + 1..Len(s) + Len(t) : (s \o t)[i] \in S
    BY <1>1, <1>2
  <2>2. /\ u \in Seq(S) /\ Len(u) = Len(t)
        /\ \A i \in 1..Len(t) : u[i] = (s \o t)[Len(s) + i]
    BY <1>2, <2>1, SubSeqProperties
  <2> HIDE DEF u
  <2>3. \A i \in 1..Len(t) : u[i] = t[i]
    BY <1>1, <1>2, <2>2
  <2>4. u = t
    BY <2>2, <2>3, SeqEqual
  <2> QED BY <2>4 DEF u
<1> QED BY <1>1, <1>3, <1>4

(***************************************************************************)
(* Chunk frames                                                            *)
(***************************************************************************)

\* A string of hexadecimal digits is what its bytes are written as.
LEMMA HexRoundTrip ==
  ASSUME NEW hex \in [1..2 * IdLen -> 0..Hex - 1]
  PROVE  /\ HexToBytes(hex) \in Octets /\ Len(HexToBytes(hex)) = IdLen
         /\ BytesToHex(HexToBytes(hex)) = hex
<1>1. IdLen \in Nat
  BY CodecAssumption
<1>2. ASSUME NEW i \in 1..IdLen
      PROVE  /\ 2 * i - 1 \in 1..2 * IdLen /\ 2 * i \in 1..2 * IdLen
             /\ HexToBytes(hex)[i] \in 0..Byte - 1
             /\ HexToBytes(hex)[i] \div Hex = hex[2 * i - 1] /\ HexToBytes(hex)[i] % Hex = hex[2 * i]
  <2>1. 2 * i - 1 \in 1..2 * IdLen /\ 2 * i \in 1..2 * IdLen
    BY <1>1
  <2>2. PICK a \in 0..Hex - 1, b \in 0..Hex - 1 : a = hex[2 * i - 1] /\ b = hex[2 * i]
    BY <2>1
  <2>3. HexToBytes(hex)[i] = a * Hex + b
    BY <2>2 DEF HexToBytes
  <2>4. PICK h \in Nat : h = Hex /\ h > 0 /\ Byte = h * h
    BY Bases
  <2>5. (a * h + b) \div h = a /\ (a * h + b) % h = b
    BY <2>4, DivMod
  <2>6. a * h + b \in 0..h * h - 1
    <3>1. a * h <= (h - 1) * h
      BY <2>4, SMT
    <3> QED BY <2>4, <3>1, SMT
  <2> QED BY <2>1, <2>2, <2>3, <2>4, <2>5, <2>6
<1>3. HexToBytes(hex) = [i \in 1..IdLen |-> HexToBytes(hex)[i]]
  BY DEF HexToBytes
<1>4. HexToBytes(hex) \in Octets /\ Len(HexToBytes(hex)) = IdLen
  <2> DEFINE h == HexToBytes(hex)
  <2>1. h = [i \in 1..IdLen |-> h[i]] /\ \A i \in 1..IdLen : h[i] \in 0..Byte - 1
    BY <1>2, <1>3
  <2> HIDE DEF h
  <2>2. h \in Octets /\ Len(h) = IdLen
    BY <1>1, <2>1, Tabled DEF Octets
  <2> QED BY <2>2 DEF h
<1>5. ASSUME NEW j \in 1..2 * IdLen
      PROVE  hex[j] = IF j % 2 = 1 THEN HexToBytes(hex)[(j + 1) \div 2] \div Hex
                      ELSE HexToBytes(hex)[j \div 2] % Hex
  <2>1. CASE j % 2 = 1
    <3>1. PICK i \in 1..IdLen : i = (j + 1) \div 2 /\ 2 * i - 1 = j
      BY <1>1, <2>1
    <3> QED BY <1>2, <2>1, <3>1
  <2>2. CASE j % 2 # 1
    <3>1. PICK i \in 1..IdLen : i = j \div 2 /\ 2 * i = j
      BY <1>1, <2>2
    <3> QED BY <1>2, <2>2, <3>1
  <2> QED BY <2>1, <2>2
<1>6. BytesToHex(HexToBytes(hex)) = [j \in 1..2 * IdLen |-> hex[j]]
  BY <1>4, <1>5 DEF BytesToHex
<1> QED BY <1>4, <1>6

\* The number of a chunk: its sign is gone.
LEMMA NumberRoundTrip ==
  ASSUME NEW n \in 0..Byte * Byte * Byte * Byte - 1
  PROVE  \E w, x, y, z \in 0..Byte - 1 :
           /\ w = (n \div (Byte * Byte * Byte)) % Byte /\ x = (n \div (Byte * Byte)) % Byte
           /\ y = (n \div Byte) % Byte /\ z = n % Byte
           /\ NumberOfChunk(w, x, y, z) = n
<1>1. Byte \in Nat /\ Byte > 0
  BY Bases
<1>2. PICK m \in Nat : m = Byte * Byte * Byte * Byte
  <2>1. PICK c \in Nat : c = Byte * Byte * Byte
    BY <1>1, Quotients
  <2> QED BY <1>1, <2>1, SMT
<1>3. n \in Nat /\ n < m
  BY <1>2
<1>4. PICK w, x, y, z \in 0..Byte - 1 :
        /\ w = (n \div (Byte * Byte * Byte)) % Byte /\ x = (n \div (Byte * Byte)) % Byte
        /\ y = (n \div Byte) % Byte /\ z = n % Byte
        /\ n = ((w * Byte + x) * Byte + y) * Byte + z
  BY <1>1, <1>2, <1>3, FourDigits
<1>5. NumberOfChunk(w, x, y, z) = (IF 2 * n < m THEN n ELSE n - m) % m
  BY <1>2, <1>4 DEF NumberOfChunk, Signed, Word, Triple
<1>6. (IF 2 * n < m THEN n ELSE n - m) % m = n
  <2>1. n % m = n
    BY <1>3, ModBelow
  <2>2. (n - m) % m = n
    <3>1. -1 * m + n = n - m
      BY <1>3
    <3> QED BY <1>3, <3>1, DivMod
  <2> QED BY <2>1, <2>2
<1>7. NumberOfChunk(w, x, y, z) = n
  BY <1>5, <1>6
<1>8. /\ w = (n \div (Byte * Byte * Byte)) % Byte /\ x = (n \div (Byte * Byte)) % Byte
      /\ y = (n \div Byte) % Byte /\ z = n % Byte
  BY <1>4
<1> QED BY <1>7, <1>8, Zenon

LEMMA HeaderIs ==
  ASSUME NEW f \in Frames
  PROVE  /\ Header(f) \in Octets /\ Len(Header(f)) = 6 /\ Header(f)[1] = Magic
         /\ (Header(f)[2] % 2 = 1) = f.last
         /\ NumberOfChunk(Header(f)[3], Header(f)[4], Header(f)[5], Header(f)[6]) = f.seq
<1>1. f.last \in BOOLEAN /\ f.seq \in 0..Byte * Byte * Byte * Byte - 1
  BY CodecAssumption DEF Frames
<1>2. PICK n \in 0..Byte * Byte * Byte * Byte - 1 : n = f.seq
  BY <1>1
<1>3. PICK w, x, y, z \in 0..Byte - 1 :
        /\ w = (n \div (Byte * Byte * Byte)) % Byte /\ x = (n \div (Byte * Byte)) % Byte
        /\ y = (n \div Byte) % Byte /\ z = n % Byte
        /\ NumberOfChunk(w, x, y, z) = n
  BY NumberRoundTrip
<1>4. PICK l \in 0..1 : l = IF f.last THEN 1 ELSE 0
  OBVIOUS
<1>5. Header(f) = <<Magic, l, w, x, y, z>>
  BY <1>2, <1>3, <1>4 DEF Header
<1>6. Magic \in 0..Byte - 1 /\ l \in 0..Byte - 1
  BY Bases DEF Magic
<1>7. Header(f) \in Octets
  BY <1>3, <1>5, <1>6 DEF Octets
<1>8. (l % 2 = 1) = f.last
  BY <1>1, <1>4
<1>9. /\ Len(Header(f)) = 6 /\ Header(f)[1] = Magic /\ Header(f)[2] = l
      /\ Header(f)[3] = w /\ Header(f)[4] = x /\ Header(f)[5] = y /\ Header(f)[6] = z
  BY <1>5
<1> QED BY <1>2, <1>3, <1>7, <1>8, <1>9

\* A chunk frame is taken apart into what it was made of.
LEMMA FrameRoundTrip ==
  ASSUME NEW f \in Frames
  PROVE  EncodeChunkFrame(f) \in Octets /\ DecodeChunkFrame(EncodeChunkFrame(f)) = <<f>>
<1>1. /\ f \in [id : Ids, seq : Seqs, last : BOOLEAN, data : Slices]
      /\ f.id \in [1..2 * IdLen -> 0..Hex - 1] /\ f.data \in Octets
  BY CodecAssumption DEF Frames
<1>2. PICK h \in Octets : h = Header(f) /\ Len(h) = 6
  BY HeaderIs
<1>3. PICK b \in Octets : b = HexToBytes(f.id) /\ Len(b) = IdLen /\ BytesToHex(b) = f.id
  BY <1>1, HexRoundTrip
<1>4. PICK d \in Octets : d = f.data
  BY <1>1
<1>5. IdLen \in Nat /\ Len(d) \in Nat /\ HeaderLen = 6 + IdLen
  BY CodecAssumption, LenProperties DEF Octets, HeaderLen
<1>6. PICK p \in Octets :
        p = h \o b /\ Len(p) = 6 + IdLen /\ SubSeq(p, 7, Len(p)) = b
        /\ \A i \in 1..6 : p[i] = h[i]
  <2>1. /\ h \o b \in Octets /\ Len(h \o b) = Len(h) + Len(b)
        /\ SubSeq(h \o b, Len(h) + 1, Len(h \o b)) = b
    BY CutWhereJoined DEF Octets
  <2>2. \A i \in 1..Len(h) + Len(b) : (h \o b)[i] = IF i <= Len(h) THEN h[i] ELSE b[i - Len(h)]
    BY ConcatProperties DEF Octets
  <2>3. PICK p \in Octets : p = h \o b
    BY <2>1
  <2>4. Len(p) = 6 + IdLen /\ SubSeq(p, 7, Len(p)) = b
    BY <1>2, <1>3, <2>1, <2>3
  <2>5. \A i \in 1..6 : p[i] = h[i]
    <3>1. \A i \in 1..6 : i \in 1..Len(h) + Len(b) /\ i <= Len(h)
      BY <1>2, <1>3, <1>5
    <3> QED BY <2>2, <2>3, <3>1
  <2> QED BY <2>3, <2>4, <2>5
<1>7. PICK e \in Octets :
        e = p \o d /\ Len(e) = Len(p) + Len(d)
        /\ SubSeq(e, Len(p) + 1, Len(e)) = d
        /\ \A i \in 1..Len(p) : e[i] = p[i]
  <2>1. /\ p \o d \in Octets /\ Len(p \o d) = Len(p) + Len(d)
        /\ SubSeq(p \o d, Len(p) + 1, Len(p \o d)) = d
    BY CutWhereJoined DEF Octets
  <2>2. \A i \in 1..Len(p) : (p \o d)[i] = p[i]
    <3>1. \A i \in 1..Len(p) + Len(d) : (p \o d)[i] = IF i <= Len(p) THEN p[i] ELSE d[i - Len(p)]
      BY ConcatProperties DEF Octets
    <3>2. \A i \in 1..Len(p) : i \in 1..Len(p) + Len(d) /\ i <= Len(p)
      BY <1>5, <1>6
    <3> QED BY <3>1, <3>2
  <2> QED BY <2>1, <2>2
<1>8. EncodeChunkFrame(f) = e
  BY <1>2, <1>3, <1>4, <1>6, <1>7 DEF EncodeChunkFrame
<1>9. \A i \in 1..6 : e[i] = Header(f)[i]
  BY <1>2, <1>5, <1>6, <1>7
<1>10. SubSeq(e, 7, HeaderLen) = b
  <2>1. \A i \in 7..HeaderLen : e[i] \in 0..Byte - 1 /\ p[i] \in 0..Byte - 1 /\ e[i] = p[i]
    <3>1. \A i \in 7..HeaderLen : i \in 1..Len(e) /\ i \in 1..Len(p)
      BY <1>5, <1>6, <1>7
    <3> QED BY <1>7, <3>1, ElementOfSeq DEF Octets
  <2>2. /\ SubSeq(e, 7, HeaderLen) \in Octets /\ Len(SubSeq(e, 7, HeaderLen)) = IdLen
        /\ \A i \in 1..IdLen : SubSeq(e, 7, HeaderLen)[i] = e[6 + i]
    BY <1>5, <2>1, SubSeqProperties DEF Octets
  <2>3. /\ SubSeq(p, 7, HeaderLen) \in Octets /\ Len(SubSeq(p, 7, HeaderLen)) = IdLen
        /\ \A i \in 1..IdLen : SubSeq(p, 7, HeaderLen)[i] = p[6 + i]
    BY <1>5, <2>1, SubSeqProperties DEF Octets
  <2>4. SubSeq(e, 7, HeaderLen) = SubSeq(p, 7, HeaderLen)
    BY <1>5, <2>1, <2>2, <2>3, SeqEqual DEF Octets
  <2> QED BY <1>5, <1>6, <2>4
<1>11. DecodeChunkFrame(e) =
         <<[id |-> BytesToHex(SubSeq(e, 7, HeaderLen)), seq |-> NumberOfChunk(e[3], e[4], e[5], e[6]),
            last |-> e[2] % 2 = 1, data |-> SubSeq(e, HeaderLen + 1, Len(e))]>>
  <2>1. ~(Len(e) < HeaderLen \/ e[1] # Magic)
    BY <1>5, <1>6, <1>7, <1>9, HeaderIs
  <2> QED BY <2>1 DEF DecodeChunkFrame
<1>12. [id |-> BytesToHex(SubSeq(e, 7, HeaderLen)), seq |-> NumberOfChunk(e[3], e[4], e[5], e[6]),
        last |-> e[2] % 2 = 1, data |-> SubSeq(e, HeaderLen + 1, Len(e))] = f
  <2>1. BytesToHex(SubSeq(e, 7, HeaderLen)) = f.id
    BY <1>3, <1>10
  <2>2. NumberOfChunk(e[3], e[4], e[5], e[6]) = f.seq /\ (e[2] % 2 = 1) = f.last
    BY <1>9, HeaderIs
  <2>3. SubSeq(e, HeaderLen + 1, Len(e)) = f.data
    BY <1>4, <1>5, <1>6, <1>7
  <2>4. f = [id |-> f.id, seq |-> f.seq, last |-> f.last, data |-> f.data]
    BY <1>1
  <2> QED BY <2>1, <2>2, <2>3, <2>4
<1> QED BY <1>7, <1>8, <1>11, <1>12

(***************************************************************************)
(* Sealing                                                                 *)
(***************************************************************************)

\* What is sealed opens with the same key only.
LEMMA SealRoundTrip ==
  ASSUME NEW k \in Keys, NEW l \in Keys, NEW n \in Nonces,
         NEW p \in Texts \cup {EncodeChunkFrame(f) : f \in Frames}
  PROVE  /\ SealBytes(k, n, p) \in Octets
         /\ OpenBytes(l, SealBytes(k, n, p)) = IF k = l THEN <<p>> ELSE <<>>
<1>1. NonceLen \in Nat /\ n \in [1..NonceLen -> 0..Byte - 1]
  BY CodecAssumption
<1>2. n \in Octets /\ Len(n) = NonceLen
  <2>1. n = [i \in 1..NonceLen |-> n[i]] /\ \A i \in 1..NonceLen : n[i] \in 0..Byte - 1
    BY <1>1
  <2> QED BY <1>1, <2>1, Tabled DEF Octets
<1>3. PICK c \in Octets :
        c = Encrypt(k, n, p) /\ c # <<>> /\ Decrypt(l, n, c) = IF k = l THEN <<p>> ELSE <<>>
  BY CipherAuthenticates
<1>4. Len(c) \in Nat /\ Len(c) > 0
  BY <1>3, EmptySeq DEF Octets
<1>5. PICK s \in Octets :
        s = n \o c /\ Len(s) = Len(n) + Len(c)
        /\ SubSeq(s, 1, Len(n)) = n /\ SubSeq(s, Len(n) + 1, Len(s)) = c
  <2>1. PICK m \in Octets : m = n
    BY <1>2
  <2>2. /\ m \o c \in Octets /\ Len(m \o c) = Len(m) + Len(c)
        /\ SubSeq(m \o c, 1, Len(m)) = m /\ SubSeq(m \o c, Len(m) + 1, Len(m \o c)) = c
    BY CutWhereJoined DEF Octets
  <2> QED BY <2>1, <2>2
<1>6. SealBytes(k, n, p) = s
  BY <1>3, <1>5 DEF SealBytes
<1>7. ~(Len(s) < NonceLen + 1)
  BY <1>1, <1>2, <1>4, <1>5
<1>8. OpenBytes(l, s) = Decrypt(l, n, c)
  BY <1>2, <1>5, <1>7 DEF OpenBytes
<1> QED BY <1>3, <1>5, <1>6, <1>8

(***************************************************************************)
(* Base64                                                                  *)
(***************************************************************************)

\* How many characters and how many digits n bytes take, and how many bytes the
\* digits make.
LEMMA Lengths ==
  ASSUME NEW n \in Nat
  PROVE  /\ Digits(n) \in Nat /\ 4 * ((n + 2) \div 3) \in Nat
         /\ Digits(n) <= 4 * ((n + 2) \div 3) /\ 4 * ((n + 2) \div 3) <= Digits(n) + 2
         /\ (4 * ((n + 2) \div 3)) % 4 = 0
         /\ (3 * Digits(n)) \div 4 = n
         /\ 4 * ((n + 2) \div 3) = Digits(n) + (IF Digits(n) % 4 = 0 THEN 0 ELSE 4 - (Digits(n) % 4))
<1>1. PICK g \in Nat, r \in 0..2 : n = 3 * g + r
  <2>1. PICK g \in Nat : g = n \div 3
    OBVIOUS
  <2>2. n - 3 * g \in 0..2 /\ n = 3 * g + (n - 3 * g)
    BY <2>1
  <2> QED BY <2>2
<1>2. CASE r = 0
  <2>1. Digits(n) = 4 * g /\ (n + 2) \div 3 = g
    BY <1>1, <1>2 DEF Digits
  <2> QED BY <1>1, <1>2, <2>1
<1>3. CASE r = 1
  <2>1. Digits(n) = 4 * g + 2 /\ (n + 2) \div 3 = g + 1
    BY <1>1, <1>3 DEF Digits
  <2> QED BY <1>1, <1>3, <2>1
<1>4. CASE r = 2
  <2>1. Digits(n) = 4 * g + 3 /\ (n + 2) \div 3 = g + 1
    BY <1>1, <1>4 DEF Digits
  <2> QED BY <1>1, <1>4, <2>1
<1> QED BY <1>2, <1>3, <1>4

\* The digits that the group of the last bytes does without.
LEMMA NoDigit ==
  ASSUME NEW n \in Nat, NEW g \in Nat, 3 * g + 1 <= n, NEW k \in 0..3, 4 * g + k + 1 > Digits(n)
  PROVE  (n = 3 * g + 1 /\ k \in {2, 3}) \/ (n = 3 * g + 2 /\ k = 3)
BY DEF Digits

LEMMA ThreeBytes ==
  ASSUME NEW a \in 0..Byte - 1, NEW b \in 0..Byte - 1, NEW c \in 0..Byte - 1
  PROVE  /\ Triple(a, b, c) \in Nat /\ Triple(a, b, c) < Sextet * Sextet * Sextet * Sextet
         /\ ByteOf(Triple(a, b, c), 0) = a /\ ByteOf(Triple(a, b, c), 1) = b
         /\ ByteOf(Triple(a, b, c), 2) = c
<1>1. PICK m \in Nat : m = Byte /\ m > 0
  BY Bases
<1>2. PICK q \in Nat : q = a * m + b
  BY <1>1, SMT
<1>3. PICK n \in Nat : n = q * m + c
  BY <1>1, SMT
<1>4. n = Triple(a, b, c)
  BY <1>1, <1>2, <1>3 DEF Triple
<1>5. /\ (n \div (m * m)) % m = a /\ (n \div m) % m = b /\ n % m = c
      /\ n < m * m * m
  <2>1. n \div m = q /\ n % m = c
    BY <1>1, <1>3, DivMod
  <2>2. q \div m = a /\ q % m = b /\ a % m = a
    <3>1. a \in 0..m - 1 /\ b \in 0..m - 1
      BY <1>1
    <3> QED BY <1>1, <1>2, <3>1, DivMod, ModBelow
  <2>3. n \div (m * m) = a
    BY <1>1, <2>1, <2>2, Quotients
  <2>4. PICK d \in Nat : d = m * m
    BY <1>1, SMT
  <2>5. q < d
    <3>1. a * m <= (m - 1) * m
      BY <1>1, SMT
    <3> QED BY <1>1, <1>2, <2>4, <3>1, SMT
  <2>6. q * m <= (d - 1) * m
    BY <1>1, <2>5, SMT
  <2>7. n < d * m
    BY <1>1, <1>3, <2>6, SMT
  <2> QED BY <2>1, <2>2, <2>3, <2>4, <2>7
<1>6. ByteOf(n, 0) = a /\ ByteOf(n, 1) = b /\ ByteOf(n, 2) = c
  BY <1>1, <1>5 DEF ByteOf
<1> QED BY <1>1, <1>4, <1>5, <1>6, Bases

\* What is missing of the last group are zeros.
LEMMA MissingDigits ==
  ASSUME NEW a \in 0..Byte - 1, NEW b \in 0..Byte - 1
  PROVE  /\ DigitOf(Triple(a, 0, 0), 2) = 0 /\ DigitOf(Triple(a, 0, 0), 3) = 0
         /\ DigitOf(Triple(a, b, 0), 3) = 0
<1>1. PICK d, s \in Nat : d = D /\ s = Sextet /\ s > 0 /\ Byte = s * d
  BY Bases
<1>2. DigitOf(Triple(a, 0, 0), 2) = 0 /\ DigitOf(Triple(a, 0, 0), 3) = 0
  <2>1. PICK p \in Nat : p = a * d * d
    <3>1. PICK o \in Nat : o = a * d
      BY <1>1, SMT
    <3> QED BY <3>1, SMT
  <2>2. PICK q \in Nat : q = p * s + 0
    BY SMT
  <2>3. Triple(a, 0, 0) = q * s + 0
    <3>1. Triple(a, 0, 0) = (a * Byte) * Byte
      BY Bases DEF Triple
    <3>2. (a * (s * d)) * (s * d) = ((a * d * d) * s) * s
      BY <1>1, SMT
    <3> QED BY <1>1, <2>1, <2>2, <3>1, <3>2
  <2>4. /\ (q * s + 0) \div s = q /\ (q * s + 0) % s = 0 /\ q % s = 0
    <3>1. (q * s + 0) \div s = q /\ (q * s + 0) % s = 0
      BY <1>1, DivMod
    <3>2. q % s = 0
      BY <1>1, <2>2, DivMod
    <3> QED BY <3>1, <3>2
  <2> QED BY <1>1, <2>3, <2>4 DEF DigitOf
<1>3. DigitOf(Triple(a, b, 0), 3) = 0
  <2>1. PICK p \in Nat : p = a * Byte + b
    BY Bases, SMT
  <2>2. PICK q \in Nat : q = p * d
    BY SMT
  <2>3. Triple(a, b, 0) = q * s + 0
    <3>1. Triple(a, b, 0) = p * (s * d)
      BY <1>1, <2>1 DEF Triple
    <3>2. p * (s * d) = (p * d) * s
      BY SMT
    <3> QED BY <2>2, <3>1, <3>2
  <2>4. (q * s + 0) % s = 0
    BY <1>1, DivMod
  <2> QED BY <1>1, <2>3, <2>4 DEF DigitOf
<1> QED BY <1>2, <1>3

\* The bytes of a group, as a number and its digits.
LEMMA GroupIs ==
  ASSUME NEW s \in Octets, NEW g \in Nat
  PROVE  /\ At(s, 3 * g + 1) \in 0..Byte - 1 /\ At(s, 3 * g + 2) \in 0..Byte - 1
         /\ At(s, 3 * g + 3) \in 0..Byte - 1
         /\ \A k \in 0..3 : DigitOf(BytesOf(s, g), k) \in 0..Sextet - 1
         /\ BytesOf(s, g) = ((DigitOf(BytesOf(s, g), 0) * Sextet + DigitOf(BytesOf(s, g), 1)) * Sextet
                             + DigitOf(BytesOf(s, g), 2)) * Sextet + DigitOf(BytesOf(s, g), 3)
         /\ ByteOf(BytesOf(s, g), 0) = At(s, 3 * g + 1)
         /\ ByteOf(BytesOf(s, g), 1) = At(s, 3 * g + 2)
         /\ ByteOf(BytesOf(s, g), 2) = At(s, 3 * g + 3)
<1>1. ASSUME NEW i \in Nat, i > 0  PROVE At(s, i) \in 0..Byte - 1
  <2>1. CASE i <= Len(s)
    <3>1. i \in 1..Len(s)
      BY <1>1, <2>1, LenProperties DEF Octets
    <3> QED BY <2>1, <3>1, ElementOfSeq DEF Octets, At
  <2>2. CASE ~(i <= Len(s))
    BY <2>2, Bases DEF At
  <2> QED BY <2>1, <2>2
<1>2. PICK a, b, c \in 0..Byte - 1 :
        a = At(s, 3 * g + 1) /\ b = At(s, 3 * g + 2) /\ c = At(s, 3 * g + 3)
  BY <1>1
<1>3. PICK n \in Nat :
        /\ n = Triple(a, b, c) /\ n < Sextet * Sextet * Sextet * Sextet
        /\ ByteOf(n, 0) = a /\ ByteOf(n, 1) = b /\ ByteOf(n, 2) = c
  BY ThreeBytes
<1>4. BytesOf(s, g) = n
  BY <1>2, <1>3 DEF BytesOf
<1>5. PICK w, x, y, z \in 0..Sextet - 1 :
        /\ w = (n \div (Sextet * Sextet * Sextet)) % Sextet /\ x = (n \div (Sextet * Sextet)) % Sextet
        /\ y = (n \div Sextet) % Sextet /\ z = n % Sextet
        /\ n = ((w * Sextet + x) * Sextet + y) * Sextet + z
  <2>1. Sextet \in Nat /\ Sextet > 0
    BY Bases
  <2> QED BY <1>3, <2>1, FourDigits
<1>6. DigitOf(n, 0) = w /\ DigitOf(n, 1) = x /\ DigitOf(n, 2) = y /\ DigitOf(n, 3) = z
  BY <1>5 DEF DigitOf
<1>7. \A k \in 0..3 : DigitOf(n, k) \in 0..Sextet - 1
  <2>1. \A k \in 0..3 : k = 0 \/ k = 1 \/ k = 2 \/ k = 3
    OBVIOUS
  <2> QED BY <1>6, <2>1
<1>8. n = ((DigitOf(n, 0) * Sextet + DigitOf(n, 1)) * Sextet + DigitOf(n, 2)) * Sextet + DigitOf(n, 3)
  BY <1>5, <1>6
<1> QED BY <1>2, <1>3, <1>4, <1>7, <1>8

\* The characters of base64: digits, then padding.
LEMMA BtoaIs ==
  ASSUME NEW s \in Octets, NEW n \in Nat, n = Len(s), NEW m \in Nat, m = Digits(n),
         NEW c \in Nat, c = 4 * ((n + 2) \div 3)
  PROVE  /\ Btoa(s) \in Seq(0..Pad) /\ Len(Btoa(s)) = c /\ DOMAIN Btoa(s) = 1..c
         /\ \A i \in 1..m :
              /\ Btoa(s)[i] = DigitOf(BytesOf(s, (i - 1) \div 4), (i - 1) % 4)
              /\ Btoa(s)[i] \in 0..Sextet - 1
         /\ \A i \in m + 1..c : Btoa(s)[i] = Pad
<1>1. m <= c
  BY Lengths
<1>2. PICK t : t = Btoa(s)
  OBVIOUS
<1>3. t = [i \in 1..c |-> IF i <= m THEN DigitOf(BytesOf(s, (i - 1) \div 4), (i - 1) % 4) ELSE Pad]
  BY <1>2 DEF Btoa
<1>4. ASSUME NEW i \in 1..m
      PROVE  /\ t[i] = DigitOf(BytesOf(s, (i - 1) \div 4), (i - 1) % 4)
             /\ t[i] \in 0..Sextet - 1
  <2>1. PICK g \in Nat, k \in 0..3 : g = (i - 1) \div 4 /\ k = (i - 1) % 4
    OBVIOUS
  <2>2. i \in 1..c /\ i <= m
    BY <1>1
  <2>3. t[i] = DigitOf(BytesOf(s, g), k)
    BY <1>3, <2>1, <2>2
  <2> QED BY <2>1, <2>3, GroupIs
<1>5. \A i \in m + 1..c : t[i] = Pad
  BY <1>3
<1>6. t \in Seq(0..Pad) /\ Len(t) = c /\ DOMAIN t = 1..c
  <2>1. Sextet \in Nat
    BY Bases
  <2>2. \A i \in 1..c : t[i] \in 0..Pad
    <3>1. \A i \in 1..c : i \in 1..m \/ i \in m + 1..c
      OBVIOUS
    <3>2. 0..Sextet - 1 \subseteq 0..Pad /\ Pad \in 0..Pad
      BY <2>1 DEF Pad
    <3> QED BY <1>4, <1>5, <3>1, <3>2
  <2>3. t = [i \in 1..c |-> t[i]]
    BY <1>3
  <2> QED BY <2>2, <2>3, Tabled
<1> QED BY <1>2, <1>4, <1>5, <1>6

\* d is the digits of s in base64, without padding.
DigitsOf(d, s) ==
  /\ Len(d) = Digits(Len(s))
  /\ \A i \in 1..Digits(Len(s)) : d[i] = DigitOf(BytesOf(s, (i - 1) \div 4), (i - 1) % 4)

\* The digits of a group make its number again, also where the last of them are missing.
LEMMA GroupDecoded ==
  ASSUME NEW s \in Octets, NEW d, DigitsOf(d, s), NEW g \in Nat, 3 * g + 1 <= Len(s)
  PROVE  DigitsAt(d, g) = BytesOf(s, g)
<1>1. PICK n, m \in Nat : n = Len(s) /\ m = Digits(n) /\ m = Len(d)
  <2>1. Len(s) \in Nat
    BY LenProperties DEF Octets
  <2> QED BY <2>1, Lengths DEF DigitsOf
<1>2. ASSUME NEW k \in 0..3  PROVE At(d, 4 * g + k + 1) = DigitOf(BytesOf(s, g), k)
  <2>1. CASE 4 * g + k + 1 <= m
    <3>1. PICK i \in 1..m : i = 4 * g + k + 1
      BY <2>1
    <3>2. (i - 1) \div 4 = g /\ (i - 1) % 4 = k
      <4>1. PICK j \in Int : j = i - 1 /\ j = 4 * g + k
        BY <3>1
      <4>2. j \div 4 = g /\ j % 4 = k
        BY <4>1
      <4> QED BY <4>1, <4>2
    <3>3. d[i] = DigitOf(BytesOf(s, g), k)
      BY <1>1, <3>1, <3>2 DEF DigitsOf
    <3>4. At(d, i) = d[i]
      BY <1>1 DEF At
    <3> QED BY <3>1, <3>3, <3>4
  <2>2. CASE ~(4 * g + k + 1 <= m)
    <3>1. At(d, 4 * g + k + 1) = 0
      BY <1>1, <2>2 DEF At
    <3>2. (n = 3 * g + 1 /\ k \in {2, 3}) \/ (n = 3 * g + 2 /\ k = 3)
      <4>1. 3 * g + 1 <= n /\ 4 * g + k + 1 > Digits(n)
        BY <1>1, <2>2
      <4> QED BY <4>1, NoDigit
    <3>3. PICK a, b \in 0..Byte - 1 : a = At(s, 3 * g + 1) /\ b = At(s, 3 * g + 2)
      BY GroupIs
    <3>4. CASE n = 3 * g + 1 /\ k \in {2, 3}
      <4>1. At(s, 3 * g + 2) = 0 /\ At(s, 3 * g + 3) = 0
        BY <1>1, <3>4 DEF At
      <4>2. BytesOf(s, g) = Triple(a, 0, 0)
        BY <3>3, <4>1 DEF BytesOf
      <4> QED BY <3>1, <3>4, <4>2, MissingDigits
    <3>5. CASE n = 3 * g + 2 /\ k = 3
      <4>1. At(s, 3 * g + 3) = 0
        BY <1>1, <3>5 DEF At
      <4>2. BytesOf(s, g) = Triple(a, b, 0)
        BY <3>3, <4>1 DEF BytesOf
      <4> QED BY <3>1, <3>5, <4>2, MissingDigits
    <3> QED BY <3>2, <3>4, <3>5
  <2> QED BY <2>1, <2>2
<1>3. /\ At(d, 4 * g + 1) = DigitOf(BytesOf(s, g), 0) /\ At(d, 4 * g + 2) = DigitOf(BytesOf(s, g), 1)
      /\ At(d, 4 * g + 3) = DigitOf(BytesOf(s, g), 2) /\ At(d, 4 * g + 4) = DigitOf(BytesOf(s, g), 3)
  <2>1. 4 * g + 0 + 1 = 4 * g + 1 /\ 4 * g + 1 + 1 = 4 * g + 2 /\ 4 * g + 2 + 1 = 4 * g + 3
        /\ 4 * g + 3 + 1 = 4 * g + 4
    OBVIOUS
  <2>2. /\ At(d, 4 * g + 0 + 1) = DigitOf(BytesOf(s, g), 0)
        /\ At(d, 4 * g + 1 + 1) = DigitOf(BytesOf(s, g), 1)
        /\ At(d, 4 * g + 2 + 1) = DigitOf(BytesOf(s, g), 2)
        /\ At(d, 4 * g + 3 + 1) = DigitOf(BytesOf(s, g), 3)
    BY <1>2
  <2> QED BY <2>1, <2>2
<1> QED BY <1>3, GroupIs DEF DigitsAt

\* Base64 is taken back into the bytes it was made of.
LEMMA Base64RoundTrip ==
  ASSUME NEW s \in Octets
  PROVE  Atob(Btoa(s)) = <<s>>
<1>1. PICK n, m, c \in Nat : n = Len(s) /\ m = Digits(n) /\ c = 4 * ((n + 2) \div 3)
  <2>1. Len(s) \in Nat
    BY LenProperties DEF Octets
  <2> QED BY <2>1, Lengths
<1>2. m <= c /\ c <= m + 2
  BY <1>1, Lengths
<1>3. c % 4 = 0 /\ (3 * m) \div 4 = n
  BY <1>1, Lengths
<1>4. PICK t \in Seq(0..Pad) : t = Btoa(s) /\ Len(t) = c /\ DOMAIN t = 1..c
  BY <1>1, BtoaIs
<1>13. \A i \in 1..m : /\ Btoa(s)[i] = DigitOf(BytesOf(s, (i - 1) \div 4), (i - 1) % 4)
                        /\ Btoa(s)[i] \in 0..Sextet - 1
  BY <1>1, BtoaIs
<1>14. \A i \in 1..m : t[i] = DigitOf(BytesOf(s, (i - 1) \div 4), (i - 1) % 4)
  BY <1>4, <1>13
<1>15. \A i \in 1..m : t[i] \in 0..Sextet - 1
  BY <1>4, <1>13
<1>16. \A i \in m + 1..c : t[i] = Pad
  BY <1>1, <1>4, BtoaIs
<1>17. Cardinality({i \in DOMAIN t : t[i] = Pad}) = c - m
  <2>1. \A i \in 1..m : t[i] # Pad
    <3>1. Pad \notin 0..Sextet - 1
      BY Bases DEF Pad
    <3> QED BY <1>15, <3>1
  <2>2. {i \in DOMAIN t : t[i] = Pad} = m + 1..c
    <3>1. \A i \in 1..c : i \in 1..m \/ i \in m + 1..c
      OBVIOUS
    <3>2. m + 1..c \subseteq 1..c
      OBVIOUS
    <3> QED BY <1>4, <1>16, <2>1, <3>1, <3>2
  <2>3. PICK a \in Int : a = m + 1
    OBVIOUS
  <2>4. Cardinality(a..c) = IF a > c THEN 0 ELSE c - a + 1
    BY FS_Interval
  <2>5. Cardinality(a..c) = c - m
    BY <1>2, <2>3, <2>4
  <2> QED BY <2>2, <2>3, <2>5
<1>5. PICK d \in Seq(0..Pad) : d = SubSeq(t, 1, m) /\ Len(d) = m /\ \A i \in 1..m : d[i] = t[i]
  <2>1. \A i \in 1..m : i \in 1..Len(t)
    BY <1>2, <1>4
  <2>2. \A i \in 1..m : t[i] \in 0..Pad
    BY <2>1, ElementOfSeq
  <2>3. /\ SubSeq(t, 1, m) \in Seq(0..Pad) /\ Len(SubSeq(t, 1, m)) = m
        /\ \A i \in 1..m : SubSeq(t, 1, m)[i] = t[i]
    BY <2>2, SubSeqProperties
  <2> QED BY <2>3
<1>6. DOMAIN d = 1..m
  BY <1>5, LenProperties
<1>7. \A i \in 1..n : ByteOf(DigitsAt(d, (i - 1) \div 3), (i - 1) % 3) = s[i]
  <2> TAKE i \in 1..n
  <2>1. PICK g \in Nat, k \in 0..2 :
          g = (i - 1) \div 3 /\ k = (i - 1) % 3 /\ i = 3 * g + k + 1 /\ 3 * g + 1 <= n
    <3>1. PICK g \in Nat : g = (i - 1) \div 3
      OBVIOUS
    <3>2. PICK k \in 0..2 : k = (i - 1) % 3
      OBVIOUS
    <3>3. i = 3 * g + k + 1
      BY <3>1, <3>2
    <3> QED BY <3>1, <3>2, <3>3
  <2>2. DigitsAt(d, g) = BytesOf(s, g)
    <3>1. DigitsOf(d, s)
      BY <1>1, <1>5, <1>14 DEF DigitsOf
    <3> QED BY <1>1, <2>1, <3>1, GroupDecoded
  <2>3. At(s, 3 * g + k + 1) = s[i]
    BY <1>1, <2>1 DEF At
  <2>4. ByteOf(BytesOf(s, g), k) = At(s, 3 * g + k + 1)
    <3>1. k = 0 \/ k = 1 \/ k = 2
      OBVIOUS
    <3>2. 3 * g + 0 + 1 = 3 * g + 1 /\ 3 * g + 1 + 1 = 3 * g + 2 /\ 3 * g + 2 + 1 = 3 * g + 3
      OBVIOUS
    <3> QED BY <3>1, <3>2, GroupIs
  <2> QED BY <2>1, <2>2, <2>3, <2>4
<1>8. s = [i \in 1..n |-> s[i]]
  BY <1>1, LenProperties DEF Octets
<1>9. [i \in 1..(3 * m) \div 4 |-> ByteOf(DigitsAt(d, (i - 1) \div 3), (i - 1) % 3)] = s
  BY <1>3, <1>7, <1>8
<1>10. c - (c - m) = m
  OBVIOUS
<1>11. ~(\/ \E i \in DOMAIN d : d[i] \notin 0..Sextet - 1
         \/ c % 4 = 1
         \/ c - m # 0 /\ (c % 4 # 0 \/ c - m > 2))
  <2>1. \A i \in DOMAIN d : d[i] \in 0..Sextet - 1
    BY <1>5, <1>6, <1>15
  <2> QED BY <1>2, <1>3, <2>1
<1>12. Atob(t) = <<[i \in 1..(3 * Len(d)) \div 4 |->
                     ByteOf(DigitsAt(d, (i - 1) \div 3), (i - 1) % 3)]>>
  BY <1>4, <1>5, <1>10, <1>11, <1>17 DEF Atob
<1> QED BY <1>4, <1>5, <1>9, <1>12

LEMMA UrlIs ==
  /\ Url(Pad) = Pad /\ Pad \in 0..Pad
  /\ \A x \in 0..Sextet - 1 : Url(x) \in 0..Pad /\ Url(x) # Pad /\ Std(Url(x)) = x /\ x \in 0..Pad
<1>1. Sextet \in Nat /\ Sextet > 7
  BY Bases
<1>2. Url(Pad) = Pad /\ Pad \in 0..Pad
  BY <1>1 DEF Url, Pad
<1>3. ASSUME NEW x \in 0..Sextet - 1
      PROVE  Url(x) \in 0..Pad /\ Url(x) # Pad /\ Std(Url(x)) = x /\ x \in 0..Pad
  <2>1. CASE x = Sextet - 2
    <3>1. Url(x) = Sextet
      BY <1>1, <2>1 DEF Url, Minus
    <3>2. Std(Sextet) = Sextet - 2
      BY <1>1 DEF Std, Minus, Underscore
    <3> QED BY <1>1, <2>1, <3>1, <3>2 DEF Pad
  <2>2. CASE x = Sextet - 1
    <3>1. Url(x) = Sextet + 1
      BY <1>1, <2>2 DEF Url, Underscore
    <3>2. Std(Sextet + 1) = Sextet - 1
      BY <1>1 DEF Std, Minus, Underscore
    <3> QED BY <1>1, <2>2, <3>1, <3>2 DEF Pad
  <2>3. CASE x # Sextet - 2 /\ x # Sextet - 1
    <3>1. Url(x) = x
      BY <1>1, <2>3 DEF Url
    <3>2. Std(x) = x
      BY <1>1 DEF Std, Minus, Underscore
    <3> QED BY <1>1, <3>1, <3>2 DEF Pad
  <2> QED BY <2>1, <2>2, <2>3
<1> QED BY <1>2, <1>3

\* The padding that completes the last group.
LEMMA PaddingIs ==
  ASSUME NEW m \in Nat, NEW c \in Nat,
         c = m + (IF m % 4 = 0 THEN 0 ELSE 4 - (m % 4))
  PROVE  /\ Padding(m) \in Seq(0..Pad) /\ Len(Padding(m)) = c - m
         /\ \A i \in 1..c - m : Padding(m)[i] = Pad
<1>1. Pad \in 0..Pad
  BY UrlIs
<1>2. CASE m % 4 = 0
  <2>1. Padding(m) = <<>> /\ c - m = 0
    BY <1>2 DEF Padding
  <2> QED BY <2>1, EmptySeq
<1>3. CASE m % 4 # 0
  <2>1. PICK k \in Nat : k = 4 - (m % 4) /\ k = c - m
    BY <1>3
  <2>2. PICK p : p = [i \in 1..k |-> Pad]
    OBVIOUS
  <2>3. Padding(m) = p
    BY <1>3, <2>1, <2>2 DEF Padding
  <2>4. p = [i \in 1..k |-> p[i]] /\ \A i \in 1..k : p[i] \in 0..Pad /\ p[i] = Pad
    BY <1>1, <2>2
  <2>5. p \in Seq(0..Pad) /\ Len(p) = k
    BY <2>4, Tabled
  <2> QED BY <2>1, <2>3, <2>4, <2>5
<1> QED BY <1>2, <1>3

\* A string for a URL is taken back into the bytes it was made of.
LEMMA UrlRoundTrip ==
  ASSUME NEW s \in Octets
  PROVE  ToBase64Url(s) \in Seq(0..Pad) /\ FromBase64Url(ToBase64Url(s)) = <<s>>
<1>1. PICK n, m, c \in Nat : n = Len(s) /\ m = Digits(n) /\ c = 4 * ((n + 2) \div 3)
  <2>1. Len(s) \in Nat
    BY LenProperties DEF Octets
  <2> QED BY <2>1, Lengths
<1>2. m <= c /\ c = m + (IF m % 4 = 0 THEN 0 ELSE 4 - (m % 4))
  BY <1>1, Lengths
<1>3. PICK t \in Seq(0..Pad) : t = Btoa(s) /\ Len(t) = c /\ DOMAIN t = 1..c
  BY <1>1, BtoaIs
<1>4. \A i \in 1..m : t[i] \in 0..Sextet - 1
  BY <1>1, <1>3, BtoaIs
<1>5. \A i \in m + 1..c : t[i] = Pad
  BY <1>1, <1>3, BtoaIs
<1>6. \A i \in 1..c : i \in 1..m \/ i \in m + 1..c
  OBVIOUS
<1>7. PICK u : u = [i \in DOMAIN t |-> Url(t[i])]
  OBVIOUS
<1>8. /\ \A i \in 1..m : u[i] = Url(t[i]) /\ u[i] \in 0..Pad /\ u[i] # Pad /\ Std(u[i]) = t[i]
      /\ \A i \in m + 1..c : u[i] = Pad
  <2>1. 1..m \subseteq 1..c /\ m + 1..c \subseteq 1..c
    BY <1>2
  <2>2. \A i \in 1..c : u[i] = Url(t[i])
    BY <1>3, <1>7
  <2> QED BY <1>4, <1>5, <2>1, <2>2, UrlIs
<1>9. u \in Seq(0..Pad) /\ Len(u) = c /\ DOMAIN u = 1..c
  <2>1. \A i \in 1..c : u[i] \in 0..Pad
    BY <1>6, <1>8, UrlIs
  <2>2. u = [i \in 1..c |-> u[i]]
    BY <1>3, <1>7
  <2> QED BY <2>1, <2>2, Tabled
<1>10. Cardinality({i \in DOMAIN u : \A j \in i..Len(u) : u[j] = Pad}) = c - m
  <2>1. {i \in DOMAIN u : \A j \in i..Len(u) : u[j] = Pad} = m + 1..c
    <3>1. ASSUME NEW i \in 1..c
          PROVE  (\A j \in i..c : u[j] = Pad) <=> i \in m + 1..c
      <4>1. CASE i \in 1..m
        <5>1. i \in i..c /\ u[i] # Pad /\ i \notin m + 1..c
          BY <1>8, <4>1
        <5> QED BY <5>1
      <4>2. CASE i \in m + 1..c
        <5>1. \A j \in i..c : j \in m + 1..c
          BY <4>2
        <5> QED BY <1>8, <4>2, <5>1
      <4> QED BY <1>6, <4>1, <4>2
    <3>2. m + 1..c \subseteq 1..c
      OBVIOUS
    <3> QED BY <1>9, <3>1, <3>2
  <2>2. PICK a \in Int : a = m + 1
    OBVIOUS
  <2>3. Cardinality(a..c) = IF a > c THEN 0 ELSE c - a + 1
    BY FS_Interval
  <2>4. Cardinality(a..c) = c - m
    BY <1>2, <2>2, <2>3
  <2> QED BY <2>1, <2>2, <2>4
<1>11. PICK v \in Seq(0..Pad) : v = SubSeq(u, 1, m) /\ Len(v) = m /\ \A i \in 1..m : v[i] = u[i]
  <2>1. /\ SubSeq(u, 1, m) \in Seq(0..Pad) /\ Len(SubSeq(u, 1, m)) = m
        /\ \A i \in 1..m : SubSeq(u, 1, m)[i] = u[i]
    BY <1>8, SubSeqProperties
  <2> QED BY <2>1
<1>12. ToBase64Url(s) = v
  <2>1. Trimmed(u) = v
    <3>1. c - (c - m) = m
      OBVIOUS
    <3> QED BY <1>9, <1>10, <1>11, <3>1 DEF Trimmed
  <2> QED BY <1>3, <1>7, <2>1 DEF ToBase64Url
<1>13. PICK w : w = [i \in DOMAIN v |-> Std(v[i])]
  OBVIOUS
<1>14. w \in Seq(0..Pad) /\ Len(w) = m /\ \A i \in 1..m : w[i] = t[i]
  <2>1. DOMAIN v = 1..m
    BY <1>11, LenProperties
  <2>2. \A i \in 1..m : w[i] = t[i]
    BY <1>8, <1>11, <1>13, <2>1
  <2>3. \A i \in 1..m : w[i] \in 0..Pad
    BY <1>4, <2>2, UrlIs
  <2>4. w = [i \in 1..m |-> w[i]]
    BY <1>13, <2>1
  <2> QED BY <2>2, <2>3, <2>4, Tabled
<1>15. PICK p \in Seq(0..Pad) : p = Padding(m) /\ Len(p) = c - m /\ \A i \in 1..c - m : p[i] = Pad
  BY <1>2, PaddingIs
<1>16. w \o p = t
  <2>1. PICK x \in Seq(0..Pad) : x = w
    BY <1>14
  <2>2. /\ x \o p \in Seq(0..Pad) /\ Len(x \o p) = Len(x) + Len(p)
        /\ \A i \in 1..Len(x) + Len(p) : (x \o p)[i] = IF i <= Len(x) THEN x[i] ELSE p[i - Len(x)]
    BY ConcatProperties
  <2>3. Len(x) = m /\ Len(x) + Len(p) = c
    <3>1. Len(x) = m
      BY <1>14, <2>1
    <3>2. Len(p) = c - m
      BY <1>15
    <3>3. m + (c - m) = c
      OBVIOUS
    <3> QED BY <3>1, <3>2, <3>3
  <2>4. \A i \in 1..c : (x \o p)[i] = t[i]
    <3> TAKE i \in 1..c
    <3>1. CASE i \in 1..m
      BY <1>14, <2>1, <2>2, <2>3, <3>1
    <3>2. CASE i \in m + 1..c
      <4>1. i - m \in 1..c - m /\ ~(i <= m)
        BY <3>2
      <4>2. (x \o p)[i] = p[i - m]
        BY <2>2, <2>3, <4>1
      <4> QED BY <1>5, <1>15, <3>2, <4>1, <4>2
    <3> QED BY <1>6, <3>1, <3>2
  <2>5. x \o p = t
    BY <1>3, <2>2, <2>3, <2>4, SeqEqual
  <2> QED BY <2>1, <2>5
<1>17. FromBase64Url(v) = Atob(t)
  BY <1>11, <1>13, <1>15, <1>16 DEF FromBase64Url
<1> QED BY <1>3, <1>11, <1>12, <1>17, Base64RoundTrip

-----------------------------------------------------------------------------
(* The pieces of a file, put together again.                               *)

PutBehind(a, b) == a \o b

J == INSTANCE Replay WITH Updates <- Octets, Apply <- PutBehind

\* The end of piece k.
EndOf(s, k) == IF k * SpreadMax < Len(s) THEN k * SpreadMax ELSE Len(s)

Pieces(s) == [k \in 1..(Len(s) + SpreadMax - 1) \div SpreadMax |-> Piece(s, k)]

\* Every piece begins within the string, and the last one ends with it.
LEMMA PieceBounds ==
  ASSUME NEW s \in Octets, NEW c, c = (Len(s) + SpreadMax - 1) \div SpreadMax
  PROVE  /\ c \in Nat /\ EndOf(s, 0) = 0 /\ EndOf(s, c) = Len(s)
         /\ \A k \in 1..c : /\ EndOf(s, k - 1) = (k - 1) * SpreadMax
                            /\ EndOf(s, k - 1) \in 0..Len(s) /\ EndOf(s, k) \in EndOf(s, k - 1)..Len(s)
<1>1. PICK n, m \in Nat : n = Len(s) /\ m = SpreadMax /\ m > 0
  BY CodecAssumption, LenProperties DEF Octets
<1>2. n + m - 1 \in Nat
  BY <1>1
<1>3. PICK q \in Nat, r \in 0..m - 1 : q = (n + m - 1) \div m /\ n + m - 1 = q * m + r
  <2>1. PICK x \in Nat : x = n + m - 1
    BY <1>2
  <2>2. PICK q \in Nat, r \in 0..m - 1 : q = x \div m /\ x = q * m + r
    BY <1>1, Divide
  <2> QED BY <2>1, <2>2
<1>4. c = q
  BY <1>1, <1>3
<1>5. EndOf(s, 0) = 0
  <2>1. 0 * m = 0
    BY SMT
  <2> QED BY <1>1, <2>1 DEF EndOf
<1>6. EndOf(s, q) = n
  <2>1. PICK p \in Nat : p = q * m
    BY SMT
  <2>2. ~(p < n)
    BY <1>3, <2>1
  <2> QED BY <1>1, <2>1, <2>2 DEF EndOf
<1>7. ASSUME NEW k \in 1..q
      PROVE  /\ EndOf(s, k - 1) = (k - 1) * m
             /\ EndOf(s, k - 1) \in 0..n /\ EndOf(s, k) \in EndOf(s, k - 1)..n
  <2>1. PICK a, b, p \in Nat : a = (k - 1) * m /\ b = k * m /\ p = q * m /\ b = a + m
    <3>1. (k - 1) * m \in Nat /\ k * m \in Nat /\ q * m \in Nat /\ k * m = (k - 1) * m + m
      BY SMT
    <3> QED BY <3>1
  <2>2. b <= p
    BY <2>1, SMT
  <2>3. a < n
    BY <1>3, <2>1, <2>2
  <2>4. EndOf(s, k - 1) = a /\ EndOf(s, k) = IF b < n THEN b ELSE n
    BY <1>1, <2>1, <2>3 DEF EndOf
  <2> QED BY <2>1, <2>3, <2>4
<1> QED BY <1>1, <1>4, <1>5, <1>6, <1>7

LEMMA PiecesJoin ==
  ASSUME NEW s \in Octets
  PROVE  Spliced(Pieces(s)) = s
<1>1. PICK c \in Nat : c = (Len(s) + SpreadMax - 1) \div SpreadMax
  BY PieceBounds
<1>2. PICK ps : ps = Pieces(s)
  OBVIOUS
<1>3. Len(ps) = c /\ \A k \in 1..c : ps[k] = Piece(s, k)
  <2>1. ps = [k \in 1..c |-> Piece(s, k)]
    BY <1>1, <1>2 DEF Pieces
  <2> QED BY <2>1
<1>4. PICK f : f = J!Steps(<<>>, ps, c)
  OBVIOUS
<1>5. Spliced(ps) = f[c]
  BY <1>3, <1>4 DEF Spliced, J!Steps, PutBehind
<1>6. f[0] = <<>> /\ \A k \in 1..c : f[k] = f[k - 1] \o ps[k]
  <2>1. /\ J!Steps(<<>>, ps, c)[0] = <<>>
        /\ \A k \in 1..c : J!Steps(<<>>, ps, c)[k] = PutBehind(J!Steps(<<>>, ps, c)[k - 1], ps[k])
    BY J!StepsDef
  <2> QED BY <1>4, <2>1 DEF PutBehind
<1> DEFINE T == {k \in 0..c : f[k] = SubSeq(s, 1, EndOf(s, k))}
<1>7. 0 \in T
  <2>1. SubSeq(s, 1, 0) = <<>>
    BY SubSeqEmpty
  <2>2. EndOf(s, 0) = 0
    BY <1>1, PieceBounds
  <2>3. f[0] = SubSeq(s, 1, EndOf(s, 0))
    BY <1>6, <2>1, <2>2
  <2>4. 0 \in 0..c
    OBVIOUS
  <2> QED BY <2>3, <2>4
<1>8. ASSUME NEW k \in 1..c, k - 1 \in T  PROVE k \in T
  <2>1. PICK a, b \in Nat :
          /\ a = EndOf(s, k - 1) /\ b = EndOf(s, k) /\ a = (k - 1) * SpreadMax
          /\ a \in 0..Len(s) /\ b \in a..Len(s)
    <3>1. /\ EndOf(s, k - 1) = (k - 1) * SpreadMax
          /\ EndOf(s, k - 1) \in 0..Len(s) /\ EndOf(s, k) \in EndOf(s, k - 1)..Len(s)
      BY <1>1, PieceBounds
    <3>2. Len(s) \in Nat
      BY LenProperties DEF Octets
    <3> QED BY <3>1, <3>2
  <2>2. f[k - 1] = SubSeq(s, 1, a)
    BY <1>8, <2>1
  <2>3. ps[k] = SubSeq(s, a + 1, b)
    BY <1>3, <2>1 DEF Piece, EndOf
  <2>4. SubSeq(s, 1, a) \o SubSeq(s, a + 1, b) = SubSeq(s, 1, b)
    <3>1. PICK o : o = 1 /\ o \in 1..Len(s) + 1 /\ a \in o - 1..Len(s)
      BY <2>1, LenProperties DEF Octets
    <3>2. SubSeq(s, o, a) \o SubSeq(s, a + 1, b) = SubSeq(s, o, b)
      BY <2>1, <3>1, ConcatAdjacentSubSeq DEF Octets
    <3> QED BY <3>1, <3>2
  <2>5. f[k] = f[k - 1] \o ps[k]
    BY <1>6
  <2>6. f[k] = SubSeq(s, 1, EndOf(s, k))
    BY <2>1, <2>2, <2>3, <2>4, <2>5
  <2> QED BY <2>6
<1> HIDE DEF T
<1>9. c \in T
  <2>1. 0..c \subseteq T
    BY <1>7, <1>8, J!UpTo
  <2> QED BY <2>1
<1>10. f[c] = s
  <2>1. f[c] = SubSeq(s, 1, EndOf(s, c))
    BY <1>9 DEF T
  <2> QED BY <1>1, <2>1, PieceBounds, SubSeqFull DEF Octets
<1> QED BY <1>2, <1>5, <1>10

\* A file arrives in the main process as it was received.
LEMMA FileRoundTrip ==
  ASSUME NEW s \in Octets
  PROVE  /\ Uint8ToBase64(s) = Btoa(s) /\ Atob(Uint8ToBase64(s)) = <<s>>
<1>1. Uint8ToBase64(s) = Btoa(Spliced(Pieces(s)))
  BY DEF Uint8ToBase64, Pieces
<1> QED BY <1>1, PiecesJoin, Base64RoundTrip

(***************************************************************************)
(* The short authentication string                                         *)
(***************************************************************************)

\* The emoji of three bytes, and the bytes they are read back as.
Emoji(x, y, z) ==
  <<x \div D, (x % D) * Hex + (y \div Hex), (y % Hex) * D + (z \div Sextet), z % Sextet>>

BytesFrom(e) ==
  <<e[1] * D + (e[2] \div Hex), (e[2] % Hex) * Hex + (e[3] \div D), (e[3] % D) * Sextet + e[4]>>

LEMMA EmojiTell ==
  ASSUME NEW x \in 0..Byte - 1, NEW y \in 0..Byte - 1, NEW z \in 0..Byte - 1
  PROVE  BytesFrom(Emoji(x, y, z)) = <<x, y, z>>
<1>1. PICK b, h, t \in Nat : /\ b = D /\ h = Hex /\ t = Sextet /\ b > 0 /\ h > 0 /\ t > 0
                             /\ Byte = h * h /\ Byte = b * t
  BY Bases
<1>2. PICK p \in Nat, q \in 0..b - 1 : p = x \div b /\ q = x % b /\ x = p * b + q
  <2>1. x \in Nat
    OBVIOUS
  <2> QED BY <1>1, <2>1, Divide
<1>3. PICK r \in Nat, s \in 0..h - 1 : r = y \div h /\ s = y % h /\ y = r * h + s
  <2>1. y \in Nat
    OBVIOUS
  <2> QED BY <1>1, <2>1, Divide
<1>4. PICK u \in Nat, v \in 0..t - 1 : u = z \div t /\ v = z % t /\ z = u * t + v
  <2>1. z \in Nat
    OBVIOUS
  <2> QED BY <1>1, <2>1, Divide
<1>5. r \in 0..h - 1
  <2>1. PICK n \in Nat : n = y /\ n < h * h
    <3>1. h * h \in Nat
      BY SMT
    <3> QED BY <1>1, <3>1
  <2>2. n \div h < h
    BY <1>1, <2>1, DivBelow
  <2> QED BY <1>3, <2>1, <2>2
<1>6. u \in 0..b - 1
  <2>1. PICK n \in Nat : n = z /\ n < b * t
    <3>1. b * t \in Nat
      BY SMT
    <3> QED BY <1>1, <3>1
  <2>2. n \div t < b
    BY <1>1, <2>1, DivBelow
  <2> QED BY <1>4, <2>1, <2>2
<1>7. (q * h + r) \div h = q /\ (q * h + r) % h = r
  BY <1>1, <1>5, DivMod
<1>8. (s * b + u) \div b = s /\ (s * b + u) % b = u
  BY <1>1, <1>6, DivMod
<1>9. PICK e : e = <<p, q * h + r, s * b + u, v>>
  OBVIOUS
<1>10. Emoji(x, y, z) = e
  BY <1>1, <1>2, <1>3, <1>4, <1>9 DEF Emoji
<1>11. /\ e[1] * D + (e[2] \div Hex) = x
       /\ (e[2] % Hex) * Hex + (e[3] \div D) = y
       /\ (e[3] % D) * Sextet + e[4] = z
  <2>1. e[1] = p /\ e[2] = q * h + r /\ e[3] = s * b + u /\ e[4] = v
    BY <1>9
  <2>2. e[2] \div Hex = q /\ e[2] % Hex = r /\ e[3] \div D = s /\ e[3] % D = u
    BY <1>1, <1>7, <1>8, <2>1
  <2> QED BY <1>1, <1>2, <1>3, <1>4, <2>1, <2>2
<1> QED BY <1>10, <1>11 DEF BytesFrom

LEMMA SortedTells ==
  ASSUME NEW a \in Keys, NEW b \in Keys, NEW c \in Keys, NEW d \in Keys
  PROVE  /\ Sorted(a, b)[1] \in Keys /\ Sorted(a, b)[2] \in Keys
         /\ (a = c /\ b = d) \/ (a = d /\ b = c) => Sorted(a, b) = Sorted(c, d)
         /\ Sorted(a, b)[1] = Sorted(c, d)[1] /\ Sorted(a, b)[2] = Sorted(c, d)[2]
              => (a = c /\ b = d) \/ (a = d /\ b = c)
<1>1. a \in Nat /\ b \in Nat /\ c \in Nat /\ d \in Nat
  BY CodecAssumption
<1>2. Sorted(a, b)[1] \in Keys /\ Sorted(a, b)[2] \in Keys
  BY DEF Sorted
<1>3. ASSUME (a = c /\ b = d) \/ (a = d /\ b = c)  PROVE Sorted(a, b) = Sorted(c, d)
  <2>2. CASE a = c /\ b = d
    BY <2>2
  <2>3. CASE a = d /\ b = c
    <3>1. CASE a < b
      BY <1>1, <2>3, <3>1 DEF Sorted
    <3>2. CASE b < a
      BY <1>1, <2>3, <3>2 DEF Sorted
    <3>3. CASE a = b
      BY <2>3, <3>3
    <3> QED BY <1>1, <3>1, <3>2, <3>3
  <2> QED BY <1>3, <2>2, <2>3
<1>4. ASSUME Sorted(a, b)[1] = Sorted(c, d)[1], Sorted(a, b)[2] = Sorted(c, d)[2]
      PROVE  (a = c /\ b = d) \/ (a = d /\ b = c)
  <2>1. \/ Sorted(a, b)[1] = a /\ Sorted(a, b)[2] = b
        \/ Sorted(a, b)[1] = b /\ Sorted(a, b)[2] = a
    BY DEF Sorted
  <2>2. \/ Sorted(c, d)[1] = c /\ Sorted(c, d)[2] = d
        \/ Sorted(c, d)[1] = d /\ Sorted(c, d)[2] = c
    BY DEF Sorted
  <2> QED BY <1>4, <2>1, <2>2
<1> QED BY <1>2, <1>3, <1>4

LEMMA DigestsTell ==
  ASSUME NEW p \in Keys, NEW q \in Keys, NEW r \in Keys, NEW s \in Keys,
         \A i \in 1..3 : Sha256(p, q)[i] = Sha256(r, s)[i]
  PROVE  p = r /\ q = s
<1>1. SameStart(Sha256(p, q), Sha256(r, s))
  BY DEF SameStart
<1> QED BY <1>1, DigestsDiffer

SameKeys(a, b, c, d) == {a, b} = {c, d}

\* Two ends derive the same SAS exactly if they have seen the same two keys.
LEMMA SasTellsKeys ==
  ASSUME NEW a \in Keys, NEW b \in Keys, NEW c \in Keys, NEW d \in Keys
  PROVE  DeriveSAS(a, b) = DeriveSAS(c, d) <=> SameKeys(a, b, c, d)
<1>1. ASSUME {a, b} = {c, d}  PROVE DeriveSAS(a, b) = DeriveSAS(c, d)
  <2>1. (a = c /\ b = d) \/ (a = d /\ b = c)
    BY <1>1
  <2>2. Sorted(a, b) = Sorted(c, d)
    BY <2>1, SortedTells
  <2> QED BY <2>2 DEF DeriveSAS
<1>2. ASSUME DeriveSAS(a, b) = DeriveSAS(c, d)  PROVE {a, b} = {c, d}
  <2>1. PICK p, q, r, s \in Keys :
          /\ p = Sorted(a, b)[1] /\ q = Sorted(a, b)[2]
          /\ r = Sorted(c, d)[1] /\ s = Sorted(c, d)[2]
    BY SortedTells
  <2>2. PICK x : x = Sha256(p, q)
    OBVIOUS
  <2>3. PICK y : y = Sha256(r, s)
    OBVIOUS
  <2>4. /\ DeriveSAS(a, b).emoji = Emoji(x[1], x[2], x[3])
        /\ DeriveSAS(c, d).emoji = Emoji(y[1], y[2], y[3])
    BY <2>1, <2>2, <2>3 DEF DeriveSAS, Emoji
  <2>5. Emoji(x[1], x[2], x[3]) = Emoji(y[1], y[2], y[3])
    BY <1>2, <2>4
  <2>6. \A i \in 1..3 : x[i] \in 0..Byte - 1 /\ y[i] \in 0..Byte - 1
    <3>1. x \in Octets /\ Len(x) >= 6 /\ y \in Octets /\ Len(y) >= 6
      BY <2>2, <2>3, DigestsDiffer
    <3>2. \A i \in 1..3 : i \in 1..Len(x) /\ i \in 1..Len(y)
      BY <3>1, LenProperties DEF Octets
    <3> QED BY <3>1, <3>2, ElementOfSeq DEF Octets
  <2>7. /\ x[1] \in 0..Byte - 1 /\ x[2] \in 0..Byte - 1 /\ x[3] \in 0..Byte - 1
        /\ y[1] \in 0..Byte - 1 /\ y[2] \in 0..Byte - 1 /\ y[3] \in 0..Byte - 1
    BY <2>6
  <2>8. <<x[1], x[2], x[3]>> = <<y[1], y[2], y[3]>>
    <3>1. /\ BytesFrom(Emoji(x[1], x[2], x[3])) = <<x[1], x[2], x[3]>>
          /\ BytesFrom(Emoji(y[1], y[2], y[3])) = <<y[1], y[2], y[3]>>
      BY <2>7, EmojiTell
    <3> QED BY <2>5, <3>1
  <2>9. \A i \in 1..3 : x[i] = y[i]
    <3>1. x[1] = y[1] /\ x[2] = y[2] /\ x[3] = y[3]
      BY <2>8
    <3> QED BY <3>1
  <2>10. p = r /\ q = s
    <3>1. \A i \in 1..3 : Sha256(p, q)[i] = Sha256(r, s)[i]
      BY <2>2, <2>3, <2>9
    <3> QED BY <3>1, DigestsTell
  <2>11. (a = c /\ b = d) \/ (a = d /\ b = c)
    <3>1. Sorted(a, b)[1] = Sorted(c, d)[1] /\ Sorted(a, b)[2] = Sorted(c, d)[2]
      BY <2>1, <2>10
    <3> QED BY <3>1, SortedTells
  <2> QED BY <2>11
<1> QED BY <1>1, <1>2 DEF SameKeys

(***************************************************************************)
(* One thing put on a wire and taken off it                                *)
(***************************************************************************)

LEMMA FrameArrives ==
  ASSUME NEW k \in Keys, NEW l \in Keys, NEW n \in Nonces, NEW f \in Frames
  PROVE  /\ SealBytes(k, n, EncodeChunkFrame(f)) \in Octets
         /\ OpenFrame(l, SealBytes(k, n, EncodeChunkFrame(f))) = IF k = l THEN <<f>> ELSE <<>>
<1>1. PICK p : p = EncodeChunkFrame(f) /\ p \in Texts \cup {EncodeChunkFrame(g) : g \in Frames}
  OBVIOUS
<1>2. PICK s \in Octets : s = SealBytes(k, n, p) /\ OpenBytes(l, s) = IF k = l THEN <<p>> ELSE <<>>
  BY <1>1, SealRoundTrip
<1>3. DecodeChunkFrame(p) = <<f>>
  BY <1>1, FrameRoundTrip
<1>4. OpenFrame(l, s) = IF k = l THEN <<f>> ELSE <<>>
  <2>1. CASE k = l
    <3>1. OpenBytes(l, s) = <<p>> /\ <<p>> # <<>> /\ <<p>>[1] = p
      BY <1>2, <2>1
    <3> QED BY <1>3, <2>1, <3>1 DEF OpenFrame
  <2>2. CASE k # l
    BY <1>2, <2>2 DEF OpenFrame
  <2> QED BY <2>1, <2>2
<1> QED BY <1>1, <1>2, <1>4

LEMMA TextArrives ==
  ASSUME NEW k \in Keys, NEW l \in Keys, NEW n \in Nonces, NEW p \in Texts
  PROVE  /\ Seal(k, n, p) \in Seq(0..Pad)
         /\ OpenText(l, Seal(k, n, p)) = IF k = l THEN <<p>> ELSE <<>>
<1>1. PICK s \in Octets : s = SealBytes(k, n, p) /\ OpenBytes(l, s) = IF k = l THEN <<p>> ELSE <<>>
  BY SealRoundTrip
<1>2. Seal(k, n, p) = ToBase64Url(s)
  BY <1>1 DEF Seal
<1>3. ToBase64Url(s) \in Seq(0..Pad) /\ FromBase64Url(ToBase64Url(s)) = <<s>>
  BY UrlRoundTrip
<1>4. OpenText(l, ToBase64Url(s)) = OpenBytes(l, s)
  <2>1. <<s>> # <<>> /\ <<s>>[1] = s
    OBVIOUS
  <2> QED BY <1>3, <2>1 DEF OpenText
<1> QED BY <1>1, <1>2, <1>3, <1>4

LEMMA ItemKinds ==
  ASSUME NEW i \in Items
  PROVE  \/ /\ i.kind = "frame" /\ i.content \in Frames /\ i.nonce \in Nonces
            /\ i.from \in Keys /\ i.to \in Keys
         \/ /\ i.kind = "text" /\ i.content \in Texts /\ i.nonce \in Nonces
            /\ i.from \in Keys /\ i.to \in Keys
         \/ i.kind = "file" /\ i.content \in Texts
         \/ i.kind = "sas" /\ i.own \in Keys \X Keys /\ i.seen \in Keys \X Keys
BY DEF Items

\* What Put puts on the wire, and what is then taken off it.
OnWire(i) == CASE i.kind = "frame" -> SealBytes(i.from, i.nonce, EncodeChunkFrame(i.content))
               [] i.kind = "text"  -> Seal(i.from, i.nonce, i.content)
               [] i.kind = "file"  -> Uint8ToBase64(i.content)
               [] i.kind = "sas"   -> <<>>

TakenOff(i) == CASE i.kind = "frame" -> OpenFrame(i.to, OnWire(i))
                 [] i.kind = "text"  -> OpenText(i.to, OnWire(i))
                 [] i.kind = "file"  -> Atob(OnWire(i))
                 [] i.kind = "sas"   -> [k \in 1..2 |-> DeriveSAS(i.own[k], i.seen[k])]

CodecInv ==
  /\ item \in Items
  /\ stage \in {"fresh", "sent", "taken"}
  /\ line = IF stage = "fresh" THEN <<>> ELSE OnWire(item)
  /\ result = IF stage = "taken" THEN TakenOff(item) ELSE <<>>

LEMMA CodecInductive ==
  CodecSpec => []CodecInv
<1>1. CodecInit => CodecInv
  BY DEF CodecInit, CodecInv
<1>2. CodecInv /\ [CodecNext]_codecVars => CodecInv'
  <2> SUFFICES ASSUME CodecInv, [CodecNext]_codecVars  PROVE CodecInv'
    OBVIOUS
  <2>1. CASE Put
    <3>1. /\ item' = item /\ result' = result /\ stage = "fresh" /\ stage' = "sent"
          /\ line' = OnWire(item)
      BY <2>1 DEF Put, OnWire
    <3> QED BY <3>1 DEF CodecInv
  <2>2. CASE Take
    <3>1. item' = item /\ line' = line /\ stage = "sent" /\ stage' = "taken"
      BY <2>2 DEF Take
    <3>2. line = OnWire(item)
      BY <3>1 DEF CodecInv
    <3>3. result' = TakenOff(item)
      BY <2>2, <3>2 DEF Take, TakenOff
    <3> QED BY <3>1, <3>3 DEF CodecInv
  <2>3. CASE UNCHANGED codecVars
    BY <2>3 DEF CodecInv, codecVars
  <2> QED BY <2>1, <2>2, <2>3 DEF CodecNext
<1> QED BY <1>1, <1>2, PTL DEF CodecSpec

LEMMA WhatArrives ==
  ASSUME NEW i \in Items
  PROVE  /\ OnWire(i) \in Seq(0..Byte)
         /\ i.kind # "sas" =>
              TakenOff(i) = IF i.kind = "file" \/ i.from = i.to THEN <<i.content>> ELSE <<>>
         /\ i.kind = "sas" => Len(TakenOff(i)) = 2
         /\ i.kind = "sas" => (TakenOff(i)[1] = TakenOff(i)[2] <=>
                                 {i.own[1], i.seen[1]} = {i.own[2], i.seen[2]})
<1>1. Octets \subseteq Seq(0..Byte) /\ Seq(0..Pad) \subseteq Seq(0..Byte)
  <2>1. 0..Byte - 1 \subseteq 0..Byte /\ 0..Pad \subseteq 0..Byte
    BY Bases DEF Pad
  <2> QED BY <2>1, SeqMonotonic DEF Octets
<1>2. CASE /\ i.kind = "frame" /\ i.content \in Frames /\ i.nonce \in Nonces
           /\ i.from \in Keys /\ i.to \in Keys
  <2>1. OnWire(i) = SealBytes(i.from, i.nonce, EncodeChunkFrame(i.content))
    BY <1>2 DEF OnWire
  <2>2. TakenOff(i) = OpenFrame(i.to, OnWire(i))
    BY <1>2 DEF TakenOff
  <2> QED BY <1>1, <1>2, <2>1, <2>2, FrameArrives
<1>3. CASE /\ i.kind = "text" /\ i.content \in Texts /\ i.nonce \in Nonces
           /\ i.from \in Keys /\ i.to \in Keys
  <2>1. OnWire(i) = Seal(i.from, i.nonce, i.content)
    BY <1>3 DEF OnWire
  <2>2. TakenOff(i) = OpenText(i.to, OnWire(i))
    BY <1>3 DEF TakenOff
  <2> QED BY <1>1, <1>3, <2>1, <2>2, TextArrives
<1>4. CASE i.kind = "file" /\ i.content \in Texts
  <2>1. i.content \in Octets
    BY <1>4, CodecAssumption
  <2>2. OnWire(i) = Uint8ToBase64(i.content) /\ TakenOff(i) = Atob(OnWire(i))
    BY <1>4 DEF OnWire, TakenOff
  <2>3. Btoa(i.content) \in Seq(0..Pad)
    <3>1. PICK n, m, c \in Nat : n = Len(i.content) /\ m = Digits(n) /\ c = 4 * ((n + 2) \div 3)
      <4>1. Len(i.content) \in Nat
        BY <2>1, LenProperties DEF Octets
      <4> QED BY <4>1, Lengths
    <3> QED BY <2>1, <3>1, BtoaIs
  <2> QED BY <1>1, <1>4, <2>1, <2>2, <2>3, FileRoundTrip
<1>5. CASE i.kind = "sas" /\ i.own \in Keys \X Keys /\ i.seen \in Keys \X Keys
  <2>1. OnWire(i) = <<>> /\ TakenOff(i) = [k \in 1..2 |-> DeriveSAS(i.own[k], i.seen[k])]
    BY <1>5 DEF OnWire, TakenOff
  <2>2. /\ Len(TakenOff(i)) = 2
        /\ TakenOff(i)[1] = DeriveSAS(i.own[1], i.seen[1])
        /\ TakenOff(i)[2] = DeriveSAS(i.own[2], i.seen[2])
    BY <2>1
  <2>3. i.own[1] \in Keys /\ i.own[2] \in Keys /\ i.seen[1] \in Keys /\ i.seen[2] \in Keys
    BY <1>5
  <2>4. DeriveSAS(i.own[1], i.seen[1]) = DeriveSAS(i.own[2], i.seen[2]) <=>
          SameKeys(i.own[1], i.seen[1], i.own[2], i.seen[2])
    BY <2>3, SasTellsKeys
  <2>5. OnWire(i) \in Seq(0..Byte)
    BY <2>1, EmptySeq
  <2> QED BY <1>5, <2>2, <2>4, <2>5 DEF SameKeys
<1> QED BY <1>2, <1>3, <1>4, <1>5, ItemKinds

\* What is put on a wire is a string of bytes or characters.
THEOREM CodecTypeCorrect == CodecSpec => []CodecTypeOK
<1>1. CodecInv => CodecTypeOK
  <2> SUFFICES ASSUME CodecInv  PROVE CodecTypeOK
    OBVIOUS
  <2>1. item \in Items /\ stage \in {"fresh", "sent", "taken"}
    BY DEF CodecInv
  <2>2. line \in Seq(0..Byte)
    BY WhatArrives, EmptySeq DEF CodecInv
  <2>3. Len(result) <= 2
    <3>1. CASE stage # "taken"
      <4>1. result = <<>> /\ Len(<<>>) = 0
        BY <3>1 DEF CodecInv
      <4>2. 0 <= 2
        OBVIOUS
      <4> QED BY <4>1, <4>2
    <3>2. CASE stage = "taken" /\ item.kind = "sas"
      <4>1. Len(result) = 2
        BY <3>2, WhatArrives DEF CodecInv
      <4> QED BY <4>1
    <3>3. CASE stage = "taken" /\ item.kind # "sas"
      <4>1. result = <<item.content>> \/ result = <<>>
        BY <3>3, WhatArrives DEF CodecInv
      <4>2. Len(<<item.content>>) = 1 /\ Len(<<>>) = 0
        OBVIOUS
      <4>3. Len(result) = 1 \/ Len(result) = 0
        BY <4>1, <4>2
      <4> QED BY <4>3
    <3> QED BY <3>1, <3>2, <3>3
  <2> QED BY <2>1, <2>2, <2>3 DEF CodecTypeOK
<1> QED BY <1>1, CodecInductive, PTL

\* The far end gets exactly what was sent, whatever its number, size and position, or
\* nothing when its key is another one.
THEOREM WireRoundTrips == CodecSpec => []RoundTrips
<1>1. CodecInv => RoundTrips
  BY WhatArrives DEF CodecInv, RoundTrips
<1> QED BY <1>1, CodecInductive, PTL

\* Both ends show the same emoji and digits exactly if they have seen the same two keys.
THEOREM SasTellsPeers == CodecSpec => []SasTells
<1>1. CodecInv => SasTells
  BY WhatArrives DEF CodecInv, SasTells
<1> QED BY <1>1, CodecInductive, PTL
=============================================================================
