------------------------------- MODULE MCParts -------------------------------
(***************************************************************************)
(* Small instances of Parts, for TLC.                                      *)
(***************************************************************************)
EXTENDS Parts

\* A relay that counts the connections of two addresses, and two sockets at a time.
Addresses == {1, 2}
IpOfConn == <<1, 1, 2>>
TwoSlots == {1, 2}

\* One file of two chunks, and a desktop peer at either end.
OneFile == <<<<"a", "b">>>>
NoFile == <<"none">>
EitherCancels == {<<"sender", 1>>, <<"receiver", 1>>}

\* A wire with the least base, and a cipher and a digest that only keep what is assumed.
SomeKeys == {0, 6, 15}
TwoNonces == {<<0, 0>>, <<15, 14>>}
TwoIds == {<<0, 0>>, <<3, 2>>}
SomeSeqs == {0, 1, 15, 16, 255, 256, 32767, 32768, 65535}
Strings(n) == UNION {[1..k -> {0, 7, 15}] : k \in 0..n}
ToTwo == Strings(2)
ToFour == Strings(4)

Tag(key, iv) == (iv[1] * 16 + iv[2] + 3 * key) % 16
Scramble(key, iv, plain) == [i \in DOMAIN plain |-> (plain[i] + key + iv[1]) % 16] \o <<Tag(key, iv)>>
Unscramble(key, iv, ct) ==
  IF Len(ct) = 0 \/ ct[Len(ct)] # Tag(key, iv) THEN <<>>
  ELSE <<[i \in 1..Len(ct) - 1 |-> (ct[i] - key - iv[1]) % 16]>>
Digest(a, b) == <<a, b, (a + b) % 16, b, a, 0>>
=============================================================================
