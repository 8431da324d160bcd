------------------------------- MODULE ExtCrypto -------------------------------
(***************************************************************************)
(* The encryption of an extension's registers (wiimote_crypto.c, and its   *)
(* use in extension_read_data and extension_write_data of fake_wiimote.c). *)
(* The host draws random bytes and an index, derives a key from them with  *)
(* tables that both sides have, and writes both to the key area.  The      *)
(* Wiimote has to find out the index by trying all of them; the tables for *)
(* the encryption follow from the key, the random bytes and the index.     *)
(*                                                                         *)
(* The substitution tables are parameters, the answers are the code's.     *)
(* The host reads its own key as it made it, and never searches.           *)
(***************************************************************************)
EXTENDS Integers, Sequences, SequencesExt, Bitwise

CONSTANTS
    KeySbox,    \* keygen_sbox_1st_party
    Sboxes,     \* sboxes_1st_party, numbered from 0
    Regs,       \* what the registers other than the key area hold
    Draws,      \* random bytes the host may draw
    Reads       \* what the host may read: address and size

Byte == 0..255

CryptoAssumption ==
    /\ KeySbox \in [Byte -> Byte] /\ Sboxes \in [0..7 -> [Byte -> Byte]]
    /\ Regs \in [Byte -> Byte]
    /\ \A rand \in Draws : Len(rand) = 10 /\ \A i \in 1..10 : rand[i] \in Byte
    /\ \A rd \in Reads : rd.addr + rd.size <= 256

VARIABLES
    area,       \* the key area: ten random bytes and six of the key, reversed
    dirty,      \* the key area was written since the key was generated
    key,        \* tables in use, extension_key
    host,       \* what the host drew, its tables, and what it has to write yet
    reply       \* the last read since the host wrote its key, and the bytes it got

vars == <<area, dirty, key, host, reply>>

-----------------------------------------------------------------------------
(* The definitions named ..._Without... and ..._With... are faulty variants  *)
(* that the runs must tell from the code.  Indices of arrays are the code's. *)

Sub(a, b) == (a - b) % 256      \* u8

\* ror8
Ror8(word, shift) == LET s == shift % 8 IN (word \div 2^s) + ((word * 2^(8 - s)) % 256)

Answers ==
    <<<<168, 119, 166, 224, 247, 67>>, <<90, 53, 133, 226, 114, 151>>,
      <<143, 183, 26, 98, 135, 56>>, <<13, 103, 199, 190, 79, 62>>,
      <<32, 118, 55, 143, 104, 183>>, <<169, 38, 63, 43, 16, 227>>,
      <<48, 126, 144, 14, 133, 10>>>>

\* Of each byte of the key: the random bytes that are xored to the answer, that
\* it is rotated by, that are subtracted, and that are xored to the result.
KeyRecipe == <<<<5, 2, 9, 4>>, <<1, 0, 5, 7>>, <<6, 8, 2, 0>>,
               <<4, 7, 3, 2>>, <<1, 6, 3, 4>>, <<7, 8, 5, 9>>>>

\* generate_key_data
KeyFor(rand, idx) ==
    LET t0(i) == KeySbox[rand[i + 1]]
        KeyByte(k) ==
            LET r == KeyRecipe[k] IN
            Sub(Ror8(Answers[idx + 1][k] ^^ t0(r[1]), t0(r[2])), t0(r[3])) ^^ t0(r[4])
    IN  [k \in 1..6 |-> KeyByte(k)]

\* Where the bytes that are substituted for a table come from.
K(i) == <<"key", i>>
R(i) == <<"rand", i>>
FtRecipe == <<<<K(4), R(3)>>, <<K(2), R(5)>>, <<K(5), R(7)>>, <<K(0), R(2)>>,
              <<K(1), R(4)>>, <<K(3), R(9)>>, <<R(0), R(6)>>, <<R(1), R(8)>>>>
SbRecipe == <<<<K(0), R(1)>>, <<K(5), R(4)>>, <<K(3), R(0)>>, <<K(2), R(9)>>,
              <<K(4), R(7)>>, <<K(1), R(8)>>, <<R(3), R(5)>>, <<R(2), R(6)>>>>

\* Read beyond the last substitution table: any bytes.
Undefined == [ft |-> <<>>, sb |-> <<>>]

\* generate_tables, for an index and its successor
Tables(rand, k, idx) ==
    LET Source(s) == IF s[1] = "key" THEN k[s[2] + 1] ELSE rand[s[2] + 1]
        Mixed(recipe) ==
            [i \in 1..8 |-> Sboxes[idx][Source(recipe[i][1])] ^^ Sboxes[idx + 1][Source(recipe[i][2])]]
    IN  IF idx + 1 \in DOMAIN Sboxes THEN [ft |-> Mixed(FtRecipe), sb |-> Mixed(SbRecipe)]
        ELSE Undefined

\* The number of the first index that gives the key, from 1 on; 0 if none does.
FindIndex(rand, k) ==
    SelectInSeq([i \in 1..7 |-> KeyFor(rand, i - 1)], LAMBDA check : check = k)

\* wiimote_crypto_generate_key_from_extension_key_data: the index is 7 when
\* none matches.
Generate(data) ==
    LET rand == Reverse(SubSeq(data, 1, 10))
        k == Reverse(SubSeq(data, 11, 16))
        n == FindIndex(rand, k)
    IN  Tables(rand, k, IF n = 0 THEN 7 ELSE n - 1)

\* wiimote_crypto_encrypt: the tables are entered by the address.
Encrypt(bytes, tables, addr) ==
    [i \in DOMAIN bytes |->
        LET a == ((addr + i - 1) % 8) + 1 IN Sub(bytes[i], tables.ft[a]) ^^ tables.sb[a]]

-----------------------------------------------------------------------------
(* The host                                                                 *)

Decrypt(bytes, tables, addr) ==
    [i \in DOMAIN bytes |->
        LET a == ((addr + i - 1) % 8) + 1 IN ((bytes[i] ^^ tables.sb[a]) + tables.ft[a]) % 256]

\* The key area is written six, six and four bytes at a time.
Pieces == <<<<1, 6>>, <<7, 12>>, <<13, 16>>>>

NewHost == [rand |-> <<>>, idx |-> 0, area |-> <<>>, todo |-> <<>>]
NoReply == [addr |-> 0, bytes |-> <<>>, undefined |-> FALSE]
Zeros(n) == [i \in 1..n |-> 0]

-----------------------------------------------------------------------------
\* fake_wiimote_reset_extension_state, and the host has enabled encryption.
Init ==
    /\ area = Zeros(16)
    /\ dirty = TRUE
    /\ key = [ft |-> Zeros(8), sb |-> Zeros(8)]
    /\ host = NewHost
    /\ reply = NoReply

\* The host makes a new key.
Draw(rand, idx) ==
    /\ host.todo = <<>>
    /\ host' = [rand |-> rand, idx |-> idx,
                area |-> Reverse(rand) \o Reverse(KeyFor(rand, idx)), todo |-> Pieces]
    /\ reply' = NoReply
    /\ UNCHANGED <<area, dirty, key>>

WritePiece ==
    /\ host.todo # <<>>
    /\ LET piece == Head(host.todo) IN
       area' = [i \in 1..16 |-> IF i \in piece[1]..piece[2] THEN host.area[i] ELSE area[i]]
    /\ host' = [host EXCEPT !.todo = Tail(@)]
    /\ UNCHANGED <<key, reply>>

WriteKey_WithFirstOnly ==
    WritePiece /\ dirty' = (dirty \/ host.todo = Pieces)

\* extension_write_data, in the key area
WriteKey == WritePiece /\ dirty' = TRUE

\* The key in use is generated when it is needed.
UseKey ==
    /\ key' = IF dirty THEN Generate(area) ELSE key
    /\ dirty' = FALSE
    /\ UNCHANGED <<area, host>>

\* extension_read_data
Read(rd) ==
    /\ host.rand # <<>> /\ host.todo = <<>>
    /\ UseKey
    /\ reply' = [addr |-> rd.addr, undefined |-> key' = Undefined,
                 bytes |-> IF key' = Undefined THEN <<>>
                           ELSE Encrypt([i \in 1..rd.size |-> Regs[rd.addr + i - 1]], key', rd.addr)]

\* The same between two pieces of a key: the host can make nothing of the reply,
\* but the Wiimote has generated a key.
ReadEarly ==
    /\ host.todo # <<>>
    /\ UseKey
    /\ UNCHANGED reply

Next ==
    \/ \E rand \in Draws, idx \in 0..6 : Draw(rand, idx)
    \/ WriteKey
    \/ \E rd \in Reads : Read(rd)
    \/ ReadEarly

Spec == Init /\ [][Next]_vars

-----------------------------------------------------------------------------
(* Properties                                                               *)

\* When the host has written its key, this key decrypts every reply, of whatever
\* address and size, whatever was read between the pieces of it and of the keys
\* before: the search finds the index that the host drew and no other, and the
\* tables are made of those that exist.
HostDecrypts ==
    /\ ~reply.undefined
    /\ reply.bytes # <<>> =>
      Decrypt(reply.bytes, Tables(host.rand, KeyFor(host.rand, host.idx), host.idx), reply.addr)
        = [i \in DOMAIN reply.bytes |-> Regs[reply.addr + i - 1]]
================================================================================
