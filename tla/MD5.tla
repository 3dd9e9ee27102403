-------------------------------- MODULE MD5 ---------------------------------
(***************************************************************************)
(* The MD5 class that hashes the keys of the store: the compression of a   *)
(* block, the buffer between two updates, the bit counter in two words,    *)
(* the padding, and the number get_hash_uint makes of the digest.          *)
(*                                                                         *)
(* A word of 32 bits is a pair of 16-bit halves, high half first.          *)
(***************************************************************************)
EXTENDS Integers, Sequences, SequencesExt, Bitwise

CONSTANTS
  CountMod,                  \* 2 ^ 32: the bit counter is counted in two words below it
  Message(_),                \* the first n bytes of the message that is hashed
  MaxLength,                 \* bytes of the message, at most
  UpdateLength               \* bytes of one update

MD5Assumption ==
  /\ CountMod \in Nat \ {0} /\ CountMod % 512 = 0
  /\ UpdateLength \subseteq Nat

VARIABLES
  state, count, buffer, finalized, digest,
  length                     \* history: bytes of the message before finalize

vars == <<state, count, buffer, finalized, digest, length>>

Half == 65536
blocksize == 64

-----------------------------------------------------------------------------
(* Words *)

Add(x, y) ==
  LET low == x[2] + y[2] IN <<(x[1] + y[1] + low \div Half) % Half, low % Half>>

\* An operation on bits, byte by byte.
Bits(op(_, _), x, y) ==
  [i \in 1 .. 2 |-> 256 * op(x[i] \div 256, y[i] \div 256) + op(x[i] % 256, y[i] % 256)]

AndW(x, y) == Bits(&, x, y)
OrW(x, y) == Bits(|, x, y)
XorW(x, y) == Bits(^^, x, y)
NotW(x) == <<Half - 1 - x[1], Half - 1 - x[2]>>

F(x, y, z) == OrW(AndW(x, y), AndW(NotW(x), z))

G(x, y, z) == OrW(AndW(x, z), AndW(y, NotW(z)))
H(x, y, z) == XorW(XorW(x, y), z)
I(x, y, z) == XorW(y, OrW(x, NotW(z)))

rotate_left(x, n) ==
  LET y == IF n >= 16 THEN <<x[2], x[1]>> ELSE x
      k == 2 ^ (n % 16)
  IN  <<((y[1] * k) % Half) + (y[2] * k) \div Half, ((y[2] * k) % Half) + (y[1] * k) \div Half>>

\* FF, GG, HH and II: the new a.
Round(f, a, b, x, s, ac) == Add(rotate_left(Add(Add(Add(a, f), x), ac), s), b)

\* Bytes to words and back, low byte first.
decode(input) ==
  [i \in 1 .. Len(input) \div 4 |->
     <<input[4 * i] * 256 + input[4 * i - 1], input[4 * i - 2] * 256 + input[4 * i - 3]>>]

encode(input) ==
  [j \in 1 .. 4 * Len(input) |->
     LET w == input[((j - 1) \div 4) + 1]
         h == w[2 - (((j - 1) % 4) \div 2)]
     IN  IF j % 2 = 1 THEN h % 256 ELSE h \div 256]

-----------------------------------------------------------------------------
(* transform *)

Shift == << <<7, 12, 17, 22>>, <<5, 9, 14, 20>>, <<4, 11, 16, 23>>, <<6, 10, 15, 21>> >>

Sine ==
  <<<<\hd76a, \ha478>>, <<\he8c7, \hb756>>, <<\h2420, \h70db>>, <<\hc1bd, \hceee>>,
    <<\hf57c, \h0faf>>, <<\h4787, \hc62a>>, <<\ha830, \h4613>>, <<\hfd46, \h9501>>,
    <<\h6980, \h98d8>>, <<\h8b44, \hf7af>>, <<\hffff, \h5bb1>>, <<\h895c, \hd7be>>,
    <<\h6b90, \h1122>>, <<\hfd98, \h7193>>, <<\ha679, \h438e>>, <<\h49b4, \h0821>>,
    <<\hf61e, \h2562>>, <<\hc040, \hb340>>, <<\h265e, \h5a51>>, <<\he9b6, \hc7aa>>,
    <<\hd62f, \h105d>>, <<\h0244, \h1453>>, <<\hd8a1, \he681>>, <<\he7d3, \hfbc8>>,
    <<\h21e1, \hcde6>>, <<\hc337, \h07d6>>, <<\hf4d5, \h0d87>>, <<\h455a, \h14ed>>,
    <<\ha9e3, \he905>>, <<\hfcef, \ha3f8>>, <<\h676f, \h02d9>>, <<\h8d2a, \h4c8a>>,
    <<\hfffa, \h3942>>, <<\h8771, \hf681>>, <<\h6d9d, \h6122>>, <<\hfde5, \h380c>>,
    <<\ha4be, \hea44>>, <<\h4bde, \hcfa9>>, <<\hf6bb, \h4b60>>, <<\hbebf, \hbc70>>,
    <<\h289b, \h7ec6>>, <<\heaa1, \h27fa>>, <<\hd4ef, \h3085>>, <<\h0488, \h1d05>>,
    <<\hd9d4, \hd039>>, <<\he6db, \h99e5>>, <<\h1fa2, \h7cf8>>, <<\hc4ac, \h5665>>,
    <<\hf429, \h2244>>, <<\h432a, \hff97>>, <<\hab94, \h23a7>>, <<\hfc93, \ha039>>,
    <<\h655b, \h59c3>>, <<\h8f0c, \hcc92>>, <<\hffef, \hf47d>>, <<\h8584, \h5dd1>>,
    <<\h6fa8, \h7e4f>>, <<\hfe2c, \he6e0>>, <<\ha301, \h4314>>, <<\h4e08, \h11a1>>,
    <<\hf753, \h7e82>>, <<\hbd3a, \hf235>>, <<\h2ad7, \hd2bb>>, <<\heb86, \hd391>>>>

\* The word of the block that step i (from zero) uses.
WordAt(i) ==
  CASE i \div 16 = 0 -> i % 16
    [] i \div 16 = 1 -> (5 * i + 1) % 16
    [] i \div 16 = 2 -> (3 * i + 5) % 16
    [] i \div 16 = 3 -> (7 * i) % 16

\* F, G, H or I, whichever round step i is in.
Mix(i, x, y, z) ==
  CASE i \div 16 = 0 -> F(x, y, z)
    [] i \div 16 = 1 -> G(x, y, z)
    [] i \div 16 = 2 -> H(x, y, z)
    [] i \div 16 = 3 -> I(x, y, z)

\* Step i (from zero) on the registers a, b, c and d.  The code gives a its new
\* value and calls the next step with the names of the registers rotated.
Step(x, i, r) ==
  << r[4],
     Round(Mix(i, r[2], r[3], r[4]), r[1], r[2], x[WordAt(i) + 1],
           Shift[(i \div 16) + 1][(i % 4) + 1], Sine[i + 1]),
     r[2], r[3] >>

\* The sixteen steps of a round.  (The choices from singletons, here and below,
\* make TLC evaluate their members first.)
Sixteen(x, round, r) ==
  LET regs[n \in 0 .. 16] ==
        IF n = 0 THEN r
        ELSE CHOOSE q \in {Step(x, 16 * round + n - 1, p) : p \in {regs[n - 1]}} : TRUE
  IN  regs[16]

transform(st, block) ==
  CHOOSE new \in
    UNION { { [i \in 1 .. 4 |-> Add(s[i], r[i])] :
                r \in {Sixteen(x, 3, r3) : r3 \in {Sixteen(x, 2, r2) :
                        r2 \in {Sixteen(x, 1, r1) : r1 \in {Sixteen(x, 0, s)}}}} }
            : s \in {st}, x \in {decode(block)} } : TRUE

-----------------------------------------------------------------------------
(* The object.  Its fields change together in update and finalize, so these   *)
(* are functions of the record of the fields.                                 *)

Magic == <<<<\h6745, \h2301>>, <<\hefcd, \hab89>>, <<\h98ba, \hdcfe>>, <<\h1032, \h5476>>>>
Zeros(n) == [i \in 1 .. n |-> 0]

init == [state |-> Magic, count |-> <<0, 0>>, buffer |-> Zeros(blocksize)]

\* memcpy(&buffer[index], bytes): what the buffer held after them stays there.
Copy(buf, index, bytes) ==
  [i \in DOMAIN buf |-> IF i \in index + 1 .. index + Len(bytes) THEN bytes[i - index] ELSE buf[i]]

\* Mutant: the carry out of the low word is lost.
AddBitsNoCarry(cnt, n) == <<(cnt[1] + 8 * n) % CountMod, cnt[2] + (8 * n) \div CountMod>>

AddBits(cnt, n) ==
  LET low == (cnt[1] + 8 * n) % CountMod
      carry == IF low < (8 * n) % CountMod THEN 1 ELSE 0
  IN  <<low, cnt[2] + carry + (8 * n) \div CountMod>>

update(o, input) ==
  LET index == (o.count[1] \div 8) % blocksize
      firstpart == blocksize - index
      full == Copy(o.buffer, index, SubSeq(input, 1, firstpart))
      whole == (Len(input) - firstpart) \div blocksize
      block(i) == SubSeq(input, firstpart + (i - 1) * blocksize + 1, firstpart + i * blocksize)
  IN  IF Len(input) >= firstpart
      THEN [state |-> FoldLeftDomain(LAMBDA st, i : transform(st, block(i)),
                                     transform(o.state, full), Zeros(whole)),
            count |-> AddBits(o.count, Len(input)),
            buffer |-> Copy(full, 0, SubSeq(input, firstpart + whole * blocksize + 1, Len(input)))]
      ELSE [o EXCEPT !.count = AddBits(@, Len(input)), !.buffer = Copy(@, index, input)]

\* The two words of the counter as words of 32 bits.
Words(cnt) == [i \in 1 .. 2 |-> <<cnt[i] \div Half, cnt[i] % Half>>]

padLen(index) == IF index < 56 THEN 56 - index ELSE 120 - index

finalize(o) ==
  LET pad == <<128>> \o Zeros(padLen((o.count[1] \div 8) % 64) - 1)
  IN  update(update(o, pad), encode(Words(o.count)))

\* The digits of the digest, and the exclusive or of its four quarters.
hexdigest(d) ==
  [i \in 1 .. 2 * Len(d) |-> IF i % 2 = 1 THEN d[(i + 1) \div 2] \div 16 ELSE d[i \div 2] % 16]

get_hash_uint(hash) ==
  LET half(i) == hash[i] * 4096 + hash[i + 1] * 256 + hash[i + 2] * 16 + hash[i + 3]
      seg(i) == <<half(8 * i - 7), half(8 * i - 3)>>
  IN  XorW(XorW(XorW(seg(1), seg(2)), seg(3)), seg(4))

md5(str) == hexdigest(encode(finalize(update(init, str)).state))

-----------------------------------------------------------------------------
(* A caller that hashes the message piece by piece *)

Object == [state |-> state, count |-> count, buffer |-> buffer]
Becomes(o) == state' = o.state /\ count' = o.count /\ buffer' = o.buffer

Init ==
  /\ state = init.state /\ count = init.count /\ buffer = init.buffer
  /\ finalized = FALSE /\ digest = <<>> /\ length = 0

Update(n) ==
  /\ ~finalized /\ length + n <= MaxLength
  /\ Becomes(update(Object, SubSeq(Message(length + n), length + 1, length + n)))
  /\ length' = length + n
  /\ UNCHANGED <<finalized, digest>>

Finalize ==
  /\ IF finalized THEN UNCHANGED <<state, count, buffer, digest>>
     ELSE LET o == finalize(Object) IN
            /\ state' = o.state /\ digest' = encode(o.state)
            /\ buffer' = Zeros(blocksize) /\ count' = <<0, 0>>
  /\ finalized' = TRUE
  /\ UNCHANGED length

Next == Finalize \/ \E n \in UpdateLength : Update(n)

Spec == Init /\ [][Next]_vars

-----------------------------------------------------------------------------
(* Properties *)

\* The message with a one bit, zeros up to 56 mod 64 bytes, and its length.
Padded(n) ==
  LET zeros == CHOOSE z \in 0 .. 63 : (n + 1 + z) % 64 = 56
  IN  Message(n) \o <<128>> \o Zeros(zeros) \o encode(Words(<<(8 * n) % CountMod, (8 * n) \div CountMod>>))

Reference(n) ==
  LET m == Padded(n) IN
    encode(FoldLeftDomain(LAMBDA st, i : transform(st, SubSeq(m, 64 * i - 63, 64 * i)),
                          Magic, Zeros(Len(m) \div 64)))

\* However the message was cut into updates, the digest is that of the padded
\* message as a whole: no byte is lost or counted twice where an update ends at,
\* before or behind the end of a block, where the length needs a block of its
\* own, or where the low word of the counter overflows.
DigestOfMessage == finalized => digest = Reference(length)

\* The digests that RFC 1321 gives for the first 0, 1, 3 and 26 letters of the
\* alphabet, and the exclusive or of the quarters of each.
KnownHash(n) ==
  CASE n = 0 -> <<<<212, 29, 140, 217, 143, 0, 178, 4, 233, 128, 9, 152, 236, 248, 66, 126>>,
                <<24165, 30011>>>>
    [] n = 1 -> <<<<12, 193, 117, 185, 192, 241, 182, 168, 49, 195, 153, 226, 105, 119, 38, 97>>,
                <<38020, 31890>>>>
    [] n = 3 -> <<<<144, 1, 80, 152, 60, 210, 79, 176, 214, 150, 63, 125, 40, 225, 127, 114>>,
                <<21156, 24359>>>>
    [] n = 26 -> <<<<195, 252, 211, 215, 97, 146, 228, 0, 125, 251, 73, 108, 202, 103, 225, 59>>,
                <<5618, 40832>>>>

\* The digest and the number that places a key are the known ones, whether the
\* key was hashed at once, as the store does it, or in pieces.
HashesOfRFC ==
  finalized /\ length \in {0, 1, 3, 26} =>
    /\ <<digest, get_hash_uint(hexdigest(digest))>> = KnownHash(length)
    /\ md5(Message(length)) = hexdigest(digest)

\* The digest is the right one in both senses.
DigestRight == DigestOfMessage /\ HashesOfRFC
=============================================================================
