--------------------------------- MODULE Crc ---------------------------------
(***************************************************************************)
(* libs/libcrc: cyclic redundancy checks of 8 to 64 bits, fed byte after   *)
(* byte through the update functions.  The transport uses crc_ccitt_ffff() *)
(* and update_crc_ccitt().  A register is the set of its bits that are 1,  *)
(* a message is a sequence of bytes.                                       *)
(***************************************************************************)
EXTENDS Bits
LOCAL INSTANCE SequencesExt

CONSTANTS
  Sent,       \* the bytes that messages are made of
  MaxLen      \* the length of a message

CrcAssumption == Sent \subseteq Bytes /\ MaxLen \in Nat

VARIABLES
  alg,        \* the algorithm
  message,    \* what has been fed
  crc         \* the register

vars == <<alg, message, crc>>

\* The number with the given hexadecimal digits.
Hex(digits) ==
  UNION {Up(BitsOf(digits[k]), 4 * (Len(digits) - k)) : k \in 1 .. Len(digits)}

Ones(w) == 0 .. w - 1

\* The halves of a word of 16 bits, exchanged.
Swapped(a) == Low(Up(a, 8), 16) \cup Down(a, 8)

-----------------------------------------------------------------------------
(* What a check is: the remainder of the message, as a polynomial over      *)
(* GF(2), by the generator.  A polynomial is the set of its exponents.      *)

Algorithms ==
  LET ccitt == {16, 12, 5, 0}
      crc16 == {16, 15, 2, 0}
      ecma == {64, 62, 57, 55, 54, 53, 52, 47, 46, 45, 40, 39, 38, 37, 35, 33, 32, 31, 29, 27,
               24, 23, 22, 21, 19, 17, 13, 12, 10, 9, 7, 4, 1, 0}
      \* lowest: the lowest bit of a byte is the first
      of(w, g, lowest, start, check) ==
        [w |-> w, generator |-> g, lowest |-> lowest, start |-> start, check |-> check]
  IN [crc_8 |-> of(8, {8, 5, 4, 0}, FALSE, {}, Hex(<<10, 2>>)),
      crc_16 |-> of(16, crc16, TRUE, {}, Hex(<<11, 11, 3, 13>>)),
      crc_modbus |-> of(16, crc16, TRUE, Ones(16), Hex(<<4, 11, 3, 7>>)),
      crc_32 |-> of(32, {32, 26, 23, 22, 16, 12, 11, 10, 8, 7, 5, 4, 2, 1, 0}, TRUE, Ones(32),
                    Hex(<<12, 11, 15, 4, 3, 9, 2, 6>>)),
      crc_64_ecma |-> of(64, ecma, FALSE, {},
                         Hex(<<6, 12, 4, 0, 13, 15, 5, 15, 0, 11, 4, 9, 7, 3, 4, 7>>)),
      crc_64_we |-> of(64, ecma, FALSE, Ones(64),
                       Hex(<<6, 2, 14, 12, 5, 9, 14, 3, 15, 1, 10, 4, 15, 0, 0, 10>>)),
      crc_xmodem |-> of(16, ccitt, FALSE, {}, Hex(<<3, 1, 12, 3>>)),
      crc_ccitt_1d0f |-> of(16, ccitt, FALSE, Hex(<<1, 13, 0, 15>>), Hex(<<14, 5, 12, 12>>)),
      crc_ccitt_ffff |-> of(16, ccitt, FALSE, Ones(16), Hex(<<2, 9, 11, 1>>)),
      crc_dnp |-> of(16, {16, 13, 12, 11, 10, 8, 6, 5, 2, 0}, TRUE, {}, Hex(<<8, 2, 14, 10>>)),
      crc_kermit |-> of(16, ccitt, TRUE, {}, Hex(<<8, 9, 2, 1>>)),
      crc_sick |-> of(16, crc16, FALSE, {}, Hex(<<5, 6, 10, 6>>))]

\* The exponent of bit b of byte k of n bytes.
Exponent(a, n, k, b) == 8 * (n - k) + (IF a.lowest THEN 7 - b ELSE b)

\* A register as a polynomial, and the reverse.
Mirrored(a, r) == IF a.lowest THEN {a.w - 1 - e : e \in r} ELSE r

Remainder(a, p, degree) ==
  LET divided[d \in a.w - 1 .. degree] ==   \* terms above d have been taken off
        IF d = degree THEN p
        ELSE LET q == divided[d + 1]
             IN IF d + 1 \in q THEN Xor(q, Up(a.generator, d + 1 - a.w)) ELSE q
  IN divided[a.w - 1]

\* The message, and the start value in front of it.
Polynomial(a, s) ==
  LET n == Len(s)
      m == UNION {{Exponent(a, n, k, b) : b \in s[k]} : k \in 1 .. n}
  IN Xor(Up(m, a.w), Up(Mirrored(a, a.start), 8 * n))

\* A SICK check moves on by one bit with each byte, and each byte counts twice, with
\* the byte behind it 8 bits higher.
SickPolynomial(s) ==
  LET n == Len(s)
      of[k \in 0 .. n] ==
        IF k = 0 THEN {}
        ELSE Xor(of[k - 1], Xor(Up(s[k], n - k), IF k > 1 THEN Up(s[k - 1], n - k + 8) ELSE {}))
  IN of[n]

RemainderOf(name, s) ==
  LET a == Algorithms[name]
  IN IF name = "crc_sick" THEN Remainder(a, SickPolynomial(s), 15 + Len(s))
     ELSE Mirrored(a, Remainder(a, Polynomial(a, s), a.w + 8 * Len(s)))

-----------------------------------------------------------------------------
(* The tables *)

\* init_crc16_tab() and its like, where bits are taken from the lowest on.
TableRight(poly) ==
  LET turn[j \in 0 .. 8, i \in Bytes] ==
        IF j = 0 THEN {}
        ELSE LET r == turn[j - 1, i]
                 c == Down(i, j - 1)
             IN IF 0 \in Xor(r, c) THEN Xor(Down(r, 1), poly) ELSE Down(r, 1)
  IN [i \in Bytes |-> turn[8, i]]

\* Mutant of TableLeft: the bit that falls out is not looked at, but the one beneath.
TableLeftBeneath(w, poly) ==
  LET turn[j \in 0 .. 8, i \in Bytes] ==
        IF j = 0 THEN {}
        ELSE LET r == turn[j - 1, i]
                 c == Low(Up(i, w - 8 + j - 1), w)
             IN IF w - 2 \in Xor(r, c) THEN Xor(Low(Up(r, 1), w), poly) ELSE Low(Up(r, 1), w)
  IN [i \in Bytes |-> turn[8, i]]

\* init_crcccitt_tab() and its like, where bits are taken from the highest on.
TableLeft(w, poly) ==
  LET turn[j \in 0 .. 8, i \in Bytes] ==
        IF j = 0 THEN {}
        ELSE LET r == turn[j - 1, i]
                 c == Low(Up(i, w - 8 + j - 1), w)
             IN IF w - 1 \in Xor(r, c) THEN Xor(Low(Up(r, 1), w), poly) ELSE Low(Up(r, 1), w)
  IN [i \in Bytes |-> turn[8, i]]

crc_tab16 == TableRight(Hex(<<10, 0, 0, 1>>))
crc_tab == TableRight(Hex(<<8, 4, 0, 8>>))
crc_tabdnp == TableRight(Hex(<<10, 6, 11, 12>>))
crc_tabccitt == TableLeft(16, Hex(<<1, 0, 2, 1>>))
crc_tab64 == TableLeft(64, Hex(<<4, 2, 15, 0, 14, 1, 14, 11, 10, 9, 14, 10, 3, 6, 9, 3>>))

\* init_crc32_tab() of precalc, where the index is the start of the register.
crc_tab32 ==
  LET poly == Hex(<<14, 13, 11, 8, 8, 3, 2, 0>>)
      turn[j \in 0 .. 8, i \in Bytes] ==
        IF j = 0 THEN i
        ELSE LET r == turn[j - 1, i]
             IN IF 0 \in r THEN Xor(Down(r, 1), poly) ELSE Down(r, 1)
  IN [i \in Bytes |-> turn[8, i]]

sht75_crc_table ==
  LET t == <<
     0,  49,  98,  83, 196, 245, 166, 151, 185, 136, 219, 234, 125,  76,  31,  46,
    67, 114,  33,  16, 135, 182, 229, 212, 250, 203, 152, 169,  62,  15,  92, 109,
   134, 183, 228, 213,  66, 115,  32,  17,  63,  14,  93, 108, 251, 202, 153, 168,
   197, 244, 167, 150,   1,  48,  99,  82, 124,  77,  30,  47, 184, 137, 218, 235,
    61,  12,  95, 110, 249, 200, 155, 170, 132, 181, 230, 215,  64, 113,  34,  19,
   126,  79,  28,  45, 186, 139, 216, 233, 199, 246, 165, 148,   3,  50,  97,  80,
   187, 138, 217, 232, 127,  78,  29,  44,   2,  51,  96,  81, 198, 247, 164, 149,
   248, 201, 154, 171,  60,  13,  94, 111,  65, 112,  35,  18, 133, 180, 231, 214,
   122,  75,  24,  41, 190, 143, 220, 237, 195, 242, 161, 144,   7,  54, 101,  84,
    57,   8,  91, 106, 253, 204, 159, 174, 128, 177, 226, 211,  68, 117,  38,  23,
   252, 205, 158, 175,  56,   9,  90, 107,  69, 116,  39,  22, 129, 176, 227, 210,
   191, 142, 221, 236, 123,  74,  25,  40,   6,  55, 100,  85, 194, 243, 160, 145,
    71, 118,  37,  20, 131, 178, 225, 208, 254, 207, 156, 173,  58,  11,  88, 105,
     4,  53, 102,  87, 192, 241, 162, 147, 189, 140, 223, 238, 121,  72,  27,  42,
   193, 240, 163, 146,   5,  52, 103,  86, 120,  73,  26,  43, 188, 141, 222, 239,
   130, 179, 224, 209,  70, 119,  36,  21,  59,  10,  89, 104, 255, 206, 157, 172>>
  IN [i \in Bytes |-> Byte(t[Value(i) + 1])]

-----------------------------------------------------------------------------
(* A byte more *)

Right(table, r, c) == Xor(Down(r, 8), table[Low(Xor(r, c), 8)])

\* Mutant of Left: what was in the register is lost but for its highest byte.
LeftForgets(w, table, r, c) == table[Low(Xor(Down(r, w - 8), c), 8)]

Left(w, table, r, c) == Xor(Low(Up(r, 8), w), table[Low(Xor(Down(r, w - 8), c), 8)])

update_crc_8(r, c) == sht75_crc_table[Xor(c, r)]
update_crc_16(r, c) == Right(crc_tab16, r, c)
update_crc_32(r, c) == Right(crc_tab32, r, c)
update_crc_64(r, c) == Left(64, crc_tab64, r, c)

\* Mutant of update_crc_ccitt: the byte is taken into the low half.
UpdateLow(r, c) == Xor(Low(Up(r, 8), 16), crc_tabccitt[Low(Xor(r, c), 8)])

update_crc_ccitt(r, c) == Left(16, crc_tabccitt, r, c)
update_crc_dnp(r, c) == Right(crc_tabdnp, r, c)
update_crc_kermit(r, c) == Right(crc_tab, r, c)

update_crc_sick(r, c, prev_byte) ==
  LET moved == Low(Up(r, 1), 16)
  IN Xor(IF 15 \in r THEN Xor(moved, Hex(<<8, 0, 0, 5>>)) ELSE moved, c \cup Up(prev_byte, 8))

(* All bytes at once *)

crc_8(s) == FoldLeft(update_crc_8, {}, s)
crc_16(s) == FoldLeft(update_crc_16, {}, s)
crc_modbus(s) == FoldLeft(update_crc_16, Ones(16), s)
crc_32(s) == Xor(FoldLeft(update_crc_32, Ones(32), s), Ones(32))
crc_64_ecma(s) == FoldLeft(update_crc_64, {}, s)
crc_64_we(s) == Xor(FoldLeft(update_crc_64, Ones(64), s), Ones(64))
crc_xmodem(s) == FoldLeft(update_crc_ccitt, {}, s)
crc_ccitt_1d0f(s) == FoldLeft(update_crc_ccitt, Hex(<<1, 13, 0, 15>>), s)
crc_ccitt_ffff(s) == FoldLeft(update_crc_ccitt, Ones(16), s)

\* Mutant of crc_dnp: the halves stay where they are.
DnpUnswapped(s) == Xor(FoldLeft(update_crc_dnp, {}, s), Ones(16))

crc_dnp(s) == Swapped(Xor(FoldLeft(update_crc_dnp, {}, s), Ones(16)))
crc_kermit(s) == Swapped(FoldLeft(update_crc_kermit, {}, s))

crc_sick(s) ==
  LET r[k \in 0 .. Len(s)] ==
        IF k = 0 THEN {} ELSE update_crc_sick(r[k - 1], s[k], IF k > 1 THEN s[k - 1] ELSE {})
  IN Swapped(r[Len(s)])

-----------------------------------------------------------------------------

\* What is in the register with the message s, and what the function for it all returns.
Fed(name, r, s, c) ==
  CASE name = "crc_8" -> update_crc_8(r, c)
    [] name \in {"crc_16", "crc_modbus"} -> update_crc_16(r, c)
    [] name = "crc_32" -> update_crc_32(r, c)
    [] name \in {"crc_64_ecma", "crc_64_we"} -> update_crc_64(r, c)
    [] name \in {"crc_xmodem", "crc_ccitt_1d0f", "crc_ccitt_ffff"} -> update_crc_ccitt(r, c)
    [] name = "crc_dnp" -> update_crc_dnp(r, c)
    [] name = "crc_kermit" -> update_crc_kermit(r, c)
    [] name = "crc_sick" -> update_crc_sick(r, c, IF s = <<>> THEN {} ELSE s[Len(s)])

Check(name, s) ==
  CASE name = "crc_8" -> crc_8(s) [] name = "crc_16" -> crc_16(s)
    [] name = "crc_modbus" -> crc_modbus(s) [] name = "crc_32" -> crc_32(s)
    [] name = "crc_64_ecma" -> crc_64_ecma(s) [] name = "crc_64_we" -> crc_64_we(s)
    [] name = "crc_xmodem" -> crc_xmodem(s) [] name = "crc_ccitt_1d0f" -> crc_ccitt_1d0f(s)
    [] name = "crc_ccitt_ffff" -> crc_ccitt_ffff(s) [] name = "crc_dnp" -> crc_dnp(s)
    [] name = "crc_kermit" -> crc_kermit(s) [] name = "crc_sick" -> crc_sick(s)

Init ==
  /\ alg \in DOMAIN Algorithms
  /\ message = <<>> /\ crc = Algorithms[alg].start

Feed(c) ==
  /\ Len(message) < MaxLen
  /\ crc' = Fed(alg, crc, message, c)
  /\ message' = Append(message, c)
  /\ UNCHANGED alg

Next == \E c \in Sent : Feed(c)

Spec == Init /\ [][Next]_vars

-----------------------------------------------------------------------------
(***************************************************************************)
(* Properties                                                              *)
(***************************************************************************)

\* The register, with its tables and its shifts, holds the remainder of what was fed.
RegisterRight == crc = RemainderOf(alg, message)

\* Each function returns the check of "123456789" it is known by; that of the two that
\* exchange the halves of the result with the halves exchanged.
KnownAnswers ==
  message = <<>> => Check(alg, [k \in 1 .. 9 |-> Byte(48 + k)]) = Algorithms[alg].check

\* The receiver of a frame finds 0 when the two bytes behind it are its checksum, the
\* high byte first: the order that __REV16() gives it in memory.  When one of the two
\* is another, it does not.
FrameVerifies ==
  alg = "crc_ccitt_ffff" =>
    LET verified(high, low) == update_crc_ccitt(update_crc_ccitt(crc, high), low) = {}
        check == crc_ccitt_ffff(message)
    IN \A x \in Bytes : /\ verified(Down(check, 8), x) <=> x = Low(check, 8)
                        /\ verified(x, Low(check, 8)) <=> x = Down(check, 8)

\* A message with the bits e inverted.
Damaged(a, e) ==
  LET n == Len(message)
  IN [k \in 1 .. n |-> Xor(message[k], {b \in 0 .. 7 : Exponent(a, n, k, b) \in e})]

\* No damage to a message that is at most as long as the register stays unnoticed, and no
\* damage to two bits.
DamageFound ==
  alg # "crc_sick" /\ Len(message) = MaxLen =>
    LET a == Algorithms[alg]
        last == 8 * Len(message) - 1
        bursts == {Up({0} \cup s, k) : s \in SUBSET {1, a.w - 1}, k \in 0 .. last}
        pairs == {{j, k} : j, k \in 0 .. last}
        check == Check(alg, message)
    IN \A e \in {x \in bursts \cup pairs : \A k \in x : k <= last} :
         Check(alg, Damaged(a, e)) # check
=============================================================================
