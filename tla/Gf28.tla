-------------------------------- MODULE Gf28 --------------------------------
(***************************************************************************)
(* The arithmetic of GF(2^8) and the S-box of libs/uAES/src/uaes.c, in     *)
(* its three builds: UAES_SBOX_CONFIG 0 has the S-box as a table, 1 fills  *)
(* the table when it is first needed, 2 computes each entry.               *)
(*                                                                         *)
(* A byte is the set of its bits that are 1, a word the set of its 32: xor *)
(* is the symmetric difference and a shift moves the members.              *)
(***************************************************************************)
EXTENDS Bits

-----------------------------------------------------------------------------
(* What the functions are to compute *)

\* x^8 + x^4 + x^3 + x + 1
Modulus == {8, 4, 3, 1, 0}

\* The product of two polynomials, reduced from the highest power on.
Product(a, b) ==
  LET power[k \in 0 .. 14] == Cardinality({i \in a : k - i \in b}) % 2
      reduced[k \in 0 .. 7] ==    \* with the 7 - k highest powers gone
        IF k = 0 THEN {i \in 0 .. 14 : power[i] = 1}
        ELSE LET r == reduced[k - 1]
                 top == 15 - k
             IN IF top \in r THEN Xor(r, Up(Modulus, top - 8)) ELSE r
  IN reduced[7]

\* FIPS 197, 5.1.1: bit i of the inverse xored with four others and 63h.
Affine(b) ==
  {i \in 0 .. 7 : Cardinality({j \in {0, 4, 5, 6, 7} : (i + j) % 8 \in b}
                                 \cup (IF i \in Byte(99) THEN {8} ELSE {})) % 2 = 1}

-----------------------------------------------------------------------------
(* Products *)

ByteTimes2(x) == Xor(Low(Up(x, 1), 8), IF 7 \in x THEN Byte(27) ELSE {})

\* Mutant of WordTimes2: the bits shifted out of a byte go into the next one.
WordTimes2Carries(x) ==
  Xor(Low(Up(x, 1), 32), UNION {Up(Byte(27), i - 7) : i \in {j \in x : j % 8 = 7}})

\* The four bytes at once; no byte of the product by 1Bh carries into the next.
WordTimes2(x) ==
  Xor({i + 1 : i \in {j \in x : j % 8 # 7}},
      UNION {Up(Byte(27), i - 7) : i \in {j \in x : j % 8 = 7}})

\* The loop over the bits of b, for bytes and for words.
Times(x, b, word) ==
  LET turn[k \in 0 .. 8] ==
        IF k = 0 THEN [result |-> {}, xx |-> x]
        ELSE LET t == turn[k - 1]
             IN [result |-> IF k - 1 \in b THEN Xor(t.result, t.xx) ELSE t.result,
                 xx |-> IF word THEN WordTimes2(t.xx) ELSE ByteTimes2(t.xx)]
  IN turn[8].result

ByteTimesByte(x, b) == Times(x, b, FALSE)
WordTimesByte(x, b) == Times(x, b, TRUE)

RCON == <<1, 2, 4, 8, 16, 32, 64, 128, 27, 54>>

\* Mutant of Gf28Div: the last quotient bit is left out.
Gf28DivShort(a, b) ==
  LET turn[k \in 0 .. 7] ==
        IF k = 0 THEN [quotient |-> {}, remain |-> a]
        ELSE LET t == turn[k - 1]
                 bi == Up(b, 8 - k)
             IN IF Less(t.remain, b) \/ ~Less(Xor(bi, t.remain), t.remain) THEN t
                ELSE [quotient |-> t.quotient \cup {8 - k}, remain |-> Xor(bi, t.remain)]
  IN turn[7]

\* Long division, 8 turns, ended when the remainder is less than the divisor.
Gf28Div(a, b) ==
  LET turn[k \in 0 .. 8] ==
        IF k = 0 THEN [quotient |-> {}, remain |-> a]
        ELSE LET t == turn[k - 1]
                 bi == Up(b, 8 - k)
             IN IF Less(t.remain, b) \/ ~Less(Xor(bi, t.remain), t.remain) THEN t
                ELSE [quotient |-> t.quotient \cup {8 - k}, remain |-> Xor(bi, t.remain)]
  IN turn[8]

\* The extended Euclidean algorithm; it ends within 12 turns.
Gf28Inv(x) ==
  LET turn[k \in 0 .. 12] ==
        IF k = 0 THEN [r |-> Modulus, s |-> {}, rr |-> x, ss |-> {0}]
        ELSE LET t == turn[k - 1]
                 d == Gf28Div(t.r, t.rr)
             IN IF ~Less({0}, t.rr) THEN t
                ELSE [r |-> t.rr, s |-> t.ss, rr |-> d.remain,
                      ss |-> Xor(t.s, ByteTimesByte(d.quotient, t.ss))]
  IN turn[12].ss

-----------------------------------------------------------------------------
(* The S-box *)

\* The high byte of a 16-bit sum folded onto the low one.
Folded(sum) == Xor(Low(sum, 8), Down(sum, 8))

\* Mutant of SboxAffineTransform: the sum is cut off, not folded.
SboxAffineCut(x) ==
  LET r12 == Xor(Up(x, 1), Up(x, 2))
  IN Xor(Low(Xor(x, Xor(r12, Up(r12, 2))), 8), Byte(99))

SboxAffineTransform(x) ==
  LET r12 == Xor(Up(x, 1), Up(x, 2))
      r34 == Up(r12, 2)
  IN Xor(Folded(Xor(x, Xor(r12, r34))), Byte(99))

RSboxAffineTransform(x) ==
  Xor(Folded(Xor(Up(x, 1), Xor(Up(x, 3), Up(x, 6)))), Byte(5))

SBOX ==
  <<99, 124, 119, 123, 242, 107, 111, 197, 48, 1, 103, 43, 254, 215, 171, 118, 202,
    130, 201, 125, 250, 89, 71, 240, 173, 212, 162, 175, 156, 164, 114, 192, 183, 253,
    147, 38, 54, 63, 247, 204, 52, 165, 229, 241, 113, 216, 49, 21, 4, 199, 35, 195,
    24, 150, 5, 154, 7, 18, 128, 226, 235, 39, 178, 117, 9, 131, 44, 26, 27, 110, 90,
    160, 82, 59, 214, 179, 41, 227, 47, 132, 83, 209, 0, 237, 32, 252, 177, 91, 106,
    203, 190, 57, 74, 76, 88, 207, 208, 239, 170, 251, 67, 77, 51, 133, 69, 249, 2,
    127, 80, 60, 159, 168, 81, 163, 64, 143, 146, 157, 56, 245, 188, 182, 218, 33, 16,
    255, 243, 210, 205, 12, 19, 236, 95, 151, 68, 23, 196, 167, 126, 61, 100, 93, 25,
    115, 96, 129, 79, 220, 34, 42, 144, 136, 70, 238, 184, 20, 222, 94, 11, 219, 224,
    50, 58, 10, 73, 6, 36, 92, 194, 211, 172, 98, 145, 149, 228, 121, 231, 200, 55,
    109, 141, 213, 78, 169, 108, 86, 244, 234, 101, 122, 174, 8, 186, 120, 37, 46, 28,
    166, 180, 198, 232, 221, 116, 31, 75, 189, 139, 138, 112, 62, 181, 102, 72, 3,
    246, 14, 97, 53, 87, 185, 134, 193, 29, 158, 225, 248, 152, 17, 105, 217, 142,
    148, 155, 30, 135, 233, 206, 85, 40, 223, 140, 161, 137, 13, 191, 230, 66, 104,
    65, 153, 45, 15, 176, 84, 187, 22>>

RSBOX ==
  <<82, 9, 106, 213, 48, 54, 165, 56, 191, 64, 163, 158, 129, 243, 215, 251, 124, 227,
    57, 130, 155, 47, 255, 135, 52, 142, 67, 68, 196, 222, 233, 203, 84, 123, 148, 50,
    166, 194, 35, 61, 238, 76, 149, 11, 66, 250, 195, 78, 8, 46, 161, 102, 40, 217,
    36, 178, 118, 91, 162, 73, 109, 139, 209, 37, 114, 248, 246, 100, 134, 104, 152,
    22, 212, 164, 92, 204, 93, 101, 182, 146, 108, 112, 72, 80, 253, 237, 185, 218,
    94, 21, 70, 87, 167, 141, 157, 132, 144, 216, 171, 0, 140, 188, 211, 10, 247, 228,
    88, 5, 184, 179, 69, 6, 208, 44, 30, 143, 202, 63, 15, 2, 193, 175, 189, 3, 1, 19,
    138, 107, 58, 145, 17, 65, 79, 103, 220, 234, 151, 242, 207, 206, 240, 180, 230,
    115, 150, 172, 116, 34, 231, 173, 53, 133, 226, 249, 55, 232, 28, 117, 223, 110,
    71, 241, 26, 113, 29, 41, 197, 137, 111, 183, 98, 14, 170, 24, 190, 27, 252, 86,
    62, 75, 198, 210, 121, 32, 154, 219, 192, 254, 120, 205, 90, 244, 31, 221, 168,
    51, 136, 7, 199, 49, 177, 18, 16, 89, 39, 128, 236, 95, 96, 81, 127, 169, 25, 181,
    74, 13, 45, 229, 122, 159, 147, 201, 156, 239, 160, 224, 59, 77, 174, 42, 245,
    176, 200, 235, 187, 60, 131, 83, 153, 97, 23, 43, 4, 126, 186, 119, 214, 38, 225,
    105, 20, 99, 85, 33, 12, 125>>

\* SubByte() and InvSubByte() with UAES_SBOX_CONFIG 0 and 2.
SubByteTable(x) == Byte(SBOX[Value(x) + 1])
SubByteComputed(x) == SboxAffineTransform(IF x = {} THEN {} ELSE Gf28Inv(x))

InvSubByteTable(x) == Byte(RSBOX[Value(x) + 1])
InvSubByteComputed(x) ==
  IF x = Byte(99) THEN {} ELSE Gf28Inv(RSboxAffineTransform(x))

\* The tables as functions.
Sbox == [x \in Bytes |-> SubByteTable(x)]
RSbox == [x \in Bytes |-> InvSubByteTable(x)]
=============================================================================
