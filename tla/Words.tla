-------------------------------- MODULE Words --------------------------------
(***************************************************************************)
(* The machine words the codecs compute with.  The code uses int32_t and   *)
(* uint32_t; here the width is a parameter: Half is 2^(w-1), so that TLC   *)
(* runs on words of a few bits and the theorems of LogicalCodecsProofs     *)
(* hold at every width, 32 included.                                       *)
(***************************************************************************)
EXTENDS Integers

CONSTANT Half

ASSUME HalfAssumption == Half \in Nat \ {0}

Word  == -Half .. Half - 1
UWord == 0 .. 2 * Half - 1

(***************************************************************************)
(* Two's complement reduction of the sum or the difference of two words,   *)
(* and of the double of one: what an add, a subtract and a shift by one    *)
(* leave in a register.                                                    *)
(***************************************************************************)
Wrap(x) == IF x >= Half THEN x - 2 * Half
           ELSE IF x < -Half THEN x + 2 * Half ELSE x

\* static_cast between the signed and the unsigned reading of one register.
ToUnsigned(x) == IF x < 0 THEN x + 2 * Half ELSE x
ToSigned(u)   == IF u >= Half THEN u - 2 * Half ELSE u

(***************************************************************************)
(* (delta << 1) ^ (delta >> 31): an exclusive or with 0 leaves the doubled *)
(* word, one with all ones complements it.                                 *)
(***************************************************************************)
Complement(u) == 2 * Half - 1 - u

ZigzagNoSign(d) == ToUnsigned(Wrap(2 * d))

Zigzag(d) == LET doubled == ToUnsigned(Wrap(2 * d))
             IN  IF d < 0 THEN Complement(doubled) ELSE doubled

(***************************************************************************)
(* (zigzagged >> 1) ^ -(zigzagged & 1) on an unsigned word: the shift      *)
(* brings in a zero.                                                       *)
(***************************************************************************)
UnzigzagArithmetic(u) ==
  LET halved == ToUnsigned(ToSigned(u) \div 2)
  IN  ToSigned(IF u % 2 = 1 THEN Complement(halved) ELSE halved)

Unzigzag(u) == LET halved == u \div 2
               IN  ToSigned(IF u % 2 = 1 THEN Complement(halved) ELSE halved)
(***************************************************************************)
(* Integer division of the language: the quotient is rounded to zero.      *)
(***************************************************************************)
TruncDiv(a, b) ==
  LET magnitude(x) == IF x < 0 THEN -x ELSE x
      quotient     == magnitude(a) \div magnitude(b)
  IN  IF (a < 0) = (b < 0) THEN quotient ELSE -quotient
=============================================================================
