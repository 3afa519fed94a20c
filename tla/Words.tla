-------------------------------- MODULE Words --------------------------------
(***************************************************************************)
(* 16-bit words: their fields, and what FabComp's ALU does with them.      *)
(***************************************************************************)
EXTENDS Integers

WORDS == 65536            \* 2^WORD_SIZE
Word  == 0..(WORDS - 1)

(* Words and their parts. *)

Field(w, high, low) == (w \div 2^low) % 2^(high - low + 1)
Bit(w, b)           == Field(w, b, b)
FlipBit(w, b)       == IF Bit(w, b) = 1 THEN w - 2^b ELSE w + 2^b

(* An R-type immediate word: a mode, and up to three registers. *)
Reg0(w) == Field(w, 11, 8)
Reg1(w) == Field(w, 7, 4)
Reg2(w) == Field(w, 3, 0)

(* The ALU. *)
Add(a, b) == (a + b) % WORDS
Sub(a, b) == (a - b) % WORDS
Not(a)    == WORDS - 1 - a
Both(a, b, p) == IF (a \div p) % 2 = 1 /\ (b \div p) % 2 = 1 THEN p ELSE 0
FourBits(a, b, p) ==
  Both(a, b, p) + Both(a, b, 2 * p) + Both(a, b, 4 * p) + Both(a, b, 8 * p)
And(a, b) == FourBits(a, b, 1) + FourBits(a, b, 16) + FourBits(a, b, 256) + FourBits(a, b, 4096)
Or(a, b)  == Not(And(Not(a), Not(b)))
Xor(a, b) == And(Or(a, b), Not(And(a, b)))
ShiftLeft(a, n)  == IF n > 15 THEN 0 ELSE (a * 2^n) % WORDS
ShiftRight(a, n) == IF n > 15 THEN 0 ELSE a \div 2^n
ShiftArith(a, n) ==
  LET s == IF n > 15 THEN 15 ELSE n
  IN  IF Bit(a, 15) = 0 THEN ShiftRight(a, s) ELSE Not(ShiftRight(Not(a), s))
=============================================================================
