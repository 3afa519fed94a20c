---------------------------- MODULE FabCompProofs ----------------------------
(***************************************************************************)
(* For every microprogram, program and data: the registers of the machine  *)
(* keep their widths, and its steps are steps of the sequencer alone.      *)
(*                                                                         *)
(* First the data path: a control point that no accessor refuses leaves    *)
(* words in registers.  Each NewX of DataPath is a lemma; those that       *)
(* select a register of a bank rely on Fault, which says when the          *)
(* selection makes sense.  Then the machine that takes such steps.         *)
(*                                                                         *)
(* The provers are slow with large numbers: Word is used through WordIs    *)
(* and WordIsInt, with its bound unexpanded.                               *)
(***************************************************************************)
EXTENDS FabComp, TLAPS

-----------------------------------------------------------------------------
(* What the ALU and the fields of a word return fits where it goes. *)

\* Membership of an interval, with a bound that the provers need not compute with.
LEMMA InRange == \A a, n \in Int : a \in 0..n <=> 0 <= a /\ a <= n
BY SMT

\* What is needed of the number of words.
LEMMA Bounds == WORDS - 1 \in Int /\ 255 <= WORDS - 1 /\ WORDS \in Nat \ {0}
BY DEF WORDS

\* A word is a number of 16 bits.
LEMMA WordIs == \A a \in Int : a \in Word <=> 0 <= a /\ a <= WORDS - 1
BY Bounds, InRange, Zenon DEF Word

\* Words are numbers.
LEMMA WordIsInt == Word \subseteq Int
BY Bounds DEF Word

\* A byte is a word.
LEMMA BytesAreWords == 0..255 \subseteq Word
<1>1. ASSUME NEW a \in 0..255 PROVE a \in Int /\ 0 <= a /\ a <= WORDS - 1
  <2>1. a \in Int /\ 0 <= a /\ a <= 255
    OBVIOUS
  <2> QED BY <2>1, Bounds
<1> QED BY <1>1, WordIs

\* A number below a word is one.
LEMMA SmallerIsWord == \A a \in Word : 0..a \subseteq Word
<1>1. ASSUME NEW a \in Word, NEW b \in 0..a PROVE b \in Word
  <2>1. a \in Int /\ a <= WORDS - 1
    BY WordIs, WordIsInt
  <2>2. b \in Int /\ 0 <= b /\ b <= a
    BY <2>1
  <2>3. b <= WORDS - 1
    BY <2>1, <2>2, Bounds
  <2> QED BY <2>2, <2>3, WordIs
<1> QED BY <1>1

\* What the ALU truncates is a word.
LEMMA Wraps == \A a \in Int : a % WORDS \in Word
<1>1. \A a \in Int, n \in Nat \ {0} : a % n \in 0..(n - 1)
  OBVIOUS
<1> QED BY <1>1, Bounds DEF Word

\* A quotient is not above the dividend.
LEMMA Halves == \A w, m : w \in Nat /\ m \in Nat \ {0} => w \div m \in 0..w
OBVIOUS

\* Words are not negative.
LEMMA WordIsNat == Word \subseteq Nat
BY WordIs, WordIsInt

\* The weights of the bits of a word are positive numbers.
LEMMA PowerOfTwo == \A n \in 0..15 : 2^n \in Nat \ {0}
<1> SUFFICES ASSUME NEW n \in 0..15 PROVE 2^n \in Nat \ {0}
  OBVIOUS
<1>0. CASE n = 0 BY <1>0
<1>1. CASE n = 1 BY <1>1
<1>2. CASE n = 2 BY <1>2
<1>3. CASE n = 3 BY <1>3
<1>4. CASE n = 4 BY <1>4
<1>5. CASE n = 5 BY <1>5
<1>6. CASE n = 6 BY <1>6
<1>7. CASE n = 7 BY <1>7
<1>8. CASE n = 8 BY <1>8
<1>9. CASE n = 9 BY <1>9
<1>10. CASE n = 10 BY <1>10
<1>11. CASE n = 11 BY <1>11
<1>12. CASE n = 12 BY <1>12
<1>13. CASE n = 13 BY <1>13
<1>14. CASE n = 14 BY <1>14
<1>15. CASE n = 15 BY <1>15
<1> QED BY <1>0, <1>1, <1>2, <1>3, <1>4, <1>5, <1>6, <1>7, <1>8, <1>9, <1>10,
           <1>11, <1>12, <1>13, <1>14, <1>15

-----------------------------------------------------------------------------
(* Parts of a word. *)

\* A field of four bits names a register.
LEMMA RegistersFit == \A w \in Word : Reg0(w) \in 0..15 /\ Reg1(w) \in 0..15 /\ Reg2(w) \in 0..15
<1> SUFFICES ASSUME NEW w \in Word PROVE Reg0(w) \in 0..15 /\ Reg1(w) \in 0..15 /\ Reg2(w) \in 0..15
  OBVIOUS
<1>1. w \in Nat
  BY WordIsNat
<1>2. Reg0(w) = (w \div 256) % 16 /\ Reg1(w) = (w \div 16) % 16 /\ Reg2(w) = (w \div 1) % 16
  BY DEF Reg0, Reg1, Reg2, Field
<1> HIDE DEF Word
<1>3. w \div 256 \in Nat /\ w \div 16 \in Nat /\ w \div 1 \in Nat
  BY <1>1
<1>4. \A q \in Nat : q % 16 \in 0..15
  OBVIOUS
<1> QED BY <1>2, <1>3, <1>4

\* The opcode field of an instruction word is a byte.
LEMMA HighByteFits == \A w \in Word : w \div 256 \in 0..255
<1> SUFFICES ASSUME NEW w \in Word PROVE w \div 256 \in 0..255
  OBVIOUS
<1>1. w \in Int /\ 0 <= w /\ w < 65536
  BY WordIs, WordIsInt DEF WORDS
<1> QED BY <1>1

\* So are its low eight bits, and its low four bits name a register.
LEMMA LowPartsFit == \A w \in Word : w % 256 \in 0..255 /\ w % 16 \in 0..15
BY WordIsNat

\* A flipped bit stays below a bound that is a multiple of twice the bit.
LEMMA FlipsFit ==
  /\ \A b \in 0..255 : FlipBit(b, 2) \in 0..255 /\ FlipBit(b, 3) \in 0..255
  /\ \A c \in 0..31 : FlipBit(c, 2) \in 0..31
  /\ \A k \in 0..3 : FlipBit(k, 4) \in 16..19
<1>1. \A w : Bit(w, 2) = (w \div 4) % 2 /\ Bit(w, 3) = (w \div 8) % 2 /\ Bit(w, 4) = (w \div 16) % 2
  BY DEF Bit, Field
<1>2. /\ \A w : FlipBit(w, 2) = IF (w \div 4) % 2 = 1 THEN w - 4 ELSE w + 4
      /\ \A w : FlipBit(w, 3) = IF (w \div 8) % 2 = 1 THEN w - 8 ELSE w + 8
      /\ \A w : FlipBit(w, 4) = IF (w \div 16) % 2 = 1 THEN w - 16 ELSE w + 16
  BY <1>1 DEF FlipBit
<1>3. ASSUME NEW b \in 0..255 PROVE FlipBit(b, 2) \in 0..255 /\ FlipBit(b, 3) \in 0..255
  BY <1>2
<1>4. ASSUME NEW c \in 0..31 PROVE FlipBit(c, 2) \in 0..31
  BY <1>2
<1>5. ASSUME NEW k \in 0..3 PROVE FlipBit(k, 4) \in 16..19
  BY <1>2
<1> QED BY <1>3, <1>4, <1>5

-----------------------------------------------------------------------------
(* The ALU. *)

\* Sums and differences wrap around.
LEMMA ArithFits == \A a, b \in Word : Add(a, b) \in Word /\ Sub(a, b) \in Word
<1> SUFFICES ASSUME NEW a \in Word, NEW b \in Word PROVE Add(a, b) \in Word /\ Sub(a, b) \in Word
  OBVIOUS
<1>1. a + b \in Int /\ a - b \in Int
  BY WordIsInt
<1> QED BY <1>1, Wraps DEF Add, Sub

\* The complement of a word is a word.
LEMMA NotFits == \A a \in Word : Not(a) \in Word
<1> SUFFICES ASSUME NEW a \in Word PROVE Not(a) \in Word
  OBVIOUS
<1> DEFINE last == WORDS - 1
<1>1. last \in Int /\ a \in Int /\ 0 <= a /\ a <= last
  BY WordIs, WordIsInt, Bounds
<1> HIDE DEF last
<1>2. last - a \in Int /\ 0 <= last - a /\ last - a <= last
  BY <1>1
<1>3. WORDS - 1 - a \in Word
  BY <1>2, WordIs DEF last
<1> QED BY <1>3 DEF Not

\* One bit of a conjunction.
LEMMA BothFits == ASSUME NEW a, NEW b, NEW p \in Nat PROVE Both(a, b, p) \in 0..p
BY DEF Both

\* Four bits of a conjunction.
LEMMA FourFits == ASSUME NEW a, NEW b, NEW p \in Nat PROVE FourBits(a, b, p) \in 0..(15 * p)
<1> DEFINE x == Both(a, b, p)
           y == Both(a, b, 2 * p)
           z == Both(a, b, 4 * p)
           t == Both(a, b, 8 * p)
<1>1. x \in 0..p /\ y \in 0..(2 * p) /\ z \in 0..(4 * p) /\ t \in 0..(8 * p)
  BY BothFits
<1>2. FourBits(a, b, p) = x + y + z + t
  BY DEF FourBits
<1> HIDE DEF x, y, z, t
<1> QED BY <1>1, <1>2

\* All of them: sixteen bits make a word, whatever the operands are.
LEMMA AndFits == ASSUME NEW a, NEW b PROVE And(a, b) \in Word
<1> DEFINE top == 4096
           x == FourBits(a, b, 1)
           y == FourBits(a, b, 16)
           z == FourBits(a, b, 256)
           t == FourBits(a, b, top)
<1>1. top \in Nat /\ 4095 < top /\ WORDS - 1 = 16 * top - 1
  BY DEF WORDS
<1>2. And(a, b) = x + y + z + t
  BY DEF And
<1> HIDE DEF top
<1>n. 1 \in Nat /\ 16 \in Nat /\ 256 \in Nat
  BY SMT
<1>3. x \in 0..(15 * 1)
  BY <1>n, FourFits, Zenon
<1>4. y \in 0..(15 * 16)
  BY <1>n, FourFits, Zenon
<1>5. z \in 0..(15 * 256)
  BY <1>n, FourFits, Zenon
<1>6. t \in 0..(15 * top)
  BY <1>1, FourFits
<1> HIDE DEF x, y, z, t
<1>7. x + y + z \in Nat /\ x + y + z <= 4095
  <2>1. x \in Nat /\ x <= 15 /\ y \in Nat /\ y <= 240
    BY <1>3, <1>4
  <2>2. z \in Nat /\ z <= 3840
    BY <1>5
  <2> QED BY <2>1, <2>2
<1>8. t \in Nat /\ t <= 15 * top
  BY <1>1, <1>6
<1> DEFINE w == x + y + z
<1> HIDE DEF w
<1>9. w + t \in Int /\ 0 <= w + t /\ w + t <= 16 * top - 1
  <2>1. w \in Nat /\ w <= 4095
    BY <1>7 DEF w
  <2> QED BY <2>1, <1>1, <1>8
<1>10. w + t \in Word
  BY <1>1, <1>9, WordIs
<1> QED BY <1>2, <1>10 DEF w

\* The other two operations are made of it and of the complement.
LEMMA LogicFits == \A a, b \in Word : And(a, b) \in Word /\ Or(a, b) \in Word /\ Xor(a, b) \in Word
<1>1. \A a, b : Or(a, b) \in Word
  BY AndFits, NotFits, Zenon DEF Or
<1>2. \A a, b : Xor(a, b) \in Word
  BY AndFits, Zenon DEF Xor
<1> QED BY <1>1, <1>2, AndFits

\* Shifts by any number of places, the word's width and more included.
LEMMA ShiftsFit ==
  \A a, n \in Word :
    ShiftLeft(a, n) \in Word /\ ShiftRight(a, n) \in Word /\ ShiftArith(a, n) \in Word
<1>0. 0 \in Word /\ 15 \in Word
  BY BytesAreWords
<1>n. ASSUME NEW n \in Word, ~(n > 15) PROVE 2^n \in Nat \ {0}
  <2>1. n \in Int /\ 0 <= n /\ n <= 15
    BY <1>n, WordIsNat
  <2>2. n \in 0..15
    BY <2>1
  <2> QED BY <2>2, PowerOfTwo
<1>1. ASSUME NEW a \in Word, NEW n \in Word PROVE ShiftLeft(a, n) \in Word
  <2>1. CASE n > 15
    BY <2>1, <1>0 DEF ShiftLeft
  <2>2. CASE ~(n > 15)
    <3>1. a * 2^n \in Int
      BY <2>2, <1>n, WordIsInt
    <3> QED BY <3>1, <2>2, Wraps DEF ShiftLeft
  <2> QED BY <2>1, <2>2
<1>2. ASSUME NEW a \in Word, NEW n \in Word PROVE ShiftRight(a, n) \in Word
  <2>1. CASE n > 15
    BY <2>1, <1>0 DEF ShiftRight
  <2>2. CASE ~(n > 15)
    <3>1. a \div 2^n \in 0..a
      BY <2>2, <1>n, WordIsNat, Halves
    <3> QED BY <3>1, <2>2, SmallerIsWord DEF ShiftRight
  <2> QED BY <2>1, <2>2
<1>3. ASSUME NEW a \in Word, NEW n \in Word PROVE ShiftArith(a, n) \in Word
  <2> DEFINE s == IF n > 15 THEN 15 ELSE n
  <2>1. s \in Word
    BY <1>0
  <2>2. ShiftArith(a, n) = IF Bit(a, 15) = 0 THEN ShiftRight(a, s) ELSE Not(ShiftRight(Not(a), s))
    BY DEF ShiftArith
  <2> HIDE DEF s
  <2> QED BY <2>1, <2>2, <1>2, NotFits
<1> QED BY <1>1, <1>2, <1>3

-----------------------------------------------------------------------------
(* Operands and control points. *)

\* The constants that control points and the ALU put on a bus.
LEMMA Constants == 0 \in Word /\ 1 \in Word
BY BytesAreWords

\* The last two bits of a control word name one of four slots.
LEMMA SlotIs == DataTypeOK => \A n \in OpndId : Slot(n) \in 0..3
<1> SUFFICES ASSUME DataTypeOK, NEW n \in OpndId PROVE Slot(n) \in 0..3
  OBVIOUS
<1>1. cntl[n] \in 0..31
  BY DEF DataTypeOK, Control
<1> QED BY <1>1 DEF Slot

\* An operand that there is, is a word.
LEMMA OperandFits ==
  ASSUME DataTypeOK, NEW n \in OpndId, ~NoOperand(n)
  PROVE  Operand(n) \in Word
<1>1. cntl[n] \in 0..31 /\ Slot(n) \in 0..3
  BY SlotIs DEF DataTypeOK, Control
<1>2. CASE IsRegister(n)
  <2>1. cntl[n] \in RegId
    BY <1>1, <1>2 DEF IsRegister, RegId
  <2>2. reg[cntl[n]] \in Word
    BY <2>1 DEF DataTypeOK
  <2> QED BY <1>2, <2>2 DEF Operand
<1>3. CASE ~IsRegister(n) /\ Slot(n) # 3
  <2>1. Slot(n) \in OpndId
    BY <1>1, <1>3 DEF OpndId
  <2>2. addr[Slot(n)] \in Word /\ val[Slot(n)] \in Word
    BY <2>1 DEF DataTypeOK
  <2> QED BY <1>3, <2>2 DEF Operand
<1>4. CASE ~IsRegister(n) /\ Slot(n) = 3
  <2>1. mdr \in Word
    BY DEF DataTypeOK
  <2> QED BY <1>4, <2>1 DEF Operand, NoOperand
<1> QED BY <1>2, <1>3, <1>4

\* Memory holds words everywhere.
LEMMA ReadFits == DataTypeOK => \A a : Read(a) \in Word
BY Constants DEF DataTypeOK, IsMemory, Read

\* Where there is no fault, there are the operands and the registers of the
\* banks that the control point selects.
LEMMA Unharmed ==
  ASSUME DataTypeOK, NEW w, Fault(w) = "none"
  PROVE  /\ w \in IndexedWords => i \in OpndId
         /\ w \in OneOperandWords => Operand(1) \in Word
         /\ w \in TwoOperandWords => Operand(1) \in Word /\ Operand(2) \in Word
         /\ w = "PC <- op0" => Operand(0) \in Word
         /\ w = "Mem[Addr[cntl[0](3..0)]] <- MDR" => Slot(0) \in OpndId
<1>0. \A k \in 0..3 : k # 3 => k \in OpndId
  BY DEF OpndId
<1>1. ~Strays(w) /\ ~Fails(w)
  BY DEF Fault
<1>2. 0 \in OpndId /\ 1 \in OpndId /\ 2 \in OpndId /\ i \in 0..3
  BY DEF OpndId, DataTypeOK
<1>3. w \in IndexedWords => i \in OpndId
  BY <1>1, <1>2, <1>0, Zenon DEF Strays
<1>4. \A n \in OperandsOf(w) : n \in OpndId /\ Operand(n) \in Word
  <2>1. \A n \in OperandsOf(w) : n \in OpndId /\ ~NoOperand(n)
    BY <1>1 DEF Fails, OperandsOf
  <2> QED BY <2>1, OperandFits
<1>5. w \in OneOperandWords => 1 \in OperandsOf(w)
  BY <1>2 DEF OperandsOf
<1>6. w \in TwoOperandWords => 1 \in OperandsOf(w) /\ 2 \in OperandsOf(w)
  BY <1>2 DEF OperandsOf
<1>7. w = "PC <- op0" => 0 \in OperandsOf(w)
  BY <1>2 DEF OperandsOf
<1>8. w = "Mem[Addr[cntl[0](3..0)]] <- MDR" => Slot(0) \in OpndId
  <2>1. w = "Mem[Addr[cntl[0](3..0)]] <- MDR" => Slot(0) # 3
    BY <1>1, Zenon DEF Strays, Fails
  <2>2. Slot(0) \in 0..3
    BY <1>2, SlotIs
  <2> QED BY <2>1, <2>2, <1>0, Zenon
<1> QED BY <1>3, <1>4, <1>5, <1>6, <1>7, <1>8

\* MDR, which takes the results of all operations, stays a word.
LEMMA NewMdrFits ==
  ASSUME DataTypeOK, NEW w, Fault(w) = "none"
  PROVE  NewMdr(w) \in Word
<1>1. mdr \in Word /\ tmp % 256 \in Word /\ \A a : Read(a) \in Word
  BY ReadFits, LowPartsFit, BytesAreWords, ZenonT(40) DEF DataTypeOK
<1>2. w \in OneOperandWords => /\ Operand(1) \in Word /\ Not(Operand(1)) \in Word
                               /\ \A u \in Word : Sub(u, Operand(1)) \in Word
  BY Unharmed, NotFits, ArithFits
<1>3. Sub(0, 0) \in Word /\ ShiftRight(mdr, 8) \in Word
  BY <1>1, ArithFits, ShiftsFit, Constants, BytesAreWords
<1>4. w = "MDR <- 0 - op1" =>
        Sub(0, IF cntl[1] >= 16 /\ ~IsAddress(1) /\ Slot(1) = 3 THEN 0 ELSE Operand(1)) \in Word
  <2>1. w = "MDR <- 0 - op1" => w \in OneOperandWords
    BY DEF OneOperandWords
  <2> QED BY <1>2, <1>3, <2>1, Constants
<1>5. w \in TwoOperandWords =>
        /\ And(Operand(1), Operand(2)) \in Word /\ Or(Operand(1), Operand(2)) \in Word
        /\ Xor(Operand(1), Operand(2)) \in Word
        /\ Add(Operand(1), Operand(2)) \in Word /\ Sub(Operand(1), Operand(2)) \in Word
        /\ Sub(Operand(2), Operand(1)) \in Word
        /\ ShiftLeft(Operand(1), Operand(2)) \in Word /\ ShiftRight(Operand(1), Operand(2)) \in Word
        /\ ShiftArith(Operand(1), Operand(2)) \in Word
  BY Unharmed, LogicFits, ArithFits, ShiftsFit
<1>6. w \in IndexedWords => /\ ShiftLeft(reg[Reg1(val[i])], mdr) \in Word
                            /\ ShiftLeft(reg[Reg2(val[i])], mdr) \in Word
  <2>1. ASSUME i \in OpndId
        PROVE  reg[Reg1(val[i])] \in Word /\ reg[Reg2(val[i])] \in Word
    BY <2>1, RegistersFit DEF DataTypeOK, RegId
  <2> QED BY <1>1, <2>1, Unharmed, ShiftsFit
<1>7. /\ w = "MDR <- Reg[Val[i](reg1)] << MDR" => w \in IndexedWords
      /\ w = "MDR <- Reg[Val[i](reg2)] << MDR" => w \in IndexedWords
  BY DEF IndexedWords
<1>8. /\ w = "MDR <- op1" => w \in OneOperandWords
      /\ w = "MDR <- ~ op1" => w \in OneOperandWords
  BY DEF OneOperandWords
<1>9. /\ w = "MDR <- op1 & op2" => w \in TwoOperandWords
      /\ w = "MDR <- op1 + op2" => w \in TwoOperandWords
      /\ w = "MDR <- op1 - op2" => w \in TwoOperandWords
      /\ w = "MDR <- op1 << op2" => w \in TwoOperandWords
      /\ w = "MDR <- op1 >> op2" => w \in TwoOperandWords
      /\ w = "MDR <- op1 >>> op2" => w \in TwoOperandWords
      /\ w = "MDR <- op1 ^ op2" => w \in TwoOperandWords
      /\ w = "MDR <- op1 | op2" => w \in TwoOperandWords
      /\ w = "MDR <- op2 - op1" => w \in TwoOperandWords
  BY DEF TwoOperandWords
<1> QED BY <1>1, <1>2, <1>3, <1>4, <1>5, <1>6, <1>7, <1>8, <1>9, Constants, ZenonT(60) DEF NewMdr

\* The words that the banks of registers hold, at the indices in use.
LEMMA HeldFits ==
  ASSUME DataTypeOK, NEW w, Fault(w) = "none"
  PROVE  /\ w \in IndexedWords => /\ addr[i] \in Word /\ val[i] \in Word
                                  /\ Reg0(val[i]) \in RegId /\ reg[Reg0(val[i])] \in Word
                                  /\ Reg1(val[i]) \in RegId /\ reg[Reg1(val[i])] \in Word
         /\ reg[14] \in Word /\ reg[15] \in Word /\ reg[Reg0(mdr)] \in Word
<1>1. 14 \in RegId /\ 15 \in RegId
  BY DEF RegId
<1>2. Reg0(mdr) \in RegId
  BY RegistersFit DEF DataTypeOK, RegId
<1>3. \A k \in OpndId : addr[k] \in Word /\ val[k] \in Word
  BY DEF DataTypeOK
<1>4. \A k \in RegId : reg[k] \in Word
  BY DEF DataTypeOK
<1>5. \A u \in Word : Reg0(u) \in RegId /\ Reg1(u) \in RegId
  BY RegistersFit DEF RegId
<1> QED BY <1>1, <1>2, <1>3, <1>4, <1>5, Unharmed

\* The addresses of operands stay words.
LEMMA NewAddrFits ==
  ASSUME DataTypeOK, NEW w, Fault(w) = "none"
  PROVE  NewAddr(w) \in [OpndId -> Word]
<1> DEFINE Set(k, u) == [addr EXCEPT ![k] = u]
<1>1. addr \in [OpndId -> Word] /\ mdr \in Word /\ pc \in Word
  BY DEF DataTypeOK
<1>2. \A k : \A u \in Word : Set(k, u) \in [OpndId -> Word]
  BY <1>1
<1>3. \A k : Set(k, Read(reg[14])) \in [OpndId -> Word] /\ Set(k, Read(pc)) \in [OpndId -> Word]
  BY <1>2, ReadFits
<1>4. Set(i, mdr) \in [OpndId -> Word] /\ Set(i, reg[Reg0(mdr)]) \in [OpndId -> Word]
  BY <1>1, <1>2, HeldFits
<1>5. w \in IndexedWords =>
        /\ Set(i, Add(addr[i], mdr)) \in [OpndId -> Word]
        /\ Set(i, Add(addr[i], pc)) \in [OpndId -> Word]
        /\ Set(i, Add(addr[i], reg[Reg0(val[i])])) \in [OpndId -> Word]
        /\ Set(i, reg[Reg0(val[i])]) \in [OpndId -> Word]
        /\ Set(i, ShiftLeft(reg[Reg0(val[i])], mdr)) \in [OpndId -> Word]
        /\ Set(i, ShiftLeft(reg[Reg1(val[i])], mdr)) \in [OpndId -> Word]
  BY <1>1, <1>2, HeldFits, ArithFits, ShiftsFit
<1>6. /\ w = "Addr[i] <- Addr[i] + MDR" => w \in IndexedWords
      /\ w = "Addr[i] <- Addr[i] + PC" => w \in IndexedWords
      /\ w = "Addr[i] <- Reg[Val[i](reg0)]" => w \in IndexedWords
      /\ w = "Addr[i] <- Reg[Val[i](reg0)] + Addr[i]" => w \in IndexedWords
      /\ w = "Addr[i] <- Reg[Val[i](reg0)] << MDR" => w \in IndexedWords
      /\ w = "Addr[i] <- Reg[Val[i](reg1)] << MDR" => w \in IndexedWords
  BY DEF IndexedWords
<1> QED BY <1>1, <1>3, <1>4, <1>5, <1>6, ZenonT(60) DEF NewAddr

\* The values of operands stay words.
LEMMA NewValFits ==
  ASSUME DataTypeOK, NEW w
  PROVE  NewVal(w) \in [OpndId -> Word]
<1> DEFINE Set(k, u) == [val EXCEPT ![k] = u]
<1>1. val \in [OpndId -> Word] /\ mdr \in Word
  BY DEF DataTypeOK
<1>2. \A k : \A u \in Word : Set(k, u) \in [OpndId -> Word]
  BY <1>1
<1>3. \A k, a : Set(k, mdr) \in [OpndId -> Word] /\ Set(k, Read(a)) \in [OpndId -> Word]
  BY <1>1, <1>2, ReadFits
<1> QED BY <1>1, <1>3, Zenon DEF NewVal

\* The general-purpose registers stay words.
LEMMA NewRegFits ==
  ASSUME DataTypeOK, NEW w, Fault(w) = "none"
  PROVE  NewReg(w) \in [RegId -> Word]
<1> DEFINE Set(k, u) == [reg EXCEPT ![k] = u]
<1>1. reg \in [RegId -> Word] /\ mdr \in Word /\ pc \in Word
  BY DEF DataTypeOK
<1>2. \A k : \A u \in Word : Set(k, u) \in [RegId -> Word]
  BY <1>1
<1>3. /\ Set(14, Add(reg[14], 1)) \in [RegId -> Word]
      /\ Set(14, Sub(reg[14], 1)) \in [RegId -> Word]
      /\ Set(15, pc) \in [RegId -> Word]
      /\ Set(cntl[0], mdr) \in [RegId -> Word]
  BY <1>1, <1>2, HeldFits, ArithFits, Constants
<1>4. w \in IndexedWords =>
        /\ Set(Reg0(val[i]), Add(reg[Reg0(val[i])], 1)) \in [RegId -> Word]
        /\ Set(Reg0(val[i]), Sub(reg[Reg0(val[i])], 1)) \in [RegId -> Word]
  BY <1>2, HeldFits, ArithFits, Constants
<1>5. /\ w = "Reg[Val[i](reg0)] <- Reg[Val[i](reg0)] + 1" => w \in IndexedWords
      /\ w = "Reg[Val[i](reg0)] <- Reg[Val[i](reg0)] - 1" => w \in IndexedWords
  BY DEF IndexedWords
<1> QED BY <1>1, <1>3, <1>4, <1>5, Zenon DEF NewReg

\* Memory stays one of words at word addresses.
LEMMA NewMemFits ==
  ASSUME DataTypeOK, NEW w, Fault(w) = "none"
  PROVE  IsMemory(NewMem(w))
<1>1. IsMemory(mem) /\ mdr \in Word
  BY DEF DataTypeOK
<1>2. ASSUME NEW a \in Word, NEW u \in Word PROVE IsMemory(Write(a, u))
  BY <1>1 DEF IsMemory, Write
<1>3. IsMemory(Write(reg[14], reg[15]))
  BY <1>2, HeldFits
<1>4. w = "Mem[Addr[cntl[0](3..0)]] <- MDR" => IsMemory(Write(addr[Slot(0)], mdr))
  BY <1>1, <1>2, Unharmed DEF DataTypeOK
<1> QED BY <1>1, <1>3, <1>4, Zenon DEF NewMem

\* The program counter wraps around.
LEMMA NewPcFits ==
  ASSUME DataTypeOK, NEW w, Fault(w) = "none"
  PROVE  NewPc(w) \in Word
<1>1. pc \in Word /\ Add(pc, 1) \in Word
  BY ArithFits, Constants DEF DataTypeOK
<1> QED BY <1>1, Unharmed, Zenon DEF NewPc

\* The opcode stays a byte when its bits are flipped.
LEMMA NewOpcFits ==
  ASSUME DataTypeOK, NEW w
  PROVE  NewOpc(w) \in 0..255
<1>0. opc \in 0..255
  BY DEF DataTypeOK
<1>1. FlipBit(opc, 2) \in 0..255 /\ FlipBit(opc, 3) \in 0..255
  BY <1>0, FlipsFit, ZenonT(40)
<1>2. Read(pc) \div 256 \in 0..255
  BY ReadFits, HighByteFits
<1> QED BY <1>0, <1>1, <1>2, Zenon DEF NewOpc

\* Control words that are put together bit by bit keep five bits.
LEMMA NewCntlFits ==
  ASSUME DataTypeOK, NEW w, Fault(w) = "none"
  PROVE  NewCntl(w) \in [OpndId -> Control]
<1> DEFINE Set(k, u) == [cntl EXCEPT ![k] = u]
<1>1. cntl \in [OpndId -> Control] /\ utmp \in Control
  BY DEF DataTypeOK
<1>2. \A k : \A u \in Control : Set(k, u) \in [OpndId -> Control]
  BY <1>1
<1>3. 0 \in OpndId /\ 1 \in OpndId
  BY DEF OpndId
<1>4. 16 \in Control /\ 17 \in Control /\ 19 \in Control /\ 20 \in Control
  BY DEF Control
<1>5. \A k \in OpndId : FlipBit(cntl[k], 2) \in Control
  BY <1>1, FlipsFit, ZenonT(40) DEF Control
<1>6. \A k : /\ Set(k, 16) \in [OpndId -> Control] /\ Set(k, 17) \in [OpndId -> Control]
             /\ Set(k, 19) \in [OpndId -> Control] /\ Set(k, 20) \in [OpndId -> Control]
             /\ Set(k, cntl[0]) \in [OpndId -> Control] /\ Set(k, cntl[1]) \in [OpndId -> Control]
             /\ Set(k, utmp) \in [OpndId -> Control]
  BY <1>1, <1>2, <1>3, <1>4
<1>7. Set(1, FlipBit(cntl[1], 2)) \in [OpndId -> Control]
  BY <1>2, <1>3, <1>5
<1>8. Set(i, regshift % 16) \in [OpndId -> Control]
  <2>1. regshift % 16 \in Control
    BY LowPartsFit DEF DataTypeOK, Control
  <2> QED BY <1>2, <2>1
<1>9. w \in IndexedWords =>
        /\ Set(i, FlipBit(i, 4)) \in [OpndId -> Control]
        /\ Set(i, FlipBit(FlipBit(i, 4), 2)) \in [OpndId -> Control]
        /\ Set(i, FlipBit(cntl[i], 2)) \in [OpndId -> Control]
  <2>1. FlipBit(i, 4) \in Control /\ FlipBit(FlipBit(i, 4), 2) \in Control
    <3>1. FlipBit(i, 4) \in 16..19
      BY FlipsFit, ZenonT(40) DEF DataTypeOK
    <3>2. FlipBit(i, 4) \in 0..31
      BY <3>1
    <3> QED BY <3>2, FlipsFit, ZenonT(40) DEF Control
  <2> QED BY <2>1, <1>2, <1>5, Unharmed
<1>10. /\ w = "cntl[i](2) <- 0" => w \in IndexedWords
       /\ w = "cntl[i] <- 10000 | i" => w \in IndexedWords
       /\ w = "cntl[i] <- 10100 | i" => w \in IndexedWords
  BY DEF IndexedWords
<1> QED BY <1>1, <1>6, <1>7, <1>8, <1>9, <1>10, ZenonT(60) DEF NewCntl, CntlAfter

\* A control point that no accessor refuses leaves each register as wide as it was.
LEMMA TransferFits ==
  ASSUME DataTypeOK, NEW w, Fault(w) = "none", Transfer(w)
  PROVE  DataTypeOK'
<1>1. mdr' \in Word /\ pc' \in Word
  BY NewMdrFits, NewPcFits DEF Transfer
<1>2. addr' \in [OpndId -> Word] /\ val' \in [OpndId -> Word]
  BY NewAddrFits, NewValFits DEF Transfer
<1>3. reg' \in [RegId -> Word] /\ IsMemory(mem')
  BY NewRegFits, NewMemFits DEF Transfer
<1>4. cntl' \in [OpndId -> Control]
  BY NewCntlFits DEF Transfer
<1>5. opc' \in 0..255 /\ modes' \in 0..255
  <2>1. Read(pc) % 256 \in 0..255
    BY ReadFits, LowPartsFit
  <2> QED BY <2>1, NewOpcFits DEF Transfer, DataTypeOK
<1>6. tmp' \in Word /\ utmp' \in Control /\ out' \in Word
  <2>1. cntl[2] \in Control /\ mdr \in Word
    BY DEF DataTypeOK, OpndId
  <2> QED BY <2>1 DEF Transfer, DataTypeOK
<1>7. i' \in 0..3
  <2>1. i \in 0..3
    BY DEF DataTypeOK
  <2>2. 0 \in 0..3 /\ (i + 1) % 4 \in 0..3
    BY <2>1
  <2>3. i' = CASE w = "i <- 00" -> 0 [] w = "i <- i + 1" -> (i + 1) % 4 [] OTHER -> i
    BY Zenon DEF Transfer
  <2> QED BY <2>1, <2>2, <2>3, Zenon
<1>8. regshift' \in Word
  <2>1. mdr \in Word /\ regshift \in Word
    BY DEF DataTypeOK
  <2>2. ShiftRight(regshift, 8) \in Word
    BY <2>1, BytesAreWords, ShiftsFit
  <2>3. regshift' = CASE w = "regshift <- MDR" -> mdr
                      [] w = "regshift <- regshift >> 8" -> ShiftRight(regshift, 8)
                      [] OTHER -> regshift
    BY Zenon DEF Transfer
  <2> QED BY <2>1, <2>2, <2>3, Zenon
<1> QED BY <1>1, <1>2, <1>3, <1>4, <1>5, <1>6, <1>7, <1>8, Zenon DEF DataTypeOK

-----------------------------------------------------------------------------
(* The machine. *)

\* The machine starts with registers that fit.
LEMMA InitFits == Init => DataTypeOK
<1> SUFFICES ASSUME Init PROVE DataTypeOK
  OBVIOUS
<1>1. PICK s \in Starts :
        /\ mem = s.mem /\ reg = s.reg /\ pc = s.pc
        /\ mdr = s.left.word /\ tmp = s.left.word /\ regshift = s.left.word
        /\ val = [n \in OpndId |-> s.left.word]
        /\ addr = [n \in OpndId |-> s.left.word]
        /\ cntl = s.left.cntl
        /\ i = s.left.i
  BY DEF Init
<1>2. /\ IsMemory(s.mem) /\ s.reg \in [RegId -> Word] /\ s.pc \in Word
      /\ s.left.word \in Word /\ s.left.cntl \in [OpndId -> Control]
      /\ s.left.i \in 0..3
  BY StartsAssumption
<1>3. utmp = 0 /\ modes = 0 /\ out = 0 /\ opc = 0
  BY DEF Init, CU!Init
<1>4. val \in [OpndId -> Word] /\ addr \in [OpndId -> Word]
  BY <1>1, <1>2
<1>5. mdr \in Word /\ tmp \in Word /\ regshift \in Word /\ pc \in Word
  BY <1>1, <1>2
<1>6. reg \in [RegId -> Word] /\ IsMemory(mem) /\ cntl \in [OpndId -> Control] /\ i \in 0..3
  BY <1>1, <1>2
<1>7. utmp \in Control /\ modes \in 0..255 /\ opc \in 0..255 /\ out \in Word
  BY <1>3, Constants DEF Control
<1> QED BY <1>4, <1>5, <1>6, <1>7, Zenon DEF DataTypeOK

\* So they do while the sequencer moves on without them.
LEMMA StaysFits == DataTypeOK /\ UNCHANGED dataVars => DataTypeOK'
BY Zenon DEF DataTypeOK, dataVars

\* And each microinstruction leaves them so.
LEMMA StepFits == DataTypeOK /\ [Next]_machine => DataTypeOK'
<1> SUFFICES ASSUME DataTypeOK, [Next]_machine PROVE DataTypeOK'
  OBVIOUS
<1>1. CASE ControlPoint
  BY <1>1, TransferFits DEF ControlPoint
<1>2. CASE Skip \/ Jump \/ Restart \/ CallLabel \/ Return \/ Halt \/ EmergencyHalt
  BY <1>2, StaysFits DEF Skip, Jump, Restart, CallLabel, Return, Halt, EmergencyHalt, DataStays
<1>3. CASE CallByOpcode
  <2>1. regshift' \in Word
    BY <1>3, BytesAreWords DEF CallByOpcode, DataTypeOK
  <2>2. UNCHANGED <<pc, mdr, tmp, opc, modes, reg, val, addr, mem, cntl, i, utmp, out>>
    BY <1>3 DEF CallByOpcode
  <2> QED BY <2>1, <2>2, Zenon DEF DataTypeOK
<1>4. CASE PrintOperand
  <2>1. out' \in Word
    BY <1>4, OperandFits DEF PrintOperand, OpndId
  <2>2. UNCHANGED <<pc, mdr, tmp, modes, reg, val, addr, mem, cntl, i, utmp, regshift>>
    BY <1>4 DEF PrintOperand
  <2>3. opc' = opc
    BY <1>4 DEF PrintOperand, CU!PrintOperand, CU!GoTo
  <2> QED BY <2>1, <2>2, <2>3, Zenon DEF DataTypeOK
<1>5. CASE UNCHANGED machine
  BY <1>5, StaysFits DEF machine
<1> QED BY <1>1, <1>2, <1>3, <1>4, <1>5 DEF Next, Step, Done

\* Additions, shifts, decremented pointers, flipped bits and control words built
\* by hand never leave a register with more bits than it has, nor an operand
\* number outside its two bits, for every microprogram, program and data.
THEOREM DataAlwaysFits == Spec => []DataTypeOK
<1>1. DataTypeOK /\ [Next]_machine => DataTypeOK'
  BY StepFits
<1> QED BY InitFits, <1>1, PTL DEF Spec

-----------------------------------------------------------------------------
\* FlipRegister's bit of IR(opc) is the one the sequencer flips.
LEMMA FlipsAgree ==
  ASSUME DataTypeOK
  PROVE  FlipBit(opc, 2) = CU!Flip(opc, 4) /\ FlipBit(opc, 3) = CU!Flip(opc, 8)
BY DEF FlipBit, Bit, Field, CU!Flip, DataTypeOK

\* A control point leaves in IR(opc) what the sequencer expects of it.
LEMMA OpcodesAgree ==
  ASSUME DataTypeOK, NEW w
  PROVE  NewOpc(w) \in CU!OpcodesAfter(w, opc)
<1>1. Read(pc) \div 256 \in AnyOpcode
  BY ReadFits, HighByteFits DEF AnyOpcode
<1> QED BY <1>1, FlipsAgree, Zenon DEF NewOpc, CU!OpcodesAfter

\* A microinstruction that cannot be carried out ends in one of two ways.
LEMMA TroubleIs == Trouble \in {"none", "fatal", "stray"}
<1>1. \A w : Fault(w) \in {"none", "fatal", "stray"} /\ CondFault(w) \in {"none", "fatal", "stray"}
  BY DEF Fault, CondFault
<1> QED BY <1>1, Zenon DEF Trouble

\* A halt of the machine is an emergency halt of the sequencer.
LEMMA TroubleFollows == EmergencyHalt => CU!EmergencyHalt
<1> SUFFICES ASSUME EmergencyHalt PROVE CU!EmergencyHalt
  OBVIOUS
<1>1. Trouble \in {"fatal", "stray"} /\ CU!StopWith(Trouble)
  BY TroubleIs DEF EmergencyHalt
<1>2. UInst.op \in {"ctrl", "print"} \/ UInst.cond # "always"
  BY Zenon DEF EmergencyHalt, Trouble
<1> QED BY <1>1, <1>2 DEF CU!EmergencyHalt, UInst

\* Each step of the machine is a step of the sequencer.
LEMMA StepFollows == DataTypeOK /\ [Next]_machine => [CU!Next]_(CU!vars)
<1> SUFFICES ASSUME DataTypeOK, [Next]_machine PROVE [CU!Next]_(CU!vars)
  OBVIOUS
<1>1. ASSUME ControlPoint PROVE CU!ControlPoint
  BY <1>1, OpcodesAgree DEF ControlPoint, CU!ControlPoint, Transfer, UInst
<1>2. ASSUME EmergencyHalt PROVE CU!EmergencyHalt
  BY <1>2, TroubleFollows
<1>3. ASSUME Step PROVE CU!Step
  BY <1>1, <1>2, <1>3, Zenon DEF Step, Skip, Jump, Restart, CallLabel, CallByOpcode, Return, Halt,
     PrintOperand, CU!Step
<1>4. CASE UNCHANGED machine
  BY <1>4 DEF machine, dataVars, CU!vars
<1> QED BY <1>3, <1>4 DEF Next, Done, CU!Next

\* Deciding conditions by the registers, fetching what memory holds and refusing
\* operands that make no sense adds no step to those of ControlUnit: what is
\* proved of the sequencer holds of the machine.
THEOREM MachineFollowsSequencer == Spec => FollowsSequencer
<1>1. Init => CU!Init
  BY DEF Init
<1> QED BY <1>1, StepFollows, DataAlwaysFits, PTL DEF Spec, FollowsSequencer, CU!Spec

-----------------------------------------------------------------------------
(* The sequencer of ControlUnitProofs, with any opcode. *)
U == INSTANCE ControlUnitProofs WITH Opcodes <- AnyOpcode

MicrocodeFits ==
  U!UMemAssumption /\ U!UJumpTabAssumption /\ U!OpcodesAssumption /\ U!HeightAssumption

\* That sequencer is the one the machine follows.
LEMMA FollowsAny == Spec => U!Spec
<1>1. CU!Init => U!Init
  BY Zenon DEF CU!Init, U!Init, CU!Slots, U!Slots
<1>2. CU!UInst = U!UInst /\ CU!NextUpc = U!NextUpc /\ CU!Slots = U!Slots
      /\ \A k : CU!Target(k) = U!Target(k)
  BY Zenon DEF CU!UInst, U!UInst, CU!NextUpc, U!NextUpc, CU!Inst, U!Inst, CU!After, U!After,
     CU!Blank, U!Blank, CU!Target, U!Target, CU!Slots, U!Slots
<1>3. /\ \A a : CU!GoTo(a) <=> U!GoTo(a)
      /\ \A why : CU!StopWith(why) <=> U!StopWith(why)
  BY Zenon DEF CU!GoTo, U!GoTo, CU!StopWith, U!StopWith
<1>4. \A k : CU!Enter(k) <=> U!Enter(k)
  BY <1>2, <1>3, Zenon DEF CU!Enter, U!Enter
<1>5. CU!ControlPoint <=> U!ControlPoint
  BY <1>2, Zenon DEF CU!ControlPoint, U!ControlPoint, CU!OpcodesAfter, U!OpcodesAfter,
     CU!Flip, U!Flip
<1>6. CU!Return <=> U!Return
  BY <1>2, <1>3, Zenon DEF CU!Return, U!Return, CU!UspBelow, U!UspBelow
<1>7. CU!Skip <=> U!Skip
  BY <1>2, <1>3, Zenon DEF CU!Skip, U!Skip
<1>8. CU!Jump <=> U!Jump
  BY <1>2, <1>3, Zenon DEF CU!Jump, U!Jump
<1>9. CU!Restart <=> U!Restart
  BY <1>2, <1>3, Zenon DEF CU!Restart, U!Restart
<1>10. CU!CallLabel <=> U!CallLabel
  BY <1>2, <1>4, Zenon DEF CU!CallLabel, U!CallLabel
<1>11. CU!CallByOpcode <=> U!CallByOpcode
  BY <1>2, <1>4, Zenon DEF CU!CallByOpcode, U!CallByOpcode
<1>12. CU!Halt <=> U!Halt
  BY <1>2, <1>3, Zenon DEF CU!Halt, U!Halt
<1>13. CU!PrintOperand <=> U!PrintOperand
  BY <1>2, <1>3, Zenon DEF CU!PrintOperand, U!PrintOperand
<1>14. CU!EmergencyHalt <=> U!EmergencyHalt
  BY <1>2, <1>3, Zenon DEF CU!EmergencyHalt, U!EmergencyHalt
<1>15. CU!Step <=> U!Step
  BY <1>5, <1>6, <1>7, <1>8, <1>9, <1>10, <1>11, <1>12, <1>13, <1>14, Zenon DEF CU!Step, U!Step
<1>16. [CU!Next]_(CU!vars) => [U!Next]_(U!vars)
  BY <1>15, Zenon DEF CU!Next, U!Next, CU!Done, U!Done, CU!vars, U!vars
<1> QED BY <1>1, <1>16, MachineFollowsSequencer, PTL DEF FollowsSequencer, CU!Spec, U!Spec

\* Whatever the program and its data, opcodes no document defines included, a
\* return of the machine's microprogram goes to the word after a call.
THEOREM MachineFrames ==
  ASSUME MicrocodeFits
  PROVE  Spec => []CU!FramesFollowCalls
<1>1. U!Spec => []U!FramesFollowCalls
  BY U!FramesCorrect, PTL DEF MicrocodeFits
<1>2. U!FramesFollowCalls => CU!FramesFollowCalls
  BY Zenon DEF U!FramesFollowCalls, CU!FramesFollowCalls, U!Slots, CU!Slots
<1> QED BY <1>1, <1>2, FollowsAny, PTL

\* Nor does any program make the machine return from a procedure that was not
\* called: it is enough that the words of the main loop, which can be listed
\* without running anything, hold no return.
THEOREM MachineReturnsMatchCalls ==
  ASSUME MicrocodeFits, NEW M, U!MainLoop(M)
  PROVE  Spec => []CU!NeverWild
<1>1. U!Spec => []U!NeverWild
  BY U!ReturnsMatchCalls, PTL DEF MicrocodeFits
<1>2. U!NeverWild => CU!NeverWild
  BY Zenon DEF U!NeverWild, CU!NeverWild
<1> QED BY <1>1, <1>2, FollowsAny, PTL

\* Nor leave the microprogram.
THEOREM MachineStaysInProgram ==
  ASSUME MicrocodeFits, NEW A, U!Closed(A)
  PROVE  Spec => []CU!StaysInProgram
<1>1. U!Spec => []U!StaysInProgram
  BY U!ClosedStaysInProgram, PTL DEF MicrocodeFits
<1>2. U!StaysInProgram => CU!StaysInProgram
  BY Zenon DEF U!StaysInProgram, CU!StaysInProgram
<1> QED BY <1>1, <1>2, FollowsAny, PTL
=============================================================================
