------------------------------- MODULE DataPath -------------------------------
(***************************************************************************)
(* FabComp's registers and memory, and what each control point and         *)
(* condition of microcontroller.cpp does with them.                        *)
(*                                                                         *)
(* A control point is one transfer here; Wiring takes it apart into clock  *)
(* ticks.                                                                  *)
(***************************************************************************)
EXTENDS Words

VARIABLES
  pc, mdr, tmp,
  opc, modes,  \* IR: the opcode IR(15..8) and the rest, IR(7..0)
  reg,         \* the general-purpose registers
  val, addr,   \* an operand's immediate value or loaded word; its address
  mem,         \* the words that were loaded or written; the others are 0
  cntl,        \* where the operands are (see Operand)
  i,           \* the operand being decoded
  utmp, regshift,
  out          \* the last word printed

dataVars == <<pc, mdr, tmp, opc, modes, reg, val, addr, mem, cntl, i, utmp, regshift, out>>

RegId   == 0..15
OpndId  == 0..2
Control == 0..31            \* CTRL_CNTL_WIDTH = 5

IsMemory(m) == DOMAIN m \subseteq Word /\ \A a \in DOMAIN m : m[a] \in Word

DataTypeOK ==
  /\ pc \in Word /\ mdr \in Word /\ tmp \in Word /\ regshift \in Word /\ out \in Word
  /\ opc \in 0..255 /\ modes \in 0..255
  /\ reg \in [RegId -> Word]
  /\ val \in [OpndId -> Word] /\ addr \in [OpndId -> Word]
  /\ IsMemory(mem)
  /\ cntl \in [OpndId -> Control] /\ utmp \in Control
  /\ i \in 0..3

-----------------------------------------------------------------------------
(* Memory. *)

Read(a)     == IF a \in DOMAIN mem THEN mem[a] ELSE 0
Write(a, w) == [x \in DOMAIN mem \cup {a} |-> IF x = a THEN w ELSE mem[x]]

-----------------------------------------------------------------------------
(* Operands.  A control word below 16 names a register; above, bit 2 chooses
   between addresses and values, and 3 means MDR.                          *)

IsRegister(n) == cntl[n] < 16
IsAddress(n)  == Bit(cntl[n], 2) = 1
Slot(n)       == cntl[n] % 4

Operand(n) ==
  IF IsRegister(n) THEN reg[cntl[n]]
  ELSE IF IsAddress(n) THEN addr[Slot(n)]
  ELSE IF Slot(n) = 3 THEN mdr ELSE val[Slot(n)]

(* operand_n: "cannot use MDR as an address". *)
NoOperand(n) == ~IsRegister(n) /\ IsAddress(n) /\ Slot(n) = 3

(* The address mode of operand i. *)
Mode      == CASE i = 0 -> Field(modes, 5, 4) [] i = 1 -> Field(modes, 3, 2)
               [] OTHER -> Field(modes, 1, 0)
Immediate == IF i = 1 THEN Bit(modes, 7) = 1 ELSE Bit(modes, 6) = 1
SecondaryMode == Field(mdr, 15, 12)

-----------------------------------------------------------------------------
(* Control points, by the text of their register transfer: what each one     *)
(* leaves in a register.                                                     *)

NewMdr(w) ==
  CASE w = "MDR <- 0"          -> 0
    [] w = "MDR <- 0 - op1"    -> Sub(0, IF cntl[1] >= 16 /\ ~IsAddress(1) /\ Slot(1) = 3
                                         THEN 0 ELSE Operand(1))  \* MDR is cleared first
    [] w = "MDR <- 1"          -> 1
    [] w = "MDR <- MDR >> 8"   -> ShiftRight(mdr, 8)
    [] w = "MDR <- Mem[Addr[i]]" -> Read(addr[i])
    [] w = "MDR <- Mem[PC]"    -> Read(pc)
    [] w = "MDR <- Reg[Val[i](reg1)] << MDR" -> ShiftLeft(reg[Reg1(val[i])], mdr)
    [] w = "MDR <- Reg[Val[i](reg2)] << MDR" -> ShiftLeft(reg[Reg2(val[i])], mdr)
    [] w = "MDR <- TMP & 0xff" -> tmp % 256
    [] w = "MDR <- op1"        -> Operand(1)
    [] w = "MDR <- op1 & op2"  -> And(Operand(1), Operand(2))
    [] w = "MDR <- op1 + op2"  -> Add(Operand(1), Operand(2))
    [] w = "MDR <- op1 - op2"  -> Sub(Operand(1), Operand(2))
    [] w = "MDR <- op1 << op2" -> ShiftLeft(Operand(1), Operand(2))
    [] w = "MDR <- op1 >> op2" -> ShiftRight(Operand(1), Operand(2))
    [] w = "MDR <- op1 >>> op2" -> ShiftArith(Operand(1), Operand(2))
    [] w = "MDR <- op1 ^ op2"  -> Xor(Operand(1), Operand(2))
    [] w = "MDR <- op1 | op2"  -> Or(Operand(1), Operand(2))
    [] w = "MDR <- op2 - op1"  -> Sub(Operand(2), Operand(1))
    [] w = "MDR <- ~ op1"      -> Not(Operand(1))
    [] w \in { "Reg[14] <- Reg[14] + 1", "Reg[14] <- Reg[14] - 1",
               "Reg[Val[i](reg0)] <- Reg[Val[i](reg0)] + 1",
               "Reg[Val[i](reg0)] <- Reg[Val[i](reg0)] - 1" } -> 1  \* the ALU's one
    [] OTHER -> mdr

NewAddr(w) ==
  CASE w = "Addr[0] <- Mem[Reg[14]]"        -> [addr EXCEPT ![0] = Read(reg[14])]
    [] w = "Addr[i] <- Addr[i] + MDR"       -> [addr EXCEPT ![i] = Add(@, mdr)]
    [] w = "Addr[i] <- Addr[i] + PC"        -> [addr EXCEPT ![i] = Add(@, pc)]
    [] w = "Addr[i] <- MDR"                 -> [addr EXCEPT ![i] = mdr]
    [] w = "Addr[i] <- Mem[PC]"             -> [addr EXCEPT ![i] = Read(pc)]
    [] w = "Addr[i] <- Reg[MDR(reg0)]"      -> [addr EXCEPT ![i] = reg[Reg0(mdr)]]
    [] w = "Addr[i] <- Reg[Val[i](reg0)]"   -> [addr EXCEPT ![i] = reg[Reg0(val[i])]]
    [] w = "Addr[i] <- Reg[Val[i](reg0)] + Addr[i]"
                                  -> [addr EXCEPT ![i] = Add(@, reg[Reg0(val[i])])]
    [] w = "Addr[i] <- Reg[Val[i](reg0)] << MDR"
                                  -> [addr EXCEPT ![i] = ShiftLeft(reg[Reg0(val[i])], mdr)]
    [] w = "Addr[i] <- Reg[Val[i](reg1)] << MDR"
                                  -> [addr EXCEPT ![i] = ShiftLeft(reg[Reg1(val[i])], mdr)]
    [] OTHER -> addr

NewVal(w) ==
  CASE w = "Val[1] <- MDR"          -> [val EXCEPT ![1] = mdr]
    [] w = "Val[i] <- MDR"          -> [val EXCEPT ![i] = mdr]
    [] w = "Val[i] <- Mem[Addr[i]]" -> [val EXCEPT ![i] = Read(addr[i])]
    [] w = "Val[i] <- Mem[PC]"      -> [val EXCEPT ![i] = Read(pc)]
    [] OTHER -> val

NewReg(w) ==
  CASE w = "Reg[14] <- Reg[14] + 1" -> [reg EXCEPT ![14] = Add(@, 1)]
    [] w = "Reg[14] <- Reg[14] - 1" -> [reg EXCEPT ![14] = Sub(@, 1)]
    [] w = "Reg[15] <- PC"          -> [reg EXCEPT ![15] = pc]
    [] w = "Reg[Val[i](reg0)] <- Reg[Val[i](reg0)] + 1"
                                    -> [reg EXCEPT ![Reg0(val[i])] = Add(@, 1)]
    [] w = "Reg[Val[i](reg0)] <- Reg[Val[i](reg0)] - 1"
                                    -> [reg EXCEPT ![Reg0(val[i])] = Sub(@, 1)]
    [] w = "Reg[cntl[0](3..0)] <- MDR" -> [reg EXCEPT ![cntl[0]] = mdr]
    [] OTHER -> reg

NewMem(w) ==
  CASE w = "Mem[Addr[cntl[0](3..0)]] <- MDR" -> Write(addr[Slot(0)], mdr)
    [] w = "Mem[Reg[14]] <- Reg[15]"         -> Write(reg[14], reg[15])
    [] OTHER -> mem

(* Mutant: a program counter wider than a word. *)
NewPcWide(w) ==
  CASE w = "PC <- PC + 1" -> pc + 1
    [] w = "PC <- op0"    -> Operand(0)
    [] OTHER -> pc

NewPc(w) ==
  CASE w = "PC <- PC + 1" -> Add(pc, 1)
    [] w = "PC <- op0"    -> Operand(0)
    [] OTHER -> pc

(* The control words after w, from those before, i, utmp and regshift. *)
CntlAfter(w, c, k, t, shift) ==
  CASE w = "cntl[0] <- 10011"     -> [c EXCEPT ![0] = 19]
    [] w = "cntl[0] <- 10100"     -> [c EXCEPT ![0] = 20]
    [] w = "cntl[1] <- 10001"     -> [c EXCEPT ![1] = 17]
    [] w = "cntl[1] <- 10011"     -> [c EXCEPT ![1] = 19]
    [] w = "cntl[1] <- cntl[0]"   -> [c EXCEPT ![1] = c[0]]
    [] w = "cntl[1] <- tmp"       -> [c EXCEPT ![1] = t]
    [] w = "cntl[1](2) <- 0"      -> [c EXCEPT ![1] = FlipBit(@, 2)]
    [] w = "cntl[2] <- 10000"     -> [c EXCEPT ![2] = 16]
    [] w = "cntl[2] <- 10011"     -> [c EXCEPT ![2] = 19]
    [] w = "cntl[2] <- cntl[1]"   -> [c EXCEPT ![2] = c[1]]
    [] w = "cntl[i] <- 00000 | regshift" -> [c EXCEPT ![k] = shift % 16]  \* pBUS
    [] w = "cntl[i] <- 10000"     -> [c EXCEPT ![k] = 16]
    [] w = "cntl[i] <- 10000 | i" -> [c EXCEPT ![k] = FlipBit(k, 4)]
    [] w = "cntl[i] <- 10100 | i" -> [c EXCEPT ![k] = FlipBit(FlipBit(k, 4), 2)]
    [] w = "cntl[i](2) <- 0"      -> [c EXCEPT ![k] = FlipBit(@, 2)]
    [] OTHER -> c

NewCntl(w) == CntlAfter(w, cntl, i, utmp, regshift)

(* Mutants: IR(7..0) taken for the opcode; the bits' numbers in IR, used on IR(opc). *)
NewOpcLowByte(w) ==
  CASE w = "IR <- Mem[PC]"   -> Read(pc) % 256
    [] w = "IR(opc)(2) <- 0" -> FlipBit(opc, 2)
    [] w = "IR(opc)(3) <- 0" -> FlipBit(opc, 3)
    [] OTHER -> opc
NewOpcWordBit(w) ==
  CASE w = "IR <- Mem[PC]"   -> Read(pc) \div 256
    [] w = "IR(opc)(2) <- 0" -> FlipBit(opc, 10)
    [] w = "IR(opc)(3) <- 0" -> FlipBit(opc, 11)
    [] OTHER -> opc

NewOpc(w) ==
  CASE w = "IR <- Mem[PC]"   -> Read(pc) \div 256
    [] w = "IR(opc)(2) <- 0" -> FlipBit(opc, 2)
    [] w = "IR(opc)(3) <- 0" -> FlipBit(opc, 3)
    [] OTHER -> opc

Transfer(w) ==
  /\ mdr' = NewMdr(w) /\ addr' = NewAddr(w) /\ val' = NewVal(w) /\ reg' = NewReg(w)
  /\ mem' = NewMem(w) /\ pc' = NewPc(w) /\ cntl' = NewCntl(w) /\ opc' = NewOpc(w)
  /\ modes' = IF w = "IR <- Mem[PC]" THEN Read(pc) % 256 ELSE modes
  /\ tmp' = IF w = "TMP <- MDR" THEN mdr ELSE tmp
  /\ i' = CASE w = "i <- 00" -> 0 [] w = "i <- i + 1" -> (i + 1) % 4 [] OTHER -> i
  /\ utmp' = IF w = "tmp <- cntl[2]" THEN cntl[2] ELSE utmp
  /\ regshift' = CASE w = "regshift <- MDR" -> mdr
                   [] w = "regshift <- regshift >> 8" -> ShiftRight(regshift, 8)
                   [] OTHER -> regshift
  /\ UNCHANGED out

-----------------------------------------------------------------------------
(* What can go wrong: emergency_halt, or an index outside a bank. *)

TwoOperandWords ==
  { "MDR <- op1 & op2", "MDR <- op1 + op2", "MDR <- op1 - op2", "MDR <- op1 << op2",
    "MDR <- op1 >> op2", "MDR <- op1 >>> op2", "MDR <- op1 ^ op2", "MDR <- op1 | op2",
    "MDR <- op2 - op1" }
OneOperandWords == {"MDR <- op1", "MDR <- ~ op1", "MDR <- 0 - op1"}
OperandsOf(w) ==
  { n \in OpndId : \/ n = 0 /\ w = "PC <- op0"
                   \/ n = 1 /\ w \in OneOperandWords \cup TwoOperandWords
                   \/ n = 2 /\ w \in TwoOperandWords }

(* The control points that select a register of a bank by i. *)
IndexedWords ==
  { "Addr[i] <- Addr[i] + MDR", "Addr[i] <- Addr[i] + PC", "Addr[i] <- MDR",
    "Addr[i] <- Mem[PC]", "Addr[i] <- Reg[MDR(reg0)]", "Addr[i] <- Reg[Val[i](reg0)]",
    "Addr[i] <- Reg[Val[i](reg0)] + Addr[i]", "Addr[i] <- Reg[Val[i](reg0)] << MDR",
    "Addr[i] <- Reg[Val[i](reg1)] << MDR", "MDR <- Mem[Addr[i]]",
    "MDR <- Reg[Val[i](reg1)] << MDR", "MDR <- Reg[Val[i](reg2)] << MDR",
    "Reg[Val[i](reg0)] <- Reg[Val[i](reg0)] + 1",
    "Reg[Val[i](reg0)] <- Reg[Val[i](reg0)] - 1", "Val[i] <- MDR",
    "Val[i] <- Mem[Addr[i]]", "Val[i] <- Mem[PC]", "cntl[i] <- 00000 | regshift",
    "cntl[i] <- 10000", "cntl[i] <- 10000 | i", "cntl[i] <- 10100 | i", "cntl[i](2) <- 0" }

Strays(w) == \/ w \in IndexedWords /\ i = 3
             \/ w = "Mem[Addr[cntl[0](3..0)]] <- MDR" /\ ~IsRegister(0) /\ Slot(0) = 3
Fails(w)  == \/ \E n \in OperandsOf(w) : NoOperand(n)
             \/ w = "Reg[cntl[0](3..0)] <- MDR" /\ ~IsRegister(0)
             \/ w = "Mem[Addr[cntl[0](3..0)]] <- MDR" /\ IsRegister(0)
Fault(w)  == IF Strays(w) THEN "stray" ELSE IF Fails(w) THEN "fatal" ELSE "none"

-----------------------------------------------------------------------------
(* Conditions, likewise. *)

ModeConditions == {"IR(ami) = 00", "IR(ami) = 01 or 10", "IR(ami) = 10", "IR(ami) = 11"}

CondStrays(c) == c = "cntl[i](4) = 1 AND cntl[i](2) = 1" /\ i = 3
CondFails(c)  == \/ c \in ModeConditions /\ i = 3
                 \/ c = "i != 00 AND IR(imm)(i) = 1" /\ i = 3
                 \/ c = "cntl[0](2) = 1" /\ IsRegister(0)
                 \/ c = "op1 = 0" /\ NoOperand(1)
CondFault(c)  == IF CondStrays(c) THEN "stray" ELSE IF CondFails(c) THEN "fatal" ELSE "none"

Holds(c) ==
  CASE c = "IR(ami) = 00"       -> Mode = 0
    [] c = "IR(ami) = 01 or 10" -> Mode \in {1, 2}
    [] c = "IR(ami) = 10"       -> Mode = 2
    [] c = "IR(ami) = 11"       -> Mode = 3
    [] c = "MDR = 0"            -> mdr = 0
    [] c = "MDR = 1"            -> mdr = 1
    [] c = "MDR(15) = 1"        -> Bit(mdr, 15) = 1
    [] c = "MDR(sam) = 000"     -> SecondaryMode = 0
    [] c = "MDR(sam) = 001"     -> SecondaryMode = 1
    [] c = "MDR(sam) = 010"     -> SecondaryMode = 2
    [] c = "MDR(sam) = 011"     -> SecondaryMode = 3
    [] c = "MDR(sam) = 100"     -> SecondaryMode = 4
    [] c = "MDR(sam) = 101"     -> SecondaryMode = 5
    [] c = "MDR(sam) = 110"     -> SecondaryMode = 6
    [] c = "MDR(sam) = 111"     -> SecondaryMode = 7
    [] c = "cntl[0] = 10000"    -> cntl[0] = 16
    [] c = "cntl[0](2) = 1"     -> IsAddress(0)
    [] c = "cntl[0](4) = 0"     -> IsRegister(0)
    [] c = "cntl[1] = 10000"    -> cntl[1] = 16
    [] c = "cntl[1](4) = 1 AND cntl[1](2) = 1" -> ~IsRegister(1) /\ IsAddress(1)
    [] c = "cntl[2] = 10000"    -> cntl[2] = 16
    [] c = "cntl[i](4) = 1 AND cntl[i](2) = 1" -> ~IsRegister(i) /\ IsAddress(i)
    [] c = "i != 00"            -> i # 0
    [] c = "i != 00 AND IR(imm)(i) = 1" -> i # 0 /\ Immediate
    [] c = "i = 11"             -> i = 3
    [] c = "op1 = 0"            -> Operand(1) = 0
=============================================================================
