------------------------------ MODULE Microcode ------------------------------
(***************************************************************************)
(* The microprogram of FabComp: the register-transfer listing of hard.tex, *)
(* one line record per line of the listing, in the order of the document.  *)
(* It is what the chip runs, after the toolchain (RtlParser) has translated it.       *)
(***************************************************************************)
EXTENDS RtlListing

(* Abbreviations for groups of lines the listing repeats. *)
Transfers(words) == [n \in DOMAIN words |-> Rtl(words[n])]
RejectIf(cond) == <<If(cond), BailLoudly, Fi>>

-----------------------------------------------------------------------------
FetchPhase == Transfers(<<"IR <- Mem[PC]", "PC <- PC + 1">>)

(* The addressing modes of an R-type immediate word, by its sam field. *)
RegisterModes ==
  <<If("MDR(sam) = 000")>>
    \o Transfers(<<"regshift <- MDR", "regshift <- regshift >> 8",
                   "cntl[i] <- 00000 | regshift">>)
  \o <<Elif("MDR(sam) = 001")>>
    \o Transfers(<<"Addr[i] <- Reg[MDR(reg0)]">>)
  \o <<Elif("MDR(sam) = 010")>>
    \o Transfers(<<"Val[i] <- MDR", "MDR <- Mem[PC]", "PC <- PC + 1", "MDR <- MDR >> 8",
                   "Addr[i] <- Reg[Val[i](reg1)] << MDR",
                   "Addr[i] <- Reg[Val[i](reg0)] + Addr[i]">>)
  \o <<Elif("MDR(sam) = 011")>>
    \o Transfers(<<"Val[i] <- MDR", "MDR <- Mem[PC]", "TMP <- MDR", "PC <- PC + 1",
                   "MDR <- MDR >> 8", "Addr[i] <- Reg[Val[i](reg1)] << MDR",
                   "Addr[i] <- Reg[Val[i](reg0)] + Addr[i]", "MDR <- Mem[Addr[i]]",
                   "Addr[i] <- MDR", "MDR <- TMP & 0xff",
                   "MDR <- Reg[Val[i](reg2)] << MDR", "Addr[i] <- Addr[i] + MDR">>)
  \o <<Elif("MDR(sam) = 100")>>
    \o Transfers(<<"Val[i] <- MDR", "Addr[i] <- Reg[Val[i](reg0)]",
                   "Reg[Val[i](reg0)] <- Reg[Val[i](reg0)] + 1">>)
  \o <<Elif("MDR(sam) = 101")>>
    \o Transfers(<<"Val[i] <- MDR", "Addr[i] <- Reg[Val[i](reg0)]",
                   "Reg[Val[i](reg0)] <- Reg[Val[i](reg0)] - 1">>)
  \o <<Elif("MDR(sam) = 110")>>
    \o Transfers(<<"Val[i] <- MDR", "MDR <- Mem[PC]", "PC <- PC + 1", "MDR <- MDR >> 8",
                   "Addr[i] <- Reg[Val[i](reg0)] << MDR", "MDR <- Mem[PC]",
                   "PC <- PC + 1", "Addr[i] <- Addr[i] + MDR">>)
  \o <<Elif("MDR(sam) = 111")>>
    \o Transfers(<<"Val[i] <- MDR", "MDR <- Mem[PC]", "PC <- PC + 1", "TMP <- MDR",
                   "MDR <- MDR >> 8", "Addr[i] <- Reg[Val[i](reg0)] << MDR",
                   "MDR <- Mem[PC]", "PC <- PC + 1", "Addr[i] <- Addr[i] + MDR",
                   "MDR <- Mem[Addr[i]]", "Addr[i] <- MDR", "MDR <- TMP & 0xff",
                   "MDR <- Reg[Val[i](reg1)] << MDR", "Addr[i] <- Addr[i] + MDR">>)
  \o <<Fi>>

(* First pass of the decoder: one round per operand. *)
DecodePhase ==
  <<Rtl("i <- 00"), Loop,
      If("i != 00 AND IR(imm)(i) = 1")>>
    \o Transfers(<<"Val[i] <- Mem[PC]", "cntl[i] <- 10000 | i", "PC <- PC + 1">>)
    \o <<Elif("IR(ami) = 00"), Rtl("cntl[i] <- 10000"),
       Elif("IR(ami) = 01 or 10")>>
    \o Transfers(<<"Addr[i] <- Mem[PC]", "cntl[i] <- 10100 | i", "PC <- PC + 1">>)
    \o <<Elif("IR(ami) = 11")>>
    \o Transfers(<<"MDR <- Mem[PC]", "cntl[i] <- 10100 | i", "PC <- PC + 1">>)
    \o RegisterModes
    \o <<Fi, Rtl("i <- i + 1"), Until("i = 11")>>

(* Mutant: a second pass that looks at operand 0 for ever. *)
RelativePassStuck ==
  <<Rtl("i <- 00"), Loop,
      If("IR(ami) = 10"), Rtl("Addr[i] <- Addr[i] + PC"), Fi, Until("i = 11")>>

(* Second pass: PC-relative operands, now that PC is past the instruction. *)
RelativePass ==
  <<Rtl("i <- 00"), Loop,
      If("IR(ami) = 10"), Rtl("Addr[i] <- Addr[i] + PC"), Fi,
      Rtl("i <- i + 1"), Until("i = 11")>>

MemoryLoad ==
  <<Rtl("i <- 00"), Loop,
      If("cntl[i](4) = 1 AND cntl[i](2) = 1"), Rtl("Val[i] <- Mem[Addr[i]]"),
        If("i != 00"), Rtl("cntl[i](2) <- 0"), Fi,
      Fi,
      Rtl("i <- i + 1"), Until("i = 11")>>

ExecutePhase == <<CallOpcode>>

(* Mutant: a return for the jump to the beginning. *)
WritebackPhaseReturns ==
  <<If("cntl[0](4) = 0"), Rtl("Reg[cntl[0](3..0)] <- MDR"),
    Elif("cntl[0](2) = 1"), Rtl("Mem[Addr[cntl[0](3..0)]] <- MDR"), Fi,
    ReturnLine>>

(* Mutant: what is no register is taken for memory. *)
WritebackPhaseAlways ==
  <<If("cntl[0](4) = 0"), Rtl("Reg[cntl[0](3..0)] <- MDR"),
    Else, Rtl("Mem[Addr[cntl[0](3..0)]] <- MDR"), Fi,
    RestartLine>>

WritebackPhase ==
  <<If("cntl[0](4) = 0"), Rtl("Reg[cntl[0](3..0)] <- MDR"),
    Elif("cntl[0](2) = 1"), Rtl("Mem[Addr[cntl[0](3..0)]] <- MDR"), Fi,
    RestartLine>>

-----------------------------------------------------------------------------
(* The procedures, one per mnemonic or family of mnemonics. *)

(* An operation that is validated and then one transfer. *)
Simple(name, validator, word) == <<Label(name), Call(validator), Rtl(word), ReturnLine>>

(* An operation that is another one followed by a unary one on its result. *)
Then(name, first, second) ==
  <<Label(name), Call("validator_one"), Call(first), Rtl("cntl[1] <- 10011"),
    Rtl("cntl[2] <- 10000"), Call(second), ReturnLine>>

(* MDR becomes 1 or 0 by a condition. *)
Flag(cond) == <<If(cond), Rtl("MDR <- 1"), Else, Rtl("MDR <- 0"), Fi, ReturnLine>>

BitwiseOps ==
  <<Label("halt"), BailOut>>
  \o Simple("and", "validator_one", "MDR <- op1 & op2")
  \o Simple("or", "validator_one", "MDR <- op1 | op2")
  \o Simple("xor", "validator_one", "MDR <- op1 ^ op2")
  \o Simple("lsft", "validator_one", "MDR <- op1 << op2")
  \o Then("nand", "and", "not") \o Then("nor", "or", "not") \o Then("xnor", "xor", "not")
  \o Simple("rsft", "validator_one", "MDR <- op1 >> op2")
  \o <<GoesHere("logical"), GoesHere("logical"), GoesHere("logical")>>
  \o Simple("rasft", "validator_one", "MDR <- op1 >>> op2")
  \o <<GoesHere("illogical"), GoesHere("illogical"), GoesHere("illogical")>>

SetOps ==
  <<Label("slt"), Call("validator_one"), Call("sub")>> \o Flag("MDR(15) = 1")
  \o <<Label("sgt"), Call("validator_one"), Rtl("MDR <- op2 - op1")>> \o Flag("MDR(15) = 1")
  \o <<Label("seq"), Call("validator_one"), Call("sub")>> \o Flag("MDR = 0")
  \o Then("sne", "seq", "siz") \o Then("sle", "sgt", "siz") \o Then("sge", "slt", "siz")
  \o Simple("add", "validator_one", "MDR <- op1 + op2")
  \o Simple("sub", "validator_one", "MDR <- op1 - op2")
  \o [n \in 1..6 |-> GoesHere("compbranch")]

UnaryOps ==
  <<Label("prnt"), Call("validator_three"), PrintOut, ReturnLine, GoesHere("siz"),
    Label("siz"), Call("validator_four")>> \o Flag("op1 = 0")
  \o <<Label("snz"), Call("validator_four"), Call("siz"), Rtl("cntl[1] <- 10011"),
       Call("siz"), ReturnLine>>
  \o Simple("not", "validator_four", "MDR <- ~ op1")
  \o Simple("neg", "validator_four", "MDR <- 0 - op1")
  \o <<GoesHere("simpbranch"), GoesHere("simpbranch")>>

(* Mutant: decr adds. *)
CountOpsUp ==
  <<Label("incr"), Call("validator_six"), Call("add"), ReturnLine,
    Label("decr"), Call("validator_six"), Call("add"), ReturnLine>>

CountOps ==
  <<Label("incr"), Call("validator_six"), Call("add"), ReturnLine,
    Label("decr"), Call("validator_six"), Call("sub"), ReturnLine>>

(* Mutant: jal saves no return address. *)
JumpOpsUnsaved ==
  <<Label("jmp"), Call("validator_seven"), Rtl("PC <- op0"), Rtl("cntl[0] <- 10011"), ReturnLine,
    Label("jal"), Call("validator_seven"), Rtl("PC <- op0"),
      Rtl("cntl[0] <- 10011"), ReturnLine,
    Label("call"), Call("validator_seven"), Call("jal"), Rtl("Reg[14] <- Reg[14] - 1"),
      Rtl("Mem[Reg[14]] <- Reg[15]"), ReturnLine,
    Label("ret"), Call("validator_eight"), Rtl("Addr[0] <- Mem[Reg[14]]"),
      Rtl("cntl[0] <- 10100"), Call("jmp"), Rtl("Reg[14] <- Reg[14] + 1"), ReturnLine>>
  \o Simple("move", "validator_nine", "MDR <- op1")

JumpOps ==
  <<Label("jmp"), Call("validator_seven"), Rtl("PC <- op0"), Rtl("cntl[0] <- 10011"), ReturnLine,
    Label("jal"), Call("validator_seven"), Rtl("Reg[15] <- PC"), Rtl("PC <- op0"),
      Rtl("cntl[0] <- 10011"), ReturnLine,
    Label("call"), Call("validator_seven"), Call("jal"), Rtl("Reg[14] <- Reg[14] - 1"),
      Rtl("Mem[Reg[14]] <- Reg[15]"), ReturnLine,
    Label("ret"), Call("validator_eight"), Rtl("Addr[0] <- Mem[Reg[14]]"),
      Rtl("cntl[0] <- 10100"), Call("jmp"), Rtl("Reg[14] <- Reg[14] + 1"), ReturnLine>>
  \o Simple("move", "validator_nine", "MDR <- op1")

(* Families that call the opcode again after clearing one of its bits. *)
LogicalOps ==
  <<Label("logical")>>
  \o Transfers(<<"tmp <- cntl[2]", "cntl[2] <- 10000">>) \o <<Call("snz")>>
  \o Transfers(<<"Val[1] <- MDR", "cntl[1] <- tmp", "cntl[2] <- 10000">>) \o <<Call("snz")>>
  \o Transfers(<<"cntl[1] <- 10001", "cntl[2] <- 10011", "IR(opc)(3) <- 0">>)
  \o <<CallOpcode, ReturnLine>>
  \o <<Label("illogical"), Rtl("IR(opc)(2) <- 0"), Call("logical"), Rtl("cntl[1] <- 10011"),
       Rtl("cntl[2] <- 10000"), Call("siz"), ReturnLine>>

(* Mutant: the flag is written back to the place that was jumped to. *)
BranchWritesBack(name, validator, flip) ==
  <<Label(name), Call(validator), Rtl(flip), CallOpcode,
    If("MDR = 1"), Rtl("PC <- op0"), Fi, ReturnLine>>

Branch(name, validator, flip) ==
  <<Label(name), Call(validator), Rtl(flip), CallOpcode,
    If("MDR = 1"), Rtl("PC <- op0"), Fi, Rtl("cntl[0] <- 10011"), ReturnLine>>

BranchOps == Branch("compbranch", "validator_two", "IR(opc)(3) <- 0")
             \o Branch("simpbranch", "validator_five", "IR(opc)(2) <- 0")

-----------------------------------------------------------------------------
(* The validators: how many operands there are, and the short forms. *)

(* Mutant: operand 1 may name a memory operand. *)
KeepAddr1 == <<>>

(* Keep cntl[1] from naming a memory operand: its value was loaded already. *)
DropAddr1 == <<If("cntl[1](4) = 1 AND cntl[1](2) = 1"), Rtl("cntl[1](2) <- 0"), Fi>>

ValidatorOne ==
  <<Label("validator_one")>> \o RejectIf("cntl[0] = 10000") \o RejectIf("cntl[1] = 10000")
  \o <<If("cntl[2] = 10000"), Rtl("cntl[2] <- cntl[1]"), Rtl("cntl[1] <- cntl[0]")>>
  \o DropAddr1 \o <<Fi, ReturnLine>>

ValidatorsTwoThree ==
  <<Label("validator_two")>>
  \o RejectIf("cntl[0] = 10000") \o RejectIf("cntl[1] = 10000")
  \o RejectIf("cntl[2] = 10000") \o RejectIf("cntl[0](4) = 0") \o <<ReturnLine>>
  \o <<Label("validator_three")>> \o RejectIf("cntl[0] = 10000")
  \o <<Rtl("cntl[1] <- cntl[0]"), Rtl("cntl[0] <- 10011")>> \o DropAddr1 \o <<ReturnLine>>

ValidatorsFourFive ==
  <<Label("validator_four")>> \o RejectIf("cntl[0] = 10000")
  \o <<If("cntl[1] = 10000"), Rtl("cntl[1] <- cntl[0]")>> \o DropAddr1 \o <<Fi, ReturnLine>>
  \o <<Label("validator_five")>> \o RejectIf("cntl[0] = 10000")
  \o RejectIf("cntl[1] = 10000") \o RejectIf("cntl[0](4) = 0") \o <<ReturnLine>>

(* Mutant: the last procedure has no return. *)
ValidatorsSixToNineOpen ==
  <<Label("validator_six")>> \o RejectIf("cntl[0] = 10000")
  \o <<Rtl("MDR <- 1"), Rtl("cntl[1] <- 10011"), ReturnLine>>
  \o <<Label("validator_seven")>> \o RejectIf("cntl[0] = 10000")
  \o RejectIf("cntl[0](4) = 0") \o <<ReturnLine>>
  \o <<Label("validator_eight"), ReturnLine>>
  \o <<Label("validator_nine")>> \o RejectIf("cntl[0] = 10000")
  \o RejectIf("cntl[1] = 10000")

ValidatorsSixToNine ==
  <<Label("validator_six")>> \o RejectIf("cntl[0] = 10000")
  \o <<Rtl("MDR <- 1"), Rtl("cntl[1] <- 10011"), ReturnLine>>
  \o <<Label("validator_seven")>> \o RejectIf("cntl[0] = 10000")
  \o RejectIf("cntl[0](4) = 0") \o <<ReturnLine>>
  \o <<Label("validator_eight"), ReturnLine>>
  \o <<Label("validator_nine")>> \o RejectIf("cntl[0] = 10000")
  \o RejectIf("cntl[1] = 10000") \o <<ReturnLine>>

-----------------------------------------------------------------------------
Listing ==
  FetchPhase \o DecodePhase \o RelativePass \o MemoryLoad \o ExecutePhase \o WritebackPhase
  \o BitwiseOps \o SetOps \o UnaryOps \o CountOps \o JumpOps \o LogicalOps \o BranchOps
  \o ValidatorOne \o ValidatorsTwoThree \o ValidatorsFourFive \o ValidatorsSixToNine

(* The two images the simulator loads: address a is element a + 1. *)
MicroWords == MicroImage(Placed(Listing))
JumpRows   == JumpImage(Placed(Listing))
=============================================================================
