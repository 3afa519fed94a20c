---------------------------- MODULE MachineProofs ----------------------------
(***************************************************************************)
(* The whole machine with certified microcode.                             *)
(*                                                                         *)
(* With a certificate of CallGraph, what CallGraphProofs says of the       *)
(* sequencer is said of the machine.  With one of OperandFlow too, it      *)
(* never reads an operand that is not a value and never meets an emergency *)
(* halt, whatever the program, as long as it keeps to the certificates'    *)
(* opcodes, and whatever the data.                                         *)
(***************************************************************************)
EXTENDS FabCompProofs, OperandFlow, Implementation

CONSTANTS Ctx, Root, Code, Lvl   \* a certificate, as in CallGraph

(* The sequencer with the opcodes of Opcodes alone, certified. *)
G == INSTANCE CallGraphProofs

Certificate ==
  /\ G!UMemAssumption /\ G!UJumpTabAssumption /\ G!OpcodesAssumption /\ G!HeightAssumption
  /\ G!ContextsAssumption /\ G!SoundAssumption

-----------------------------------------------------------------------------
\* Where control is and where it may go do not depend on the opcodes of a program.
LEMMA SamePlace ==
  CU!UInst = G!UInst /\ CU!NextUpc = G!NextUpc /\ \A j : CU!Target(j) = G!Target(j)
BY Zenon DEF CU!UInst, G!UInst, CU!Inst, G!Inst, CU!Blank, G!Blank, CU!NextUpc, G!NextUpc,
     CU!After, G!After, CU!Target, G!Target

\* The sequencer's other actions do not depend on the opcodes that may be fetched.
LEMMA SameActions ==
  /\ CU!Skip => G!Skip
  /\ CU!Jump => G!Jump
  /\ CU!Restart => G!Restart
  /\ CU!CallLabel => G!CallLabel
  /\ CU!CallByOpcode => G!CallByOpcode
  /\ CU!Return => G!Return
  /\ CU!Halt => G!Halt
  /\ CU!PrintOperand => G!PrintOperand
  /\ CU!EmergencyHalt => G!EmergencyHalt
<1>1. \A j : CU!Enter(j) => G!Enter(j)
  BY SamePlace, Zenon DEF CU!Enter, G!Enter, CU!StopWith, G!StopWith
<1>2. CU!UspBelow = G!UspBelow /\ CU!Slots = G!Slots /\ \A w : CU!StopWith(w) => G!StopWith(w)
  BY Zenon DEF CU!UspBelow, G!UspBelow, CU!Slots, G!Slots, CU!StopWith, G!StopWith
<1>3. \A a : CU!GoTo(a) => G!GoTo(a)
  BY Zenon DEF CU!GoTo, G!GoTo
<1> QED BY SamePlace, <1>1, <1>2, <1>3, Zenon
   DEF CU!Skip, G!Skip, CU!Jump, G!Jump, CU!Restart, G!Restart, CU!CallLabel, G!CallLabel,
       CU!CallByOpcode, G!CallByOpcode, CU!Return, G!Return, CU!Halt, G!Halt,
       CU!PrintOperand, G!PrintOperand, CU!EmergencyHalt, G!EmergencyHalt

\* While only known opcodes are fetched, the machine's steps are those of the
\* sequencer the certificate is about.
LEMMA FollowsKnown ==
  DataTypeOK /\ [Next]_machine /\ [Fetch => opc' \in Opcodes]_machine => [G!Next]_(G!vars)
<1> SUFFICES ASSUME DataTypeOK, [Next]_machine, [Fetch => opc' \in Opcodes]_machine
             PROVE  [G!Next]_(G!vars)
  OBVIOUS
<1>1. ASSUME ControlPoint, Fetch => opc' \in Opcodes PROVE G!ControlPoint
  <2>1. opc' \in CU!OpcodesAfter(UInst.ctrl, opc)
    BY <1>1, OpcodesAgree DEF ControlPoint, Transfer
  <2>2. opc' \in G!OpcodesAfter(UInst.ctrl, opc)
    BY <1>1, <2>1, Zenon DEF Fetch, CU!OpcodesAfter, G!OpcodesAfter, CU!Flip, G!Flip
  <2> QED BY <1>1, <2>2, SamePlace DEF ControlPoint, UInst, G!ControlPoint
<1>2. ASSUME EmergencyHalt PROVE G!EmergencyHalt
  BY <1>2, TroubleFollows, SameActions
<1>3. ASSUME Step, ~ControlPoint PROVE G!Step
  BY <1>2, <1>3, SameActions, Zenon
     DEF Step, Skip, Jump, Restart, CallLabel, CallByOpcode, Return, Halt, PrintOperand, G!Step
<1>4. CASE UNCHANGED machine
  BY <1>4 DEF machine, dataVars, G!vars
<1>5. CASE Next /\ (Fetch => opc' \in Opcodes)
  BY <1>1, <1>3, <1>4, <1>5, Zenon DEF Next, Done, G!Next, G!Step
<1> QED BY <1>4, <1>5

\* So such a program makes the machine a certified sequencer.
LEMMA KnownFollows == Spec /\ FetchesKnown => G!Spec
<1>1. Init => G!Init
  BY Zenon DEF Init, CU!Init, G!Init, CU!Slots, G!Slots
<1> QED BY <1>1, FollowsKnown, DataAlwaysFits, PTL DEF Spec, FetchesKnown, G!Spec

-----------------------------------------------------------------------------
\* With a certified microprogram, a program that keeps to the certificate's
\* opcodes never meets the emergency halts of uprocedure_call and of return,
\* however its operands nest the procedures that fetch and use them.
THEOREM MachineStackSafe ==
  ASSUME Certificate
  PROVE  Spec /\ FetchesKnown => []CU!StackSafe
<1>1. G!Spec => []G!StackSafe
  BY G!CertifiedStackSafe, PTL DEF Certificate
<1>2. G!StackSafe => CU!StackSafe
  BY Zenon DEF G!StackSafe, CU!StackSafe, G!NeverWild, CU!NeverWild
<1> QED BY <1>1, <1>2, KnownFollows, PTL

\* And between two of its instructions nothing is left on the microstack.
THEOREM MachineFetchBalanced ==
  ASSUME Certificate
  PROVE  Spec /\ FetchesKnown => []CU!FetchBalanced
<1>1. G!Spec => []G!FetchBalanced
  BY G!CertifiedFetchBalanced, PTL DEF Certificate
<1>2. G!FetchBalanced => CU!FetchBalanced
  BY Zenon DEF G!FetchBalanced, CU!FetchBalanced
<1> QED BY <1>1, <1>2, KnownFollows, PTL

-----------------------------------------------------------------------------
(* The control words that a shape may have for operand n. *)
May(k, n, x) == k \in {Anything, KindOf(n, x)}

-----------------------------------------------------------------------------
(* Kinds. *)

\* A control word is in a register, or has its kind's bits.
LEMMA Kinds ==
  ASSUME NEW n \in OpndId, NEW x \in 0..31
  PROVE  /\ KindOf(n, x) \in 0..31
         /\ KindOf(n, x) = Unused => x = 16
         /\ KindOf(n, x) \in {20, 21, 22} => x = KindOf(n, x)
         /\ KindOf(n, x) \in AddressMdr <=> x \in {23, 31}
         /\ n # 0 /\ KindOf(n, x) = IsValue => x \in RegId \cup {17, 18, 19}
         /\ n = 0 => (KindOf(n, x) < 16 <=> x < 16) /\ (KindOf(n, x) = InRegister <=> x < 16)
         /\ n = 0 /\ KindOf(n, x) >= 16 => x = KindOf(n, x)
         /\ KindOf(n, x) = 16 <=> x = 16
         /\ KindOf(n, x) \in Addresses <=> x \in Addresses
BY DEF Addresses, KindOf, OpndId, InRegister, IsValue, Unused, RegId, AddressMdr

\* The kind of a kind: copying a control word copies what is known of it.
LEMMA KindsCopied ==
  ASSUME NEW n \in OpndId, NEW m \in OpndId, n # 0, NEW x \in 0..31, NEW k, May(k, m, x)
  PROVE  May(KindOf(n, k), n, x)
BY DEF KindOf, May, OpndId, InRegister, IsValue, Anything

\* What is known of a control word that stays.
LEMMA KindsKept ==
  ASSUME NEW n \in OpndId, NEW x \in 0..31, NEW k, May(k, n, x)
  PROVE  May(KindOf(n, k), n, x)
BY DEF KindOf, May, OpndId, InRegister, IsValue, Anything

\* Bit 2, which tells an address, of the control words above the registers.
LEMMA AddressBit ==
  \A x \in 16..31 : Bit(x, 2) = 1 <=> x \in Addresses
<1>1. \A w : Bit(w, 2) = (w \div 4) % 2
  BY DEF Bit, Field
<1> QED BY <1>1 DEF Addresses

\* Which operands the accessors refuse.
LEMMA Refused ==
  ASSUME DataTypeOK, NEW n \in OpndId
  PROVE  NoOperand(n) <=> cntl[n] \in {23, 31}
<1>1. cntl[n] \in 0..31
  BY DEF DataTypeOK, Control
<1>2. ~IsRegister(n) => cntl[n] \in 16..31
  BY <1>1 DEF IsRegister
<1>3. cntl[n] \in 16..31 => (IsAddress(n) <=> cntl[n] \in Addresses)
  BY AddressBit DEF IsAddress
<1>4. Slot(n) = cntl[n] % 4
  BY DEF Slot
<1> QED BY <1>1, <1>2, <1>3, <1>4 DEF NoOperand, IsRegister, Addresses

\* What a shape that fits knows of the registers.
LEMMA Known ==
  ASSUME NEW s, Fits(s)
  PROVE  /\ \A n \in OpndId : May(s.c[n], n, cntl[n])
         /\ \A n \in OpndId : s.c[n] # Anything => s.c[n] = KindOf(n, cntl[n])
         /\ s.i # AnyIndex => s.i = i
         /\ s.o # AnyFetched => s.o = opc
         /\ s.o = AnyFetched => opc \in Opcodes
         /\ May(s.t, 2, utmp)
         /\ Mode \in s.m
<1>1. \A n \in OpndId : May(s.c[n], n, cntl[n])
  BY Zenon DEF Fits, May
<1>2. \A n \in OpndId : s.c[n] # Anything => s.c[n] = KindOf(n, cntl[n])
  BY <1>1 DEF May
<1>3. s.i # AnyIndex => s.i = i
  BY Zenon DEF Fits
<1>4. (s.o # AnyFetched => s.o = opc) /\ (s.o = AnyFetched => opc \in Opcodes)
  BY Zenon DEF Fits
<1>5. May(s.t, 2, utmp) /\ Mode \in s.m
  BY Zenon DEF Fits, May
<1> QED BY <1>1, <1>2, <1>3, <1>4, <1>5

-----------------------------------------------------------------------------
(* Control points. *)

\* An operand that a control point may read is one that there is.
LEMMA ReadsOperands ==
  ASSUME DataTypeOK, NEW s, Fits(s), NEW w, Reads(w, s)
  PROVE  \A n \in OperandsOf(w) :
           /\ \/ n \in {1, 2} /\ cntl[n] \in RegId \cup {17, 18, 19}
              \/ n = 1 /\ cntl[1] = 16 /\ cntl[0] \in {19, 20}
              \/ n = 0 /\ cntl[0] = 20
           /\ ~NoOperand(n)
<1> SUFFICES ASSUME NEW n \in OperandsOf(w)
             PROVE  /\ \/ n \in {1, 2} /\ cntl[n] \in RegId \cup {17, 18, 19}
                       \/ n = 1 /\ cntl[1] = 16 /\ cntl[0] \in {19, 20}
                       \/ n = 0 /\ cntl[0] = 20
                    /\ ~NoOperand(n)
  OBVIOUS
<1>1. n \in OpndId /\ 0 \in OpndId /\ 1 \in OpndId
  <2>1. n \in OpndId
    BY Zenon DEF OperandsOf
  <2> QED BY <2>1 DEF OpndId
<1>2. \A k \in OpndId : cntl[k] \in 0..31
  BY DEF DataTypeOK, Control
<1>3. \A k \in OpndId : s.c[k] # Anything => s.c[k] = KindOf(k, cntl[k])
  BY Known
<1>4. CASE n \in {1, 2} /\ s.c[n] = IsValue
  <2>1. cntl[n] \in RegId \cup {17, 18, 19}
    <3>1. n # 0 /\ KindOf(n, cntl[n]) = IsValue
      BY <1>1, <1>3, <1>4 DEF IsValue, Anything
    <3>2. cntl[n] \in 0..31
      BY <1>1, <1>2
    <3> QED BY <1>1, <3>1, <3>2, Kinds, Zenon
  <2>2. cntl[n] \notin {23, 31}
    BY <2>1 DEF RegId
  <2>3. ~NoOperand(n)
    BY <1>1, <2>2, Refused
  <2> QED BY <1>4, <2>1, <2>3, Zenon
<1>5. CASE n = 1 /\ s.c[1] = Unused /\ s.c[0] \in {InMdr, InMemory(0)}
  <2>1. KindOf(1, cntl[1]) = 16
    BY <1>1, <1>3, <1>5 DEF Unused, Anything
  <2>2. KindOf(0, cntl[0]) \in {19, 20}
    BY <1>1, <1>3, <1>5 DEF InMdr, InMemory, Anything
  <2>3. cntl[1] = 16 /\ cntl[0] \in {19, 20}
    BY <1>1, <1>2, <2>1, <2>2, Kinds, SMTT(30)
  <2> QED BY <1>1, <1>5, <2>3, Refused
<1>6. CASE n = 0 /\ s.c[0] = InMemory(0)
  <2>1. KindOf(0, cntl[0]) = 20
    BY <1>1, <1>3, <1>6 DEF InMemory, Anything
  <2>2. cntl[0] = 20
    BY <1>1, <1>2, <2>1, Kinds, SMTT(30)
  <2> QED BY <1>1, <1>6, <2>2, Refused
<1> QED BY <1>4, <1>5, <1>6 DEF Reads

\* No accessor refuses what a safe control point asks.
LEMMA SafeHasNoFault ==
  ASSUME DataTypeOK, NEW s, Fits(s), NEW w, Reads(w, s), Safe(w, s)
  PROVE  Fault(w) = "none"
<1>0. \A k \in OpndId : cntl[k] \in 0..31
  BY DEF DataTypeOK, Control
<1>1. 0 \in OpndId /\ (s.c[0] # Anything => s.c[0] = KindOf(0, cntl[0]))
  BY Known DEF OpndId
<1>2. w \in IndexedWords => i # 3
  <2>1. w \in IndexedWords => s.i \in OpndId
    BY Zenon DEF Safe
  <2>2. s.i \in OpndId => s.i # AnyIndex /\ s.i # 3
    BY DEF OpndId, AnyIndex
  <2> QED BY <2>1, <2>2, Known
<1>3. w = "Mem[Addr[cntl[0](3..0)]] <- MDR" => cntl[0] = 20
  <2>1. w = "Mem[Addr[cntl[0](3..0)]] <- MDR" => s.c[0] = InMemory(0)
    BY Zenon DEF Safe
  <2>2. s.c[0] = InMemory(0) => KindOf(0, cntl[0]) = 20
    BY <1>1 DEF InMemory, Anything
  <2>3. KindOf(0, cntl[0]) = 20 => cntl[0] = 20
    BY <1>0, <1>1, Kinds
  <2> QED BY <2>1, <2>2, <2>3
<1>4. w = "Reg[cntl[0](3..0)] <- MDR" => IsRegister(0)
  <2>1. w = "Reg[cntl[0](3..0)] <- MDR" => s.c[0] = InRegister
    BY Zenon DEF Safe
  <2>2. s.c[0] = InRegister => KindOf(0, cntl[0]) = InRegister
    BY <1>1 DEF InRegister, Anything
  <2>3. KindOf(0, cntl[0]) = InRegister => cntl[0] < 16
    BY <1>0, <1>1, Kinds
  <2> QED BY <2>1, <2>2, <2>3 DEF IsRegister
<1>5. cntl[0] = 20 => ~IsRegister(0) /\ Slot(0) # 3
  BY DEF IsRegister, Slot
<1>6. \A n \in OperandsOf(w) : ~NoOperand(n)
  BY ReadsOperands
<1>7. ~Strays(w)
  BY <1>2, <1>3, <1>5, Zenon DEF Strays
<1>8. ~Fails(w)
  BY <1>3, <1>4, <1>5, <1>6, Zenon DEF Fails
<1> QED BY <1>7, <1>8 DEF Fault

\* What is known of the control words after a control point: each was known
\* as well as the one it was made of.
LEMMA CntlFollows ==
  ASSUME DataTypeOK, NEW s \in Shape, Fits(s), NEW w, Safe(w, s)
  PROVE  \A n \in OpndId : May(ShapeAfter(w, s).c[n], n, NewCntl(w)[n])
<1> DEFINE F(k, x) == [s.c EXCEPT ![k] = x]
           H(k, x) == [cntl EXCEPT ![k] = x]
           Copied(f, g) == \A n \in OpndId : May(KindOf(n, f[n]), n, g[n])
<1>1. /\ \A k \in OpndId : cntl[k] \in 0..31
      /\ utmp \in 0..31 /\ i \in 0..3
      /\ cntl \in [OpndId -> 0..31]
      /\ s.c \in [OpndId -> 0..32]
  BY DEF DataTypeOK, Control, Shape
<1>2. 0 \in OpndId /\ 1 \in OpndId /\ 2 \in OpndId
  BY DEF OpndId
<1>3. Copied(s.c, cntl)
  BY <1>1, Known, KindsKept
<1>4. ASSUME NEW k \in OpndId, NEW x, NEW y, May(KindOf(k, x), k, y)
      PROVE  Copied(F(k, x), H(k, y))
  BY <1>1, <1>3, <1>4
<1>5. \A x : \A k \in OpndId : Copied(F(k, x), H(k, x))
  BY <1>4 DEF May
<1>6. Copied(F(1, s.c[0]), H(1, cntl[0])) /\ Copied(F(2, s.c[1]), H(2, cntl[1]))
  <2>0. 1 # 0 /\ 2 # 0
    OBVIOUS
  <2>1. May(s.c[0], 0, cntl[0]) /\ May(s.c[1], 1, cntl[1])
    BY <1>2, Known
  <2>2. May(KindOf(1, s.c[0]), 1, cntl[0]) /\ May(KindOf(2, s.c[1]), 2, cntl[1])
    BY <1>1, <1>2, <2>0, <2>1, KindsCopied, Zenon
  <2> QED BY <1>2, <1>4, <2>2
<1>7. Copied(F(1, s.t), H(1, utmp))
  <2>1. May(KindOf(1, s.t), 1, utmp)
    BY <1>1, <1>2, Known, KindsCopied
  <2> QED BY <1>2, <1>4, <2>1
<1>8. w \in IndexedWords => s.i = i /\ i \in OpndId
  <2>1. w \in IndexedWords => s.i \in OpndId
    BY Zenon DEF Safe
  <2>2. s.i \in OpndId => s.i # AnyIndex
    BY DEF OpndId, AnyIndex
  <2> QED BY <2>1, <2>2, Known
<1>9. ASSUME NEW k \in OpndId, s.c[k] \in {20, 21, 22}
      PROVE  Copied(F(k, FlipBit(s.c[k], 2)), H(k, FlipBit(cntl[k], 2)))
  <2>1. s.c[k] = KindOf(k, cntl[k])
    BY <1>9, Known DEF Anything
  <2>2. cntl[k] = s.c[k]
    BY <1>1, <1>9, <2>1, Kinds
  <2> QED BY <1>5, <2>2
<1>10. w = "cntl[1](2) <- 0" => Copied(F(1, FlipBit(s.c[1], 2)), H(1, FlipBit(cntl[1], 2)))
  <2>1. w = "cntl[1](2) <- 0" => s.c[1] \in {InMemory(0), InMemory(1)}
    BY Zenon DEF Safe
  <2>2. s.c[1] \in {InMemory(0), InMemory(1)} => s.c[1] \in {20, 21, 22}
    BY DEF InMemory
  <2> QED BY <1>2, <1>9, <2>1, <2>2
<1>11. w = "cntl[i](2) <- 0" => Copied(F(s.i, FlipBit(s.c[s.i], 2)), H(i, FlipBit(cntl[i], 2)))
  <2>1. w = "cntl[i](2) <- 0" => w \in IndexedWords /\ s.c[s.i] = InMemory(s.i)
    BY Zenon DEF Safe, IndexedWords
  <2>2. i \in OpndId => InMemory(i) \in {20, 21, 22}
    BY DEF InMemory, OpndId
  <2> QED BY <1>8, <1>9, <2>1, <2>2
<1>12. w \in IndexedWords => Copied(F(s.i, 0 % 16), H(i, regshift % 16))
  <2>1. 0 % 16 = 0 /\ regshift % 16 \in 0..15
    BY LowPartsFit DEF DataTypeOK
  <2>2. \A k \in OpndId : May(KindOf(k, 0 % 16), k, regshift % 16)
    BY <2>1 DEF May, KindOf, OpndId
  <2> QED BY <1>4, <1>8, <2>2
<1>13. w \in IndexedWords =>
         /\ Copied(F(s.i, 16), H(i, 16))
         /\ Copied(F(s.i, FlipBit(s.i, 4)), H(i, FlipBit(i, 4)))
         /\ Copied(F(s.i, FlipBit(FlipBit(s.i, 4), 2)), H(i, FlipBit(FlipBit(i, 4), 2)))
  BY <1>5, <1>8
<1>14. \A x : Copied(F(0, x), H(0, x)) /\ Copied(F(1, x), H(1, x)) /\ Copied(F(2, x), H(2, x))
  BY <1>2, <1>5
<1>15. /\ w = "cntl[i] <- 00000 | regshift" => w \in IndexedWords
       /\ w = "cntl[i] <- 10000" => w \in IndexedWords
       /\ w = "cntl[i] <- 10000 | i" => w \in IndexedWords
       /\ w = "cntl[i] <- 10100 | i" => w \in IndexedWords
       /\ w = "cntl[i](2) <- 0" => w \in IndexedWords
  BY DEF IndexedWords
<1>16. Copied(CntlAfter(w, s.c, s.i, s.t, 0), CntlAfter(w, cntl, i, utmp, regshift))
  <2> HIDE DEF Copied
  <2> QED BY <1>3, <1>6, <1>7, <1>10, <1>11, <1>12, <1>13, <1>14, <1>15, ZenonT(60) DEF CntlAfter
<1>17. ShapeAfter(w, s).c = [n \in OpndId |-> KindOf(n, CntlAfter(w, s.c, s.i, s.t, 0)[n])]
  BY Zenon DEF ShapeAfter
<1> QED BY <1>16, <1>17 DEF NewCntl

\* The address mode of an operand has two bits.
LEMMA ModeFits ==
  /\ DataTypeOK => Mode \in AnyMode
  /\ DataTypeOK' => Mode' \in AnyMode
<1>1. \A x \in 0..255 : Field(x, 5, 4) \in 0..3 /\ Field(x, 3, 2) \in 0..3 /\ Field(x, 1, 0) \in 0..3
  <2> SUFFICES ASSUME NEW x \in 0..255
               PROVE  Field(x, 5, 4) \in 0..3 /\ Field(x, 3, 2) \in 0..3 /\ Field(x, 1, 0) \in 0..3
    OBVIOUS
  <2>1. /\ Field(x, 5, 4) = (x \div 16) % 4
        /\ Field(x, 3, 2) = (x \div 4) % 4
        /\ Field(x, 1, 0) = (x \div 1) % 4
    BY DEF Field
  <2> QED BY <2>1
<1>2. (DataTypeOK => modes \in 0..255) /\ (DataTypeOK' => modes' \in 0..255)
  BY DEF DataTypeOK
<1> QED BY <1>1, <1>2, Zenon DEF Mode, AnyMode

\* A control point that fetches an expected opcode, or does not fetch.
FetchesLegal(w) == w = "IR <- Mem[PC]" => opc' \in Opcodes

\* A shape that fits, fits after a control point as ShapeAfter says.
LEMMA ShapeFollows ==
  ASSUME DataTypeOK, NEW s \in Shape, Fits(s), NEW w, Safe(w, s), Transfer(w), DataTypeOK',
         FetchesLegal(w)
  PROVE  Fits(ShapeAfter(w, s))'
<1> DEFINE t == ShapeAfter(w, s)
<1>1. IF t.o = AnyFetched THEN opc' \in Opcodes ELSE opc' = t.o
  <2>1. opc' = NewOpc(w) /\ opc' \in 0..255
    BY DEF Transfer, DataTypeOK
  <2>2. t.o = CASE w = "IR <- Mem[PC]"   -> AnyFetched
                [] w = "IR(opc)(2) <- 0" -> FlipBit(s.o, 2)
                [] w = "IR(opc)(3) <- 0" -> FlipBit(s.o, 3)
                [] OTHER -> s.o
    BY Zenon DEF ShapeAfter
  <2>3. w \in {"IR(opc)(2) <- 0", "IR(opc)(3) <- 0"} => s.o = opc
    <3>1. w \in {"IR(opc)(2) <- 0", "IR(opc)(3) <- 0"} => s.o # AnyFetched
      BY Zenon DEF Safe
    <3> QED BY <3>1, Known
  <2>4. CASE w \in {"IR(opc)(2) <- 0", "IR(opc)(3) <- 0"}
    <3>1. t.o = opc'
      BY <2>1, <2>2, <2>3, <2>4, Zenon DEF NewOpc
    <3>2. t.o # AnyFetched
      BY <2>1, <3>1 DEF AnyFetched
    <3> QED BY <3>1, <3>2
  <2>5. CASE w = "IR <- Mem[PC]"
    <3>1. t.o = AnyFetched
      BY <2>2, <2>5, Zenon
    <3> QED BY <2>5, <3>1, Zenon DEF FetchesLegal
  <2>6. CASE w \notin {"IR(opc)(2) <- 0", "IR(opc)(3) <- 0", "IR <- Mem[PC]"}
    <3>1. t.o = s.o /\ opc' = opc
      BY <2>1, <2>2, <2>6, Zenon DEF NewOpc
    <3> QED BY <3>1, Known
  <2> QED BY <2>4, <2>5, <2>6
<1>2. \A n \in OpndId : t.c[n] \in {Anything, KindOf(n, cntl'[n])}
  <2>1. cntl' = NewCntl(w)
    BY DEF Transfer
  <2> QED BY <2>1, CntlFollows DEF May
<1>3. t.i \in {AnyIndex, i'}
  <2>1. t.i = CASE w = "i <- 00"    -> 0
                [] w = "i <- i + 1" -> IF s.i = AnyIndex THEN AnyIndex ELSE (s.i + 1) % 4
                [] OTHER -> s.i
    BY Zenon DEF ShapeAfter
  <2>2. i' = CASE w = "i <- 00" -> 0 [] w = "i <- i + 1" -> (i + 1) % 4 [] OTHER -> i
    BY Zenon DEF Transfer
  <2>3. s.i \in {AnyIndex, i}
    BY Known
  <2> QED BY <2>1, <2>2, <2>3, Zenon
<1>4. t.t \in {Anything, KindOf(2, utmp')}
  <2>1. t.t = IF w = "tmp <- cntl[2]" THEN s.c[2] ELSE s.t
    BY Zenon DEF ShapeAfter
  <2>2. utmp' = IF w = "tmp <- cntl[2]" THEN cntl[2] ELSE utmp
    BY Zenon DEF Transfer
  <2>3. May(s.c[2], 2, cntl[2]) /\ May(s.t, 2, utmp)
    <3>1. 2 \in OpndId
      BY DEF OpndId
    <3> QED BY <3>1, Known
  <2>4. s.c[2] \in {Anything, KindOf(2, cntl[2])} /\ s.t \in {Anything, KindOf(2, utmp)}
    BY <2>3, Zenon DEF May
  <2> QED BY <2>1, <2>2, <2>4, Zenon
<1>5. Mode' \in t.m
  <2>1. CASE w \in {"IR <- Mem[PC]", "i <- 00", "i <- i + 1"}
    <3>1. t.m = AnyMode
      BY <2>1, Zenon DEF ShapeAfter
    <3>2. Mode' \in AnyMode
      BY ModeFits
    <3> QED BY <3>1, <3>2
  <2>2. CASE w \notin {"IR <- Mem[PC]", "i <- 00", "i <- i + 1"}
    <3>1. t.m = s.m /\ Mode \in s.m
      BY <2>2, Known, Zenon DEF ShapeAfter
    <3>2. modes' = modes /\ i' = i
      BY <2>2, Zenon DEF Transfer
    <3> QED BY <3>1, <3>2, Zenon DEF Mode
  <2> QED BY <2>1, <2>2
<1> QED BY <1>1, <1>2, <1>3, <1>4, <1>5, Zenon DEF Fits
-----------------------------------------------------------------------------
(* Conditions. *)

\* Where a control word is, by the two bits that the conditions look at.
LEMMA Places ==
  ASSUME DataTypeOK, NEW n \in OpndId
  PROVE  /\ IsRegister(n) <=> cntl[n] < 16
         /\ ~IsRegister(n) /\ IsAddress(n) <=> cntl[n] \in Addresses
<1>1. cntl[n] \in 0..31
  BY DEF DataTypeOK, Control
<1>2. cntl[n] < 16 \/ cntl[n] \in 16..31
  BY <1>1
<1>3. cntl[n] \in 16..31 => (IsAddress(n) <=> cntl[n] \in Addresses)
  BY AddressBit DEF IsAddress
<1> QED BY <1>1, <1>2, <1>3 DEF IsRegister, Addresses

\* The conditions that the shape decides are as it says.
LEMMA ShapeDecides ==
  ASSUME DataTypeOK, NEW s \in Shape, Fits(s), NEW c \in ByShape, Decidable(c, s)
  PROVE  Holds(c) <=> Holding(c, s)
<1>0. \A n \in OpndId : cntl[n] \in 0..31
  BY DEF DataTypeOK, Control
<1>1. 0 \in OpndId /\ 1 \in OpndId /\ 2 \in OpndId
  BY DEF OpndId
<1>2. \A n \in OpndId : <<n, c>> \in About => s.c[n] = KindOf(n, cntl[n])
  <2>1. \A n \in OpndId : <<n, c>> \in About => s.c[n] # Anything
    BY Zenon DEF Decidable
  <2> QED BY <2>1, Known
<1>a. ASSUME NEW n \in OpndId, <<n, c>> \in About
      PROVE  /\ s.c[n] = 16 <=> cntl[n] = 16
             /\ s.c[n] \in Addresses <=> ~IsRegister(n) /\ IsAddress(n)
             /\ n = 0 => (s.c[n] < 16 <=> IsRegister(n))
             /\ n = 0 => (s.c[n] = InRegister <=> IsRegister(n))
  <2>1. s.c[n] = KindOf(n, cntl[n]) /\ cntl[n] \in 0..31
    BY <1>0, <1>2, <1>a
  <2> QED BY <2>1, Kinds, Places
<1>3. CASE c = "cntl[0] = 10000"
  <2>1. <<0, c>> \in About
    BY <1>3, Zenon DEF About
  <2>2. (Holds(c) <=> cntl[0] = 16) /\ (Holding(c, s) <=> s.c[0] = 16)
    BY <1>3, Zenon DEF Holds, Holding
  <2> QED BY <1>1, <1>a, <2>1, <2>2
<1>4. CASE c = "cntl[0](2) = 1"
  <2>1. <<0, c>> \in About
    BY <1>4, Zenon DEF About
  <2>2. (Holds(c) <=> IsAddress(0)) /\ (Holding(c, s) <=> s.c[0] \in Addresses)
    BY <1>4, Zenon DEF Holds, Holding
  <2>3. s.c[0] # InRegister
    BY <1>4, Zenon DEF Decidable
  <2> QED BY <1>1, <1>a, <2>1, <2>2, <2>3
<1>5. CASE c = "cntl[0](4) = 0"
  <2>1. <<0, c>> \in About
    BY <1>5, Zenon DEF About
  <2>2. (Holds(c) <=> IsRegister(0)) /\ (Holding(c, s) <=> s.c[0] < 16)
    BY <1>5, Zenon DEF Holds, Holding
  <2> QED BY <1>1, <1>a, <2>1, <2>2
<1>6. CASE c = "cntl[1] = 10000"
  <2>1. <<1, c>> \in About
    BY <1>6, Zenon DEF About
  <2>2. (Holds(c) <=> cntl[1] = 16) /\ (Holding(c, s) <=> s.c[1] = 16)
    BY <1>6, Zenon DEF Holds, Holding
  <2> QED BY <1>1, <1>a, <2>1, <2>2
<1>7. CASE c = "cntl[1](4) = 1 AND cntl[1](2) = 1"
  <2>1. <<1, c>> \in About
    BY <1>7, Zenon DEF About
  <2>2. (Holds(c) <=> ~IsRegister(1) /\ IsAddress(1)) /\ (Holding(c, s) <=> s.c[1] \in Addresses)
    BY <1>7, Zenon DEF Holds, Holding
  <2> QED BY <1>1, <1>a, <2>1, <2>2
<1>8. CASE c = "cntl[2] = 10000"
  <2>1. <<2, c>> \in About
    BY <1>8, Zenon DEF About
  <2>2. (Holds(c) <=> cntl[2] = 16) /\ (Holding(c, s) <=> s.c[2] = 16)
    BY <1>8, Zenon DEF Holds, Holding
  <2> QED BY <1>1, <1>a, <2>1, <2>2
<1>9. CASE c = "cntl[i](4) = 1 AND cntl[i](2) = 1"
  <2>1. s.i \in OpndId /\ s.c[s.i] # Anything
    BY <1>9, Zenon DEF Decidable
  <2>2. s.i = i
    BY <2>1, Known DEF OpndId, AnyIndex
  <2>3. s.c[i] = KindOf(i, cntl[i]) /\ cntl[i] \in 0..31
    BY <1>0, <2>1, <2>2, Known
  <2>4. (Holds(c) <=> ~IsRegister(i) /\ IsAddress(i)) /\ (Holding(c, s) <=> s.c[s.i] \in Addresses)
    BY <1>9, Zenon DEF Holds, Holding
  <2> QED BY <2>1, <2>2, <2>3, <2>4, Kinds, Places
<1>10. CASE c = "i != 00"
  <2>1. s.i # AnyIndex
    BY <1>10, Zenon DEF Decidable
  <2>2. (Holds(c) <=> i # 0) /\ (Holding(c, s) <=> s.i # 0)
    BY <1>10, Zenon DEF Holds, Holding
  <2> QED BY <2>1, <2>2, Known
<1>11. CASE c = "i = 11"
  <2>1. s.i # AnyIndex
    BY <1>11, Zenon DEF Decidable
  <2>2. (Holds(c) <=> i = 3) /\ (Holding(c, s) <=> s.i = 3)
    BY <1>11, Zenon DEF Holds, Holding
  <2> QED BY <2>1, <2>2, Known
<1> QED BY <1>3, <1>4, <1>5, <1>6, <1>7, <1>8, <1>9, <1>10, <1>11, Zenon DEF ByShape

\* A condition that the shape lets decide is decided without a fault.
LEMMA DecidableHasNoFault ==
  ASSUME DataTypeOK, NEW s \in Shape, Fits(s), NEW c, Decidable(c, s)
  PROVE  CondFault(c) = "none"
<1>0. 0 \in OpndId /\ 1 \in OpndId /\ \A n \in OpndId : cntl[n] \in 0..31
  BY DEF DataTypeOK, Control, OpndId
<1>1. s.i \in OpndId => i # 3
  BY Known DEF OpndId, AnyIndex
<1>2. /\ c = "cntl[i](4) = 1 AND cntl[i](2) = 1" => s.i \in OpndId
      /\ c \in ModeConditions => s.i \in OpndId
      /\ c = "i != 00 AND IR(imm)(i) = 1" => s.i \in OpndId
  BY Zenon DEF Decidable
<1>3. c = "cntl[0](2) = 1" => ~IsRegister(0)
  <2>1. c = "cntl[0](2) = 1" => s.c[0] # InRegister /\ s.c[0] # Anything
    BY <1>0, Zenon DEF Decidable, About
  <2>2. s.c[0] # Anything => s.c[0] = KindOf(0, cntl[0])
    BY <1>0, Known
  <2>3. KindOf(0, cntl[0]) # InRegister => ~IsRegister(0)
    BY <1>0, Kinds, Places
  <2> QED BY <2>1, <2>2, <2>3
<1>4. c = "op1 = 0" => ~NoOperand(1)
  <2>1. c = "op1 = 0" => s.c[1] \notin AddressMdr /\ s.c[1] # Anything
    BY <1>0, Zenon DEF Decidable, About
  <2>2. s.c[1] # Anything => s.c[1] = KindOf(1, cntl[1])
    BY <1>0, Known
  <2>3. KindOf(1, cntl[1]) \notin AddressMdr => ~NoOperand(1)
    BY <1>0, Kinds, Refused
  <2> QED BY <2>1, <2>2, <2>3
<1>5. ~CondStrays(c)
  BY <1>1, <1>2, Zenon DEF CondStrays
<1>6. ~CondFails(c)
  BY <1>1, <1>2, <1>3, <1>4, Zenon DEF CondFails
<1> QED BY <1>5, <1>6 DEF CondFault

\* The mode conditions ask for the operand's mode.
LEMMA ModesAsked ==
  ASSUME NEW c \in ModeConditions
  PROVE  Holds(c) <=> Mode \in ModesOf(c)
<1>1. CASE c = "IR(ami) = 00"
  <2>1. (Holds(c) <=> Mode = 0) /\ ModesOf(c) = {0}
    BY <1>1, Zenon DEF Holds, ModesOf
  <2> QED BY <2>1
<1>2. CASE c = "IR(ami) = 01 or 10"
  <2>1. (Holds(c) <=> Mode \in {1, 2}) /\ ModesOf(c) = {1, 2}
    BY <1>2, Zenon DEF Holds, ModesOf
  <2> QED BY <2>1
<1>3. CASE c = "IR(ami) = 10"
  <2>1. (Holds(c) <=> Mode = 2) /\ ModesOf(c) = {2}
    BY <1>3, Zenon DEF Holds, ModesOf
  <2> QED BY <2>1
<1>4. CASE c = "IR(ami) = 11"
  <2>1. (Holds(c) <=> Mode = 3) /\ ModesOf(c) = {3}
    BY <1>4, Zenon DEF Holds, ModesOf
  <2> QED BY <2>1
<1> QED BY <1>1, <1>2, <1>3, <1>4, Zenon DEF ModeConditions

\* A condition's outcome is one of those that the shape expects, and the shape
\* that takes account of it fits.
LEMMA ConditionFollows ==
  ASSUME DataTypeOK, NEW s \in Shape, Fits(s), NEW c, Decidable(c, s)
  PROVE  /\ Holds(c) => MayHold(c, s) /\ Fits(IfHeld(c, s))
         /\ ~Holds(c) => MayFail(c, s) /\ Fits(IfFailed(c, s))
<1>1. c \in ByShape => (Holds(c) <=> Holding(c, s))
  BY ShapeDecides
<1>2. c \in ModeConditions => (Holds(c) <=> Mode \in ModesOf(c))
  BY ModesAsked
<1>3. Mode \in s.m
  BY Known
<1>4. c = "i != 00 AND IR(imm)(i) = 1" /\ Holds(c) => s.i # 0
  <2>1. c = "i != 00 AND IR(imm)(i) = 1" => s.i \in OpndId
    BY Zenon DEF Decidable
  <2>2. c = "i != 00 AND IR(imm)(i) = 1" /\ Holds(c) => i # 0
    BY Zenon DEF Holds
  <2>3. s.i \in OpndId => s.i = i
    BY Known DEF OpndId, AnyIndex
  <2> QED BY <2>1, <2>2, <2>3, Zenon
<1>5. Holds(c) => MayHold(c, s)
  BY <1>1, <1>2, <1>3, <1>4, Zenon DEF MayHold
<1>6. ~Holds(c) => MayFail(c, s)
  BY <1>1, <1>2, <1>3, Zenon DEF MayFail
<1>7. ASSUME NEW M, Mode \in M
      PROVE  Fits([s EXCEPT !.m = M])
  <2> DEFINE t == [s EXCEPT !.m = M]
  <2>1. t.o = s.o /\ t.c = s.c /\ t.i = s.i /\ t.t = s.t /\ t.m = M
    BY DEF Shape
  <2> HIDE DEF t
  <2>2. Fits(t)
    BY <1>7, <2>1, Zenon DEF Fits
  <2> QED BY <2>2 DEF t
<1>8. Holds(c) => Fits(IfHeld(c, s))
  <2>1. c \in ModeConditions /\ Holds(c) => Mode \in s.m \cap ModesOf(c)
    BY <1>2, <1>3, Zenon
  <2> QED BY <1>7, <2>1, Zenon DEF IfHeld
<1>9. ~Holds(c) => Fits(IfFailed(c, s))
  <2>1. c \in ModeConditions /\ ~Holds(c) => Mode \in s.m \ ModesOf(c)
    BY <1>2, <1>3, Zenon
  <2> QED BY <1>7, <2>1, Zenon DEF IfFailed
<1> QED BY <1>5, <1>6, <1>8, <1>9

-----------------------------------------------------------------------------
(* The machine. *)

(* The microstack's registers hold what the sequencer's proofs say. *)
StackFits == /\ CTRL_STACK_HEIGHT \in 1..7
             /\ usp \in 0..CTRL_STACK_HEIGHT
             /\ ustack \in [CU!Slots -> CU!UAddr]

(* What runs is at a place that c may meet, with a shape that fits. *)
Here(c) == \E s : <<upc, s>> \in Meets[c] /\ Fits(s)

(* Each active scope resumes its caller as the certificate says. *)
Path(ctx) == /\ \A k \in 1..usp : ResumesAt(Meets, ctx[k - 1], ctx[k], ustack[k - 1])
             /\ Here(ctx[usp])

(* Where control is, and what the shapes say of the registers: the invariant. *)
Met == /\ status \in {"run", "halt", "reject"}
       /\ \E ctx \in [0..usp -> DOMAIN Meets] : Path(ctx)

\* The certificate at a place of the scope that runs.
LEMMA PlaceSound ==
  ASSUME NEW c \in DOMAIN Meets, NEW s, <<upc, s>> \in Meets[c]
  PROVE  Sound(Meets, c, upc, s)
BY FlowAssumption, Zenon DEF Flows

\* Shapes say nothing of the other registers.
LEMMA FitStays ==
  ASSUME NEW s, Fits(s), UNCHANGED <<opc, cntl, i, utmp, modes>>
  PROVE  Fits(s)'
<1>1. Mode' = Mode
  BY Zenon DEF Mode
<1> QED BY <1>1, Zenon DEF Fits

\* An instruction begins with any known opcode.
LEMMA FitsForgotten ==
  /\ DataTypeOK /\ opc \in Opcodes => Fits(Forgotten)
  /\ DataTypeOK' /\ opc' \in Opcodes => Fits(Forgotten)'
<1> DEFINE t == Forgotten
<1>1. t.o = AnyFetched /\ t.i = AnyIndex /\ t.t = Anything /\ t.m = AnyMode
      /\ \A n \in OpndId : t.c[n] = Anything
  BY Zenon DEF Forgotten
<1> HIDE DEF t
<1>2. DataTypeOK /\ opc \in Opcodes => Fits(t)
  BY <1>1, ModeFits, Zenon DEF Fits
<1>3. DataTypeOK' /\ opc' \in Opcodes => Fits(t)'
  BY <1>1, ModeFits, Zenon DEF Fits, t
<1> QED BY <1>2, <1>3 DEF t

\* A shape with the opcode filled in.
LEMMA FitsOpcode ==
  ASSUME NEW s \in Shape, Fits(s)
  PROVE  Fits([s EXCEPT !.o = opc]) /\ opc \in Fetched(s)
<1> DEFINE t == [s EXCEPT !.o = opc]
<1>1. t.o = opc /\ t.c = s.c /\ t.i = s.i /\ t.t = s.t /\ t.m = s.m
  BY DEF Shape
<1>2. s.o = AnyFetched => opc \in Opcodes
  BY Known
<1>3. opc # AnyFetched \/ opc \in Opcodes
  BY Known DEF Shape
<1>4. opc \in Fetched(s)
  BY Known DEF Fetched
<1> HIDE DEF t
<1>5. Fits(t)
  BY <1>1, <1>3, Zenon DEF Fits
<1> QED BY <1>4, <1>5 DEF t

\* A microinstruction with a shape that fits is carried out.
LEMMA NoTrouble ==
  ASSUME DataTypeOK, NEW c \in DOMAIN Meets, NEW s, <<upc, s>> \in Meets[c], Fits(s)
  PROVE  Trouble = "none"
<1>1. Sound(Meets, c, upc, s) /\ CU!Inst(upc) = UInst
  BY PlaceSound DEF UInst, CU!UInst
<1>2. /\ s \in Shape
      /\ Reads(UInst.ctrl, s)
      /\ UInst.cond # "always" => Decidable(UInst.cond, s)
      /\ UInst.op = "ctrl" => Safe(UInst.ctrl, s)
      /\ UInst.op = "print" => s.c[1] \notin AddressMdr \cup {Anything}
  BY <1>1, Zenon DEF Sound
<1>3. UInst.op = "ctrl" => Fault(UInst.ctrl) = "none"
  BY <1>2, SafeHasNoFault
<1>4. UInst.cond # "always" => CondFault(UInst.cond) = "none"
  BY <1>2, DecidableHasNoFault
<1>5. UInst.op = "print" => ~NoOperand(1)
  <2>1. 1 \in OpndId /\ cntl[1] \in 0..31
    BY DEF DataTypeOK, Control, OpndId
  <2>2. UInst.op = "print" => s.c[1] = KindOf(1, cntl[1])
    BY <1>2, <2>1, Known
  <2> QED BY <1>2, <2>1, <2>2, Kinds, Refused
<1> QED BY <1>3, <1>4, <1>5, Zenon DEF Trouble

\* How a step that leaves the microstack alone shows that the invariant holds.
LEMMA SamePath ==
  ASSUME NEW ctx \in [0..usp -> DOMAIN Meets], Path(ctx),
         UNCHANGED <<usp, ustack>>, status' \in {"run", "halt", "reject"}, Here(ctx[usp])'
  PROVE  Met'
<1>1. Path(ctx)'
  BY DEF Path
<1> QED BY <1>1 DEF Met

\* A procedure is entered: the path grows.
LEMMA PathGrows ==
  ASSUME StackFits, NEW ctx \in [0..usp -> DOMAIN Meets], Path(ctx),
         usp # CTRL_STACK_HEIGHT,
         usp' = (usp + 1) % 8,
         ustack' = [ustack EXCEPT ![usp] = CU!NextUpc],
         status' \in {"run", "halt", "reject"},
         NEW d \in DOMAIN Meets,
         ResumesAt(Meets, ctx[usp], d, CU!NextUpc),
         Here(d)'
  PROVE  Met'
<1>1. usp \in Nat /\ usp' = usp + 1 /\ usp \in 0..CTRL_STACK_HEIGHT /\ CTRL_STACK_HEIGHT \in 1..7
  BY DEF StackFits
<1>2. PICK g : g = [k \in 0..(usp + 1) |-> IF k = usp + 1 THEN d ELSE ctx[k]]
  OBVIOUS
<1>3. g \in [0..usp' -> DOMAIN Meets]
  BY <1>1, <1>2
<1>4. g[usp'] = d /\ \A k \in 0..usp : g[k] = ctx[k]
  BY <1>1, <1>2
<1>5. ASSUME NEW k \in 1..usp' PROVE ResumesAt(Meets, g[k - 1], g[k], ustack'[k - 1])
  <2>1. CASE k = usp'
    <3>1. usp \in CU!Slots /\ k - 1 = usp
      BY <1>1, <2>1 DEF CU!Slots
    <3>2. ustack'[usp] = CU!NextUpc
      BY <3>1 DEF StackFits
    <3>3. g[usp] = ctx[usp]
      BY <1>1, <1>4
    <3> QED BY <1>4, <2>1, <3>1, <3>2, <3>3
  <2>2. CASE k # usp'
    <3>1. k \in 1..usp /\ k \in 0..usp /\ k - 1 \in 0..usp /\ k - 1 # usp /\ k - 1 \in CU!Slots
      BY <1>1, <2>2 DEF CU!Slots
    <3>2. ustack'[k - 1] = ustack[k - 1]
      BY <3>1 DEF StackFits
    <3>3. ResumesAt(Meets, ctx[k - 1], ctx[k], ustack[k - 1])
      BY <3>1 DEF Path
    <3> QED BY <1>4, <3>1, <3>2, <3>3
  <2> QED BY <2>1, <2>2
<1>6. \E t : <<upc', t>> \in Meets[g[usp']] /\ Fits(t)'
  BY <1>4 DEF Here
<1>7. Path(g)'
  BY <1>5, <1>6 DEF Path, Here
<1> QED BY <1>3, <1>7 DEF Met

\* A procedure returns: the path shrinks, and the caller goes on where the
\* certificate says.
LEMMA PathShrinks ==
  ASSUME StackFits, NEW ctx \in [0..usp -> DOMAIN Meets], Path(ctx),
         CU!UspBelow \in CU!Slots,
         usp' = CU!UspBelow,
         upc' = ustack[CU!UspBelow],
         ustack' = [ustack EXCEPT ![CU!UspBelow] = 0],
         status' \in {"run", "halt", "reject"},
         NEW s, <<upc, s>> \in Meets[ctx[usp]], Returns(UInst, s), Fits(s)'
  PROVE  Met'
<1>0. usp \in 0..7 /\ usp <= CTRL_STACK_HEIGHT /\ CTRL_STACK_HEIGHT \in 1..7
  BY DEF StackFits
<1>1. /\ CU!UspBelow = usp - 1 /\ usp' = usp - 1
      /\ usp # 0 /\ usp \in Nat /\ usp \in 1..usp /\ usp' \in Nat
  <2>1. usp # 0
    BY <1>0 DEF CU!UspBelow, CU!Slots
  <2>2. CU!UspBelow = usp - 1
    BY <1>0, <2>1 DEF CU!UspBelow
  <2> QED BY <1>0, <2>1, <2>2
<1>2. PICK g : g = [k \in 0..(usp - 1) |-> ctx[k]]
  OBVIOUS
<1>3. g \in [0..usp' -> DOMAIN Meets] /\ \A k \in 0..usp' : g[k] = ctx[k]
  BY <1>1, <1>2
<1>4. ASSUME NEW k \in 1..usp' PROVE ResumesAt(Meets, g[k - 1], g[k], ustack'[k - 1])
  <2>1. k \in 1..usp /\ k \in 0..usp' /\ k - 1 \in 0..usp' /\ k - 1 # usp - 1
    BY <1>1
  <2>2. k - 1 \in CU!Slots
    BY <1>0, <1>1, <2>1 DEF CU!Slots
  <2>3. ustack'[k - 1] = ustack[k - 1]
    BY <1>1, <2>1, <2>2 DEF StackFits
  <2>4. ResumesAt(Meets, ctx[k - 1], ctx[k], ustack[k - 1])
    BY <2>1 DEF Path
  <2> QED BY <1>3, <2>1, <2>3, <2>4
<1>5. \E t : <<upc', t>> \in Meets[g[usp']] /\ Fits(t)'
  <2>1. ResumesAt(Meets, ctx[usp - 1], ctx[usp], ustack[usp - 1])
    BY <1>1 DEF Path
  <2>2. <<upc, s>>[1] = upc /\ <<upc, s>>[2] = s /\ CU!Inst(upc) = UInst
    BY DEF UInst, CU!UInst
  <2>3. <<ustack[usp - 1], s>> \in Meets[ctx[usp - 1]]
    BY <2>1, <2>2, Zenon DEF ResumesAt
  <2>4. g[usp'] = ctx[usp - 1] /\ upc' = ustack[usp - 1]
    BY <1>1, <1>3
  <2>5. <<upc', s>> \in Meets[g[usp']]
    BY <2>3, <2>4
  <2> QED BY <2>5
<1>6. Path(g)'
  BY <1>4, <1>5 DEF Path, Here
<1> QED BY <1>3, <1>6 DEF Met

(* The opcode that a fetch brings is known. *)
KnownFetch == Fetch => opc' \in Opcodes

LEMMA MetStep ==
  ASSUME DataTypeOK, DataTypeOK', StackFits, CU!StackSafe', Met,
         [Next]_machine, [KnownFetch]_machine
  PROVE  Met'
<1>c. PICK ctx \in [0..usp -> DOMAIN Meets] : Path(ctx)
  BY DEF Met
<1> DEFINE c == ctx[usp]
<1>u. usp \in Nat /\ c \in DOMAIN Meets
  BY DEF StackFits
<1>p. PICK s : <<upc, s>> \in Meets[c] /\ Fits(s)
  BY <1>c DEF Path, Here
<1>j. PICK inst : inst = UInst
  OBVIOUS
<1>i. CU!Inst(upc) = inst /\ CU!UInst = inst /\ CU!After(upc) = CU!NextUpc
  BY <1>j DEF UInst, CU!UInst, CU!NextUpc
<1>s. Sound(Meets, c, upc, s)
  BY <1>u, <1>p, PlaceSound
<1>d. /\ s \in Shape
      /\ inst.op # "invalid"
      /\ inst.cond # "always" => Decidable(inst.cond, s)
      /\ inst.op = "ctrl" => /\ Safe(inst.ctrl, s)
                              /\ <<CU!NextUpc, ShapeAfter(inst.ctrl, s)>> \in Meets[c]
      /\ inst.op = "print" => <<CU!NextUpc, s>> \in Meets[c]
      /\ Skips(inst, s) => <<CU!NextUpc, IfHeld(inst.cond, s)>> \in Meets[c]
  BY <1>i, <1>s, Zenon DEF Sound
<1>g. Goes(inst, s) =>
           /\ inst.op = "jump" =>
                <<CU!Target(inst.jump), IfFailed(inst.cond, s)>> \in Meets[c]
           /\ inst.op = "restart" => Fetched(s) \subseteq Opcodes /\ <<0, Forgotten>> \in Meets[c]
           /\ inst.op = "call" => Calls(Meets, c, upc, CU!Target(inst.jump), s)
  BY <1>i, <1>s, Zenon DEF Sound
<1>o. ASSUME Goes(inst, s), inst.op = "callopc", NEW o \in Fetched(s)
      PROVE  Calls(Meets, c, upc, CU!Target(o % 128), [s EXCEPT !.o = o])
  BY <1>i, <1>o, <1>s, Zenon DEF Sound
\* The frames stay: it is enough to know the new place and a shape that fits.
<1>l. ASSUME UNCHANGED <<usp, ustack>>, status' \in {"run", "halt", "reject"},
             NEW t, <<upc', t>> \in Meets[c], Fits(t)'
      PROVE  Met'
  <2>1. Here(c)'
    BY <1>l DEF Here
  <2> QED BY <1>c, <1>l, <2>1, SamePath
<1>t. Taken => Goes(inst, s) /\ (inst.cond # "always" => Fits(IfFailed(inst.cond, s)))
  BY <1>d, <1>j, <1>p, ConditionFollows, Zenon DEF Taken, Goes
<1>a. Taken => Fits(IfFailed(inst.cond, s))
  <2>1. inst.cond = "always" => IfFailed(inst.cond, s) = s
    BY Zenon DEF IfFailed, ModeConditions
  <2> QED BY <1>p, <1>t, <2>1
<1>n. DataStays => UNCHANGED <<cntl, i, utmp, modes>>
  BY DEF DataStays, dataVars
<1>m. status \in {"run", "halt", "reject"}
  BY DEF Met
<1>w. ~ \E why \in {"overflow", "underflow", "wild"} : status' = why
  BY DEF CU!StackSafe, CU!NeverWild
<1> HIDE DEF c
<1>h. CASE UNCHANGED machine
  <2>1. UNCHANGED <<upc, usp, ustack, status, opc, cntl, i, utmp, modes>>
    BY <1>h DEF machine, dataVars
  <2>2. Fits(s)'
    BY <1>p, <2>1, FitStays
  <2> QED BY <1>l, <1>m, <1>p, <2>1, <2>2
<1>1. CASE ControlPoint
  <2> SUFFICES ASSUME ~ UNCHANGED machine PROVE Met'
    BY <1>h
  <2>1. Transfer(inst.ctrl) /\ inst.op = "ctrl" /\ upc' = CU!NextUpc
        /\ UNCHANGED <<usp, ustack, status>>
    BY <1>1, <1>j DEF ControlPoint
  <2>2. FetchesLegal(inst.ctrl)
    BY <1>1, <1>j DEF KnownFetch, Fetch, FetchesLegal
  <2>3. Fits(ShapeAfter(inst.ctrl, s))'
    BY <1>d, <1>p, <2>1, <2>2, ShapeFollows
  <2> QED BY <1>d, <1>l, <1>m, <2>1, <2>3
<1>2. CASE Skip
  <2>1. /\ upc' = CU!NextUpc
        /\ UNCHANGED <<usp, ustack, status, opc, cntl, i, utmp, modes>>
        /\ inst.cond # "always"
    BY <1>2, <1>i, <1>j, <1>n DEF Skip, CU!Skip, CU!GoTo
  <2>2. Holds(inst.cond)
    BY <1>2, <1>j DEF Skip, Taken
  <2>3. Skips(inst, s) /\ Fits(IfHeld(inst.cond, s))
    BY <1>d, <1>p, <2>1, <2>2, ConditionFollows DEF Skips
  <2>4. Fits(IfHeld(inst.cond, s))'
    BY <2>1, <2>3, FitStays
  <2> QED BY <1>d, <1>l, <1>m, <2>1, <2>3, <2>4
<1>3. CASE Jump
  <2>1. /\ upc' = CU!Target(inst.jump) /\ inst.op = "jump" /\ Taken
        /\ UNCHANGED <<usp, ustack, status, opc, cntl, i, utmp, modes>>
    BY <1>3, <1>i, <1>j, <1>n DEF Jump, CU!Jump, CU!GoTo
  <2>2. Fits(IfFailed(inst.cond, s))'
    BY <1>a, <2>1, FitStays
  <2> QED BY <1>g, <1>l, <1>m, <1>t, <2>1, <2>2
<1>4. CASE Restart
  <2>1. /\ upc' = 0 /\ inst.op = "restart" /\ Taken
        /\ UNCHANGED <<usp, ustack, status, opc>>
    BY <1>4, <1>i, <1>j DEF Restart, CU!Restart, CU!GoTo
  <2>2. Fetched(s) \subseteq Opcodes /\ <<0, Forgotten>> \in Meets[c]
    BY <1>g, <1>t, <2>1
  <2>3. opc' \in Opcodes
    BY <1>d, <1>p, <2>1, <2>2, FitsOpcode
  <2>4. Fits(Forgotten)'
    BY <2>3, FitsForgotten
  <2> QED BY <1>l, <1>m, <2>1, <2>2, <2>4
\* A call: both kinds give the callee's scope and its place in Meets.
<1>e. ASSUME NEW j, CU!Enter(j), NEW t, Calls(Meets, c, upc, CU!Target(j), t), Fits(t),
             UNCHANGED <<opc, cntl, i, utmp, modes>>
      PROVE  Met'
  <2>1. usp # CTRL_STACK_HEIGHT
    BY <1>e, <1>w DEF CU!Enter, CU!StopWith
  <2>2. /\ usp' = (usp + 1) % 8
        /\ ustack' = [ustack EXCEPT ![usp] = CU!NextUpc]
        /\ upc' = CU!Target(j)
        /\ status' \in {"run", "halt", "reject"}
    BY <1>e, <1>m, <2>1 DEF CU!Enter
  <2> DEFINE d == <<CU!Target(j), t>>
  <2>3. d \in DOMAIN Meets /\ ResumesAt(Meets, c, d, CU!NextUpc)
    BY <1>e, <1>i, Zenon DEF Calls
  <2>4. d \in Meets[d]
    BY <2>3, FlowAssumption, Zenon DEF Flows
  <2>5. Fits(t)'
    BY <1>e, FitStays
  <2>6. Here(d)'
    <3>1. <<upc', t>> \in Meets[d]
      BY <2>2, <2>4
    <3> QED BY <2>5, <3>1 DEF Here
  <2> HIDE DEF d
  <2> QED BY <1>c, <2>1, <2>2, <2>3, <2>6, PathGrows DEF c
<1>5. CASE CallLabel
  <2>1. CU!Enter(inst.jump) /\ inst.op = "call" /\ Taken /\ UNCHANGED <<cntl, i, utmp, modes>>
    BY <1>5, <1>i, <1>j, <1>n DEF CallLabel, CU!CallLabel
  <2>2. UNCHANGED opc
    BY <2>1 DEF CU!Enter, CU!StopWith
  <2> QED BY <1>e, <1>g, <1>p, <1>t, <2>1, <2>2
<1>6. CASE CallByOpcode
  <2>1. CU!Enter(opc % 128) /\ inst.op = "callopc" /\ Taken
        /\ UNCHANGED <<opc, cntl, i, utmp, modes>>
    BY <1>6, <1>i, <1>j DEF CallByOpcode, CU!CallByOpcode
  <2>2. Fits([s EXCEPT !.o = opc]) /\ opc \in Fetched(s)
    BY <1>d, <1>p, FitsOpcode
  <2>3. Calls(Meets, c, upc, CU!Target(opc % 128), [s EXCEPT !.o = opc])
    BY <1>o, <1>t, <2>1, <2>2
  <2> QED BY <1>e, <2>1, <2>2, <2>3
<1>7. CASE Return
  <2>1. CU!UspBelow \in CU!Slots
    BY <1>7, <1>i, <1>j, <1>w DEF Return, CU!Return, CU!StopWith
  <2>2. /\ usp' = CU!UspBelow
        /\ upc' = ustack[CU!UspBelow]
        /\ ustack' = [ustack EXCEPT ![CU!UspBelow] = 0]
        /\ UNCHANGED <<status, opc, cntl, i, utmp, modes>>
        /\ inst.op = "return" /\ Taken
    BY <1>7, <1>i, <1>j, <1>n, <2>1 DEF Return, CU!Return
  <2>3. Returns(UInst, s) /\ Fits(s)'
    BY <1>j, <1>p, <1>t, <2>2, FitStays DEF Returns
  <2> QED BY <1>c, <1>m, <1>p, <2>1, <2>2, <2>3, PathShrinks DEF c
<1>8. CASE Halt
  <2>1. /\ UNCHANGED <<upc, usp, ustack, opc, cntl, i, utmp, modes>>
        /\ status' \in {"halt", "reject"}
    BY <1>8, <1>i, <1>j, <1>n, <1>d DEF Halt, CU!Halt, CU!StopWith
  <2>2. Fits(s)'
    BY <1>p, <2>1, FitStays
  <2> QED BY <1>l, <1>p, <2>1, <2>2
<1>9. CASE PrintOperand
  <2>1. /\ upc' = CU!NextUpc /\ inst.op = "print"
        /\ UNCHANGED <<usp, ustack, status, opc, cntl, i, utmp, modes>>
    BY <1>9, <1>i, <1>j DEF PrintOperand, CU!PrintOperand, CU!GoTo
  <2>2. Fits(s)'
    BY <1>p, <2>1, FitStays
  <2> QED BY <1>d, <1>l, <1>m, <2>1, <2>2
<1>10. ~ EmergencyHalt
  BY <1>u, <1>p, NoTrouble DEF EmergencyHalt
<1> QED BY <1>h, <1>1, <1>2, <1>3, <1>4, <1>5, <1>6, <1>7, <1>8, <1>9, <1>10, Zenon
   DEF Next, Step, Done

\* The machine starts in the main loop, and knows nothing of the registers.
LEMMA MetInit == Init => Met
<1> SUFFICES ASSUME Init PROVE Met
  OBVIOUS
<1>1. DataTypeOK
  BY InitFits
<1>2. upc = 0 /\ usp = 0 /\ opc = 0 /\ status = "run"
  BY DEF Init, CU!Init
<1>3. Fits(Forgotten)
  BY <1>1, <1>2, FitsForgotten, OpcodesAssumption
<1> DEFINE c == <<0, Forgotten>>
<1>4. c \in DOMAIN Meets /\ c \in Meets[c]
  BY FlowAssumption, Zenon DEF Flows
<1>5. Here(c)
  BY <1>2, <1>3, <1>4 DEF Here
<1> HIDE DEF c
<1>6. PICK ctx : ctx = [k \in 0..usp |-> c]
  OBVIOUS
<1>7. ctx \in [0..usp -> DOMAIN Meets]
  BY <1>4, <1>6
<1>8. Path(ctx)
  <2>1. ctx[usp] = c /\ 1..usp = {}
    BY <1>2, <1>6
  <2> QED BY <1>5, <2>1 DEF Path
<1> QED BY <1>2, <1>7, <1>8 DEF Met

\* What the sequencer's certificate gives of the microstack.
LEMMA StackAlwaysFits ==
  ASSUME Certificate
  PROVE  Spec /\ FetchesKnown => []StackFits
<1>1. G!Spec => []G!TypeOK
  BY G!TypeCorrect, PTL DEF Certificate
<1>2. G!Spec => []G!Certified
  BY G!AlwaysCertified, PTL DEF Certificate
<1>3. G!TypeOK /\ G!Certified => StackFits
  <2>1. CTRL_STACK_HEIGHT \in 1..7
    BY DEF Certificate, G!HeightAssumption
  <2>2. G!Slots = CU!Slots /\ G!UAddr = CU!UAddr
    BY DEF G!Slots, CU!Slots, G!UAddr, CU!UAddr
  <2>3. G!TypeOK => usp \in 0..7 /\ ustack \in [CU!Slots -> CU!UAddr]
    BY <2>2 DEF G!TypeOK, G!SPtr
  <2>4. G!Certified => usp <= CTRL_STACK_HEIGHT
    BY Zenon DEF G!Certified
  <2> QED BY <2>1, <2>3, <2>4 DEF StackFits
<1> QED BY <1>1, <1>2, <1>3, KnownFollows, PTL

\* The registers always have one of the shapes that the certificate expects
\* there, for whoever called the procedure.
LEMMA AlwaysMet ==
  ASSUME Certificate
  PROVE  Spec /\ FetchesKnown => []Met
<1>1. DataTypeOK /\ DataTypeOK' /\ StackFits /\ CU!StackSafe' /\ Met /\ [Next]_machine
        /\ [KnownFetch]_machine => Met'
  BY MetStep
<1> QED
  BY <1>1, MetInit, DataAlwaysFits, StackAlwaysFits, MachineStackSafe, PTL
  DEF Spec, FetchesKnown, KnownFetch

\* With certified microcode, a program that executes known opcodes only is never
\* stopped by an accessor, nor by a microstack that is full or empty.
THEOREM MachineNoEmergency ==
  ASSUME Certificate
  PROVE  Spec /\ FetchesKnown => []NoEmergency
<1>1. Met => NoEmergency
  BY DEF Met, NoEmergency
<1> QED BY <1>1, AlwaysMet, PTL

\* And its operations read values: never an address where a value was meant,
\* whatever modes its operands have.
THEOREM MachineReadsValues ==
  ASSUME Certificate
  PROVE  Spec /\ FetchesKnown => []ReadsValues
<1>1. DataTypeOK /\ StackFits /\ Met => ReadsValues
  <2> SUFFICES ASSUME DataTypeOK, StackFits, Met PROVE ReadsValues
    OBVIOUS
  <2>1. PICK ctx \in [0..usp -> DOMAIN Meets] : Path(ctx)
    BY DEF Met
  <2>2. ctx[usp] \in DOMAIN Meets
    BY DEF StackFits
  <2>3. PICK s : <<upc, s>> \in Meets[ctx[usp]] /\ Fits(s)
    BY <2>1 DEF Path, Here
  <2>4. Sound(Meets, ctx[usp], upc, s) /\ CU!Inst(upc) = UInst
    BY <2>2, <2>3, PlaceSound DEF UInst, CU!UInst
  <2>5. Reads(UInst.ctrl, s)
    BY <2>4, Zenon DEF Sound
  <2> QED BY <2>3, <2>5, ReadsOperands DEF ReadsValues
<1> QED BY <1>1, AlwaysMet, DataAlwaysFits, StackAlwaysFits, PTL
=============================================================================
