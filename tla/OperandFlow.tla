----------------------------- MODULE OperandFlow -----------------------------
(***************************************************************************)
(* When a microprogram handles its operands well: it never reads an        *)
(* operand that is not a value, and never asks the accessors for something *)
(* that they refuse, whatever the data.                                    *)
(*                                                                         *)
(* A shape is what can be known of the control words without the data:     *)
(* which operands are in a register, a value, an address.  A certificate   *)
(* says which shapes each procedure may meet at each address; it is        *)
(* checked one microinstruction at a time (Sound).                         *)
(***************************************************************************)
EXTENDS FabComp

CONSTANTS
  Opcodes,  \* the opcodes that programs are expected to have where they execute
  Meets     \* Meets[c]: the pairs of an address and a shape that c may meet, c being
            \* the main loop, or a procedure and a shape it is entered with

(* A program that never executes a word whose opcode is not in Opcodes. *)
Fetch == ControlPoint /\ UInst.ctrl = "IR <- Mem[PC]"
FetchesKnown == [][Fetch => opc' \in Opcodes]_machine

-----------------------------------------------------------------------------
(* The kind of operand n's control word x: registers are alike, and for the
   operands that are only read, values too.  Anything stands for what nobody has
   looked at since an earlier instruction.                                    *)

Anything    == 32
InRegister  == 0
Unused      == 16               \* "10000"; also Val[0]
IsValue     == 17               \* a register, Val[1], Val[2], MDR
InMdr       == 19
InMemory(n) == 20 + n
Addresses   == 20..23 \cup 28..31
AddressMdr  == {23, 31}         \* "cannot use MDR as an address"

KindOf(n, x) == IF n = 0 THEN IF x < 16 THEN InRegister ELSE x
                ELSE IF x < 16 \/ x \in 17..19 THEN IsValue ELSE x

AnyFetched == 256    \* for an opcode: one of Opcodes
AnyIndex   == 4      \* for i
AnyMode    == 0..3

Shape == [ o : 0..256, c : [OpndId -> 0..32], i : 0..4, t : 0..32, m : SUBSET AnyMode ]

(* The shape fits the registers. *)
Fits(s) == /\ IF s.o = AnyFetched THEN opc \in Opcodes ELSE opc = s.o
           /\ \A n \in OpndId : s.c[n] \in {Anything, KindOf(n, cntl[n])}
           /\ s.i \in {AnyIndex, i}
           /\ s.t \in {Anything, KindOf(2, utmp)}
           /\ Mode \in s.m

(* What a control point makes of a shape: it builds control words from it as it
   does from the registers.                                                  *)
ShapeAfter(w, s) ==
  [ o |-> CASE w = "IR <- Mem[PC]"   -> AnyFetched
            [] w = "IR(opc)(2) <- 0" -> FlipBit(s.o, 2)
            [] w = "IR(opc)(3) <- 0" -> FlipBit(s.o, 3)
            [] OTHER -> s.o,
    c |-> LET built == CntlAfter(w, s.c, s.i, s.t, 0)
          IN  [n \in OpndId |-> KindOf(n, built[n])],
    i |-> CASE w = "i <- 00"    -> 0
            [] w = "i <- i + 1" -> IF s.i = AnyIndex THEN AnyIndex ELSE (s.i + 1) % 4
            [] OTHER -> s.i,
    t |-> IF w = "tmp <- cntl[2]" THEN s.c[2] ELSE s.t,
    m |-> IF w \in {"IR <- Mem[PC]", "i <- 00", "i <- i + 1"} THEN AnyMode ELSE s.m ]

(* An instruction that begins relies on nothing of the one before. *)
Forgotten == [ o |-> AnyFetched, c |-> [n \in OpndId |-> Anything],
               i |-> AnyIndex, t |-> Anything, m |-> AnyMode ]

(* The operands that a control point reads are values, or, for a jump, the
   address; operand 1 may be called "not used" if it is operand 0's value.   *)
Reads(w, s) ==
  \A n \in OperandsOf(w) :
    \/ n \in {1, 2} /\ s.c[n] = IsValue
    \/ n = 1 /\ s.c[1] = Unused /\ s.c[0] \in {InMdr, InMemory(0)}
    \/ n = 0 /\ s.c[0] = InMemory(0)

(* No accessor refuses, and what is built on is known. *)
Safe(w, s) ==
  /\ w \in IndexedWords => s.i \in OpndId
  /\ w = "Reg[cntl[0](3..0)] <- MDR" => s.c[0] = InRegister
  /\ w = "Mem[Addr[cntl[0](3..0)]] <- MDR" => s.c[0] = InMemory(0)
  /\ w = "cntl[i](2) <- 0" => s.c[s.i] = InMemory(s.i)
  /\ w = "cntl[1](2) <- 0" => s.c[1] \in {InMemory(0), InMemory(1)}
  /\ w \in {"IR(opc)(2) <- 0", "IR(opc)(3) <- 0"} => s.o # AnyFetched

-----------------------------------------------------------------------------
(* Conditions. *)

About == { <<0, "cntl[0] = 10000">>, <<0, "cntl[0](2) = 1">>, <<0, "cntl[0](4) = 0">>,
           <<1, "cntl[1] = 10000">>, <<1, "cntl[1](4) = 1 AND cntl[1](2) = 1">>,
           <<1, "op1 = 0">>, <<2, "cntl[2] = 10000">> }

Decidable(c, s) ==
  /\ \A n \in OpndId : <<n, c>> \in About => s.c[n] # Anything
  /\ c \in {"i != 00", "i = 11"} => s.i # AnyIndex
  /\ c \in ModeConditions \cup {"i != 00 AND IR(imm)(i) = 1"} => s.i \in OpndId
  /\ c = "cntl[i](4) = 1 AND cntl[i](2) = 1" => s.i \in OpndId /\ s.c[s.i] # Anything
  /\ c = "cntl[0](2) = 1" => s.c[0] # InRegister
  /\ c = "op1 = 0" => s.c[1] \notin AddressMdr

(* The address modes that a condition asks for. *)
ModesOf(c) == CASE c = "IR(ami) = 00"       -> {0}
                [] c = "IR(ami) = 01 or 10" -> {1, 2}
                [] c = "IR(ami) = 10"       -> {2}
                [] c = "IR(ami) = 11"       -> {3}
                [] OTHER                    -> {}

(* The conditions that the shape decides, and whether it says that they hold. *)
ByShape == { "cntl[0] = 10000", "cntl[0](2) = 1", "cntl[0](4) = 0", "cntl[1] = 10000",
             "cntl[1](4) = 1 AND cntl[1](2) = 1", "cntl[2] = 10000",
             "cntl[i](4) = 1 AND cntl[i](2) = 1", "i != 00", "i = 11" }
Holding(c, s) ==
  \/ c = "cntl[0] = 10000" /\ s.c[0] = 16
  \/ c = "cntl[0](2) = 1"  /\ s.c[0] \in Addresses
  \/ c = "cntl[0](4) = 0"  /\ s.c[0] < 16
  \/ c = "cntl[1] = 10000" /\ s.c[1] = 16
  \/ c = "cntl[1](4) = 1 AND cntl[1](2) = 1" /\ s.c[1] \in Addresses
  \/ c = "cntl[2] = 10000" /\ s.c[2] = 16
  \/ c = "cntl[i](4) = 1 AND cntl[i](2) = 1" /\ s.c[s.i] \in Addresses
  \/ c = "i != 00" /\ s.i # 0
  \/ c = "i = 11"  /\ s.i = 3

MayHold(c, s) == /\ c \in ByShape => Holding(c, s)
                 /\ c \in ModeConditions => s.m \cap ModesOf(c) # {}
                 /\ c = "i != 00 AND IR(imm)(i) = 1" => s.i # 0
MayFail(c, s) == /\ c \in ByShape => ~Holding(c, s)
                 /\ c \in ModeConditions => s.m \ ModesOf(c) # {}

(* The shape once the condition is known to hold, or not to. *)
IfHeld(c, s)   == IF c \in ModeConditions THEN [s EXCEPT !.m = @ \cap ModesOf(c)] ELSE s
IfFailed(c, s) == IF c \in ModeConditions THEN [s EXCEPT !.m = @ \ ModesOf(c)] ELSE s

-----------------------------------------------------------------------------
(* The certificate. *)

Goes(inst, s)  == inst.cond # "always" => MayFail(inst.cond, s)
Skips(inst, s) == inst.cond # "always" /\ MayHold(inst.cond, s)
Returns(inst, s) == inst.op = "return" /\ Goes(inst, s)

(* After the call before a, scope c goes on with whatever shape d returns. *)
ResumesAt(F, c, d, a) ==
  \A x \in F[d] : Returns(CU!Inst(x[1]), x[2]) => <<a, x[2]>> \in F[c]

Calls(F, c, p, target, s) ==
  <<target, s>> \in DOMAIN F /\ ResumesAt(F, c, <<target, s>>, CU!After(p))

Fetched(s) == IF s.o = AnyFetched THEN Opcodes ELSE {s.o}

(* The microinstruction at p is carried out for every word that fits s, and F
   knows what it leads to.                                                  *)
Sound(F, c, p, s) ==
  LET inst == CU!Inst(p)
      next == CU!After(p)
      went == IfFailed(inst.cond, s)
  IN  /\ s \in Shape
      /\ inst.op # "invalid"
      /\ Reads(inst.ctrl, s)
      /\ inst.cond # "always" => Decidable(inst.cond, s)
      /\ inst.op = "ctrl" => /\ Safe(inst.ctrl, s)
                             /\ <<next, ShapeAfter(inst.ctrl, s)>> \in F[c]
      /\ inst.op = "print" => /\ s.c[1] \notin AddressMdr \cup {Anything}
                              /\ <<next, s>> \in F[c]
      /\ Skips(inst, s) => <<next, IfHeld(inst.cond, s)>> \in F[c]
      /\ Goes(inst, s) =>
           /\ inst.op = "jump" => <<CU!Target(inst.jump), went>> \in F[c]
           /\ inst.op = "restart" => Fetched(s) \subseteq Opcodes /\ <<0, Forgotten>> \in F[c]
           /\ inst.op = "call" => Calls(F, c, p, CU!Target(inst.jump), s)
           /\ inst.op = "callopc" => \A o \in Fetched(s) :
                Calls(F, c, p, CU!Target(o % 128), [s EXCEPT !.o = o])

Flows(F) == /\ <<0, Forgotten>> \in DOMAIN F
            /\ \A c \in DOMAIN F : c \in F[c]
            /\ \A c \in DOMAIN F : \A x \in F[c] : Sound(F, c, x[1], x[2])

ASSUME OpcodesAssumption == 0 \in Opcodes /\ Opcodes \subseteq AnyOpcode
ASSUME FlowAssumption == Flows(Meets)
=============================================================================
