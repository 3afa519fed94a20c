--------------------------- MODULE MCImplementation ---------------------------
(***************************************************************************)
(* Implementation running FabComp's microprogram on small programs.  The   *)
(* memory behind a program is 0, and 0 is a HALT.                          *)
(***************************************************************************)
EXTENDS Implementation, Wiring, Microcode

UMem     == MicroWords
UJumpTab == JumpRows

(* Operands as the assembler encodes them: mode, immediate flag, words. *)
Opd(am, imm, words) == [am |-> am, imm |-> imm, words |-> words]
None        == Opd(0, 0, <<>>)
Secondary(mode, r0, r1, r2, more) ==
  Opd(3, 0, <<4096 * mode + 256 * r0 + 16 * r1 + r2>> \o more)
InReg(r)    == Secondary(0, r, 0, 0, <<>>)
InMem(a)    == Opd(1, 0, <<a>>)
Relative(d) == Opd(2, 0, <<d>>)
Const(c)    == Opd(0, 1, <<c>>)

Instr(o, a, b, c) ==
  <<256 * o + 128 * b.imm + 64 * c.imm + 16 * a.am + 4 * b.am + c.am>>
    \o a.words \o b.words \o c.words

Origin == 16
Loaded(code, data) ==
  [x \in Origin..(Origin + Len(code) - 1) \cup DOMAIN data |->
     IF x \in DOMAIN data THEN data[x] ELSE code[x - Origin + 1]]

(* In the registers the programmer does not see: nothing yet, or what an earlier
   instruction with three operands in memory may leave.                     *)
Fresh == [word |-> 0, cntl |-> [n \in OpndId |-> 0], i |-> 0]
Used  == [word |-> 65535, cntl |-> [n \in OpndId |-> 20 + n], i |-> 3]

Start(code, data, regs) ==
  [mem |-> Loaded(code, data), reg |-> regs, pc |-> Origin, left |-> Used]

-----------------------------------------------------------------------------
(* Every opcode with every number and kind of operands. *)

Data1 == [a \in 128..130 |-> IF a = 128 THEN 12 ELSE 10]
Regs1 == [r \in RegId |-> CASE r = 1 -> 12 [] r = 2 -> 3 [] r = 3 -> 1
                            [] r = 14 -> 129 [] OTHER -> 0]

Dest    == {InReg(1), InMem(128)}
Source1 == {InReg(2), InMem(129), Const(6)}
Source2 == {InReg(3), InMem(130), Const(2)}
Shapes == {<<None, None, None>>} \cup {<<a, None, None>> : a \in Dest}
          \cup {<<a, b, None>> : a \in Dest, b \in Source1}
          \cup {<<a, b, c>> : a \in Dest, b \in Source1, c \in Source2}

Count(s) == Cardinality({n \in 1..3 : s[n] # None})

(* Where the microprogram departs from the ISA (see the findings): too many
   operands are not noticed, nor a single one by the logical operations; and
   the short form of an operation that calls another one rejects memory.   *)
TooMany(o, s) == Count(s) > (CASE o = 43 -> 0 [] o = 30 \/ o \in 38..42 -> 1
                               [] o \in 31..37 \cup {44} -> 2 [] OTHER -> 3)
Nesting2(o) == o \in {5, 6, 7, 16, 18, 19, 20, 21}
Departs(o, s) == \/ TooMany(o, s)
                 \/ o \in 9..11 \cup 13..15 /\ Count(s) = 1
                 \/ Nesting2(o) /\ Count(s) = 2 /\ s[1] \notin {InReg(1)}

ShapeStarts == {Start(Instr(x[1], x[2][1], x[2][2], x[2][3]), Data1, Regs1) :
                  x \in {y \in (0..44) \X Shapes : ~Departs(y[1], y[2])}}

-----------------------------------------------------------------------------
(* Every address mode, for sources and destinations that share a register. *)

Data2 == [a \in 128..140 |-> a + 3]
Regs2 == [r \in RegId |-> CASE r = 1 -> 128 [] r = 2 -> 2 [] r = 3 -> 1
                            [] r = 14 -> 160 [] OTHER -> 0]

Scaled   == Secondary(2, 1, 2, 0, <<256>>)
Doubly   == Secondary(3, 1, 2, 3, <<258>>)
AutoIncr == Secondary(4, 1, 0, 0, <<>>)
AutoDecr == Secondary(5, 1, 0, 0, <<>>)
Doubly2  == Secondary(7, 2, 3, 0, <<258, 128>>)
Places   == {InMem(129), Relative(112), Secondary(1, 1, 0, 0, <<>>), Scaled, Doubly,
             AutoIncr, AutoDecr, Secondary(6, 2, 0, 0, <<256, 128>>), Doubly2}
Targets  == Places \cup {InReg(1)}
Sources  == Targets \cup {Const(6)}

ModeStarts ==
  {Start(Instr(44, a, b, None), Data2, Regs2) : a \in Targets, b \in Sources} \cup
  {Start(Instr(23, a, b, c), Data2, Regs2) :
     a \in Targets, b \in Sources, c \in {InReg(1), AutoIncr, Doubly2, Relative(112)}} \cup
  {Start(Instr(o, a, None, None), Data2, Regs2) : o \in 38..42 \cup {30}, a \in Places} \cup
  {Start(Instr(24, a, b, Const(140)), Data2, Regs2) : a \in Places, b \in Sources}

-----------------------------------------------------------------------------
(* Values at the edges of a word. *)

Edges == {0, 1, 5, 16, 32767, 32768, 65535}

Signed(w)       == IF w > 32767 THEN w - WORDS ELSE w
Overflows(a, b) == Signed(a) - Signed(b) \notin (-32767)..32767

(* Where comparing by the sign of the difference goes wrong (a finding). *)
Ordering == {16, 17, 20, 21, 24, 25, 28, 29}

ValueStart(o, a, b) == Start(Instr(o, IF o < 24 THEN InReg(1) ELSE InMem(128), Const(a), b),
                             Data1, Regs1)
ValueStarts ==
  {ValueStart(x[1], x[2], Const(x[3])) :
     x \in {y \in (1..29) \X Edges \X Edges : ~(y[1] \in Ordering /\ Overflows(y[2], y[3]))}}
  \cup {ValueStart(o, a, None) : o \in 31..37, a \in Edges}
  \cup {Start(Instr(o, InReg(1), None, None), Data1, [Regs1 EXCEPT ![1] = a]) :
          o \in {38, 39}, a \in Edges}
  \* the stack and the program at the ends of memory
  \cup {Start(Instr(o, IF o = 42 THEN InMem(128) ELSE None, None, None), Data1,
               [Regs1 EXCEPT ![14] = a]) : o \in 42..43, a \in {0, 65535}}
  \cup {[mem |-> [x \in {65535} |-> 256 * o], reg |-> Regs1, pc |-> 65535, left |-> Used] : o \in {0, 43}}

AllStarts == ShapeStarts \cup ModeStarts \cup ValueStarts

-----------------------------------------------------------------------------
(* The departures, one set for each. *)

NestedStarts  == {Start(Instr(o, InMem(128), Const(6), None), Data1, Regs1) : o \in {5, 16}}
\* one operand too few for group 1 of isa.tex; one too many for each of the groups 3 to 9
CountStarts ==
  {Start(Instr(x[1], x[2], x[3], x[4]), Data1, Regs1) :
     x \in {<< 9, InReg(1),   None,     None>>, <<30, InReg(1),   InReg(2), None>>,
            <<31, InReg(1),   InReg(2), InReg(3)>>, <<36, InMem(128), InReg(2), InReg(3)>>,
            <<38, InReg(1),   InReg(2), None>>, <<40, InMem(128), InReg(2), None>>,
            <<43, InReg(1),   None,     None>>, <<44, InReg(1),   InReg(2), InReg(3)>>}}
OverflowStarts == {ValueStart(16, 32768, Const(1))}
=============================================================================
