--------------------------------- MODULE ISA ---------------------------------
(***************************************************************************)
(* What FabComp promises its programmer (isa.tex): one step executes one   *)
(* instruction, whatever the microprogram does meanwhile.                  *)
(***************************************************************************)
EXTENDS Words

VARIABLES pc, reg, mem, out, status

vars == <<pc, reg, mem, out, status>>

Read(a)     == IF a \in DOMAIN mem THEN mem[a] ELSE 0
Write(a, w) == [x \in DOMAIN mem \cup {a} |-> IF x = a THEN w ELSE mem[x]]

-----------------------------------------------------------------------------
(* The opcode word (section 2.1). *)

OpWord   == Read(pc)
Opcode   == Field(OpWord, 15, 8)
Mode(n)  == Field(OpWord, 5 - 2 * n, 4 - 2 * n)
IsImm(n) == n # 0 /\ Bit(OpWord, 8 - n) = 1

(* Decoding an operand takes words from p on, and may change a register: the
   operand, the place of the next word, the registers.                     *)
Opnd(kind, at, p, r) == [kind |-> kind, at |-> at, pc |-> p, reg |-> r]

(* Section 5.1, by the secondary mode of the R-type word at p. *)
SecondaryOpnd(p, r) ==
  LET w     == Read(p)
      shift == Read(Add(p, 1)) \div 256   \* the two halves of the S-type word
      again == Read(Add(p, 1)) % 256
      base  == Read(Add(p, 2))
      r0    == r[Reg0(w)]
      r1    == r[Reg1(w)]
      r2    == r[Reg2(w)]
      mode  == Field(w, 15, 12)
  IN  CASE mode = 0 -> Opnd("reg", Reg0(w), Add(p, 1), r)
        [] mode = 1 -> Opnd("mem", r0, Add(p, 1), r)
        [] mode = 2 -> Opnd("mem", Add(r0, ShiftLeft(r1, shift)), Add(p, 2), r)
        [] mode = 3 -> Opnd("mem", Add(Read(Add(r0, ShiftLeft(r1, shift))),
                                       ShiftLeft(r2, again)), Add(p, 2), r)
        [] mode = 4 -> Opnd("mem", r0, Add(p, 1), [r EXCEPT ![Reg0(w)] = Add(@, 1)])
        [] mode = 5 -> Opnd("mem", r0, Add(p, 1), [r EXCEPT ![Reg0(w)] = Sub(@, 1)])
        [] mode = 6 -> Opnd("mem", Add(base, ShiftLeft(r0, shift)), Add(p, 3), r)
        [] mode = 7 -> Opnd("mem", Add(Read(Add(base, ShiftLeft(r0, shift))),
                                       ShiftLeft(r1, again)), Add(p, 3), r)

Decode(n, p, r) ==
  CASE IsImm(n)                      -> Opnd("imm", Read(p), Add(p, 1), r)
    [] ~IsImm(n) /\ Mode(n) = 0      -> Opnd("none", 0, p, r)
    [] ~IsImm(n) /\ Mode(n) \in 1..2 -> Opnd("mem", Read(p), Add(p, 1), r)
    [] OTHER                         -> SecondaryOpnd(p, r)

(* The operands, in order; a relative one counts from the next instruction. *)
Operands ==
  LET first  == Decode(0, Add(pc, 1), reg)
      second == Decode(1, first.pc, first.reg)
      third  == Decode(2, second.pc, second.reg)
      ops    == [n \in 0..2 |-> CASE n = 0 -> first [] n = 1 -> second [] OTHER -> third]
  IN  [n \in 0..2 |-> IF ops[n].kind = "mem" /\ Mode(n) = 2
                      THEN [ops[n] EXCEPT !.at = Add(@, third.pc)] ELSE ops[n]]

-----------------------------------------------------------------------------
(* The instructions (section 3.1), by group. *)

Binary    == 1..23
Compare   == 24..29    \* compare and branch
PRNT      == 30
Unary     == 31..35
Test      == 36..37    \* test and branch
INCR      == 38
DECR      == 39
JMP       == 40
JAL       == 41
CALL      == 42
RET       == 43
MOV       == 44

Truth(p)  == IF p THEN 1 ELSE 0
Signed(w) == IF Bit(w, 15) = 1 THEN w - WORDS ELSE w

BinaryResult(o, a, b) ==
  CASE o = 1  -> And(a, b)
    [] o = 2  -> Or(a, b)
    [] o = 3  -> Xor(a, b)
    [] o = 4  -> ShiftLeft(a, b)
    [] o = 5  -> Not(And(a, b))
    [] o = 6  -> Not(Or(a, b))
    [] o = 7  -> Not(Xor(a, b))
    [] o = 8  -> ShiftRight(a, b)
    [] o = 9  -> Truth(a # 0 /\ b # 0)
    [] o = 10 -> Truth(a # 0 \/ b # 0)
    [] o = 11 -> Truth((a # 0) # (b # 0))
    [] o = 12 -> ShiftArith(a, b)
    [] o = 13 -> Truth(~(a # 0 /\ b # 0))
    [] o = 14 -> Truth(~(a # 0 \/ b # 0))
    [] o = 15 -> Truth((a # 0) = (b # 0))
    [] o = 16 -> Truth(Signed(a) < Signed(b))
    [] o = 17 -> Truth(Signed(a) > Signed(b))
    [] o = 18 -> Truth(a = b)
    [] o = 19 -> Truth(a # b)
    [] o = 20 -> Truth(Signed(a) <= Signed(b))
    [] o = 21 -> Truth(Signed(a) >= Signed(b))
    [] o = 22 -> Add(a, b)
    [] o = 23 -> Sub(a, b)

UnaryResult(o, a) ==
  CASE o \in 31..32 -> Truth(a = 0)
    [] o = 33 -> Truth(a # 0)
    [] o = 34 -> Not(a)
    [] o = 35 -> Sub(0, a)

(* Section 3.2: how many operands, and whether operand 0 may be a register. *)
Counts(o) == CASE o = 0                              -> 0..3   \* not validated
               [] o \in Binary                       -> 2..3
               [] o \in Compare                      -> {3}
               [] o = PRNT \/ o \in INCR..CALL       -> {1}
               [] o \in Unary                        -> 1..2
               [] o \in Test \/ o = MOV              -> {2}
               [] o = RET                            -> {0}
NeedsAddress(o) == o \in Compare \cup Test \cup JMP..CALL

Valid(ops) ==
  /\ \E k \in Counts(Opcode) : \A n \in 0..2 : ops[n].kind # "none" <=> n < k
  /\ NeedsAddress(Opcode) => ops[0].kind = "mem"

-----------------------------------------------------------------------------
(* What an instruction with operands ops does to the state. *)

ValueOf(op, r) == CASE op.kind = "imm" -> op.at
                    [] op.kind = "reg" -> r[op.at]
                    [] op.kind = "mem" -> Read(op.at)

State(p, r, m, w) == <<p, r, m, w>>

Effect(ops) ==
  LET next == ops[2].pc
      r    == ops[2].reg
      o    == Opcode
      v(n) == ValueOf(ops[n], r)
      two  == ops[2].kind = "none"    \* the short form: op0 is also the first source
      \* the result goes where operand 0 is
      Put(w) == IF ops[0].kind = "reg" THEN State(next, [r EXCEPT ![ops[0].at] = w], mem, out)
                ELSE State(next, r, Write(ops[0].at, w), out)
      GoIf(p) == State(IF p THEN ops[0].at ELSE next, r, mem, out)
      sp   == Sub(r[14], 1)
  IN  CASE o \in Binary  -> Put(IF two THEN BinaryResult(o, v(0), v(1))
                                ELSE BinaryResult(o, v(1), v(2)))
        [] o \in Compare -> GoIf(BinaryResult(o - 8, v(1), v(2)) = 1)
        [] o = PRNT      -> State(next, r, mem, v(0))
        [] o \in Unary   -> Put(UnaryResult(o, IF ops[1].kind = "none" THEN v(0) ELSE v(1)))
        [] o \in Test    -> GoIf(UnaryResult(o - 4, v(1)) = 1)
        [] o = INCR      -> Put(Add(v(0), 1))
        [] o = DECR      -> Put(Sub(v(0), 1))
        [] o = JMP       -> GoIf(TRUE)
        [] o = JAL       -> State(ops[0].at, [r EXCEPT ![15] = next], mem, out)
        [] o = CALL      -> State(ops[0].at, [r EXCEPT ![15] = next, ![14] = sp],
                                  Write(sp, next), out)
        [] o = RET       -> State(Read(r[14]), [r EXCEPT ![14] = Add(@, 1)], mem, out)
        [] o = MOV       -> Put(v(1))

Init == out = 0 /\ status = "run"

Execute == LET ops == Operands
           IN  /\ status = "run" /\ Opcode # 0 /\ Valid(ops)
               /\ <<pc, reg, mem, out>>' = Effect(ops)
               /\ status' = "run"

Halt == /\ status = "run" /\ Opcode = 0
        /\ status' = "halt"
        /\ UNCHANGED <<pc, reg, mem, out>>

Reject == /\ status = "run" /\ Opcode # 0 /\ ~Valid(Operands)
          /\ status' = "reject"
          /\ UNCHANGED <<pc, reg, mem, out>>

Next == Execute \/ Halt \/ Reject

Spec == Init /\ [][Next]_vars
=============================================================================
