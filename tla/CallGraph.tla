------------------------------ MODULE CallGraph ------------------------------
(***************************************************************************)
(* When a microprogram is safe on the microstack.                          *)
(*                                                                         *)
(* A certificate divides the work of a microprogram into contexts: what    *)
(* the main loop does, and what each activation of a procedure does, with  *)
(* the opcodes it may meet at each address.  It is checked one             *)
(* microinstruction at a time (Sound); CallGraphProofs shows that a        *)
(* certified microprogram has the properties of ControlUnit, whatever the  *)
(* height of the microstack and however its calls interleave.              *)
(***************************************************************************)
EXTENDS ControlUnit

CONSTANTS
  Ctx,   \* the contexts
  Root,  \* the context of the main loop
  Code,  \* Code[c]: the pairs of an address and an opcode that c may meet
  Lvl    \* Lvl[c]: how many frames a context may still need

Places == UAddr \X Byte

(* The place after p with opcode o that is reached without the microstack. *)
LocalNext(p, o) ==
  LET inst == Inst(p)
  IN  (IF inst.op = "ctrl" THEN {After(p)} \X OpcodesAfter(inst.ctrl, o) ELSE {})
      \cup (IF inst.op = "print" \/ inst.cond # "always" THEN {<<After(p), o>>} ELSE {})
      \cup (IF inst.op = "jump" THEN {<<Target(inst.jump), o>>} ELSE {})

IsCall(p)    == Inst(p).op \in {"call", "callopc"}
Callee(p, o) == IF Inst(p).op = "call" THEN Target(Inst(p).jump) ELSE Target(o % 128)

(* After the call at p, context c goes on with whatever opcode d returns. *)
ResumesAt(c, d, a) ==
  \A x \in Code[d] : Inst(x[1]).op = "return" => <<a, x[2]>> \in Code[c]

SoundCall(c, p, o) ==
  \E d \in Ctx : /\ d # Root
                 /\ Lvl[d] < Lvl[c]
                 /\ <<Callee(p, o), o>> \in Code[d]
                 /\ ResumesAt(c, d, After(p))

Sound(c, p, o) ==
  /\ p < Len(uMem)
  /\ Inst(p).op # "invalid"
  /\ p = 0 => c = Root
  /\ LocalNext(p, o) \subseteq Code[c]
  /\ Inst(p).op = "restart" => c = Root /\ <<0, o>> \in Code[Root]
  /\ Inst(p).op = "return" => c # Root
  /\ IsCall(p) => SoundCall(c, p, o)
  /\ Inst(p).op = "ctrl" /\ Inst(p).ctrl # "IR <- Mem[PC]"
       => \A b \in OpcodesAfter(Inst(p).ctrl, o) : b <= o

ASSUME ContextsAssumption ==
  /\ Root \in Ctx
  /\ Lvl \in [Ctx -> Nat]
  /\ Lvl[Root] <= CTRL_STACK_HEIGHT
  /\ Code \in [Ctx -> SUBSET Places]
  /\ <<0, 0>> \in Code[Root]

ASSUME SoundAssumption == \A c \in Ctx : \A x \in Code[c] : Sound(c, x[1], x[2])

-----------------------------------------------------------------------------
(* The contexts that are active, the main loop first: who called whom. *)
Chain(ctx) ==
  /\ ctx[0] = Root
  /\ \A k \in 1..usp : ctx[k] # Root
  /\ \A k \in 0..usp : Lvl[ctx[k]] + k <= CTRL_STACK_HEIGHT
  /\ \A k \in 1..usp : ResumesAt(ctx[k - 1], ctx[k], ustack[k - 1])
  /\ <<upc, opc>> \in Code[ctx[usp]]

\* At any time the microstack is a path in the call graph of the certificate,
\* and what runs is code of the last context of the path: the invariant that
\* bounds the microstack.
Certified ==
  /\ usp <= CTRL_STACK_HEIGHT
  /\ \E ctx \in [0..usp -> Ctx] : Chain(ctx)
  /\ status \notin {"overflow", "underflow", "wild", "invalid"}
=============================================================================
