--------------------------- MODULE CallGraphProofs ---------------------------
(***************************************************************************)
(* A certified microprogram is safe: its calls fit in the microstack, each *)
(* instruction leaves the microstack as it found it, control stays inside  *)
(* the program, and clearing a bit of the opcode never sets it.            *)
(*                                                                         *)
(* The inductive invariant is Certified: the frames on the microstack are  *)
(* the calls along a path of contexts, whose levels decrease.              *)
(***************************************************************************)
EXTENDS CallGraph, ControlUnitProofs

\* The state is sound: the facts the certificate gives about where it is.
LEMMA HereSound ==
  ASSUME NEW ctx \in [0..usp -> Ctx], Chain(ctx), usp \in Nat
  PROVE  Sound(ctx[usp], upc, opc)
<1>1. ctx[usp] \in Ctx /\ <<upc, opc>> \in Code[ctx[usp]]
  BY DEF Chain
<1> QED BY <1>1, SoundAssumption, Zenon

\* Only the main loop runs with nothing on the microstack.
LEMMA RootAlone ==
  ASSUME NEW ctx \in [0..usp -> Ctx], Chain(ctx), usp \in Nat
  PROVE  ctx[usp] = Root <=> usp = 0
<1>1. usp # 0 => usp \in 1..usp
  OBVIOUS
<1> QED BY <1>1 DEF Chain

\* How a step shows that the invariant still holds: by naming the new path.
LEMMA NewPath ==
  ASSUME NEW g \in [0..usp' -> Ctx],
         usp' <= CTRL_STACK_HEIGHT,
         status' \notin {"overflow", "underflow", "wild", "invalid"},
         g[0] = Root,
         \A k \in 1..usp' : g[k] # Root,
         \A k \in 0..usp' : Lvl[g[k]] + k <= CTRL_STACK_HEIGHT,
         \A k \in 1..usp' : ResumesAt(g[k - 1], g[k], ustack'[k - 1]),
         <<upc', opc'>> \in Code[g[usp']]
  PROVE  Certified'
<1>1. Chain(g)'
  BY DEF Chain, ResumesAt
<1> QED BY <1>1 DEF Certified

LEMMA CertifiedStep == TypeOK /\ Certified /\ [Next]_vars => Certified'
<1> SUFFICES ASSUME TypeOK, Certified, [Next]_vars PROVE Certified'
  OBVIOUS
<1>n. usp \in Nat
  BY DEF TypeOK, SPtr
<1>c. PICK ctx \in [0..usp -> Ctx] : Chain(ctx)
  BY DEF Certified
<1> DEFINE c == ctx[usp]
<1>s. Sound(c, upc, opc)
  BY <1>c, <1>n, HereSound
<1>in. usp <= CTRL_STACK_HEIGHT /\ c \in Ctx
  BY <1>n DEF Certified
<1>h. UNCHANGED vars => Certified'
  BY DEF Certified, Chain, vars
\* The frames stay: it is enough that the new place is code of the context.
<1>l. ASSUME UNCHANGED <<usp, ustack, status>>, <<upc', opc'>> \in Code[c]
      PROVE  Certified'
  <2>1. Chain(ctx)'
    BY <1>c, <1>l DEF Chain
  <2> QED BY <1>l, <1>n, <2>1 DEF Certified
<1>x. ASSUME NEW why, StopWith(why), why \notin {"overflow", "underflow", "wild", "invalid"}
      PROVE  Certified'
  <2>1. Chain(ctx)'
    BY <1>c, <1>x DEF Chain, StopWith
  <2> QED BY <1>x, <2>1 DEF Certified, StopWith
<1>e. ASSUME NEW j, Enter(j), IsCall(upc), Target(j) = Callee(upc, opc)
      PROVE  Certified'
  <2>1. PICK d \in Ctx : /\ d # Root
                         /\ Lvl[d] < Lvl[c]
                         /\ <<Target(j), opc>> \in Code[d]
                         /\ ResumesAt(c, d, After(upc))
    BY <1>s, <1>e DEF Sound, SoundCall
  <2>2. Lvl[c] \in Nat /\ Lvl[d] \in Nat /\ Lvl[c] + usp <= CTRL_STACK_HEIGHT
    BY <1>c, <1>n, <1>in, ContextsAssumption DEF Chain
  <2>3. usp < CTRL_STACK_HEIGHT /\ Lvl[d] + (usp + 1) <= CTRL_STACK_HEIGHT
    BY <1>n, <2>1, <2>2, HeightAssumption
  <2>4. /\ usp' = usp + 1
        /\ ustack' = [ustack EXCEPT ![usp] = After(upc)]
        /\ upc' = Target(j)
        /\ opc' = opc
        /\ status' = status
    BY <1>e, <1>n, <2>3, HeightAssumption DEF Enter, NextUpc
  <2>5. PICK g : g = [k \in 0..(usp + 1) |-> IF k = usp + 1 THEN d ELSE ctx[k]]
    OBVIOUS
  <2>6. g \in [0..usp' -> Ctx]
    BY <1>n, <2>4, <2>5
  <2>7. g[usp + 1] = d /\ \A k \in 0..usp : g[k] = ctx[k]
    BY <1>n, <2>5
  <2>8. \A k \in 0..(usp + 1) : k = usp + 1 \/ k \in 0..usp
    BY <1>n
  <2>9. g[0] = Root
    BY <1>c, <1>n, <2>7 DEF Chain
  <2>10. \A k \in 1..usp' : g[k] # Root
    BY <1>c, <1>n, <2>1, <2>4, <2>7 DEF Chain
  <2>11. \A k \in 0..usp' : Lvl[g[k]] + k <= CTRL_STACK_HEIGHT
    BY <1>c, <2>3, <2>4, <2>7, <2>8 DEF Chain
  <2>12. ASSUME NEW k \in 1..usp' PROVE ResumesAt(g[k - 1], g[k], ustack'[k - 1])
    <3>1. CASE k = usp + 1
      <4>1. usp \in Slots
        BY <1>n, <2>3, HeightAssumption DEF Slots
      <4>2. ustack'[usp] = After(upc)
        BY <2>4, <4>1 DEF TypeOK
      <4>3. g[usp] = c
        BY <1>n, <2>7
      <4>4. k - 1 = usp
        BY <1>n, <3>1
      <4> QED BY <2>1, <2>7, <3>1, <4>2, <4>3, <4>4
    <3>2. CASE k \in 1..usp
      <4>1. k \in 0..usp /\ k - 1 \in 0..usp /\ k - 1 # usp
        BY <1>n, <3>2
      <4>2. ustack'[k - 1] = ustack[k - 1]
        BY <1>in, <1>n, <2>4, <3>2, <4>1, HeightAssumption DEF TypeOK, Slots
      <4>3. ResumesAt(ctx[k - 1], ctx[k], ustack[k - 1])
        BY <1>c, <3>2 DEF Chain
      <4> QED BY <2>7, <4>1, <4>2, <4>3
    <3> QED BY <1>n, <2>4, <3>1, <3>2
  <2>13. <<upc', opc'>> \in Code[g[usp']]
    BY <2>1, <2>4, <2>7
  <2> HIDE DEF c
  <2>14. usp' <= CTRL_STACK_HEIGHT /\ status' \notin {"overflow", "underflow", "wild", "invalid"}
    BY <1>n, <2>3, <2>4, HeightAssumption DEF Certified
  <2> QED BY <2>6, <2>9, <2>10, <2>11, <2>12, <2>13, <2>14, NewPath
<1>1. CASE ControlPoint
  BY <1>1, <1>l, <1>s DEF ControlPoint, Sound, LocalNext, UInst, NextUpc
<1>2. CASE Skip
  BY <1>2, <1>l, <1>s DEF Skip, GoTo, Sound, LocalNext, UInst, NextUpc
<1>3. CASE Jump
  BY <1>3, <1>l, <1>s DEF Jump, GoTo, Sound, LocalNext, UInst
<1>4. CASE Restart
  BY <1>4, <1>l, <1>s DEF Restart, GoTo, Sound, UInst
<1>5. CASE CallLabel
  BY <1>5, <1>e DEF CallLabel, IsCall, Callee, UInst
<1>6. CASE CallByOpcode
  BY <1>6, <1>e DEF CallByOpcode, IsCall, Callee, UInst
<1>7. CASE Return
  <2>1. usp # 0
    BY <1>7, <1>c, <1>n, <1>s, RootAlone DEF Return, Sound, UInst
  <2>2. UspBelow = usp - 1 /\ UspBelow \in Slots
    BY <1>in, <2>1, HeightAssumption DEF UspBelow, Slots, TypeOK, SPtr
  <2>3. /\ usp' = usp - 1
        /\ upc' = ustack[usp - 1]
        /\ ustack' = [ustack EXCEPT ![usp - 1] = 0]
        /\ opc' = opc
        /\ status' = status
    BY <1>7, <2>2 DEF Return
  <2>4. PICK g : g = [k \in 0..(usp - 1) |-> ctx[k]]
    OBVIOUS
  <2>5. g \in [0..usp' -> Ctx] /\ \A k \in 0..usp' : g[k] = ctx[k] /\ k \in 0..usp
    BY <1>n, <2>1, <2>3, <2>4
  <2>6. usp' \in Nat /\ usp \in 1..usp /\ usp' <= CTRL_STACK_HEIGHT
    BY <1>in, <1>n, <2>1, <2>3, HeightAssumption
  <2>7. g[0] = Root
    BY <1>c, <2>5, <2>6 DEF Chain
  <2>8. \A k \in 1..usp' : g[k] # Root
    BY <1>c, <1>n, <2>3, <2>5 DEF Chain
  <2>9. \A k \in 0..usp' : Lvl[g[k]] + k <= CTRL_STACK_HEIGHT
    BY <1>c, <2>5 DEF Chain
  <2>10. ASSUME NEW k \in 1..usp' PROVE ResumesAt(g[k - 1], g[k], ustack'[k - 1])
    <3>1. k \in 1..usp /\ k \in 0..usp' /\ k - 1 \in 0..usp' /\ k - 1 # usp - 1
      BY <1>n, <2>3
    <3>2. k - 1 \in Slots
      BY <1>in, <1>n, <2>3, HeightAssumption DEF Slots
    <3>3. ustack'[k - 1] = ustack[k - 1]
      BY <2>3, <3>1, <3>2 DEF TypeOK
    <3>4. ResumesAt(ctx[k - 1], ctx[k], ustack[k - 1])
      BY <1>c, <3>1 DEF Chain
    <3> QED BY <2>5, <3>1, <3>3, <3>4
  <2>11. <<upc', opc'>> \in Code[g[usp']]
    <3>1. ResumesAt(ctx[usp - 1], c, ustack[usp - 1]) /\ <<upc, opc>> \in Code[c]
      BY <1>c, <2>6 DEF Chain
    <3>2. <<ustack[usp - 1], opc>> \in Code[ctx[usp - 1]]
      BY <1>7, <3>1 DEF Return, ResumesAt, UInst
    <3>3. g[usp'] = ctx[usp - 1]
      BY <2>3, <2>5, <2>6
    <3> QED BY <2>3, <3>2, <3>3
  <2>12. status' \notin {"overflow", "underflow", "wild", "invalid"}
    BY <2>3 DEF Certified
  <2> HIDE DEF c
  <2> QED BY <2>5, <2>6, <2>7, <2>8, <2>9, <2>10, <2>11, <2>12, NewPath
<1>8. CASE Halt
  BY <1>8, <1>x, <1>s DEF Halt, Sound, UInst
<1>9. CASE PrintOperand
  BY <1>9, <1>l, <1>s DEF PrintOperand, GoTo, Sound, LocalNext, UInst, NextUpc
<1>10. CASE EmergencyHalt
  BY <1>10, <1>x DEF EmergencyHalt
<1> QED
  BY <1>h, <1>1, <1>2, <1>3, <1>4, <1>5, <1>6, <1>7, <1>8, <1>9, <1>10
  DEF Next, Step, Done

LEMMA CertifiedInit == Init => Certified
<1> SUFFICES ASSUME Init PROVE Certified
  OBVIOUS
<1> DEFINE ctx == [k \in 0..0 |-> Root]
<1>1. ctx \in [0..usp -> Ctx]
  BY ContextsAssumption DEF Init
<1>2. Chain(ctx)
  BY ContextsAssumption, HeightAssumption DEF Init, Chain
<1> QED BY <1>1, <1>2, HeightAssumption DEF Init, Certified

\* The microstack is always a path of the certificate's call graph.
THEOREM AlwaysCertified == Spec => []Certified
  BY CertifiedInit, CertifiedStep, TypeCorrect, PTL DEF Spec

\* The microstack of a certified microprogram never overflows nor underflows:
\* the emergency halts of uprocedure_call and return_from_procedure are dead.
THEOREM CertifiedStackSafe == Spec => []StackSafe
<1>1. Certified => StackSafe
  BY DEF Certified, StackSafe, NeverWild
<1> QED BY <1>1, AlwaysCertified, PTL

\* A certified microprogram fetches with nothing on the microstack.
THEOREM CertifiedFetchBalanced == Spec => []FetchBalanced
<1>1. TypeOK /\ Certified => FetchBalanced
  <2> SUFFICES ASSUME TypeOK, Certified, upc = 0 PROVE usp = 0
    BY DEF FetchBalanced
  <2>1. usp \in Nat
    BY DEF TypeOK, SPtr
  <2>2. PICK ctx \in [0..usp -> Ctx] : Chain(ctx)
    BY DEF Certified
  <2>3. ctx[usp] = Root
    BY <2>1, <2>2, HereSound DEF Sound
  <2> QED BY <2>1, <2>2, <2>3, RootAlone
<1> QED BY <1>1, AlwaysCertified, TypeCorrect, PTL

\* A certified microprogram never runs into words that were not loaded.
THEOREM CertifiedStaysInProgram == Spec => []StaysInProgram
<1>1. TypeOK /\ Certified => StaysInProgram
  <2> SUFFICES ASSUME TypeOK, Certified PROVE StaysInProgram
    OBVIOUS
  <2>1. usp \in Nat
    BY DEF TypeOK, SPtr
  <2>2. PICK ctx \in [0..usp -> Ctx] : Chain(ctx)
    BY DEF Certified
  <2>3. upc < Len(uMem)
    BY <2>1, <2>2, HereSound DEF Sound
  <2> QED BY <2>3 DEF Certified, StaysInProgram
<1> QED BY <1>1, AlwaysCertified, TypeCorrect, PTL

\* In a certified microprogram the line that clears a bit of the opcode, which
\* the chip implements by flipping it, never sets it.
THEOREM CertifiedFlipsClear == Spec => FlipsClear
<1>t. TypeOK => usp \in Nat
  BY DEF TypeOK, SPtr
<1>b. \A a, b \in Byte : a <= b /\ a # b => a < b
  BY DEF Byte
<1>1. TypeOK /\ Certified /\ [Next]_vars
        => [opc' # opc /\ UInst.ctrl # "IR <- Mem[PC]" => opc' < opc]_vars
  <2> SUFFICES ASSUME TypeOK, Certified, Next, opc' # opc, UInst.ctrl # "IR <- Mem[PC]"
               PROVE  opc' < opc
    OBVIOUS
  <2>1. ControlPoint
    BY DEF Next, Step, Done, vars, Skip, Jump, Restart, CallLabel, CallByOpcode, Enter,
           Return, Halt, PrintOperand, EmergencyHalt, StopWith, GoTo
  <2>2. usp \in Nat
    BY <1>t, Zenon
  <2>3. PICK ctx \in [0..usp -> Ctx] : Chain(ctx)
    BY DEF Certified
  <2>4. opc' <= opc
    BY <2>1, <2>2, <2>3, HereSound DEF Sound, ControlPoint, UInst
  <2>5. opc \in Byte /\ opc' \in Byte
    BY <2>1, OpcodesAfterType DEF ControlPoint, TypeOK
  <2> QED BY <1>b, <2>4, <2>5, Zenon
<1> QED BY <1>1, AlwaysCertified, TypeCorrect, PTL DEF Spec, FlipsClear
=============================================================================
