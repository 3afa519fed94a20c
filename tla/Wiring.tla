-------------------------------- MODULE Wiring --------------------------------
(***************************************************************************)
(* FabComp at the level of clock ticks: the requests that                  *)
(* microcontroller.cpp makes of buses, ALU, memories and registers between *)
(* two ticks, the connections of wire_data_path and wire_control_path they *)
(* go over, and what a tick does with them.  The turns of FabComp's loop   *)
(* are sequences of these ticks.                                           *)
(***************************************************************************)
EXTENDS FabComp

(* Storages. *)
The(name) == <<name, 0>>
Pc        == The("pc")
Ir        == The("ir")
Mdr       == The("mdr")
Regshift  == The("regshift")
Upc       == The("upc")
Gpr(n)    == <<"reg", n>>
Val(n)    == <<"val", n>>
Addr(n)   == <<"addr", n>>
Cntl(n)   == <<"cntl", n>>
Kind(s)   == s[1]

(* wire_data_path and wire_control_path: what can put a value on a port. *)
FeedsWithoutVal ==    \* mutant: a connection is forgotten
  [ ABUS |-> {"pc", "reg", "addr"},       DBUS |-> {"ir", "mdr", "reg", "val"},
    OP1  |-> {"mdr", "tmp", "reg", "val", "addr"}, OP2 |-> {"0xFF", "pc", "mdr", "reg"},
    WRITE |-> {"mdr", "reg"},
    uABUS |-> {"upc", "ustack"},          uJBUS |-> {"uir", "regshift"},
    pBUS  |-> {"regshift"},               pDBUS |-> {"utmp", "i", "cntl"} ]
Feeds ==
  [ ABUS |-> {"pc", "reg", "addr"},       DBUS |-> {"ir", "mdr", "reg", "val"},
    OP1  |-> {"mdr", "tmp", "reg", "val", "addr"}, OP2 |-> {"0xFF", "pc", "mdr", "reg", "val"},
    WRITE |-> {"mdr", "reg"},
    uABUS |-> {"upc", "ustack"},          uJBUS |-> {"uir", "regshift"},
    pBUS  |-> {"regshift"},               pDBUS |-> {"utmp", "i", "cntl"} ]

(* ... and what can latch from one. *)
Takes ==
  [ ABUS  |-> {"pc", "mar", "regshift"},  DBUS |-> {"pc", "mdr", "tmp", "reg", "val", "regshift"},
    ALU   |-> {"mdr", "reg", "addr"},     READ |-> {"pc", "ir", "mdr", "val", "addr"},
    uABUS |-> {"upc", "umar", "ustack"},  uREAD |-> {"upc", "uir"},
    uJBUS |-> {"ujmar"},                  jREAD |-> {"upc"},
    pBUS  |-> {"cntl"},                   pDBUS |-> {"utmp", "cntl"} ]

BusWidth == [ABUS |-> 16, DBUS |-> 16, uABUS |-> 12, uJBUS |-> 7, pBUS |-> 4, pDBUS |-> 5]

-----------------------------------------------------------------------------
(* Requests: a port pulls from a storage, a storage latches from a port or
   changes by itself, the ALU or the memory does something.  A tick is the
   set of those made since the last one.                                   *)
Request(verb, s, how) == [verb |-> verb, on |-> s, how |-> how]
Pull(port, s)    == Request("pull", s, port)
Latch(s, port)   == Request("latch", s, port)
Change(s, how)   == Request("change", s, how)    \* clear, incr, decr, shift
Flip(s, bit)     == Request("flip", s, bit)
Perform(op)      == Request("perform", The("alu"), op)
Store            == Request("write", The("mem"), "")

Via(bus, from, to) == {Pull(bus, from), Latch(to, bus)}
Compute(op, a, b, to) ==
  {Perform(op), Latch(to, "ALU"), Pull("OP1", a), Pull("OP2", b)}
Compute1(op, a, to) == {Perform(op), Latch(to, "ALU"), Pull("OP1", a)}
Produce(op, to)     == {Perform(op), Latch(to, "ALU")}

Load(from, to) == <<Via("ABUS", from, The("mar")), {Latch(to, "READ")}>>
Save(from, at) == <<Via("ABUS", at, The("mar")), {Pull("WRITE", from), Store}>>

(* Mutant: one shift too few. *)
EightShiftsLess(s) == [n \in 1..7 |-> {Change(s, "shift")}]
EightShifts(s) == [n \in 1..8 |-> {Change(s, "shift")}]

(* Mutant: the flips share a tick. *)
ClearAndFlipAtOnce(s, bits) ==
  <<{Change(s, "clear")}, {Flip(s, bits[n]) : n \in DOMAIN bits}>>
ClearAndFlip(s, bits) ==
  <<{Change(s, "clear")}>> \o [n \in DOMAIN bits |-> {Flip(s, bits[n])}]

(* operand_n *)
OperandAt(n) == IF IsRegister(n) THEN Gpr(cntl[n])
                ELSE IF IsAddress(n) THEN Addr(Slot(n))
                ELSE IF Slot(n) = 3 THEN Mdr ELSE Val(Slot(n))

(* execute_rtl.  What selects a register is not changed before it is used. *)
Ticks(w) ==
  LET v  == val[i]
      op(n) == OperandAt(n)
      Binary(f)  == <<Compute(f, op(1), op(2), Mdr)>>
      Bump(f, s) == <<Produce("one", Mdr), Compute(f, s, Mdr, s)>>
      Copy(bus, from, to) == <<Via(bus, from, to)>>
  IN
  CASE w = "Addr[0] <- Mem[Reg[14]]" -> Load(Gpr(14), Addr(0))
    [] w = "Addr[i] <- Addr[i] + MDR" -> <<Compute("add", Addr(i), Mdr, Addr(i))>>
    [] w = "Addr[i] <- Addr[i] + PC" -> <<Compute("add", Addr(i), Pc, Addr(i))>>
    [] w = "Addr[i] <- MDR"          -> <<Compute1("rop1", Mdr, Addr(i))>>
    [] w = "Addr[i] <- Mem[PC]"      -> Load(Pc, Addr(i))
    [] w = "Addr[i] <- Reg[MDR(reg0)]" -> <<Compute1("rop1", Gpr(Reg0(mdr)), Addr(i))>>
    [] w = "Addr[i] <- Reg[Val[i](reg0)]" -> <<Compute1("rop1", Gpr(Reg0(v)), Addr(i))>>
    [] w = "Addr[i] <- Reg[Val[i](reg0)] + Addr[i]"
                            -> <<Compute("add", Addr(i), Gpr(Reg0(v)), Addr(i))>>
    [] w = "Addr[i] <- Reg[Val[i](reg0)] << MDR"
                            -> <<Compute("lshift", Gpr(Reg0(v)), Mdr, Addr(i))>>
    [] w = "Addr[i] <- Reg[Val[i](reg1)] << MDR"
                            -> <<Compute("lshift", Gpr(Reg1(v)), Mdr, Addr(i))>>
    [] w = "IR <- Mem[PC]"           -> Load(Pc, Ir)
    [] w = "IR(opc)(2) <- 0"         -> <<{Flip(Ir, 10)}>>
    [] w = "IR(opc)(3) <- 0"         -> <<{Flip(Ir, 11)}>>
    [] w = "MDR <- 0"                -> <<Produce("zero", Mdr)>>
    [] w = "MDR <- 0 - op1" -> <<Produce("zero", Mdr), Compute("sub", Mdr, op(1), Mdr)>>
    [] w = "MDR <- 1"                -> <<Produce("one", Mdr)>>
    [] w = "MDR <- MDR >> 8"         -> EightShifts(Mdr)
    [] w = "MDR <- Mem[Addr[i]]"     -> Load(Addr(i), Mdr)
    [] w = "MDR <- Mem[PC]"          -> Load(Pc, Mdr)
    [] w = "MDR <- Reg[Val[i](reg1)] << MDR"
                            -> <<Compute("lshift", Gpr(Reg1(v)), Mdr, Mdr)>>
    [] w = "MDR <- Reg[Val[i](reg2)] << MDR"
                            -> <<Compute("lshift", Gpr(Reg2(v)), Mdr, Mdr)>>
    [] w = "MDR <- TMP & 0xff" -> <<Compute("and", The("tmp"), The("0xFF"), Mdr)>>
    [] w = "MDR <- op1"              -> <<Compute1("rop1", op(1), Mdr)>>
    [] w = "MDR <- op1 & op2"        -> Binary("and")
    [] w = "MDR <- op1 + op2"        -> Binary("add")
    [] w = "MDR <- op1 - op2"        -> Binary("sub")
    [] w = "MDR <- op1 << op2"       -> Binary("lshift")
    [] w = "MDR <- op1 >> op2"       -> Binary("rshift")
    [] w = "MDR <- op1 >>> op2"      -> Binary("rashift")
    [] w = "MDR <- op1 ^ op2"        -> Binary("xor")
    [] w = "MDR <- op1 | op2"        -> Binary("or")
    [] w = "MDR <- op2 - op1"        -> <<Compute("sub", op(2), op(1), Mdr)>>
    [] w = "MDR <- ~ op1"            -> <<Compute1("not", op(1), Mdr)>>
    [] w = "Mem[Addr[cntl[0](3..0)]] <- MDR" -> Save(Mdr, Addr(Slot(0)))
    [] w = "Mem[Reg[14]] <- Reg[15]" -> Save(Gpr(15), Gpr(14))
    [] w = "PC <- PC + 1"            -> <<{Change(Pc, "incr")}>>
    [] w = "PC <- op0"               -> Copy("ABUS", op(0), Pc)
    [] w = "Reg[14] <- Reg[14] + 1"  -> Bump("add", Gpr(14))
    [] w = "Reg[14] <- Reg[14] - 1"  -> Bump("sub", Gpr(14))
    [] w = "Reg[15] <- PC" -> <<{Perform("rop2"), Latch(Gpr(15), "ALU"), Pull("OP2", Pc)}>>
    [] w = "Reg[Val[i](reg0)] <- Reg[Val[i](reg0)] + 1" -> Bump("add", Gpr(Reg0(v)))
    [] w = "Reg[Val[i](reg0)] <- Reg[Val[i](reg0)] - 1" -> Bump("sub", Gpr(Reg0(v)))
    [] w = "Reg[cntl[0](3..0)] <- MDR" -> Copy("DBUS", Mdr, Gpr(cntl[0]))
    [] w = "TMP <- MDR"              -> Copy("DBUS", Mdr, The("tmp"))
    [] w = "Val[1] <- MDR"           -> Copy("DBUS", Mdr, Val(1))
    [] w = "Val[i] <- MDR"           -> Copy("DBUS", Mdr, Val(i))
    [] w = "Val[i] <- Mem[Addr[i]]"  -> Load(Addr(i), Val(i))
    [] w = "Val[i] <- Mem[PC]"       -> Load(Pc, Val(i))
    [] w = "cntl[0] <- 10011"        -> ClearAndFlip(Cntl(0), <<4, 1, 0>>)
    [] w = "cntl[0] <- 10100"        -> ClearAndFlip(Cntl(0), <<4, 2>>)
    [] w = "cntl[1] <- 10001"        -> ClearAndFlip(Cntl(1), <<4, 0>>)
    [] w = "cntl[1] <- 10011"        -> ClearAndFlip(Cntl(1), <<4, 1, 0>>)
    [] w = "cntl[1] <- cntl[0]"      -> Copy("pDBUS", Cntl(0), Cntl(1))
    [] w = "cntl[1] <- tmp"          -> Copy("pDBUS", The("utmp"), Cntl(1))
    [] w = "cntl[1](2) <- 0"         -> <<{Flip(Cntl(1), 2)}>>
    [] w = "cntl[2] <- 10000"        -> ClearAndFlip(Cntl(2), <<4>>)
    [] w = "cntl[2] <- 10011"        -> ClearAndFlip(Cntl(2), <<4, 1, 0>>)
    [] w = "cntl[2] <- cntl[1]"      -> Copy("pDBUS", Cntl(1), Cntl(2))
    [] w = "cntl[i] <- 00000 | regshift"
                            -> <<{Change(Cntl(i), "clear")}>> \o Copy("pBUS", Regshift, Cntl(i))
    [] w = "cntl[i] <- 10000"        -> ClearAndFlip(Cntl(i), <<4>>)
    [] w = "cntl[i] <- 10000 | i"    -> Copy("pDBUS", The("i"), Cntl(i)) \o <<{Flip(Cntl(i), 4)}>>
    [] w = "cntl[i] <- 10100 | i"    -> Copy("pDBUS", The("i"), Cntl(i))
                                          \o <<{Flip(Cntl(i), 4)}, {Flip(Cntl(i), 2)}>>
    [] w = "cntl[i](2) <- 0"         -> <<{Flip(Cntl(i), 2)}>>
    [] w = "i <- 00"                 -> <<{Change(The("i"), "clear")}>>
    [] w = "i <- i + 1"              -> <<{Change(The("i"), "incr")}>>
    [] w = "regshift <- MDR"         -> Copy("DBUS", Mdr, Regshift)
    [] w = "regshift <- regshift >> 8" -> EightShifts(Regshift)
    [] w = "tmp <- cntl[2]"          -> Copy("pDBUS", Cntl(2), The("utmp"))
    [] OTHER                         -> <<>>    \* emergency_halt

-----------------------------------------------------------------------------
(* interpret_microprogram: a turn is the fetch, then what the type asks for. *)

UAddress == Via("uABUS", Upc, The("umar"))
UFetch   == <<UAddress, {Latch(The("uir"), "uREAD"), Change(Upc, "incr")}>>

Lookup(index) == Via("uJBUS", index, The("ujmar"))

(* uprocedure_call *)
CallTicks(index) ==
  << Via("uABUS", Upc, <<"ustack", usp>>) \cup Lookup(index),
     {Change(The("usp"), "incr"), Latch(Upc, "jREAD")} >>

SequencerTicks ==
  CASE UInst.op = "jump"    -> <<Lookup(The("uir")), {Latch(Upc, "jREAD")}>>
    [] UInst.op = "restart" -> <<{Change(Upc, "clear")}>>
    [] UInst.op = "call"    -> CallTicks(The("uir"))
    [] UInst.op = "callopc" -> <<Via("DBUS", Ir, Regshift)>> \o EightShifts(Regshift)
                                 \o CallTicks(Regshift)
    [] UInst.op = "return"  -> <<{Change(The("usp"), "decr")},
                                 Via("uABUS", <<"ustack", CU!UspBelow>>, Upc)>>
    [] OTHER                -> <<>>

(* These end without a tick: their last requests wait for that of the fetch. *)
Unfinished == {"Addr[0] <- Mem[Reg[14]]", "MDR <- op1 | op2", "MDR <- op2 - op1"}

ControlTicks(w) ==
  LET ticks == Ticks(w)
      n     == Len(ticks)
  IN  IF w \in Unfinished THEN [ticks EXCEPT ![n] = @ \cup UAddress] ELSE ticks

Turn == UFetch \o (CASE UInst.op = "ctrl"                       -> ControlTicks(UInst.ctrl)
                     [] UInst.cond # "always" /\ Holds(UInst.cond) -> <<>>
                     [] OTHER                                    -> SequencerTicks)

-----------------------------------------------------------------------------
(* What a tick does (the arch library, and FlipRegister::phase1). *)

One(word) == [n \in {0} |-> word]

(* What the storages hold; the address registers and uIR matter within a turn only. *)
Held ==
  [ pc |-> One(pc), ir |-> One(256 * opc + modes), mdr |-> One(mdr), tmp |-> One(tmp),
    reg |-> reg, val |-> val, addr |-> addr, mem |-> mem, cntl |-> cntl, i |-> One(i),
    utmp |-> One(utmp), regshift |-> One(regshift),
    upc |-> One(upc), usp |-> One(usp), ustack |-> ustack ]
Passing == [b \in {"mar", "umar", "ujmar", "uir", "0xFF"} |-> One(IF b = "0xFF" THEN 255 ELSE 0)]
AtFirst == [b \in DOMAIN Held \cup DOMAIN Passing |->
              IF b \in DOMAIN Held THEN Held[b] ELSE Passing[b]]

CounterWidth == [pc |-> 16, i |-> 2, upc |-> 12, usp |-> 3]

Result(op, a, b) ==
  CASE op = "zero" -> 0          [] op = "one" -> 1
    [] op = "rop1" -> a          [] op = "rop2" -> b
    [] op = "add"  -> Add(a, b)  [] op = "sub" -> Sub(a, b)
    [] op = "and"  -> And(a, b)  [] op = "or"  -> Or(a, b)
    [] op = "xor"  -> Xor(a, b)  [] op = "not" -> Not(a)
    [] op = "lshift"  -> ShiftLeft(a, b)
    [] op = "rshift"  -> ShiftRight(a, b)
    [] op = "rashift" -> ShiftArith(a, b)

(* What becomes of a register or counter of bank b that changes by itself. *)
ByItself(b, how, old) ==
  CASE how = "clear" -> 0
    [] how = "incr"  -> (old + 1) % 2^CounterWidth[b]
    [] how = "decr"  -> (old - 1) % 2^CounterWidth[b]
    [] how = "shift" -> old \div 2

Mutators == {"latch", "change", "flip"}

(* What is held after tick t, all requests looking at what was held before. *)
Tick(t, held) ==
  LET Pulled(port) == LET s == (CHOOSE r \in t : r.verb = "pull" /\ r.how = port).on
                      IN  held[s[1]][s[2]]
      Port(port) ==
        CASE port \in DOMAIN BusWidth -> Pulled(port) % 2^BusWidth[port]
          [] port = "ALU" -> Result((CHOOSE r \in t : r.verb = "perform").how,
                                    Pulled("OP1"), Pulled("OP2"))
          [] port = "READ" -> LET a == held.mar[0]
                              IN  IF a \in DOMAIN held.mem THEN held.mem[a] ELSE 0
          [] port = "uREAD" -> CU!Inst(held.umar[0]).jump   \* uIR(6..0)
          [] port = "jREAD" -> CU!Target(held.ujmar[0])
      Becomes(r, old) ==
        CASE r.verb = "latch"  -> Port(r.how)
          [] r.verb = "flip"   -> FlipBit(old, r.how)
          [] r.verb = "change" -> ByItself(Kind(r.on), r.how, old)
      changes == {r \in t : r.verb \in Mutators}
      banks   == {Kind(r.on) : r \in changes}
      Content(b, n) == LET rs == {r \in changes : r.on = <<b, n>>}
                       IN  IF rs = {} THEN held[b][n]
                           ELSE Becomes(CHOOSE r \in rs : TRUE, held[b][n])
      Stored == LET a == held.mar[0]
                IN  [x \in DOMAIN held.mem \cup {a} |->
                       IF x = a THEN Pulled("WRITE") ELSE held.mem[x]]
  IN  [b \in DOMAIN held |->
         CASE b \in banks              -> [n \in DOMAIN held[b] |-> Content(b, n)]
           [] b = "mem" /\ Store \in t -> Stored
           [] OTHER                    -> held[b]]

AfterTurn ==
  LET turn == Turn
      held[n \in 0..Len(turn)] == IF n = 0 THEN AtFirst ELSE Tick(turn[n], held[n - 1])
  IN  held[Len(turn)]

-----------------------------------------------------------------------------
(* Properties. *)

Runs == status = "run" /\ Trouble = "none"

\* Every request goes over a connection that wire_data_path or
\* wire_control_path made, whichever register an operand turns out to be in:
\* Addr and IR, for one, cannot be second operands of the ALU.
Wired ==
  Runs => LET turn == Turn
          IN  \A n \in DOMAIN turn : \A r \in turn[n] :
                /\ r.verb = "pull"  => Kind(r.on) \in Feeds[r.how]
                /\ r.verb = "latch" => Kind(r.on) \in Takes[r.how]

\* No two requests of one tick contend: a port carries one value, and a
\* register takes one (a second flipBit would replace the first,
\* FlipRegister.cpp:43), the requests left for the next fetch's tick
\* (microcontroller.cpp:192) included.
NoContention ==
  Runs => LET turn == Turn
          IN  \A n \in DOMAIN turn : \A r, q \in turn[n] : r # q =>
                /\ r.verb = "pull" /\ q.verb = "pull"           => r.how # q.how
                /\ r.verb = "perform"                           => q.verb # "perform"
                /\ r.verb \in Mutators /\ q.verb \in Mutators => r.on # q.on

\* A turn's ticks, one after the other, do what FabComp's step does at once:
\* no control point reads what it has already overwritten, and the latches that
\* microcontroller.cpp:192, 435 and 442 leave for the next tick come in time.
\* (Registers of the microstack above the pointer are never read again.)
TicksImplementSteps ==
  [][ Runs /\ status' = "run" =>
        LET done == AfterTurn
        IN  /\ \A b \in DOMAIN Held \ {"ustack"} : done[b] = Held[b]'
            /\ \A n \in 0..(usp' - 1) : done.ustack[n] = ustack'[n] ]_machine
=============================================================================
