----------------------------- MODULE WiringProofs -----------------------------
(***************************************************************************)
(* The clock ticks of a turn make no requests that contend, and none over  *)
(* a connection that was not made; taken one after the other they do what  *)
(* FabComp's step does at once.                                            *)
(*                                                                         *)
(* The second part follows what is held from tick to tick: Leads(s, h, g)  *)
(* says that ticks s lead from h to g.  First what each kind of tick       *)
(* leaves; then, bank by bank, what the ticks of each control point leave  *)
(* (Yields), all other banks being as before (Lands); then the turns of    *)
(* the sequencer (Sends); and at last the steps, each with its turn.       *)
(***************************************************************************)
EXTENDS MachineProofs, Wiring, WellFoundedInduction

(* No two requests of a tick contend, and each goes over a connection. *)
Apart(t) ==
  \A r, q \in t : r # q =>
    /\ r.verb = "pull" /\ q.verb = "pull"           => r.how # q.how
    /\ r.verb = "perform"                           => q.verb # "perform"
    /\ r.verb \in Mutators /\ q.verb \in Mutators => r.on # q.on
Connected(t) ==
  \A r \in t : /\ r.verb = "pull"  => Kind(r.on) \in Feeds[r.how]
               /\ r.verb = "latch" => Kind(r.on) \in Takes[r.how]

(* What is shown of each tick: the connections rely on the operands being values. *)
Good(t) == Apart(t) /\ (ReadsValues => Connected(t))

(* Ticks that are good, one after the other. *)
GoodTicks(s) == \E S : s \in Seq(S) /\ \A t \in S : Good(t)

-----------------------------------------------------------------------------
(* Sequences of ticks. *)

\* Each of them is good.
LEMMA EachGood ==
  ASSUME NEW s, GoodTicks(s)
  PROVE  \A n \in DOMAIN s : Good(s[n])
BY DEF GoodTicks

\* How a sequence of ticks is shown to be good: by a set that has them.
LEMMA AllGood == ASSUME NEW S, NEW s \in Seq(S), \A t \in S : Good(t) PROVE GoodTicks(s)
  BY Zenon DEF GoodTicks

\* No tick at all, one, two.
LEMMA NoneGood == GoodTicks(<<>>)
<1>1. ASSUME NEW S, S = {} PROVE GoodTicks(<<>>)
  <2>1. <<>> \in Seq(S) /\ \A t \in S : Good(t)
    BY <1>1
  <2> QED BY <2>1, Zenon DEF GoodTicks
<1> QED BY <1>1, Zenon

LEMMA OneGood == ASSUME NEW t, Good(t) PROVE GoodTicks(<<t>>)
<1>1. ASSUME NEW S, S = {t} PROVE GoodTicks(<<t>>)
  <2>1. <<t>> \in Seq(S) /\ \A u \in S : Good(u)
    BY <1>1
  <2> QED BY <2>1, Zenon DEF GoodTicks
<1> QED BY <1>1, Zenon

LEMMA TwoGood == ASSUME NEW t, NEW u, Good(t), Good(u) PROVE GoodTicks(<<t, u>>)
<1>1. ASSUME NEW S, S = {t, u} PROVE GoodTicks(<<t, u>>)
  <2>1. <<t, u>> \in Seq(S) /\ \A v \in S : Good(v)
    BY <1>1
  <2> QED BY <2>1, Zenon DEF GoodTicks
<1> QED BY <1>1, Zenon

\* One sequence after another.
LEMMA ConcatGood ==
  ASSUME NEW s, NEW u, GoodTicks(s), GoodTicks(u)
  PROVE  GoodTicks(s \o u)
<1>1. PICK S : s \in Seq(S) /\ \A t \in S : Good(t)
  BY DEF GoodTicks
<1>2. PICK T : u \in Seq(T) /\ \A t \in T : Good(t)
  BY DEF GoodTicks
<1>3. s \in Seq(S \cup T) /\ u \in Seq(S \cup T)
  BY <1>1, <1>2
<1>4. s \o u \in Seq(S \cup T)
  BY <1>3
<1> QED BY <1>1, <1>2, <1>4 DEF GoodTicks

\* A function on 1..n whose values are good.
LEMMA EveryGood ==
  ASSUME NEW n \in Nat, NEW f, f = [k \in 1..n |-> f[k]], \A k \in 1..n : Good(f[k])
  PROVE  GoodTicks(f)
<1> DEFINE S == {f[k] : k \in 1..n}
<1>1. f \in [1..n -> S]
  OBVIOUS
<1>2. f \in Seq(S)
  BY <1>1, SMTT(30)
<1>3. \A t \in S : Good(t)
  OBVIOUS
<1> QED BY <1>2, <1>3 DEF GoodTicks

-----------------------------------------------------------------------------
(* Ticks. *)

\* Requests.
LEMMA Fields ==
  ASSUME NEW v, NEW s, NEW h
  PROVE  /\ Request(v, s, h).verb = v
         /\ Request(v, s, h).on = s
         /\ Request(v, s, h).how = h
BY DEF Request

\* The same, for the provers that take no record.
LEMMA RequestFields == \A v, s, h : Request(v, s, h).verb = v
BY Fields

\* A value goes over a bus, one comes of the ALU, a register changes by itself.
LEMMA ViaGood ==
  ASSUME NEW bus, NEW from, NEW to,
         ReadsValues => Kind(from) \in Feeds[bus] /\ Kind(to) \in Takes[bus]
  PROVE  Good(Via(bus, from, to))
BY Fields DEF Via, Good, Apart, Connected, Pull, Latch, Mutators

LEMMA ComputeGood ==
  ASSUME NEW f, NEW a, NEW b, NEW to,
         ReadsValues => Kind(a) \in Feeds["OP1"] /\ Kind(b) \in Feeds["OP2"]
                        /\ Kind(to) \in Takes["ALU"]
  PROVE  Good(Compute(f, a, b, to)) /\ Good(Compute1(f, a, to)) /\ Good(Produce(f, to))
BY Fields DEF Compute, Compute1, Produce, Good, Apart, Connected, Pull, Latch, Mutators, Perform

LEMMA ChangeGood ==
  ASSUME NEW s, NEW how
  PROVE  Good({Change(s, how)}) /\ Good({Flip(s, how)})
BY Fields DEF Change, Flip, Good, Apart, Connected

\* Memory is read, is written; a register shifts, has its bits set.
LEMMA LoadsGood ==
  ASSUME NEW from, NEW to,
         ReadsValues => Kind(from) \in Feeds["ABUS"] /\ Kind(to) \in Takes["READ"]
  PROVE  GoodTicks(Load(from, to))
<1>1. Kind(The("mar")) \in Takes["ABUS"]
  BY DEF Kind, The, Takes
<1>2. Good(Via("ABUS", from, The("mar")))
  BY <1>1, ViaGood
<1>3. Good({Latch(to, "READ")})
  BY Fields DEF Good, Apart, Connected, Latch
<1> QED BY <1>2, <1>3, TwoGood DEF Load

LEMMA SavesGood ==
  ASSUME NEW from, NEW at,
         ReadsValues => Kind(at) \in Feeds["ABUS"] /\ Kind(from) \in Feeds["WRITE"]
  PROVE  GoodTicks(Save(from, at))
<1>1. Kind(The("mar")) \in Takes["ABUS"]
  BY DEF Kind, The, Takes
<1>2. Good(Via("ABUS", at, The("mar")))
  BY <1>1, ViaGood
<1>3. Good({Pull("WRITE", from), Store})
  <2>1. Store.verb = "write"
    BY Zenon, RequestFields DEF Store
  <2>2. Apart({Pull("WRITE", from), Store})
    BY <2>1, Fields DEF Apart, Pull, Mutators
  <2>3. ReadsValues => Connected({Pull("WRITE", from), Store})
    BY <2>1, Fields DEF Connected, Pull
  <2> QED BY <2>2, <2>3 DEF Good
<1> QED BY <1>2, <1>3, TwoGood DEF Save

LEMMA ShiftsGood == ASSUME NEW s PROVE GoodTicks(EightShifts(s))
BY ChangeGood, EveryGood DEF EightShifts

LEMMA FlipsGood ==
  ASSUME NEW s, NEW bits \in Seq(Nat)
  PROVE  GoodTicks(ClearAndFlip(s, bits))
<1> DEFINE f == [k \in DOMAIN bits |-> {Flip(s, bits[k])}]
<1>1. GoodTicks(f)
  <2>1. DOMAIN bits = 1..Len(bits) /\ Len(bits) \in Nat
    OBVIOUS
  <2>2. f = [k \in 1..Len(bits) |-> f[k]] /\ \A k \in 1..Len(bits) : Good(f[k])
    BY <2>1, ChangeGood
  <2> HIDE DEF f
  <2> QED BY <2>1, <2>2, EveryGood
<1>2. GoodTicks(<<{Change(s, "clear")}>>)
  BY ChangeGood, OneGood
<1> QED BY <1>1, <1>2, ConcatGood DEF ClearAndFlip

-----------------------------------------------------------------------------
(* Control points. *)

\* The operands that a control point reads are where its ports reach them.
Reached(w) ==
  \A n \in OperandsOf(w) : Kind(OperandAt(n)) \in IF n = 0 THEN {"addr"} ELSE {"reg", "mdr", "val"}

\* When they are values, they are.
LEMMA OperandsReached ==
  ASSUME DataTypeOK, status = "run", ReadsValues
  PROVE  Reached(UInst.ctrl)
<1> SUFFICES ASSUME NEW n \in OperandsOf(UInst.ctrl)
             PROVE  Kind(OperandAt(n)) \in IF n = 0 THEN {"addr"} ELSE {"reg", "mdr", "val"}
  BY DEF Reached
<1>1. \/ n \in {1, 2} /\ cntl[n] \in RegId \cup {17, 18, 19}
      \/ n = 1 /\ cntl[1] = 16
      \/ n = 0 /\ cntl[0] = 20
  BY DEF ReadsValues
<1>2. \A x \in 16..31 : Bit(x, 2) = 1 <=> x \in Addresses
  BY AddressBit
<1>3. cntl[n] \in {16, 17, 18, 19} => ~IsRegister(n) /\ ~IsAddress(n)
  BY <1>2 DEF IsRegister, IsAddress, Addresses
<1>4. cntl[n] = 20 => ~IsRegister(n) /\ IsAddress(n)
  BY <1>2 DEF IsRegister, IsAddress, Addresses
<1>5. cntl[n] \in RegId => IsRegister(n)
  BY DEF IsRegister, RegId
<1>6. \A m : Kind(Gpr(m)) = "reg" /\ Kind(Addr(m)) = "addr" /\ Kind(Val(m)) = "val" /\ Kind(Mdr) = "mdr"
  BY DEF Kind, Gpr, Addr, Val, Mdr, The
<1>7. CASE cntl[n] \in RegId
  <2>1. OperandAt(n) = Gpr(cntl[n]) /\ n # 0
    BY <1>1, <1>5, <1>7 DEF OperandAt, RegId
  <2> QED BY <1>6, <2>1
<1>8. CASE cntl[n] \in {16, 17, 18, 19}
  <2>1. OperandAt(n) \in {Mdr, Val(Slot(n))} /\ n # 0
    BY <1>1, <1>3, <1>8 DEF OperandAt
  <2> QED BY <1>6, <2>1
<1>9. CASE n = 0 /\ cntl[n] = 20
  <2>1. OperandAt(n) = Addr(Slot(n))
    BY <1>4, <1>9 DEF OperandAt
  <2> QED BY <1>6, <1>9, <2>1
<1> QED BY <1>1, <1>7, <1>8, <1>9

\* The storages' kinds.
LEMMA StorageKinds ==
  /\ \A n : Kind(Gpr(n)) = "reg" /\ Kind(Val(n)) = "val" /\ Kind(Addr(n)) = "addr"
            /\ Kind(Cntl(n)) = "cntl"
  /\ Kind(Pc) = "pc" /\ Kind(Ir) = "ir" /\ Kind(Mdr) = "mdr" /\ Kind(Regshift) = "regshift"
  /\ Kind(The("tmp")) = "tmp" /\ Kind(The("utmp")) = "utmp" /\ Kind(The("i")) = "i"
  /\ Kind(The("0xFF")) = "0xFF"
BY DEF Kind, Gpr, Val, Addr, Cntl, Pc, Ir, Mdr, Regshift, The

\* Every control point's ticks.
LEMMA TicksGood ==
  ASSUME NEW w, ReadsValues => Reached(w)
  PROVE  GoodTicks(Ticks(w))
<1> DEFINE op(n) == OperandAt(n)
           v == val[i]
<1>1. /\ GoodTicks(Load(Gpr(14), Addr(0)))
      /\ GoodTicks(Load(Pc, Addr(i))) /\ GoodTicks(Load(Pc, Ir))
      /\ GoodTicks(Load(Addr(i), Mdr)) /\ GoodTicks(Load(Pc, Mdr))
      /\ GoodTicks(Load(Addr(i), Val(i))) /\ GoodTicks(Load(Pc, Val(i)))
  BY StorageKinds, LoadsGood DEF Feeds, Takes
<1>2. \A n : GoodTicks(Save(Mdr, Addr(n))) /\ GoodTicks(Save(Gpr(15), Gpr(n)))
  BY StorageKinds, SavesGood DEF Feeds
<1>3. GoodTicks(EightShifts(Mdr)) /\ GoodTicks(EightShifts(Regshift))
  BY ShiftsGood
<1>4. \A n : /\ GoodTicks(ClearAndFlip(Cntl(n), <<4>>))
             /\ GoodTicks(ClearAndFlip(Cntl(n), <<4, 2>>))
             /\ GoodTicks(ClearAndFlip(Cntl(n), <<4, 0>>))
             /\ GoodTicks(ClearAndFlip(Cntl(n), <<4, 1, 0>>))
  <2>1. <<4>> \in Seq(Nat) /\ <<4, 2>> \in Seq(Nat) /\ <<4, 0>> \in Seq(Nat) /\ <<4, 1, 0>> \in Seq(Nat)
    OBVIOUS
  <2> QED BY <2>1, FlipsGood, Zenon
<1>5. \A s, how : GoodTicks(<<{Change(s, how)}>>) /\ GoodTicks(<<{Flip(s, how)}>>)
  BY ChangeGood, OneGood
<1>6. \A f, a, b, to :
        /\ Kind(a) \in {"mdr", "tmp", "reg", "val", "addr"}
        /\ Kind(b) \in {"0xFF", "pc", "mdr", "reg", "val"}
        /\ Kind(to) \in {"mdr", "reg", "addr"}
        => /\ GoodTicks(<<Compute(f, a, b, to)>>)
           /\ GoodTicks(<<Compute1(f, a, to)>>)
           /\ GoodTicks(<<Produce(f, to)>>)
  BY ComputeGood, OneGood DEF Feeds, Takes
<1>7. /\ \A f : GoodTicks(<<Produce(f, Mdr)>>)
      /\ \A f, n : GoodTicks(<<Compute1(f, Gpr(n), Addr(i))>>)
      /\ \A f : GoodTicks(<<Compute1(f, Mdr, Addr(i))>>)
      /\ \A f : GoodTicks(<<Compute(f, Addr(i), Mdr, Addr(i))>>)
      /\ \A f : GoodTicks(<<Compute(f, Addr(i), Pc, Addr(i))>>)
      /\ \A f, n : GoodTicks(<<Compute(f, Addr(i), Gpr(n), Addr(i))>>)
      /\ \A f, n : GoodTicks(<<Compute(f, Gpr(n), Mdr, Addr(i))>>)
      /\ \A f, n : GoodTicks(<<Compute(f, Gpr(n), Mdr, Mdr)>>)
      /\ \A f : GoodTicks(<<Compute(f, The("tmp"), The("0xFF"), Mdr)>>)
      /\ \A f, g, n : GoodTicks(<<Produce(g, Mdr), Compute(f, Gpr(n), Mdr, Gpr(n))>>)
  <2> DEFINE A(s) == Kind(s) \in {"mdr", "tmp", "reg", "val", "addr"}
             B(s) == Kind(s) \in {"0xFF", "pc", "mdr", "reg", "val"}
             C(s) == Kind(s) \in {"mdr", "reg", "addr"}
  <2>1. A(Mdr) /\ A(The("tmp")) /\ \A n : A(Gpr(n)) /\ A(Addr(n))
    BY StorageKinds
  <2>2. B(Mdr) /\ B(Pc) /\ B(The("0xFF")) /\ \A n : B(Gpr(n))
    BY StorageKinds
  <2>3. C(Mdr) /\ \A n : C(Gpr(n)) /\ C(Addr(n))
    BY StorageKinds
  <2>4. \A f, a, b, to : A(a) /\ B(b) /\ C(to)
        => /\ GoodTicks(<<Compute(f, a, b, to)>>)
           /\ GoodTicks(<<Compute1(f, a, to)>>)
           /\ GoodTicks(<<Produce(f, to)>>)
    BY <1>6, Zenon
  <2>5. \A f, g, n : GoodTicks(<<Produce(g, Mdr), Compute(f, Gpr(n), Mdr, Gpr(n))>>)
    <3>1. Kind(Mdr) = "mdr" /\ \A n : Kind(Gpr(n)) = "reg"
      BY StorageKinds
    <3>2. \A f, g, s : Kind(s) = "reg" => Good(Produce(g, Mdr)) /\ Good(Compute(f, s, Mdr, s))
      BY <3>1, ComputeGood DEF Feeds, Takes
    <3> QED BY <3>1, <3>2, TwoGood, Zenon
  <2> HIDE DEF A, B, C
  <2> QED BY <2>1, <2>2, <2>3, <2>4, <2>5, Zenon
<1>8. GoodTicks(<<{Perform("rop2"), Latch(Gpr(15), "ALU"), Pull("OP2", Pc)}>>)
  <2>1. Good({Perform("rop2"), Latch(Gpr(15), "ALU"), Pull("OP2", Pc)})
    BY Fields, StorageKinds DEF Good, Apart, Connected, Pull, Latch, Mutators, Perform, Feeds, Takes
  <2> QED BY <2>1, OneGood
<1>9. \A bus, from, to : Kind(from) \in Feeds[bus] /\ Kind(to) \in Takes[bus]
                         => GoodTicks(<<Via(bus, from, to)>>)
  BY ViaGood, OneGood
<1>10. /\ \A n : GoodTicks(<<Via("DBUS", Mdr, Gpr(n))>>) /\ GoodTicks(<<Via("DBUS", Mdr, Val(n))>>)
       /\ GoodTicks(<<Via("DBUS", Mdr, The("tmp"))>>)
       /\ GoodTicks(<<Via("DBUS", Mdr, Regshift)>>)
  BY <1>9, StorageKinds DEF Feeds, Takes
<1>11. /\ \A n, m : GoodTicks(<<Via("pDBUS", Cntl(n), Cntl(m))>>)
       /\ \A n : GoodTicks(<<Via("pDBUS", The("utmp"), Cntl(n))>>)
       /\ \A n : GoodTicks(<<Via("pDBUS", Cntl(n), The("utmp"))>>)
       /\ \A n : GoodTicks(<<Via("pDBUS", The("i"), Cntl(n))>>)
       /\ \A n : GoodTicks(<<Via("pBUS", Regshift, Cntl(n))>>)
  BY <1>9, StorageKinds DEF Feeds, Takes
<1>12. \A n : /\ GoodTicks(<<{Change(Cntl(n), "clear")}>> \o <<Via("pBUS", Regshift, Cntl(n))>>)
              /\ GoodTicks(<<Via("pDBUS", The("i"), Cntl(n))>> \o <<{Flip(Cntl(n), 4)}>>)
  BY <1>5, <1>11, ConcatGood, Zenon
<1>13. \A n : GoodTicks(<<Via("pDBUS", The("i"), Cntl(n))>>
                          \o <<{Flip(Cntl(n), 4)}, {Flip(Cntl(n), 2)}>>)
  BY <1>11, ChangeGood, TwoGood, ConcatGood, Zenon
<1>14. /\ w \in OneOperandWords \cup TwoOperandWords /\ ReadsValues
            => Kind(op(1)) \in {"reg", "mdr", "val"}
       /\ w \in TwoOperandWords /\ ReadsValues => Kind(op(2)) \in {"reg", "mdr", "val"}
       /\ w = "PC <- op0" /\ ReadsValues => Kind(op(0)) = "addr"
  <2>1. /\ w \in OneOperandWords \cup TwoOperandWords => 1 \in OperandsOf(w)
        /\ w \in TwoOperandWords => 2 \in OperandsOf(w)
        /\ w = "PC <- op0" => 0 \in OperandsOf(w)
    <3>1. 0 \in OpndId /\ 1 \in OpndId /\ 2 \in OpndId
      BY DEF OpndId
    <3> QED BY <3>1, Zenon DEF OperandsOf
  <2>2. ReadsValues => \A n \in OperandsOf(w) :
          Kind(op(n)) \in IF n = 0 THEN {"addr"} ELSE {"reg", "mdr", "val"}
    BY Zenon DEF Reached
  <2> HIDE DEF op
  <2>3. 1 # 0 /\ 2 # 0
    OBVIOUS
  <2> QED BY <2>1, <2>2, <2>3, Zenon
<1>15. \A f, a, b : (ReadsValues => Kind(a) \in {"reg", "mdr", "val"} /\ Kind(b) \in {"reg", "mdr", "val"})
         => /\ GoodTicks(<<Compute(f, a, b, Mdr)>>)
            /\ GoodTicks(<<Compute1(f, a, Mdr)>>)
            /\ \A g : GoodTicks(<<Produce(g, Mdr), Compute(f, Mdr, b, Mdr)>>)
  BY StorageKinds, ComputeGood, OneGood, TwoGood DEF Feeds, Takes
<1>16. w \in OneOperandWords => \A f : /\ GoodTicks(<<Compute1(f, op(1), Mdr)>>)
                                       /\ GoodTicks(<<Produce("zero", Mdr), Compute(f, Mdr, op(1), Mdr)>>)
  BY <1>14, <1>15
<1>17. w \in TwoOperandWords => \A f : /\ GoodTicks(<<Compute(f, op(1), op(2), Mdr)>>)
                                       /\ GoodTicks(<<Compute(f, op(2), op(1), Mdr)>>)
  BY <1>14, <1>15
<1>18. w = "PC <- op0" => GoodTicks(<<Via("ABUS", op(0), Pc)>>)
  BY <1>14, StorageKinds, ViaGood, OneGood DEF Feeds, Takes
<1> QED BY <1>1, <1>2, <1>3, <1>4, <1>5, <1>7, <1>8, <1>10, <1>11, <1>12, <1>13, <1>16, <1>17, <1>18,
   NoneGood, ZenonT(120) DEF Ticks, OneOperandWords, TwoOperandWords

-----------------------------------------------------------------------------
(* The sequencer. *)

\* The address of the next microinstruction goes out with requests that leave
\* its bus and register alone.
LEMMA WithUAddress ==
  ASSUME NEW t, Good(t),
         \A r \in t : /\ r.verb = "pull" => r.how # "uABUS"
                      /\ r.verb \in Mutators => r.on # The("umar")
  PROVE  Good(t \cup UAddress)
<1>1. UAddress = {Pull("uABUS", Upc), Latch(The("umar"), "uABUS")}
  BY Zenon DEF UAddress, Via
<1>2. Kind(Upc) \in Feeds["uABUS"] /\ Kind(The("umar")) \in Takes["uABUS"]
  BY DEF Kind, Upc, The, Feeds, Takes
<1>3. Apart(t \cup UAddress)
  BY <1>1, Fields DEF Good, Apart, Pull, Latch, Mutators
<1>4. ReadsValues => Connected(t \cup UAddress)
  BY <1>1, <1>2, Fields DEF Good, Connected, Pull, Latch
<1> QED BY <1>3, <1>4 DEF Good

\* The fetch, a jump, a procedure call.
LEMMA FetchGood == GoodTicks(UFetch)
<1>1. Kind(Upc) = "upc" /\ Kind(The("umar")) = "umar" /\ Kind(The("uir")) = "uir" /\ Upc # The("uir")
  BY DEF Kind, Upc, The
<1>2. Good(UAddress)
  BY <1>1, ViaGood DEF UAddress, Feeds, Takes
<1>3. Good({Latch(The("uir"), "uREAD"), Change(Upc, "incr")})
  BY <1>1, Fields DEF Good, Apart, Connected, Latch, Change, Mutators, Takes
<1> QED BY <1>2, <1>3, TwoGood DEF UFetch

LEMMA JumpGood == GoodTicks(<<Lookup(The("uir")), {Latch(Upc, "jREAD")}>>)
<1>1. Kind(Upc) = "upc" /\ Kind(The("uir")) = "uir" /\ Kind(The("ujmar")) = "ujmar"
  BY DEF Kind, Upc, The
<1>2. Good(Lookup(The("uir")))
  BY <1>1, ViaGood DEF Lookup, Feeds, Takes
<1>3. Good({Latch(Upc, "jREAD")})
  BY <1>1, Fields DEF Good, Apart, Connected, Latch, Takes
<1> QED BY <1>2, <1>3, TwoGood

LEMMA CallGood ==
  ASSUME NEW index \in {The("uir"), Regshift}
  PROVE  GoodTicks(CallTicks(index))
<1> DEFINE top == <<"ustack", usp>>
<1>1. /\ Kind(Upc) = "upc" /\ Kind(index) \in {"uir", "regshift"} /\ Kind(The("ujmar")) = "ujmar"
      /\ Kind(top) = "ustack" /\ top # The("ujmar") /\ The("usp") # Upc
  BY DEF Kind, Upc, Regshift, The
<1>2. Via("uABUS", Upc, top) \cup Lookup(index) =
        {Pull("uABUS", Upc), Latch(top, "uABUS"), Pull("uJBUS", index), Latch(The("ujmar"), "uJBUS")}
  BY DEF Via, Lookup
<1> HIDE DEF top
<1>3. Good(Via("uABUS", Upc, top) \cup Lookup(index))
  <2>1. Apart(Via("uABUS", Upc, top) \cup Lookup(index))
    BY <1>1, <1>2, Fields DEF Apart, Pull, Latch, Mutators
  <2>2. Connected(Via("uABUS", Upc, top) \cup Lookup(index))
    BY <1>1, <1>2, Fields DEF Connected, Pull, Latch, Feeds, Takes
  <2> QED BY <2>1, <2>2 DEF Good
<1>4. Good({Change(The("usp"), "incr"), Latch(Upc, "jREAD")})
  BY <1>1, Fields DEF Good, Apart, Connected, Latch, Change, Mutators, Takes
<1> QED BY <1>3, <1>4, TwoGood DEF CallTicks, top

\* What follows the fetch of an instruction of the sequencer.
LEMMA SequencerGood == GoodTicks(SequencerTicks)
<1>1. Kind(Upc) = "upc" /\ Kind(<<"ustack", CU!UspBelow>>) = "ustack" /\ Kind(Ir) = "ir"
      /\ Kind(Regshift) = "regshift"
  BY DEF Kind, Upc, Ir, Regshift, The
<1>2. GoodTicks(<<{Change(Upc, "clear")}>>)
  BY ChangeGood, OneGood
<1>3. GoodTicks(<<{Change(The("usp"), "decr")}, Via("uABUS", <<"ustack", CU!UspBelow>>, Upc)>>)
  BY <1>1, ChangeGood, ViaGood, TwoGood DEF Feeds, Takes
<1>4. GoodTicks(<<Via("DBUS", Ir, Regshift)>>)
  BY <1>1, ViaGood, OneGood DEF Feeds, Takes
<1>5. GoodTicks(<<Via("DBUS", Ir, Regshift)>> \o EightShifts(Regshift) \o CallTicks(Regshift))
  BY <1>4, ShiftsGood, CallGood, ConcatGood
<1>6. GoodTicks(CallTicks(The("uir")))
  BY CallGood
<1> QED BY <1>2, <1>3, <1>5, <1>6, JumpGood, NoneGood, Zenon DEF SequencerTicks

\* What a control point leaves for the tick of the fetch.
LEMMA ControlGood ==
  ASSUME NEW w, ReadsValues => Reached(w)
  PROVE  GoodTicks(ControlTicks(w))
<1> DEFINE After(s) == [s EXCEPT ![Len(s)] = @ \cup UAddress]
<1>1. GoodTicks(Ticks(w))
  BY TicksGood
<1>2. CASE w = "Addr[0] <- Mem[Reg[14]]"
  <2> DEFINE t == Via("ABUS", Gpr(14), The("mar"))
             u == {Latch(Addr(0), "READ")}
  <2>1. Ticks(w) = <<t, u>>
    BY <1>2, ZenonT(60) DEF Ticks, Load
  <2>2. Good(t) /\ Good(u)
    <3> HIDE DEF t, u
    <3>1. DOMAIN <<t, u>> = {1, 2} /\ <<t, u>>[1] = t /\ <<t, u>>[2] = u
      OBVIOUS
    <3> QED BY <1>1, <2>1, <3>1, EachGood
  <2>3. Good(u \cup UAddress)
    <3>1. Addr(0) # The("umar")
      BY DEF Addr, The
    <3> QED BY <2>2, <3>1, Fields, WithUAddress DEF Latch
  <2>4. After(<<t, u>>) = <<t, u \cup UAddress>>
    OBVIOUS
  <2>5. ControlTicks(w) = <<t, u \cup UAddress>>
    BY <1>2, <2>1, <2>4, Zenon DEF ControlTicks, Unfinished
  <2> QED BY <2>2, <2>3, <2>5, TwoGood
<1>3. ASSUME NEW f, NEW a, NEW b, w \in Unfinished, Ticks(w) = <<Compute(f, a, b, Mdr)>>
      PROVE  GoodTicks(ControlTicks(w))
  <2> DEFINE t == Compute(f, a, b, Mdr)
  <2>1. t = {Perform(f), Latch(Mdr, "ALU"), Pull("OP1", a), Pull("OP2", b)} /\ Mdr # The("umar")
    BY DEF Compute, Mdr, The
  <2> HIDE DEF t
  <2>2. Good(t)
    <3>1. DOMAIN <<t>> = {1} /\ <<t>>[1] = t
      OBVIOUS
    <3> QED BY <1>1, <1>3, <3>1, EachGood DEF t
  <2>3. Good(t \cup UAddress)
    BY <2>1, <2>2, Fields, WithUAddress DEF Perform, Latch, Pull, Mutators
  <2>4. After(<<t>>) = <<t \cup UAddress>>
    OBVIOUS
  <2>5. ControlTicks(w) = <<t \cup UAddress>>
    BY <1>3, <2>4, Zenon DEF ControlTicks, t
  <2> QED BY <2>3, <2>5, OneGood
<1>4. CASE w = "MDR <- op1 | op2"
  <2>1. Ticks(w) = <<Compute("or", OperandAt(1), OperandAt(2), Mdr)>>
    BY <1>4, ZenonT(60) DEF Ticks
  <2>2. w \in Unfinished
    BY <1>4, Zenon DEF Unfinished
  <2> QED BY <1>3, <2>1, <2>2
<1>5. CASE w = "MDR <- op2 - op1"
  <2>1. Ticks(w) = <<Compute("sub", OperandAt(2), OperandAt(1), Mdr)>>
    BY <1>5, ZenonT(60) DEF Ticks
  <2>2. w \in Unfinished
    BY <1>5, Zenon DEF Unfinished
  <2> QED BY <1>3, <2>1, <2>2
<1>6. CASE w \notin Unfinished
  BY <1>1, <1>6, Zenon DEF ControlTicks
<1> QED BY <1>2, <1>4, <1>5, <1>6, Zenon DEF Unfinished

\* Every turn of the machine.
LEMMA TurnGood == ASSUME DataTypeOK, status = "run" PROVE GoodTicks(Turn)
<1>1. GoodTicks(ControlTicks(UInst.ctrl))
  BY OperandsReached, ControlGood
<1> QED BY <1>1, FetchGood, SequencerGood, NoneGood, ConcatGood, Zenon DEF Turn

\* So the ticks are as the properties say.
LEMMA TurnConnected ==
  DataTypeOK => NoContention /\ (ReadsValues => Wired)
<1> SUFFICES ASSUME DataTypeOK, Runs PROVE NoContention /\ (ReadsValues => Wired)
  BY Zenon DEF NoContention, Wired
<1>1. \A n \in DOMAIN Turn : Good(Turn[n])
  BY TurnGood, EachGood DEF Runs
<1>2. \A n \in DOMAIN Turn : Apart(Turn[n]) /\ (ReadsValues => Connected(Turn[n]))
  BY <1>1, Zenon DEF Good
<1> QED BY <1>2, Zenon DEF NoContention, Wired, Apart, Connected

-----------------------------------------------------------------------------
\* Whatever the microprogram and the program, no two requests of one clock tick
\* contend for a port, the ALU or a register: no flipBit replaces another.
THEOREM NeverContend == Spec => []NoContention
BY DataAlwaysFits, TurnConnected, PTL

\* With certified microcode every request goes over a connection that
\* wire_data_path or wire_control_path made.
THEOREM AlwaysWired ==
  ASSUME Certificate
  PROVE  Spec /\ FetchesKnown => []Wired
BY DataAlwaysFits, TurnConnected, MachineReadsValues, PTL

-----------------------------------------------------------------------------
(* Ticks, one after the other. *)

(* Induction, for a set of numbers (that of the library takes a predicate). *)
LEMMA NatSetInduction ==
  ASSUME NEW S, 0 \in S, \A n \in Nat : n \in S => n + 1 \in S
  PROVE  Nat \subseteq S
<1> DEFINE T == Nat \ S
           R == {ss \in Nat \X Nat : ss[1] < ss[2]}
<1> SUFFICES ASSUME T # {} PROVE FALSE
  OBVIOUS
<1>1. IsWellFoundedOn(R, Nat)
  BY NatLessThanWellFounded, Zenon DEF OpToRel
<1>2. PICK x \in T : \A y \in T : ~(<<y, x>> \in R)
  <2>1. T \subseteq Nat
    OBVIOUS
  <2> HIDE DEF T, R
  <2> QED BY <1>1, <2>1, WFMin
<1>3. x \in Nat \ {0} /\ x - 1 \in Nat /\ x - 1 < x
  OBVIOUS
<1>4. x - 1 \in T
  BY <1>3
<1>5. <<x - 1, x>> \in R
  BY <1>3
<1> QED BY <1>2, <1>4, <1>5

(* f holds what is held before the ticks s, and after each. *)
Traces(f, s, h) ==
  f = [n \in 0..Len(s) |-> IF n = 0 THEN h ELSE Tick(s[n], f[n - 1])]

(* Ticks s lead from h to g. *)
Leads(s, h, g) == /\ \E S : s \in Seq(S)
                  /\ \E f : Traces(f, s, h) /\ f[Len(s)] = g

(* A trace by its elements. *)
LEMMA TraceIs ==
  ASSUME NEW f, NEW s, NEW h, Len(s) \in Nat
  PROVE  Traces(f, s, h) <=> /\ DOMAIN f = 0..Len(s) /\ f = [n \in DOMAIN f |-> f[n]]
                             /\ f[0] = h
                             /\ \A n \in 1..Len(s) : f[n] = Tick(s[n], f[n - 1])
<1>1. ASSUME Traces(f, s, h)
      PROVE  /\ DOMAIN f = 0..Len(s) /\ f = [n \in DOMAIN f |-> f[n]]
             /\ f[0] = h
             /\ \A n \in 1..Len(s) : f[n] = Tick(s[n], f[n - 1])
  BY <1>1 DEF Traces
<1>2. ASSUME DOMAIN f = 0..Len(s), f = [n \in DOMAIN f |-> f[n]], f[0] = h,
             \A n \in 1..Len(s) : f[n] = Tick(s[n], f[n - 1])
      PROVE  Traces(f, s, h)
  BY <1>2 DEF Traces
<1> QED BY <1>1, <1>2

(* Ticks have one trace, *)
LEMMA TraceUnique ==
  ASSUME NEW f, NEW g, NEW s, NEW h, Len(s) \in Nat, Traces(f, s, h), Traces(g, s, h)
  PROVE  f = g
<1> DEFINE S == {n \in Nat : n \in 0..Len(s) => f[n] = g[n]}
<1>1. 0 \in S
  BY TraceIs
<1>2. ASSUME NEW n \in Nat, n \in S PROVE n + 1 \in S
  BY <1>2, TraceIs
<1>3. Nat \subseteq S
  <2> HIDE DEF S
  <2> QED BY <1>1, <1>2, NatSetInduction
<1> QED BY <1>3, TraceIs

(* so that the ticks of a turn lead to AfterTurn and nowhere else. *)
LEMMA AfterTurnIs ==
  ASSUME NEW g, Leads(Turn, AtFirst, g)
  PROVE  AfterTurn = g
<1> DEFINE F == CHOOSE f : Traces(f, Turn, AtFirst)
<1>1. PICK f : Traces(f, Turn, AtFirst) /\ f[Len(Turn)] = g
  BY Zenon DEF Leads
<1>n. Len(Turn) \in Nat
  <2>1. PICK S : Turn \in Seq(S)
    BY Zenon DEF Leads
  <2> QED BY <2>1
<1>2. Traces(F, Turn, AtFirst)
  BY <1>1, Zenon
<1>3. F = f
  <2> HIDE DEF F
  <2> QED BY <1>1, <1>2, <1>n, TraceUnique
<1>4. AfterTurn = F[Len(Turn)]
  BY Zenon DEF AfterTurn, Traces
<1> QED BY <1>1, <1>3, <1>4, Zenon

(* No tick changes nothing, one tick does what it does, and ticks chain. *)
LEMMA LeadsNone == ASSUME NEW h PROVE Leads(<<>>, h, h)
<1> DEFINE f == [n \in 0..0 |-> h]
<1>1. <<>> \in Seq({}) /\ Len(<<>>) = 0
  OBVIOUS
<1>2. Traces(f, <<>>, h)
  BY <1>1, TraceIs
<1>3. f[Len(<<>>)] = h
  BY <1>1
<1> HIDE DEF f
<1> QED BY <1>1, <1>2, <1>3, Zenon DEF Leads

(* One tick leads to what it leaves. *)
LEMMA LeadsOne == ASSUME NEW t, NEW h PROVE Leads(<<t>>, h, Tick(t, h))
<1> DEFINE f == [n \in 0..1 |-> IF n = 0 THEN h ELSE Tick(t, h)]
<1>1. <<t>> \in Seq({t}) /\ Len(<<t>>) = 1 /\ <<t>>[1] = t
  OBVIOUS
<1>2. Traces(f, <<t>>, h)
  <2>1. DOMAIN f = 0..1 /\ f[0] = h /\ f[1] = Tick(t, h) /\ f = [n \in DOMAIN f |-> f[n]]
    OBVIOUS
  <2> HIDE DEF f
  <2>2. \A n \in 1..1 : f[n] = Tick(<<t>>[n], f[n - 1])
    BY <1>1, <2>1
  <2>3. Len(<<t>>) \in Nat
    BY <1>1
  <2> QED BY <1>1, <2>1, <2>2, <2>3, TraceIs
<1>3. f[Len(<<t>>)] = Tick(t, h)
  BY <1>1
<1> HIDE DEF f
<1> QED BY <1>1, <1>2, <1>3, Zenon DEF Leads

(* Ticks, and then others. *)
LEMMA LeadsConcat ==
  ASSUME NEW s, NEW u, NEW h, NEW g, NEW k, Leads(s, h, g), Leads(u, g, k)
  PROVE  Leads(s \o u, h, k)
<1>1. PICK S : s \in Seq(S)
  BY Zenon DEF Leads
<1>2. PICK T : u \in Seq(T)
  BY Zenon DEF Leads
<1>3. PICK a : Traces(a, s, h) /\ a[Len(s)] = g
  BY Zenon DEF Leads
<1>4. PICK b : Traces(b, u, g) /\ b[Len(u)] = k
  BY Zenon DEF Leads
<1> DEFINE f == [n \in 0..(Len(s) + Len(u)) |-> IF n <= Len(s) THEN a[n] ELSE b[n - Len(s)]]
<1>5. s \in Seq(S \cup T) /\ u \in Seq(S \cup T)
  BY <1>1, <1>2
<1>6. /\ s \o u \in Seq(S \cup T) /\ Len(s \o u) = Len(s) + Len(u)
      /\ \A n \in 1..Len(s) : (s \o u)[n] = s[n]
      /\ \A n \in (Len(s) + 1)..(Len(s) + Len(u)) : (s \o u)[n] = u[n - Len(s)]
      /\ Len(s) \in Nat /\ Len(u) \in Nat
  BY <1>5
<1>7. Traces(f, s \o u, h)
  <2>1. DOMAIN f = 0..(Len(s) + Len(u)) /\ f = [n \in DOMAIN f |-> f[n]]
    OBVIOUS
  <2>2. f[0] = h
    BY <1>3, <1>6, TraceIs
  <2>3. ASSUME NEW n \in 1..(Len(s) + Len(u)) PROVE f[n] = Tick((s \o u)[n], f[n - 1])
    <3>1. CASE n <= Len(s)
      <4>1. f[n] = a[n] /\ f[n - 1] = a[n - 1] /\ n \in 1..Len(s)
        BY <1>6, <3>1
      <4>2. a[n] = Tick(s[n], a[n - 1])
        BY <1>3, <1>6, <4>1, TraceIs
      <4> QED BY <1>6, <4>1, <4>2
    <3>2. CASE n = Len(s) + 1
      <4>1. f[n] = b[1] /\ f[n - 1] = a[Len(s)] /\ 1 \in 1..Len(u) /\ n - Len(s) = 1
        BY <1>6, <3>2
      <4>2. b[1] = Tick(u[1], b[1 - 1]) /\ b[0] = g
        BY <1>4, <1>6, <4>1, TraceIs
      <4>3. (s \o u)[n] = u[1]
        BY <1>6, <3>2, <4>1
      <4> QED BY <1>3, <4>1, <4>2, <4>3
    <3>3. CASE n > Len(s) + 1
      <4> DEFINE m == n - Len(s)
      <4>1. f[n] = b[m] /\ f[n - 1] = b[m - 1] /\ m \in 1..Len(u)
        BY <1>6, <3>3
      <4>2. b[m] = Tick(u[m], b[m - 1])
        BY <1>4, <1>6, <4>1, TraceIs
      <4>3. (s \o u)[n] = u[m]
        BY <1>6, <3>3
      <4> QED BY <4>1, <4>2, <4>3
    <3> QED BY <1>6, <3>1, <3>2, <3>3
  <2> HIDE DEF f
  <2>4. Len(s \o u) \in Nat
    BY <1>6
  <2> QED BY <1>6, <2>1, <2>2, <2>3, <2>4, TraceIs
<1>8. f[Len(s \o u)] = k
  <2>1. CASE Len(u) = 0
    <3>1. f[Len(s \o u)] = a[Len(s)]
      BY <1>6, <2>1
    <3>2. b[0] = g
      BY <1>4, <1>6, TraceIs
    <3> QED BY <1>3, <1>4, <2>1, <3>1, <3>2
  <2>2. CASE Len(u) # 0
    <3>1. f[Len(s \o u)] = b[Len(u)]
      BY <1>6, <2>2
    <3> QED BY <1>4, <3>1
  <2> QED BY <2>1, <2>2
<1> HIDE DEF f
<1> QED BY <1>6, <1>7, <1>8, Zenon DEF Leads

(* Two ticks, three, four. *)
LEMMA LeadsTwo ==
  ASSUME NEW t, NEW u, NEW h, NEW x, NEW y,
         x = Tick(t, h), y = Tick(u, x)
  PROVE  Leads(<<t, u>>, h, y)
<1> DEFINE f == [n \in 0..2 |-> IF n = 0 THEN h ELSE IF n = 1 THEN x ELSE y]
<1>1. /\ <<t, u>> \in Seq({t, u}) /\ Len(<<t, u>>) = 2
      /\ <<t, u>>[1] = t /\ <<t, u>>[2] = u
  OBVIOUS
<1>2. Traces(f, <<t, u>>, h)
  <2>1. /\ DOMAIN f = 0..2 /\ f = [n \in DOMAIN f |-> f[n]]
        /\ f[0] = h /\ f[1] = x /\ f[2] = y
    OBVIOUS
  <2> HIDE DEF f
  <2>2. ASSUME NEW n \in 1..2 PROVE f[n] = Tick(<<t, u>>[n], f[n - 1])
    <3>1. n = 1 => f[n] = Tick(<<t, u>>[n], f[n - 1])
      BY <1>1, <2>1
    <3>2. n = 2 => f[n] = Tick(<<t, u>>[n], f[n - 1])
      BY <1>1, <2>1
    <3> QED BY <3>1, <3>2
  <2>3. Len(<<t, u>>) \in Nat
    BY <1>1
  <2> QED BY <1>1, <2>1, <2>2, <2>3, TraceIs
<1>3. f[Len(<<t, u>>)] = y
  BY <1>1
<1> HIDE DEF f
<1> QED BY <1>1, <1>2, <1>3, Zenon DEF Leads

(* Three ticks. *)
LEMMA LeadsThree ==
  ASSUME NEW t, NEW u, NEW v, NEW h, NEW x, NEW y, NEW z,
         x = Tick(t, h), y = Tick(u, x), z = Tick(v, y)
  PROVE  Leads(<<t, u, v>>, h, z)
<1> DEFINE f == [n \in 0..3 |-> IF n = 0 THEN h ELSE IF n = 1 THEN x ELSE IF n = 2 THEN y ELSE z]
<1>1. /\ <<t, u, v>> \in Seq({t, u, v}) /\ Len(<<t, u, v>>) = 3
      /\ <<t, u, v>>[1] = t /\ <<t, u, v>>[2] = u /\ <<t, u, v>>[3] = v
  OBVIOUS
<1>2. Traces(f, <<t, u, v>>, h)
  <2>1. /\ DOMAIN f = 0..3 /\ f = [n \in DOMAIN f |-> f[n]]
        /\ f[0] = h /\ f[1] = x /\ f[2] = y /\ f[3] = z
    OBVIOUS
  <2> HIDE DEF f
  <2>2. ASSUME NEW n \in 1..3 PROVE f[n] = Tick(<<t, u, v>>[n], f[n - 1])
    <3>1. n = 1 => f[n] = Tick(<<t, u, v>>[n], f[n - 1])
      BY <1>1, <2>1
    <3>2. n = 2 => f[n] = Tick(<<t, u, v>>[n], f[n - 1])
      BY <1>1, <2>1
    <3>3. n = 3 => f[n] = Tick(<<t, u, v>>[n], f[n - 1])
      BY <1>1, <2>1
    <3> QED BY <3>1, <3>2, <3>3
  <2>3. Len(<<t, u, v>>) \in Nat
    BY <1>1
  <2> QED BY <1>1, <2>1, <2>2, <2>3, TraceIs
<1>3. f[Len(<<t, u, v>>)] = z
  BY <1>1
<1> HIDE DEF f
<1> QED BY <1>1, <1>2, <1>3, Zenon DEF Leads

(* Four ticks. *)
LEMMA LeadsFour ==
  ASSUME NEW t, NEW u, NEW v, NEW w, NEW h, NEW x, NEW y, NEW z, NEW k,
         x = Tick(t, h), y = Tick(u, x), z = Tick(v, y), k = Tick(w, z)
  PROVE  Leads(<<t, u, v, w>>, h, k)
<1> DEFINE f == [n \in 0..4 |-> IF n = 0 THEN h ELSE IF n = 1 THEN x ELSE IF n = 2 THEN y ELSE IF n = 3 THEN z ELSE k]
<1>1. /\ <<t, u, v, w>> \in Seq({t, u, v, w}) /\ Len(<<t, u, v, w>>) = 4
      /\ <<t, u, v, w>>[1] = t /\ <<t, u, v, w>>[2] = u /\ <<t, u, v, w>>[3] = v /\ <<t, u, v, w>>[4] = w
  OBVIOUS
<1>2. Traces(f, <<t, u, v, w>>, h)
  <2>1. /\ DOMAIN f = 0..4 /\ f = [n \in DOMAIN f |-> f[n]]
        /\ f[0] = h /\ f[1] = x /\ f[2] = y /\ f[3] = z /\ f[4] = k
    OBVIOUS
  <2> HIDE DEF f
  <2>2. ASSUME NEW n \in 1..4 PROVE f[n] = Tick(<<t, u, v, w>>[n], f[n - 1])
    <3>1. n = 1 => f[n] = Tick(<<t, u, v, w>>[n], f[n - 1])
      BY <1>1, <2>1
    <3>2. n = 2 => f[n] = Tick(<<t, u, v, w>>[n], f[n - 1])
      BY <1>1, <2>1
    <3>3. n = 3 => f[n] = Tick(<<t, u, v, w>>[n], f[n - 1])
      BY <1>1, <2>1
    <3>4. n = 4 => f[n] = Tick(<<t, u, v, w>>[n], f[n - 1])
      BY <1>1, <2>1
    <3> QED BY <3>1, <3>2, <3>3, <3>4
  <2>3. Len(<<t, u, v, w>>) \in Nat
    BY <1>1
  <2> QED BY <1>1, <2>1, <2>2, <2>3, TraceIs
<1>3. f[Len(<<t, u, v, w>>)] = k
  BY <1>1
<1> HIDE DEF f
<1> QED BY <1>1, <1>2, <1>3, Zenon DEF Leads

(* The same tick eight times. *)
LEMMA LeadsEight ==
  ASSUME NEW t, NEW v, \A n \in 1..8 : v[n] = Tick(t, v[n - 1])
  PROVE  Leads([n \in 1..8 |-> t], v[0], v[8])
<1> DEFINE f == [n \in 0..8 |-> v[n]]
           s == [n \in 1..8 |-> t]
<1>1. s \in Seq({t}) /\ Len(s) = 8 /\ \A n \in 1..8 : s[n] = t
  OBVIOUS
<1>2. DOMAIN f = 0..8 /\ f = [n \in DOMAIN f |-> f[n]] /\ \A n \in 0..8 : f[n] = v[n]
  OBVIOUS
<1>3. \A n \in 1..8 : n - 1 \in 0..8 /\ n \in 0..8
  OBVIOUS
<1> HIDE DEF f, s
<1>4. \A n \in 1..8 : f[n] = Tick(s[n], f[n - 1])
  BY <1>1, <1>2, <1>3
<1>5. Traces(f, s, v[0]) /\ f[Len(s)] = v[8]
  <2>1. Len(s) \in Nat /\ DOMAIN f = 0..Len(s) /\ f[0] = v[0] /\ f[Len(s)] = v[8]
    BY <1>1, <1>2
  <2>2. \A n \in 1..Len(s) : f[n] = Tick(s[n], f[n - 1])
    BY <1>1, <1>4
  <2> QED BY <1>2, <2>1, <2>2, TraceIs
<1>6. Leads(s, v[0], v[8])
  BY <1>1, <1>5, Zenon DEF Leads
<1> QED BY <1>6 DEF s

-----------------------------------------------------------------------------
(* What one tick does. *)

(* What storage s of h holds; h with v stored there. *)
At(h, s)     == h[s[1]][s[2]]
(* Storage s receives v. *)
Put(h, s, v) == [h EXCEPT ![s[1]] = [@ EXCEPT ![s[2]] = v]]

(* Storages are pairs of a name and an index. *)
Storage(s) == s = <<s[1], s[2]>>

(* Tick's local operators: what is on a port, and what a request leaves. *)
PulledOn(t, h, port) == At(h, (CHOOSE r \in t : r.verb = "pull" /\ r.how = port).on)
OnPort(t, h, port) ==
  CASE port \in DOMAIN BusWidth -> PulledOn(t, h, port) % 2^BusWidth[port]
    [] port = "ALU" -> Result((CHOOSE r \in t : r.verb = "perform").how,
                              PulledOn(t, h, "OP1"), PulledOn(t, h, "OP2"))
    [] port = "READ" -> LET a == h.mar[0]
                        IN  IF a \in DOMAIN h.mem THEN h.mem[a] ELSE 0
    [] port = "uREAD" -> CU!Inst(h.umar[0]).jump
    [] port = "jREAD" -> CU!Target(h.ujmar[0])
Left(r, t, h, old) ==
  CASE r.verb = "latch"  -> OnPort(t, h, r.how)
    [] r.verb = "flip"   -> FlipBit(old, r.how)
    [] r.verb = "change" -> ByItself(Kind(r.on), r.how, old)

(* The requests of a tick that change a register. *)
Changes(t) == {r \in t : r.verb \in Mutators}

(* What is left in register n of bank b. *)
Becoming(t, h, b, n) ==
  LET rs == {r \in Changes(t) : r.on = <<b, n>>}
  IN  IF rs = {} THEN h[b][n] ELSE Left(CHOOSE r \in rs : TRUE, t, h, h[b][n])
Bank(t, h, b) == [n \in DOMAIN h[b] |-> Becoming(t, h, b, n)]

(* What a tick that writes no memory leaves, bank by bank. *)
LEMMA TickIs ==
  ASSUME NEW t, NEW h, Store \notin t,
         NEW B, \A b : b \in B <=> \E r \in Changes(t) : r.on[1] = b
  PROVE  Tick(t, h) = [b \in DOMAIN h |-> IF b \in B THEN Bank(t, h, b) ELSE h[b]]
<1> DEFINE banks == {Kind(r.on) : r \in Changes(t)}
<1>1. Tick(t, h) =
           [b \in DOMAIN h |-> IF b \in banks THEN Bank(t, h, b) ELSE h[b]]
  BY Zenon DEF Tick, Changes, Bank, Becoming, Left, OnPort, PulledOn, At
<1>2. banks = B
  BY DEF Kind
<1> HIDE DEF banks
<1> QED BY <1>1, <1>2

(* A tick that changes one register. *)
LEMMA OneChange ==
  ASSUME NEW t, NEW h, NEW r, Storage(r.on), Store \notin t, Changes(t) = {r}
  PROVE  Tick(t, h) = Put(h, r.on, Left(r, t, h, At(h, r.on)))
<1> DEFINE b == r.on[1]
           n == r.on[2]
           L(x) == Left(r, t, h, x)
<1>0. r.on = <<b, n>>
  BY DEF Storage
<1> HIDE DEF b, n
<1> DEFINE banks == {b}
<1>1. \A c : c \in banks <=> \E q \in Changes(t) : q.on[1] = c
  BY <1>0
<1>2. \A k : {q \in Changes(t) : q.on = <<b, k>>} = IF k = n THEN {r} ELSE {}
  BY <1>0
<1>3. (CHOOSE q \in {r} : TRUE) = r
  OBVIOUS
<1>4. Tick(t, h) =
        [c \in DOMAIN h |-> IF c \in banks THEN Bank(t, h, c) ELSE h[c]]
  <2> HIDE DEF banks
  <2> QED BY <1>1, TickIs
<1>5. \A k : Becoming(t, h, b, k) = IF k = n THEN L(h[b][k]) ELSE h[b][k]
  BY <1>2, <1>3 DEF Becoming
<1> HIDE DEF L
<1>b. Bank(t, h, b) = [h[b] EXCEPT ![n] = L(h[b][n])]
  BY <1>5 DEF Bank
<1>6. Tick(t, h) = [h EXCEPT ![b] = [h[b] EXCEPT ![n] = L(h[b][n])]]
  BY <1>4, <1>b
<1>7. Put(h, r.on, L(At(h, r.on))) =
        [h EXCEPT ![b] = [h[b] EXCEPT ![n] = L(h[b][n])]]
  BY <1>0 DEF Put, At
<1>9. Tick(t, h) = Put(h, r.on, L(At(h, r.on)))
  BY <1>6, <1>7, Zenon
<1> QED BY <1>9, Zenon DEF L

(* A tick that changes registers of two banks: neither sees what the other leaves. *)
LEMMA TwoChanges ==
  ASSUME NEW t, NEW h, NEW r, Storage(r.on), NEW p, Storage(p.on), r.on[1] # p.on[1],
         Store \notin t, Changes(t) = {r, p}
  PROVE  Tick(t, h) = Put(Put(h, r.on, Left(r, t, h, At(h, r.on))),
                          p.on, Left(p, t, h, At(h, p.on)))
<1> DEFINE b == r.on[1]
           n == r.on[2]
           c == p.on[1]
           m == p.on[2]
           L(x) == Left(r, t, h, x)
           M(x) == Left(p, t, h, x)
<1>0. r.on = <<b, n>> /\ p.on = <<c, m>> /\ b # c
  BY DEF Storage
<1> HIDE DEF b, n, c, m
<1> DEFINE banks == {b, c}
<1>1. \A d : d \in banks <=> \E q \in Changes(t) : q.on[1] = d
  BY <1>0
<1>2. /\ \A k : {q \in Changes(t) : q.on = <<b, k>>} = IF k = n THEN {r} ELSE {}
      /\ \A k : {q \in Changes(t) : q.on = <<c, k>>} = IF k = m THEN {p} ELSE {}
  BY <1>0
<1>3. (CHOOSE q \in {r} : TRUE) = r /\ (CHOOSE q \in {p} : TRUE) = p
  OBVIOUS
<1>4. Tick(t, h) =
        [d \in DOMAIN h |-> IF d \in banks THEN Bank(t, h, d) ELSE h[d]]
  <2> HIDE DEF banks
  <2> QED BY <1>1, TickIs
<1>5. /\ \A k : Becoming(t, h, b, k) = IF k = n THEN L(h[b][k]) ELSE h[b][k]
      /\ \A k : Becoming(t, h, c, k) = IF k = m THEN M(h[c][k]) ELSE h[c][k]
  BY <1>2, <1>3 DEF Becoming
<1> HIDE DEF L, M
<1>b. /\ Bank(t, h, b) = [h[b] EXCEPT ![n] = L(h[b][n])]
      /\ Bank(t, h, c) = [h[c] EXCEPT ![m] = M(h[c][m])]
  BY <1>5 DEF Bank
<1> DEFINE hb == [h[b] EXCEPT ![n] = L(h[b][n])]
           hc == [h[c] EXCEPT ![m] = M(h[c][m])]
           g  == [h EXCEPT ![b] = hb]
<1>6. Tick(t, h) = [d \in DOMAIN h |-> IF d = b THEN hb ELSE IF d = c THEN hc ELSE h[d]]
  <2> HIDE DEF hb, hc
  <2> QED BY <1>4, <1>b DEF hb, hc
<1>7. Put(Put(h, r.on, L(At(h, r.on))), p.on, M(At(h, p.on)))
        = [g EXCEPT ![c] = [g[c] EXCEPT ![m] = M(h[c][m])]]
  BY <1>0 DEF Put, At
<1>8. c \in DOMAIN h => g[c] = h[c]
  BY <1>0
<1>9. c \in DOMAIN h => [g[c] EXCEPT ![m] = M(h[c][m])] = hc
  BY <1>8
<1>10. [g EXCEPT ![c] = [g[c] EXCEPT ![m] = M(h[c][m])]]
         = [d \in DOMAIN h |-> IF d = b THEN hb ELSE IF d = c THEN hc ELSE h[d]]
  <2> HIDE DEF hb, hc
  <2> QED BY <1>0, <1>8, <1>9
<1>12. Tick(t, h) = Put(Put(h, r.on, L(At(h, r.on))), p.on, M(At(h, p.on)))
  BY <1>6, <1>7, <1>10, Zenon
<1> QED BY <1>12, Zenon DEF L, M

(* The banks of the storages, and their places there. *)
LEMMA StoragesAre ==
  /\ \A name : Storage(The(name)) /\ The(name)[1] = name /\ The(name)[2] = 0
  /\ \A n : /\ Storage(Gpr(n)) /\ Gpr(n)[1] = "reg" /\ Gpr(n)[2] = n
            /\ Storage(Val(n)) /\ Val(n)[1] = "val" /\ Val(n)[2] = n
            /\ Storage(Addr(n)) /\ Addr(n)[1] = "addr" /\ Addr(n)[2] = n
            /\ Storage(Cntl(n)) /\ Cntl(n)[1] = "cntl" /\ Cntl(n)[2] = n
BY DEF Storage, The, Gpr, Val, Addr, Cntl

(* The parts of a request. *)
LEMMA Verbs ==
  /\ \A s, port : Pull(port, s).verb = "pull" /\ Pull(port, s).on = s /\ Pull(port, s).how = port
  /\ \A s, port : Latch(s, port).verb = "latch" /\ Latch(s, port).on = s /\ Latch(s, port).how = port
  /\ \A s, how : Change(s, how).verb = "change" /\ Change(s, how).on = s /\ Change(s, how).how = how
  /\ \A s, bit : Flip(s, bit).verb = "flip" /\ Flip(s, bit).on = s /\ Flip(s, bit).how = bit
  /\ \A op : Perform(op).verb = "perform" /\ Perform(op).how = op
  /\ Store.verb = "write"
<1>1. \A s, port : Pull(port, s).verb = "pull" /\ Pull(port, s).on = s /\ Pull(port, s).how = port
  BY Fields DEF Pull
<1>2. \A s, port : Latch(s, port).verb = "latch" /\ Latch(s, port).on = s /\ Latch(s, port).how = port
  BY Fields DEF Latch
<1>3. \A s, how : Change(s, how).verb = "change" /\ Change(s, how).on = s /\ Change(s, how).how = how
  BY Fields DEF Change
<1>4. \A s, bit : Flip(s, bit).verb = "flip" /\ Flip(s, bit).on = s /\ Flip(s, bit).how = bit
  BY Fields DEF Flip
<1>5. \A op : Perform(op).verb = "perform" /\ Perform(op).how = op
  BY Fields DEF Perform
<1>6. Store.verb = "write"
  BY RequestFields, Zenon DEF Store
<1> QED BY <1>1, <1>2, <1>3, <1>4, <1>5, <1>6

(* What requests leave, what is on a port. *)
LEMMA LeftIs ==
  ASSUME NEW t, NEW h, NEW old, NEW s, NEW how
  PROVE  /\ Left(Latch(s, how), t, h, old) = OnPort(t, h, how)
         /\ Left(Flip(s, how), t, h, old) = FlipBit(old, how)
         /\ Left(Change(s, how), t, h, old) = ByItself(s[1], how, old)
<1>1. ASSUME NEW r
      PROVE  /\ r.verb = "latch"  => Left(r, t, h, old) = OnPort(t, h, r.how)
             /\ r.verb = "flip"   => Left(r, t, h, old) = FlipBit(old, r.how)
             /\ r.verb = "change" => Left(r, t, h, old) = ByItself(r.on[1], r.how, old)
  BY DEF Left, Kind
<1> QED BY <1>1, Verbs

(* What is on each port. *)
LEMMA OnPortIs ==
  ASSUME NEW t, NEW h
  PROVE  /\ \A bus \in DOMAIN BusWidth : OnPort(t, h, bus) = PulledOn(t, h, bus) % 2^BusWidth[bus]
         /\ OnPort(t, h, "ALU") = Result((CHOOSE r \in t : r.verb = "perform").how,
                                         PulledOn(t, h, "OP1"), PulledOn(t, h, "OP2"))
         /\ OnPort(t, h, "READ") = IF h.mar[0] \in DOMAIN h.mem THEN h.mem[h.mar[0]] ELSE 0
         /\ OnPort(t, h, "uREAD") = CU!Inst(h.umar[0]).jump
         /\ OnPort(t, h, "jREAD") = CU!Target(h.ujmar[0])
<1>1. \A bus \in DOMAIN BusWidth : bus \notin {"ALU", "READ", "uREAD", "jREAD"}
  BY DEF BusWidth
<1>2. \A port : port \in {"ALU", "READ", "uREAD", "jREAD"} => port \notin DOMAIN BusWidth
  BY <1>1
<1>3. \A bus \in DOMAIN BusWidth : OnPort(t, h, bus) = PulledOn(t, h, bus) % 2^BusWidth[bus]
  BY <1>1, Zenon DEF OnPort
<1>4. OnPort(t, h, "ALU") = Result((CHOOSE r \in t : r.verb = "perform").how,
                                   PulledOn(t, h, "OP1"), PulledOn(t, h, "OP2"))
  BY <1>2, Zenon DEF OnPort
<1>5. OnPort(t, h, "READ") = IF h.mar[0] \in DOMAIN h.mem THEN h.mem[h.mar[0]] ELSE 0
  BY <1>2, Zenon DEF OnPort
<1>6. OnPort(t, h, "uREAD") = CU!Inst(h.umar[0]).jump
  BY <1>2, Zenon DEF OnPort
<1>7. OnPort(t, h, "jREAD") = CU!Target(h.ujmar[0])
  BY <1>2, Zenon DEF OnPort
<1> QED BY <1>3, <1>4, <1>5, <1>6, <1>7, Zenon

(* What the memories deliver does not depend on the tick. *)
LEMMA PortsAre ==
  /\ \A t, h : OnPort(t, h, "READ") = IF h.mar[0] \in DOMAIN h.mem THEN h.mem[h.mar[0]] ELSE 0
  /\ \A t, h : OnPort(t, h, "uREAD") = CU!Inst(h.umar[0]).jump
  /\ \A t, h : OnPort(t, h, "jREAD") = CU!Target(h.ujmar[0])
<1>1. ASSUME NEW t, NEW h
      PROVE  /\ OnPort(t, h, "READ") = IF h.mar[0] \in DOMAIN h.mem THEN h.mem[h.mar[0]] ELSE 0
             /\ OnPort(t, h, "uREAD") = CU!Inst(h.umar[0]).jump
             /\ OnPort(t, h, "jREAD") = CU!Target(h.ujmar[0])
  BY OnPortIs, Zenon
<1> QED BY <1>1, Zenon

(* The only one that pulls on a port. *)
LEMMA PulledIs ==
  ASSUME NEW t, NEW h, NEW port, NEW s, Pull(port, s) \in t,
         \A r \in t : r.verb = "pull" /\ r.how = port => r = Pull(port, s)
  PROVE  PulledOn(t, h, port) = At(h, s)
<1> DEFINE r == CHOOSE r \in t : r.verb = "pull" /\ r.how = port
<1>1. r = Pull(port, s)
  BY Verbs
<1>2. PulledOn(t, h, port) = At(h, r.on)
  BY Zenon DEF PulledOn
<1> HIDE DEF r
<1> QED BY <1>1, <1>2, Verbs

(* A value goes over a bus. *)
LEMMA ViaTick ==
  ASSUME NEW bus \in DOMAIN BusWidth, NEW from, NEW to, Storage(to), NEW h
  PROVE  Tick(Via(bus, from, to), h) = Put(h, to, At(h, from) % 2^BusWidth[bus])
<1> DEFINE t == Via(bus, from, to)
           r == Latch(to, bus)
<1>1. t = {Pull(bus, from), r}
  BY DEF Via
<1> HIDE DEF t
<1>2. Store \notin t /\ Changes(t) = {r} /\ r.on = to
  BY <1>1, Verbs DEF Changes, Mutators
<1>3. PulledOn(t, h, bus) = At(h, from)
  BY <1>1, Verbs, PulledIs
<1>4. Left(r, t, h, At(h, to)) = At(h, from) % 2^BusWidth[bus]
  <2>1. Left(r, t, h, At(h, to)) = OnPort(t, h, bus)
    BY LeftIs
  <2>2. OnPort(t, h, bus) = PulledOn(t, h, bus) % 2^BusWidth[bus]
    BY OnPortIs
  <2> QED BY <1>3, <2>1, <2>2
<1>5. Tick(t, h) = Put(h, to, Left(r, t, h, At(h, to)))
  <2> HIDE DEF r
  <2> QED BY <1>2, OneChange
<1> QED BY <1>4, <1>5 DEF t

(* The ALU. *)
LEMMA ALUTick ==
  ASSUME NEW t, NEW op, NEW to, Storage(to), NEW h,
         Perform(op) \in t, Latch(to, "ALU") \in t,
         \A r \in t : r.verb = "pull" \/ r = Perform(op) \/ r = Latch(to, "ALU")
  PROVE  Tick(t, h) = Put(h, to, Result(op, PulledOn(t, h, "OP1"), PulledOn(t, h, "OP2")))
<1> DEFINE r == Latch(to, "ALU")
           x == PulledOn(t, h, "OP1")
           y == PulledOn(t, h, "OP2")
<1>1. Store \notin t /\ Changes(t) = {r} /\ r.on = to
  BY Verbs DEF Changes, Mutators
<1>2. (CHOOSE q \in t : q.verb = "perform") = Perform(op)
  BY Verbs
<1>3. OnPort(t, h, "ALU") = Result(op, x, y)
  <2> DEFINE p == CHOOSE q \in t : q.verb = "perform"
  <2>1. OnPort(t, h, "ALU") = Result(p.how, PulledOn(t, h, "OP1"), PulledOn(t, h, "OP2"))
    BY OnPortIs, Zenon
  <2>2. p.how = op
    <3> DEFINE q == Perform(op)
    <3>1. q.how = op
      BY Verbs
    <3> HIDE DEF q
    <3> QED BY <1>2, <3>1, Zenon DEF q
  <2> HIDE DEF p
  <2> QED BY <2>1, <2>2
<1>4. Left(r, t, h, At(h, to)) = Result(op, x, y)
  BY <1>3, LeftIs
<1>5. Tick(t, h) = Put(h, to, Left(r, t, h, At(h, to)))
  <2>1. Storage(r.on)
    BY <1>1
  <2> HIDE DEF r
  <2>2. Tick(t, h) = Put(h, r.on, Left(r, t, h, At(h, r.on)))
    BY <1>1, <2>1, OneChange
  <2> QED BY <1>1, <2>2
<1> QED BY <1>4, <1>5

(* The ALU computes from two operands, *)
LEMMA ComputeTick ==
  ASSUME NEW op, NEW a, NEW b, NEW to, Storage(to), NEW h
  PROVE  Tick(Compute(op, a, b, to), h) = Put(h, to, Result(op, At(h, a), At(h, b)))
<1> DEFINE t == Compute(op, a, b, to)
<1>1. t = {Perform(op), Latch(to, "ALU"), Pull("OP1", a), Pull("OP2", b)}
  BY DEF Compute
<1>2. /\ Perform(op) \in t /\ Latch(to, "ALU") \in t
      /\ \A r \in t : r.verb = "pull" \/ r = Perform(op) \/ r = Latch(to, "ALU")
  BY <1>1, Verbs
<1> HIDE DEF t
<1>3. PulledOn(t, h, "OP1") = At(h, a)
  BY <1>1, Verbs, PulledIs
<1>4. PulledOn(t, h, "OP2") = At(h, b)
  BY <1>1, Verbs, PulledIs
<1>5. Tick(t, h) = Put(h, to, Result(op, At(h, a), At(h, b)))
  BY <1>2, <1>3, <1>4, ALUTick
<1> QED BY <1>5 DEF t

(* What the ALU does. *)
LEMMA ResultIs ==
  ASSUME NEW a, NEW b
  PROVE  /\ Result("zero", a, b) = 0 /\ Result("one", a, b) = 1
         /\ Result("rop1", a, b) = a /\ Result("rop2", a, b) = b
         /\ Result("add", a, b) = Add(a, b) /\ Result("sub", a, b) = Sub(a, b)
         /\ Result("and", a, b) = And(a, b) /\ Result("or", a, b) = Or(a, b)
         /\ Result("xor", a, b) = Xor(a, b) /\ Result("not", a, b) = Not(a)
         /\ Result("lshift", a, b) = ShiftLeft(a, b)
         /\ Result("rshift", a, b) = ShiftRight(a, b)
         /\ Result("rashift", a, b) = ShiftArith(a, b)
BY Zenon DEF Result

(* from one, *)
LEMMA Compute1Tick ==
  ASSUME NEW a, NEW to, Storage(to), NEW h
  PROVE  /\ Tick(Compute1("rop1", a, to), h) = Put(h, to, At(h, a))
         /\ Tick(Compute1("not", a, to), h) = Put(h, to, Not(At(h, a)))
<1>1. ASSUME NEW op
      PROVE  \E y : Tick(Compute1(op, a, to), h) = Put(h, to, Result(op, At(h, a), y))
  <2> DEFINE t == Compute1(op, a, to)
             y == PulledOn(t, h, "OP2")
  <2>1. t = {Perform(op), Latch(to, "ALU"), Pull("OP1", a)}
    BY DEF Compute1
  <2>2. /\ Perform(op) \in t /\ Latch(to, "ALU") \in t
        /\ \A r \in t : r.verb = "pull" \/ r = Perform(op) \/ r = Latch(to, "ALU")
    BY <2>1, Verbs
  <2> HIDE DEF t
  <2>3. PulledOn(t, h, "OP1") = At(h, a)
    BY <2>1, Verbs, PulledIs
  <2>4. Tick(t, h) = Put(h, to, Result(op, At(h, a), y))
    BY <2>2, <2>3, ALUTick
  <2> HIDE DEF y
  <2> QED BY <2>4, Zenon DEF t
<1> QED BY <1>1, ResultIs

(* or from none. *)
LEMMA ProduceTick ==
  ASSUME NEW to, Storage(to), NEW h
  PROVE  /\ Tick(Produce("zero", to), h) = Put(h, to, 0)
         /\ Tick(Produce("one", to), h) = Put(h, to, 1)
<1>1. ASSUME NEW op
      PROVE  \E x, y : Tick(Produce(op, to), h) = Put(h, to, Result(op, x, y))
  <2> DEFINE t == Produce(op, to)
             x == PulledOn(t, h, "OP1")
             y == PulledOn(t, h, "OP2")
  <2>1. /\ Perform(op) \in t /\ Latch(to, "ALU") \in t
        /\ \A r \in t : r.verb = "pull" \/ r = Perform(op) \/ r = Latch(to, "ALU")
    BY DEF Produce
  <2> HIDE DEF t
  <2>4. Tick(t, h) = Put(h, to, Result(op, x, y))
    BY <2>1, ALUTick
  <2> HIDE DEF x, y
  <2> QED BY <2>4, Zenon DEF t
<1> QED BY <1>1, ResultIs

(* The second operand passes through the ALU. *)
LEMMA SecondTick ==
  ASSUME NEW a, NEW to, Storage(to), NEW h
  PROVE  Tick({Perform("rop2"), Latch(to, "ALU"), Pull("OP2", a)}, h) = Put(h, to, At(h, a))
<1> DEFINE t == {Perform("rop2"), Latch(to, "ALU"), Pull("OP2", a)}
           x == PulledOn(t, h, "OP1")
<1>2. /\ Perform("rop2") \in t /\ Latch(to, "ALU") \in t
      /\ \A r \in t : r.verb = "pull" \/ r = Perform("rop2") \/ r = Latch(to, "ALU")
  BY Verbs
<1>3. PulledOn(t, h, "OP2") = At(h, a)
  BY Verbs, PulledIs
<1> HIDE DEF t
<1>4. Tick(t, h) = Put(h, to, Result("rop2", x, At(h, a)))
  BY <1>2, <1>3, ALUTick
<1>5. Tick(t, h) = Put(h, to, At(h, a))
  BY <1>4, ResultIs
<1> QED BY <1>5 DEF t

(* A register changes by itself, latches what memory delivers. *)
LEMMA AloneTick ==
  ASSUME NEW s, Storage(s), NEW how, NEW h
  PROVE  /\ Tick({Change(s, how)}, h) = Put(h, s, ByItself(s[1], how, At(h, s)))
         /\ Tick({Flip(s, how)}, h) = Put(h, s, FlipBit(At(h, s), how))
         /\ Tick({Latch(s, how)}, h) = Put(h, s, OnPort({Latch(s, how)}, h, how))
<1>1. ASSUME NEW r \in {Change(s, how), Flip(s, how), Latch(s, how)}
      PROVE  Tick({r}, h) = Put(h, s, Left(r, {r}, h, At(h, s)))
  <2>1. r.on = s /\ Store \notin {r} /\ Changes({r}) = {r}
    BY Verbs DEF Changes, Mutators
  <2> QED BY <2>1, OneChange
<1> QED BY <1>1, LeftIs

(* What the mutators of a register do to it. *)
LEMMA ByItselfIs ==
  ASSUME NEW b, NEW old
  PROVE  /\ ByItself(b, "clear", old) = 0
         /\ ByItself(b, "incr", old) = (old + 1) % 2^CounterWidth[b]
         /\ ByItself(b, "decr", old) = (old - 1) % 2^CounterWidth[b]
         /\ ByItself(b, "shift", old) = old \div 2
BY Zenon DEF ByItself

(* Putting. *)
LEMMA PutIs ==
  ASSUME NEW h, NEW s, NEW v
  PROVE  /\ DOMAIN Put(h, s, v) = DOMAIN h
         /\ \A b \in DOMAIN h : Put(h, s, v)[b] = IF b = s[1] THEN [h[b] EXCEPT ![s[2]] = v] ELSE h[b]
         /\ \A u : Put(Put(h, s, u), s, v) = Put(h, s, v)
         /\ s[1] \in DOMAIN h /\ s[2] \in DOMAIN h[s[1]] => At(Put(h, s, v), s) = v
<1>1. DOMAIN Put(h, s, v) = DOMAIN h
  BY DEF Put
<1>2. \A b \in DOMAIN h : Put(h, s, v)[b] = IF b = s[1] THEN [h[b] EXCEPT ![s[2]] = v] ELSE h[b]
  BY DEF Put
<1>3. \A u : Put(Put(h, s, u), s, v) = Put(h, s, v)
  BY DEF Put
<1>4. s[1] \in DOMAIN h /\ s[2] \in DOMAIN h[s[1]] => At(Put(h, s, v), s) = v
  BY <1>2 DEF At
<1> QED BY <1>1, <1>2, <1>3, <1>4

(* The other storages keep what they hold. *)
LEMMA ElsewhereIs ==
  ASSUME NEW h, NEW s, NEW v, NEW q, q[1] \in DOMAIN h, s[1] # q[1] \/ s[2] # q[2]
  PROVE  At(Put(h, s, v), q) = At(h, q)
BY DEF At, Put

-----------------------------------------------------------------------------
(* The fetch. *)

(* What lives from turn to turn, and what matters within one only. *)
Banks == { "pc", "ir", "mdr", "tmp", "reg", "val", "addr", "mem", "cntl", "i", "utmp",
           "regshift", "upc", "usp", "ustack" }
Within == {"mar", "umar", "ujmar", "uir", "0xFF"}

(* What the storages hold. *)
LEMMA HeldIs ==
  /\ DOMAIN Held = Banks
  /\ Held["pc"] = One(pc) /\ Held["ir"] = One(256 * opc + modes) /\ Held["mdr"] = One(mdr)
  /\ Held["tmp"] = One(tmp) /\ Held["reg"] = reg /\ Held["val"] = val /\ Held["addr"] = addr
  /\ Held["mem"] = mem /\ Held["cntl"] = cntl /\ Held["i"] = One(i) /\ Held["utmp"] = One(utmp)
  /\ Held["regshift"] = One(regshift) /\ Held["upc"] = One(upc) /\ Held["usp"] = One(usp)
  /\ Held["ustack"] = ustack
BY DEF Held, Banks

(* A register that stands alone is a bank of one. *)
LEMMA OneIs == ASSUME NEW w PROVE /\ DOMAIN One(w) = {0} /\ One(w)[0] = w
                                 /\ \A v : [One(w) EXCEPT ![0] = v] = One(v)
BY DEF One

(* What a turn begins with. *)
LEMMA AtFirstIs ==
  /\ DOMAIN AtFirst = Banks \cup Within
  /\ \A b \in Banks : AtFirst[b] = Held[b]
  /\ AtFirst["mar"] = One(0) /\ AtFirst["umar"] = One(0) /\ AtFirst["ujmar"] = One(0)
  /\ AtFirst["uir"] = One(0) /\ AtFirst["0xFF"] = One(255)
<1>1. DOMAIN Passing = Within /\ \A b \in Within : Passing[b] = One(IF b = "0xFF" THEN 255 ELSE 0)
  BY DEF Passing, Within
<1>2. DOMAIN Held = Banks
  BY HeldIs
<1>3. \A b \in Within : b \notin Banks
  BY DEF Banks, Within
<1>4. /\ DOMAIN AtFirst = Banks \cup Within
      /\ \A b \in Banks : AtFirst[b] = Held[b]
      /\ \A b \in Within : AtFirst[b] = Passing[b]
  BY <1>1, <1>2, <1>3 DEF AtFirst
<1> QED BY <1>1, <1>4 DEF Within

(* The buses and their widths. *)
LEMMA BusNames == DOMAIN BusWidth = {"ABUS", "DBUS", "uABUS", "uJBUS", "pBUS", "pDBUS"}
BY DEF BusWidth

(* The data buses carry a word as it is, *)
LEMMA WordWidths ==
  ASSUME NEW w \in Word
  PROVE  w % 2^BusWidth["ABUS"] = w /\ w % 2^BusWidth["DBUS"] = w
<1>1. BusWidth["ABUS"] = 16 /\ BusWidth["DBUS"] = 16
  BY DEF BusWidth
<1>2. 2^16 = 65536
  OBVIOUS
<1>3. w \in Int /\ 0 <= w /\ w < 65536
  <2>1. w \in Int /\ 0 <= w /\ w <= WORDS - 1
    BY WordIs, WordIsInt
  <2> QED BY <2>1 DEF WORDS
<1>4. w % 65536 = w
  BY <1>3
<1> QED BY <1>1, <1>2, <1>4

(* the micro address bus an address of the microprogram, *)
LEMMA MicroWidths == \A a \in CU!UAddr : a % 2^BusWidth["uABUS"] = a
<1>1. BusWidth["uABUS"] = 12 /\ 2^12 = 4096
  BY DEF BusWidth
<1>2. \A a \in CU!UAddr : a % 4096 = a
  BY DEF CU!UAddr
<1> QED BY <1>1, <1>2

(* the jump bus and the patch bus the low bits, *)
LEMMA SmallWidths ==
  ASSUME NEW w
  PROVE  w % 2^BusWidth["uJBUS"] = w % 128 /\ w % 2^BusWidth["pBUS"] = w % 16
<1>1. BusWidth["uJBUS"] = 7 /\ BusWidth["pBUS"] = 4 /\ 2^7 = 128 /\ 2^4 = 16
  BY DEF BusWidth
<1> QED BY <1>1

(* and the patch data bus a control word. *)
LEMMA ControlWidths ==
  ASSUME NEW c \in 0..31
  PROVE  c % 2^BusWidth["pDBUS"] = c
<1>1. BusWidth["pDBUS"] = 5 /\ 2^5 = 32 /\ c % 32 = c
  BY DEF BusWidth
<1> QED BY <1>1

(* Where the counters wrap. *)
LEMMA CounterWidths ==
  /\ 2^CounterWidth["pc"] = 65536 /\ 2^CounterWidth["i"] = 4
  /\ 2^CounterWidth["upc"] = 4096 /\ 2^CounterWidth["usp"] = 8
<1>1. /\ CounterWidth["pc"] = 16 /\ CounterWidth["i"] = 2
      /\ CounterWidth["upc"] = 12 /\ CounterWidth["usp"] = 3
  BY DEF CounterWidth
<1>2. 2^16 = 65536 /\ 2^12 = 4096 /\ 2^2 = 4 /\ 2^3 = 8
  OBVIOUS
<1> QED BY <1>1, <1>2

(* Putting a value into a register that stands alone, into one of a bank. *)
LEMMA PutThe ==
  ASSUME NEW h, NEW name \in DOMAIN h, NEW w, h[name] = One(w), NEW v
  PROVE  /\ DOMAIN Put(h, The(name), v) = DOMAIN h
         /\ Put(h, The(name), v)[name] = One(v)
         /\ \A b \in DOMAIN h : b # name => Put(h, The(name), v)[b] = h[b]
<1>1. The(name)[1] = name /\ The(name)[2] = 0
  BY StoragesAre
<1>2. [h[name] EXCEPT ![0] = v] = One(v)
  BY OneIs
<1> DEFINE s == The(name)
           g == Put(h, s, v)
<1>3. /\ DOMAIN g = DOMAIN h
      /\ \A b \in DOMAIN h : g[b] = IF b = s[1] THEN [h[b] EXCEPT ![s[2]] = v] ELSE h[b]
  BY PutIs
<1> HIDE DEF g
<1> QED BY <1>1, <1>2, <1>3 DEF g

(* What is held once the microinstruction is fetched. *)
HasFetched(h) ==
  /\ DOMAIN h = Banks \cup Within
  /\ \A b \in Banks \ {"upc"} : h[b] = Held[b]
  /\ h["upc"] = One(CU!NextUpc) /\ h["uir"] = One(UInst.jump) /\ h["0xFF"] = One(255)
  /\ DOMAIN h["mar"] = {0} /\ DOMAIN h["umar"] = {0} /\ DOMAIN h["ujmar"] = {0}

(* The fetch takes two ticks, and leaves that. *)
LEMMA FetchLeads ==
  ASSUME upc \in CU!UAddr
  PROVE  \E h : Leads(UFetch, AtFirst, h) /\ HasFetched(h)
<1> DEFINE h0 == AtFirst
           h1 == Tick(UAddress, h0)
           t  == {Latch(The("uir"), "uREAD"), Change(Upc, "incr")}
           h2 == Tick(t, h1)
<1>1. Leads(UFetch, h0, h2)
  BY LeadsTwo DEF UFetch
<1>2. /\ DOMAIN h0 = Banks \cup Within /\ (\A b \in Banks : h0[b] = Held[b])
      /\ h0["upc"] = One(upc) /\ h0["umar"] = One(0) /\ h0["uir"] = One(0)
      /\ h0["mar"] = One(0) /\ h0["ujmar"] = One(0) /\ h0["0xFF"] = One(255)
  BY AtFirstIs, HeldIs DEF Banks
<1> HIDE DEF h0
<1>3. At(h0, Upc) = upc
  BY <1>2, OneIs, StoragesAre DEF At, Upc
<1>4. h1 = Put(h0, The("umar"), upc)
  <2>1. h1 = Put(h0, The("umar"), upc % 2^BusWidth["uABUS"])
    <3>1. "uABUS" \in DOMAIN BusWidth /\ Storage(The("umar"))
      BY BusNames, StoragesAre
    <3> QED BY <1>3, <3>1, ViaTick DEF UAddress
  <2>2. upc % 2^BusWidth["uABUS"] = upc
    BY MicroWidths, Zenon
  <2> QED BY <2>1, <2>2
<1> HIDE DEF h1
<1>5. /\ DOMAIN h1 = Banks \cup Within /\ h1["umar"] = One(upc)
      /\ \A b \in Banks \cup Within : b # "umar" => h1[b] = h0[b]
  <2>1. "umar" \in DOMAIN h0
    BY <1>2 DEF Within
  <2> QED BY <1>2, <1>4, <2>1, PutThe
<1>6. h2 = Put(Put(h1, The("uir"), UInst.jump), Upc, CU!NextUpc)
  <2> DEFINE r == Latch(The("uir"), "uREAD")
             p == Change(Upc, "incr")
  <2>1. /\ r.on = The("uir") /\ p.on = Upc /\ Storage(r.on) /\ Storage(p.on)
        /\ r.on[1] # p.on[1] /\ Store \notin t /\ Changes(t) = {r, p}
    BY Verbs, StoragesAre DEF Changes, Mutators, Upc
  <2>2. Left(r, t, h1, At(h1, r.on)) = UInst.jump
    <3>1. h1.umar[0] = upc
      BY <1>5, OneIs
    <3>2. Left(r, t, h1, At(h1, r.on)) = CU!Inst(h1.umar[0]).jump
      <4>1. Left(r, t, h1, At(h1, r.on)) = OnPort(t, h1, "uREAD")
        BY LeftIs
      <4>2. OnPort(t, h1, "uREAD") = CU!Inst(h1.umar[0]).jump
        <5> HIDE DEF t
        <5> QED BY PortsAre, Zenon
      <4> QED BY <4>1, <4>2
    <3> QED BY <3>1, <3>2 DEF UInst, CU!UInst
  <2>3. Left(p, t, h1, At(h1, p.on)) = CU!NextUpc
    <3>1. At(h1, Upc) = upc
      BY <1>2, <1>5, OneIs, StoragesAre DEF At, Upc, Banks
    <3>2. Left(p, t, h1, At(h1, p.on)) = ByItself("upc", "incr", upc)
      BY <2>1, <3>1, LeftIs, StoragesAre DEF Upc
    <3>3. ByItself("upc", "incr", upc) = (upc + 1) % 4096
      BY ByItselfIs, CounterWidths
    <3> QED BY <3>2, <3>3 DEF CU!NextUpc, CU!After
  <2> HIDE DEF r, p, t
  <2>4. h2 = Put(Put(h1, r.on, UInst.jump), p.on, CU!NextUpc)
    BY <2>1, <2>2, <2>3, TwoChanges
  <2> QED BY <2>1, <2>4
<1> HIDE DEF h2
<1>7. HasFetched(h2)
  <2>1. The("uir")[1] = "uir" /\ The("uir")[2] = 0 /\ Upc[1] = "upc" /\ Upc[2] = 0
        /\ "uir" \in Banks \cup Within /\ "upc" \in Banks \cup Within
    BY StoragesAre DEF Within, Banks, Upc
  <2> DEFINE k == Put(h1, The("uir"), UInst.jump)
  <2>2. DOMAIN k = Banks \cup Within /\ k["uir"] = One(UInst.jump)
        /\ \A b \in Banks \cup Within : b # "uir" => k[b] = h1[b]
    <3>1. "uir" \in DOMAIN h1 /\ h1["uir"] = One(0)
      BY <1>2, <1>5 DEF Within
    <3> QED BY <1>5, <3>1, PutThe
  <2>3. k["upc"] = One(upc)
    BY <1>2, <1>5, <2>1, <2>2 DEF Banks
  <2> HIDE DEF k
  <2>4. DOMAIN h2 = Banks \cup Within /\ h2["upc"] = One(CU!NextUpc)
        /\ \A b \in Banks \cup Within : b # "upc" => h2[b] = k[b]
    <3>1. "upc" \in DOMAIN k
      BY <2>2 DEF Banks
    <3> QED BY <1>6, <2>2, <2>3, <3>1, PutThe DEF k, Upc
  <2>5. \A b \in Banks \ {"upc"} : h2[b] = Held[b]
    BY <1>2, <1>5, <2>2, <2>4 DEF Banks
  <2>6. h2["uir"] = One(UInst.jump) /\ h2["0xFF"] = One(255)
        /\ DOMAIN h2["mar"] = {0} /\ DOMAIN h2["umar"] = {0} /\ DOMAIN h2["ujmar"] = {0}
    BY <1>2, <1>5, <2>2, <2>4, OneIs DEF Within
  <2> QED BY <2>4, <2>5, <2>6 DEF HasFetched
<1> QED BY <1>1, <1>7 DEF h0

-----------------------------------------------------------------------------
(* What ticks leave, the fetch done. *)

(* Ticks s, from h, leave x in bank b and the other banks alone. *)
Yields(s, h, b, x) ==
  \E g : /\ Leads(s, h, g) /\ DOMAIN g = DOMAIN h
         /\ g[b] = x /\ \A c \in Banks \ {b} : g[c] = h[c]

(* The storages once the microinstruction is fetched. *)
LEMMA AtFetched ==
  ASSUME NEW h, HasFetched(h)
  PROVE  /\ At(h, Pc) = pc /\ At(h, Ir) = 256 * opc + modes /\ At(h, Mdr) = mdr
         /\ At(h, The("tmp")) = tmp /\ At(h, The("i")) = i /\ At(h, The("utmp")) = utmp
         /\ At(h, Regshift) = regshift /\ At(h, The("0xFF")) = 255
         /\ At(h, Upc) = CU!NextUpc /\ At(h, The("usp")) = usp /\ At(h, The("uir")) = UInst.jump
         /\ \A n : /\ At(h, Gpr(n)) = reg[n] /\ At(h, Val(n)) = val[n]
                   /\ At(h, Addr(n)) = addr[n] /\ At(h, Cntl(n)) = cntl[n]
<1>1. /\ h["pc"] = One(pc) /\ h["ir"] = One(256 * opc + modes) /\ h["mdr"] = One(mdr)
      /\ h["tmp"] = One(tmp) /\ h["i"] = One(i) /\ h["utmp"] = One(utmp)
      /\ h["regshift"] = One(regshift) /\ h["0xFF"] = One(255)
      /\ h["upc"] = One(CU!NextUpc) /\ h["usp"] = One(usp) /\ h["uir"] = One(UInst.jump)
      /\ h["reg"] = reg /\ h["val"] = val /\ h["addr"] = addr /\ h["cntl"] = cntl
  <2>1. \A b \in Banks \ {"upc"} : h[b] = Held[b]
    BY DEF HasFetched
  <2>2. /\ "pc" \in Banks \ {"upc"} /\ "ir" \in Banks \ {"upc"} /\ "mdr" \in Banks \ {"upc"}
        /\ "tmp" \in Banks \ {"upc"} /\ "i" \in Banks \ {"upc"} /\ "utmp" \in Banks \ {"upc"}
        /\ "regshift" \in Banks \ {"upc"} /\ "usp" \in Banks \ {"upc"} /\ "reg" \in Banks \ {"upc"}
        /\ "val" \in Banks \ {"upc"} /\ "addr" \in Banks \ {"upc"} /\ "cntl" \in Banks \ {"upc"}
    BY DEF Banks
  <2>3. /\ h["0xFF"] = One(255) /\ h["upc"] = One(CU!NextUpc) /\ h["uir"] = One(UInst.jump)
    BY Zenon DEF HasFetched
  <2>4. /\ h["pc"] = Held["pc"] /\ h["ir"] = Held["ir"] /\ h["mdr"] = Held["mdr"]
        /\ h["tmp"] = Held["tmp"] /\ h["i"] = Held["i"] /\ h["utmp"] = Held["utmp"]
        /\ h["regshift"] = Held["regshift"] /\ h["usp"] = Held["usp"]
        /\ h["reg"] = Held["reg"] /\ h["val"] = Held["val"] /\ h["addr"] = Held["addr"]
        /\ h["cntl"] = Held["cntl"]
    BY <2>1, <2>2, Zenon
  <2> QED BY <2>3, <2>4, HeldIs
<1>2. \A name, w : h[name] = One(w) => At(h, The(name)) = w
  BY StoragesAre, OneIs DEF At
<1>3. \A n : /\ At(h, Gpr(n)) = reg[n] /\ At(h, Val(n)) = val[n]
             /\ At(h, Addr(n)) = addr[n] /\ At(h, Cntl(n)) = cntl[n]
  BY <1>1, StoragesAre DEF At
<1>4. /\ At(h, Pc) = pc /\ At(h, Ir) = 256 * opc + modes /\ At(h, Mdr) = mdr
      /\ At(h, The("tmp")) = tmp /\ At(h, The("i")) = i /\ At(h, The("utmp")) = utmp
      /\ At(h, Regshift) = regshift /\ At(h, The("0xFF")) = 255
      /\ At(h, Upc) = CU!NextUpc /\ At(h, The("usp")) = usp /\ At(h, The("uir")) = UInst.jump
  BY <1>1, <1>2 DEF Pc, Ir, Mdr, Regshift, Upc
<1> QED BY <1>3, <1>4

(* The same, but for registers that matter within a turn only. *)
Alike(h, k) == DOMAIN k = DOMAIN h /\ \A b \in Banks : k[b] = h[b]

(* Ticks that put a value in a register yield a bank with that value in it, *)
LEMMA PutYields ==
  ASSUME NEW s, NEW h, NEW k, NEW q, NEW v, HasFetched(h), Alike(h, k), q[1] \in Banks,
         Leads(s, h, Put(k, q, v))
  PROVE  Yields(s, h, q[1], [h[q[1]] EXCEPT ![q[2]] = v])
<1> DEFINE g == Put(k, q, v)
<1>1. DOMAIN h = Banks \cup Within /\ DOMAIN k = DOMAIN h /\ \A b \in Banks : k[b] = h[b]
  BY DEF HasFetched, Alike
<1>2. /\ DOMAIN g = DOMAIN k
      /\ \A b \in DOMAIN k : g[b] = IF b = q[1] THEN [k[b] EXCEPT ![q[2]] = v] ELSE k[b]
  BY PutIs
<1> HIDE DEF g
<1>3. /\ g[q[1]] = [h[q[1]] EXCEPT ![q[2]] = v]
      /\ \A c \in Banks \ {q[1]} : g[c] = h[c]
  BY <1>1, <1>2
<1>4. Leads(s, h, g)
  BY DEF g
<1> QED BY <1>1, <1>2, <1>3, <1>4, Zenon DEF Yields

(* The registers that stand alone. *)
Alone == {"pc", "ir", "mdr", "tmp", "i", "utmp", "regshift"}

(* for each bank of the data path. *)
LEMMA PutYieldsIn ==
  ASSUME NEW s, NEW h, NEW k, HasFetched(h), Alike(h, k), NEW v
  PROVE  /\ \A name \in Alone : Leads(s, h, Put(k, The(name), v)) => Yields(s, h, name, One(v))
         /\ \A n : Leads(s, h, Put(k, Gpr(n), v)) => Yields(s, h, "reg", [reg EXCEPT ![n] = v])
         /\ \A n : Leads(s, h, Put(k, Val(n), v)) => Yields(s, h, "val", [val EXCEPT ![n] = v])
         /\ \A n : Leads(s, h, Put(k, Addr(n), v)) => Yields(s, h, "addr", [addr EXCEPT ![n] = v])
         /\ \A n : Leads(s, h, Put(k, Cntl(n), v)) => Yields(s, h, "cntl", [cntl EXCEPT ![n] = v])
<1>1. ASSUME NEW name \in Alone, Leads(s, h, Put(k, The(name), v))
      PROVE  Yields(s, h, name, One(v))
  <2>1. The(name)[1] = name /\ The(name)[2] = 0 /\ name \in Banks /\ name # "upc"
    BY StoragesAre DEF Alone, Banks
  <2>2. Yields(s, h, name, [h[name] EXCEPT ![0] = v])
    BY <1>1, <2>1, PutYields
  <2>3. \E w : h[name] = One(w)
    <3>1. h[name] = Held[name]
      BY <2>1 DEF HasFetched
    <3> QED BY <3>1, HeldIs DEF Alone
  <2>4. [h[name] EXCEPT ![0] = v] = One(v)
    BY <2>3, OneIs
  <2> QED BY <2>2, <2>4
<1>2. /\ h["reg"] = reg /\ h["val"] = val /\ h["addr"] = addr /\ h["cntl"] = cntl
      /\ "reg" \in Banks /\ "val" \in Banks /\ "addr" \in Banks /\ "cntl" \in Banks
  BY HeldIs DEF HasFetched, Banks
<1>3. ASSUME NEW n, NEW q, q[2] = n, q[1] \in {"reg", "val", "addr", "cntl"},
             Leads(s, h, Put(k, q, v))
      PROVE  Yields(s, h, q[1], [h[q[1]] EXCEPT ![n] = v])
  BY <1>2, <1>3, PutYields
<1>4. ASSUME NEW n, Leads(s, h, Put(k, Gpr(n), v)) PROVE Yields(s, h, "reg", [reg EXCEPT ![n] = v])
  <2>1. Gpr(n)[1] = "reg" /\ Gpr(n)[2] = n
    BY StoragesAre
  <2> QED BY <1>2, <1>3, <1>4, <2>1
<1>5. ASSUME NEW n, Leads(s, h, Put(k, Val(n), v)) PROVE Yields(s, h, "val", [val EXCEPT ![n] = v])
  <2>1. Val(n)[1] = "val" /\ Val(n)[2] = n
    BY StoragesAre
  <2> QED BY <1>2, <1>3, <1>5, <2>1
<1>6. ASSUME NEW n, Leads(s, h, Put(k, Addr(n), v)) PROVE Yields(s, h, "addr", [addr EXCEPT ![n] = v])
  <2>1. Addr(n)[1] = "addr" /\ Addr(n)[2] = n
    BY StoragesAre
  <2> QED BY <1>2, <1>3, <1>6, <2>1
<1>7. ASSUME NEW n, Leads(s, h, Put(k, Cntl(n), v)) PROVE Yields(s, h, "cntl", [cntl EXCEPT ![n] = v])
  <2>1. Cntl(n)[1] = "cntl" /\ Cntl(n)[2] = n
    BY StoragesAre
  <2> QED BY <1>2, <1>3, <1>7, <2>1
<1> QED BY <1>1, <1>4, <1>5, <1>6, <1>7

(* Nothing differs from itself. *)
LEMMA Itself == \A h : Alike(h, h)
BY DEF Alike

(* One tick of the ALU, of a bus, of a register alone. *)
LEMMA ComputeLeads ==
  ASSUME NEW h, NEW op, NEW a, NEW b, NEW to, Storage(to)
  PROVE  Leads(<<Compute(op, a, b, to)>>, h, Put(h, to, Result(op, At(h, a), At(h, b))))
<1> DEFINE t == Compute(op, a, b, to)
<1>1. Tick(t, h) = Put(h, to, Result(op, At(h, a), At(h, b)))
  BY ComputeTick
<1> HIDE DEF t
<1>2. Leads(<<t>>, h, Tick(t, h))
  BY LeadsOne
<1> QED BY <1>1, <1>2 DEF t

(* The ALU, from one operand. *)
LEMMA Compute1Leads ==
  ASSUME NEW h, NEW a, NEW to, Storage(to)
  PROVE  /\ Leads(<<Compute1("rop1", a, to)>>, h, Put(h, to, At(h, a)))
         /\ Leads(<<Compute1("not", a, to)>>, h, Put(h, to, Not(At(h, a))))
BY LeadsOne, Compute1Tick

(* The ALU, from none. *)
LEMMA ProduceLeads ==
  ASSUME NEW h, NEW to, Storage(to)
  PROVE  /\ Leads(<<Produce("zero", to)>>, h, Put(h, to, 0))
         /\ Leads(<<Produce("one", to)>>, h, Put(h, to, 1))
BY LeadsOne, ProduceTick

(* A value goes over a bus. *)
LEMMA ViaLeads ==
  ASSUME NEW bus \in DOMAIN BusWidth, NEW from, NEW to, Storage(to), NEW h
  PROVE  Leads(<<Via(bus, from, to)>>, h, Put(h, to, At(h, from) % 2^BusWidth[bus]))
BY LeadsOne, ViaTick

(* A register changes by itself, or flips a bit. *)
LEMMA AloneLeads ==
  ASSUME NEW s, Storage(s), NEW how, NEW h
  PROVE  /\ Leads(<<{Change(s, how)}>>, h, Put(h, s, ByItself(s[1], how, At(h, s))))
         /\ Leads(<<{Flip(s, how)}>>, h, Put(h, s, FlipBit(At(h, s), how)))
<1>1. /\ Tick({Change(s, how)}, h) = Put(h, s, ByItself(s[1], how, At(h, s)))
      /\ Tick({Flip(s, how)}, h) = Put(h, s, FlipBit(At(h, s), how))
  BY AloneTick
<1>2. \A t : Leads(<<t>>, h, Tick(t, h))
  BY LeadsOne
<1> QED BY <1>1, <1>2, Zenon

(* What memory holds at an address. *)
LEMMA LoadLeads ==
  ASSUME NEW h, NEW from, NEW to, NEW a \in Word, Storage(to), HasFetched(h), At(h, from) = a
  PROVE  \E k : Alike(h, k) /\ Leads(Load(from, to), h, Put(k, to, Read(a)))
<1> DEFINE mar == The("mar")
           k == Put(h, mar, a)
           t == {Latch(to, "READ")}
           u == Via("ABUS", from, mar)
<1>1. Tick(u, h) = k
  <2>1. "ABUS" \in DOMAIN BusWidth /\ Storage(mar)
    BY BusNames, StoragesAre
  <2>2. Tick(u, h) = Put(h, mar, a % 2^BusWidth["ABUS"])
    BY <2>1, ViaTick
  <2> HIDE DEF u
  <2> QED BY <2>2, WordWidths
<1> HIDE DEF u
<1>2. /\ DOMAIN h = Banks \cup Within /\ DOMAIN h["mar"] = {0} /\ h["mem"] = mem
      /\ "mar" \in DOMAIN h /\ "mem" \in DOMAIN h /\ "mar" \notin Banks /\ mar[1] = "mar" /\ mar[2] = 0
  <2>1. DOMAIN h = Banks \cup Within /\ DOMAIN h["mar"] = {0} /\ h["mem"] = Held["mem"]
    BY DEF HasFetched, Banks
  <2> QED BY <2>1, HeldIs, StoragesAre DEF Banks, Within
<1> HIDE DEF mar
<1>3. /\ DOMAIN k = DOMAIN h
      /\ \A b \in DOMAIN h : k[b] = IF b = mar[1] THEN [h[b] EXCEPT ![mar[2]] = a] ELSE h[b]
  BY PutIs
<1> HIDE DEF k
<1>4. Alike(h, k) /\ k["mem"] = mem /\ k["mar"][0] = a
  <2>1. \A b \in Banks : b \in DOMAIN h /\ b # mar[1]
    BY <1>2
  <2>2. \A b \in Banks : k[b] = h[b]
    BY <1>3, <2>1, Zenon
  <2>3. "mem" # mar[1] /\ [h["mar"] EXCEPT ![0] = a][0] = a
    BY <1>2
  <2> QED BY <1>2, <1>3, <2>2, <2>3 DEF Alike
<1>5. Tick(t, k) = Put(k, to, Read(a))
  <2>1. Tick(t, k) = Put(k, to, OnPort(t, k, "READ"))
    BY AloneTick
  <2> HIDE DEF t
  <2>2. OnPort(t, k, "READ") = IF k.mar[0] \in DOMAIN k.mem THEN k.mem[k.mar[0]] ELSE 0
    BY PortsAre, Zenon
  <2>3. OnPort(t, k, "READ") = Read(a)
    BY <1>4, <2>2 DEF Read
  <2> QED BY <2>1, <2>3
<1> HIDE DEF t
<1>6. Leads(<<u, t>>, h, Put(k, to, Read(a)))
  BY <1>1, <1>5, LeadsTwo
<1> QED BY <1>4, <1>6 DEF Load, t, u, mar

-----------------------------------------------------------------------------
(* Control points, by the bank of registers that they change. *)

(* The control points that set an address register, but for one. *)
AddrWords ==
  { "Addr[i] <- Addr[i] + MDR", "Addr[i] <- Addr[i] + PC", "Addr[i] <- MDR",
    "Addr[i] <- Mem[PC]", "Addr[i] <- Reg[MDR(reg0)]", "Addr[i] <- Reg[Val[i](reg0)]",
    "Addr[i] <- Reg[Val[i](reg0)] + Addr[i]", "Addr[i] <- Reg[Val[i](reg0)] << MDR",
    "Addr[i] <- Reg[Val[i](reg1)] << MDR" }

(* They leave the address that FabComp says. *)
LEMMA AddrTicks ==
  ASSUME NEW h, HasFetched(h), DataTypeOK, NEW w \in AddrWords
  PROVE  Yields(Ticks(w), h, "addr", NewAddr(w))
<1> DEFINE Y(s, x) == Yields(s, h, "addr", [addr EXCEPT ![i] = x])
<1>1. \A f, a, b : Y(<<Compute(f, a, b, Addr(i))>>, Result(f, At(h, a), At(h, b)))
  BY ComputeLeads, PutYieldsIn, StoragesAre, Itself
<1>2. \A a : Y(<<Compute1("rop1", a, Addr(i))>>, At(h, a))
  BY Compute1Leads, PutYieldsIn, StoragesAre, Itself
<1>3. Y(Load(Pc, Addr(i)), Read(pc))
  <2>1. At(h, Pc) = pc /\ pc \in Word /\ Storage(Addr(i))
    BY AtFetched, StoragesAre DEF DataTypeOK
  <2>2. PICK k : Alike(h, k) /\ Leads(Load(Pc, Addr(i)), h, Put(k, Addr(i), Read(pc)))
    BY <2>1, LoadLeads
  <2> QED BY <2>2, PutYieldsIn
<1> HIDE DEF Y
<1>4. /\ Y(<<Compute("add", Addr(i), Mdr, Addr(i))>>, Add(addr[i], mdr))
      /\ Y(<<Compute("add", Addr(i), Pc, Addr(i))>>, Add(addr[i], pc))
      /\ Y(<<Compute1("rop1", Mdr, Addr(i))>>, mdr)
      /\ \A n : Y(<<Compute1("rop1", Gpr(n), Addr(i))>>, reg[n])
      /\ \A n : Y(<<Compute("add", Addr(i), Gpr(n), Addr(i))>>, Add(addr[i], reg[n]))
      /\ \A n : Y(<<Compute("lshift", Gpr(n), Mdr, Addr(i))>>, ShiftLeft(reg[n], mdr))
  BY <1>1, <1>2, AtFetched, ResultIs
<1>5. /\ Y(<<Compute("add", Addr(i), Gpr(Reg0(val[i])), Addr(i))>>, Add(addr[i], reg[Reg0(val[i])]))
      /\ Y(<<Compute("lshift", Gpr(Reg0(val[i])), Mdr, Addr(i))>>, ShiftLeft(reg[Reg0(val[i])], mdr))
      /\ Y(<<Compute("lshift", Gpr(Reg1(val[i])), Mdr, Addr(i))>>, ShiftLeft(reg[Reg1(val[i])], mdr))
      /\ Y(<<Compute1("rop1", Gpr(Reg0(mdr)), Addr(i))>>, reg[Reg0(mdr)])
      /\ Y(<<Compute1("rop1", Gpr(Reg0(val[i])), Addr(i))>>, reg[Reg0(val[i])])
  BY <1>4, Zenon
<1> QED BY <1>3, <1>4, <1>5, ZenonT(60) DEF AddrWords, Ticks, NewAddr, Y

(* An operand is what its register holds, whichever that is. *)
LEMMA OperandIsAt ==
  ASSUME NEW h, HasFetched(h), NEW n, ~NoOperand(n)
  PROVE  At(h, OperandAt(n)) = Operand(n)
<1>1. CASE IsRegister(n)
  BY <1>1, AtFetched DEF OperandAt, Operand
<1>2. CASE ~IsRegister(n) /\ IsAddress(n)
  BY <1>2, AtFetched DEF OperandAt, Operand
<1>3. CASE ~IsRegister(n) /\ ~IsAddress(n) /\ Slot(n) = 3
  BY <1>3, AtFetched DEF OperandAt, Operand
<1>4. CASE ~IsRegister(n) /\ ~IsAddress(n) /\ Slot(n) # 3
  BY <1>4, AtFetched DEF OperandAt, Operand
<1> QED BY <1>1, <1>2, <1>3, <1>4

(* A mask of the low byte. *)
LEMMA LowBits ==
  ASSUME NEW a \in Nat
  PROVE  And(a, 255) = a % 256
<1> DEFINE r(p) == (a \div p) % 2
<1>1. \A p \in {1, 2, 4, 8, 16, 32, 64, 128} : Both(a, 255, p) = IF r(p) = 1 THEN p ELSE 0
  <2>1. /\ (255 \div 1) % 2 = 1 /\ (255 \div 2) % 2 = 1 /\ (255 \div 4) % 2 = 1
        /\ (255 \div 8) % 2 = 1 /\ (255 \div 16) % 2 = 1 /\ (255 \div 32) % 2 = 1
        /\ (255 \div 64) % 2 = 1 /\ (255 \div 128) % 2 = 1
    OBVIOUS
  <2>2. \A p : (255 \div p) % 2 = 1 => Both(a, 255, p) = IF r(p) = 1 THEN p ELSE 0
    BY DEF Both
  <2> HIDE DEF r
  <2> QED BY <2>1, <2>2
<1>2. \A p \in {256, 512, 1024, 2048, 4096, 8192, 16384, 32768} : Both(a, 255, p) = 0
  <2>1. \A p \in {256, 512, 1024, 2048, 4096, 8192, 16384, 32768} : (255 \div p) % 2 # 1
    OBVIOUS
  <2> QED BY <2>1 DEF Both
<1>3. And(a, 255) = Both(a, 255, 1) + Both(a, 255, 2) + Both(a, 255, 4) + Both(a, 255, 8)
                    + Both(a, 255, 16) + Both(a, 255, 32) + Both(a, 255, 64) + Both(a, 255, 128)
  <2>1. FourBits(a, 255, 256) = 0 /\ FourBits(a, 255, 4096) = 0
    BY <1>2 DEF FourBits
  <2>2. /\ FourBits(a, 255, 1) = Both(a, 255, 1) + Both(a, 255, 2) + Both(a, 255, 4) + Both(a, 255, 8)
        /\ FourBits(a, 255, 16) = Both(a, 255, 16) + Both(a, 255, 32) + Both(a, 255, 64) + Both(a, 255, 128)
    BY DEF FourBits
  <2>3. \A p \in {1, 2, 4, 8, 16, 32, 64, 128} : Both(a, 255, p) \in Nat
    BY <1>1
  <2> QED BY <2>1, <2>2, <2>3 DEF And
<1>4. \A p \in {1, 2, 4, 8, 16, 32, 64, 128} : r(p) \in {0, 1}
  BY DEF r
<1>5. a % 256 = r(1) + 2 * r(2) + 4 * r(4) + 8 * r(8) + 16 * r(16) + 32 * r(32) + 64 * r(64) + 128 * r(128)
  <2> DEFINE q(p) == a \div p
  <2>1. \A p \in {1, 2, 4, 8, 16, 32, 64, 128, 256} : q(p) \in Nat
    OBVIOUS
  <2>2. q(1) = a /\ q(1) = 2 * q(2) + r(1) /\ q(2) = 2 * q(4) + r(2)
    OBVIOUS
  <2>3. q(4) = 2 * q(8) + r(4) /\ q(8) = 2 * q(16) + r(8)
    OBVIOUS
  <2>4. q(16) = 2 * q(32) + r(16) /\ q(32) = 2 * q(64) + r(32)
    OBVIOUS
  <2>5. q(64) = 2 * q(128) + r(64) /\ q(128) = 2 * q(256) + r(128)
    OBVIOUS
  <2>6. a = 256 * q(256) + (a % 256)
    <3>1. \A b \in Nat : b = 256 * (b \div 256) + (b % 256)
      OBVIOUS
    <3> QED BY <3>1
  <2>7. a % 256 \in Nat
    OBVIOUS
  <2> HIDE DEF q, r
  <2>8. /\ q(1) \in Nat /\ q(2) \in Nat /\ q(4) \in Nat /\ q(8) \in Nat /\ q(16) \in Nat
        /\ q(32) \in Nat /\ q(64) \in Nat /\ q(128) \in Nat /\ q(256) \in Nat
    BY <2>1
  <2>9. /\ r(1) \in Nat /\ r(2) \in Nat /\ r(4) \in Nat /\ r(8) \in Nat
        /\ r(16) \in Nat /\ r(32) \in Nat /\ r(64) \in Nat /\ r(128) \in Nat
    BY <1>4
  <2>10. a % 256 = q(1) - 256 * q(256)
    BY <2>2, <2>6, <2>7, <2>8
  <2>11. q(1) = 16 * q(16) + r(1) + 2 * r(2) + 4 * r(4) + 8 * r(8)
    BY <2>2, <2>3, <2>8, <2>9
  <2>12. q(16) = 16 * q(256) + r(16) + 2 * r(32) + 4 * r(64) + 8 * r(128)
    BY <2>4, <2>5, <2>8, <2>9
  <2> QED BY <2>8, <2>9, <2>10, <2>11, <2>12
<1> HIDE DEF r
<1> QED BY <1>1, <1>3, <1>4, <1>5

(* A register shifts by eight bits. *)
LEMMA ShiftsLead ==
  ASSUME NEW h, NEW s, NEW x \in Nat, Storage(s), At(h, s) = x,
         s[1] \in DOMAIN h, s[2] \in DOMAIN h[s[1]]
  PROVE  Leads(EightShifts(s), h, Put(h, s, x \div 256))
<1> DEFINE half == << x \div 2, x \div 4, x \div 8, x \div 16, x \div 32, x \div 64, x \div 128, x \div 256 >>
           t == {Change(s, "shift")}
           v == [n \in 0..8 |-> IF n = 0 THEN h ELSE Put(h, s, half[n])]
<1>1. half[1] = x \div 2 /\ half[8] = x \div 256 /\ \A n \in 2..8 : half[n] = half[n - 1] \div 2
  OBVIOUS
<1> HIDE DEF half
<1>2. v[0] = h /\ v[8] = Put(h, s, half[8]) /\ \A n \in 1..8 : v[n] = Put(h, s, half[n])
  OBVIOUS
<1>3. \A k : Tick(t, k) = Put(k, s, At(k, s) \div 2)
  <2>1. ASSUME NEW k PROVE Tick(t, k) = Put(k, s, At(k, s) \div 2)
    <3>1. Tick(t, k) = Put(k, s, ByItself(s[1], "shift", At(k, s)))
      BY AloneTick
    <3> QED BY <3>1, ByItselfIs
  <2> QED BY <2>1
<1> HIDE DEF t, v
<1>4. \A n \in 1..8 : v[n] = Tick(t, v[n - 1])
  <2>1. v[1] = Tick(t, v[0])
    BY <1>1, <1>2, <1>3
  <2>2. ASSUME NEW n \in 2..8 PROVE v[n] = Tick(t, v[n - 1])
    <3> DEFINE w == half[n - 1]
               k == Put(h, s, w)
    <3>1. v[n - 1] = k /\ v[n] = Put(h, s, w \div 2)
      BY <1>1, <1>2
    <3>2. At(k, s) = w
      BY PutIs
    <3>3. Put(k, s, w \div 2) = Put(h, s, w \div 2)
      BY PutIs
    <3> HIDE DEF k, w
    <3> QED BY <1>3, <3>1, <3>2, <3>3
  <2> QED BY <2>1, <2>2
<1>5. Leads([n \in 1..8 |-> t], v[0], v[8])
  BY <1>4, LeadsEight
<1>6. EightShifts(s) = [n \in 1..8 |-> t]
  BY DEF EightShifts, t
<1> QED BY <1>1, <1>2, <1>5, <1>6

(* The control points that set MDR, but for two. *)
MdrWords ==
  { "MDR <- 0", "MDR <- 0 - op1", "MDR <- 1", "MDR <- MDR >> 8", "MDR <- Mem[Addr[i]]",
    "MDR <- Mem[PC]", "MDR <- Reg[Val[i](reg1)] << MDR", "MDR <- Reg[Val[i](reg2)] << MDR",
    "MDR <- TMP & 0xff", "MDR <- op1", "MDR <- op1 & op2", "MDR <- op1 + op2",
    "MDR <- op1 - op2", "MDR <- op1 << op2", "MDR <- op1 >> op2", "MDR <- op1 >>> op2",
    "MDR <- op1 ^ op2", "MDR <- ~ op1" }

(* No accessor refuses the operands that a control point uses. *)
LEMMA OperandsThere ==
  ASSUME NEW w, Fault(w) = "none"
  PROVE  /\ w \in OneOperandWords \cup TwoOperandWords => ~NoOperand(1)
         /\ w \in TwoOperandWords => ~NoOperand(2)
         /\ w = "PC <- op0" => ~NoOperand(0)
<1>1. 0 \in OpndId /\ 1 \in OpndId /\ 2 \in OpndId
  BY DEF OpndId
<1>2. \A n \in OperandsOf(w) : ~NoOperand(n)
  BY DEF Fault, Fails
<1> QED BY <1>1, <1>2, Zenon DEF OperandsOf

(* They leave in MDR what FabComp says. *)
LEMMA MdrTicks ==
  ASSUME NEW h, HasFetched(h), DataTypeOK, NEW w \in MdrWords, Fault(w) = "none"
  PROVE  Yields(Ticks(w), h, "mdr", One(NewMdr(w)))
<1> DEFINE Y(s, x) == Yields(s, h, "mdr", One(x))
<1>0. /\ mdr \in Word /\ pc \in Word /\ tmp \in Nat /\ mdr \in Nat
      /\ w \in IndexedWords => addr[i] \in Word
  BY HeldFits, WordIsNat DEF DataTypeOK
<1>m. Mdr[1] \in DOMAIN h /\ Mdr[2] \in DOMAIN h[Mdr[1]] /\ Storage(Mdr)
  BY StoragesAre, HeldIs, OneIs DEF HasFetched, Banks, Mdr
<1>1. \A s, k, x : Alike(h, k) /\ Leads(s, h, Put(k, Mdr, x)) => Y(s, x)
  <2>1. "mdr" \in Alone
    BY DEF Alone
  <2> QED BY <2>1, PutYieldsIn DEF Mdr
<1> HIDE DEF Y
<1>2. \A f, a, b : Y(<<Compute(f, a, b, Mdr)>>, Result(f, At(h, a), At(h, b)))
  BY <1>1, ComputeLeads, StoragesAre, Itself DEF Mdr
<1>3. \A a : /\ Y(<<Compute1("rop1", a, Mdr)>>, At(h, a))
             /\ Y(<<Compute1("not", a, Mdr)>>, Not(At(h, a)))
  BY <1>1, Compute1Leads, StoragesAre, Itself DEF Mdr
<1>4. Y(<<Produce("zero", Mdr)>>, 0) /\ Y(<<Produce("one", Mdr)>>, 1)
  BY <1>1, ProduceLeads, StoragesAre, Itself DEF Mdr
<1>5. \A from : At(h, from) \in Word => Y(Load(from, Mdr), Read(At(h, from)))
  BY <1>1, LoadLeads, StoragesAre DEF Mdr
<1>6. Y(Load(Pc, Mdr), Read(pc)) /\ (w \in IndexedWords => Y(Load(Addr(i), Mdr), Read(addr[i])))
  BY <1>0, <1>5, AtFetched
<1>7. Y(EightShifts(Mdr), ShiftRight(mdr, 8))
  <2>1. ShiftRight(mdr, 8) = mdr \div 256
    BY DEF ShiftRight
  <2>2. Leads(EightShifts(Mdr), h, Put(h, Mdr, mdr \div 256))
    <3>1. At(h, Mdr) = mdr
      BY AtFetched
    <3> QED BY <1>0, <1>m, <3>1, ShiftsLead
  <2> QED BY <1>1, <2>1, <2>2, Itself
<1>8. \A n : Y(<<Compute("lshift", Gpr(n), Mdr, Mdr)>>, ShiftLeft(reg[n], mdr))
  BY <1>2, AtFetched, ResultIs
<1>9. Y(<<Compute("and", The("tmp"), The("0xFF"), Mdr)>>, tmp % 256)
  <2>1. At(h, The("tmp")) = tmp /\ At(h, The("0xFF")) = 255
    BY AtFetched
  <2>2. Result("and", tmp, 255) = And(tmp, 255) /\ And(tmp, 255) = tmp % 256
    BY <1>0, LowBits, ResultIs
  <2> QED BY <1>2, <2>1, <2>2
<1>10. w \in OneOperandWords => /\ Y(<<Compute1("rop1", OperandAt(1), Mdr)>>, Operand(1))
                                /\ Y(<<Compute1("not", OperandAt(1), Mdr)>>, Not(Operand(1)))
  BY <1>3, OperandsThere, OperandIsAt
<1>11. w \in TwoOperandWords => \A f : Y(<<Compute(f, OperandAt(1), OperandAt(2), Mdr)>>,
                                         Result(f, Operand(1), Operand(2)))
  BY <1>2, OperandsThere, OperandIsAt
<1>12. /\ w = "MDR <- 0 - op1" \/ w = "MDR <- op1" \/ w = "MDR <- ~ op1" => w \in OneOperandWords
       /\ w = "MDR <- Mem[Addr[i]]" => w \in IndexedWords
       /\ \/ w = "MDR <- op1 & op2" \/ w = "MDR <- op1 + op2" \/ w = "MDR <- op1 - op2"
          \/ w = "MDR <- op1 << op2" \/ w = "MDR <- op1 >> op2" \/ w = "MDR <- op1 >>> op2"
          \/ w = "MDR <- op1 ^ op2"
          => w \in TwoOperandWords
  BY DEF OneOperandWords, TwoOperandWords, IndexedWords
<1>13. w \in OneOperandWords =>
         Y(<<Produce("zero", Mdr), Compute("sub", Mdr, OperandAt(1), Mdr)>>,
           Sub(0, IF cntl[1] >= 16 /\ ~IsAddress(1) /\ Slot(1) = 3 THEN 0 ELSE Operand(1)))
  <2> SUFFICES ASSUME w \in OneOperandWords
               PROVE  Y(<<Produce("zero", Mdr), Compute("sub", Mdr, OperandAt(1), Mdr)>>,
                        Sub(0, IF cntl[1] >= 16 /\ ~IsAddress(1) /\ Slot(1) = 3 THEN 0 ELSE Operand(1)))
    OBVIOUS
  <2> DEFINE own == cntl[1] >= 16 /\ ~IsAddress(1) /\ Slot(1) = 3
             x   == IF own THEN 0 ELSE Operand(1)
             q   == OperandAt(1)
             k   == Put(h, Mdr, 0)
  <2>0. q = OperandAt(1) /\ k = Put(h, Mdr, 0) /\ x = IF own THEN 0 ELSE Operand(1)
    OBVIOUS
  <2>2. own <=> ~IsRegister(1) /\ ~IsAddress(1) /\ Slot(1) = 3
    <3>1. cntl[1] \in 0..31
      BY DEF DataTypeOK, Control, OpndId
    <3>2. cntl[1] >= 16 <=> ~(cntl[1] < 16)
      BY <3>1
    <3> QED BY <3>2, Zenon DEF IsRegister
  <2> HIDE DEF own, x, q, k
  <2>3. At(k, Mdr) = 0
    BY <1>m, <2>0, PutIs
  <2>4. At(k, q) = x
    <3>1. CASE own
      <4>1. q = Mdr
        BY <2>0, <2>2, <3>1, Zenon DEF OperandAt
      <4> QED BY <2>0, <2>3, <3>1, <4>1
    <3>2. CASE ~own
      <4>1. q[1] # "mdr" /\ q[1] \in {"reg", "addr", "val"}
        <5>1. q = Gpr(cntl[1]) \/ q = Addr(Slot(1)) \/ q = Val(Slot(1))
          BY <2>0, <2>2, <3>2, Zenon DEF OperandAt
        <5> QED BY <5>1, StoragesAre
      <4>2. At(h, q) = Operand(1)
        BY <2>0, OperandsThere, OperandIsAt
      <4>3. At(k, q) = At(h, q)
        <5>1. q[1] \in DOMAIN h
          BY <4>1 DEF HasFetched, Banks
        <5>2. Mdr[1] = "mdr"
          BY StoragesAre DEF Mdr
        <5>3. At(Put(h, Mdr, 0), q) = At(h, q)
          BY <4>1, <5>1, <5>2, ElsewhereIs
        <5> QED BY <2>0, <5>3
      <4> QED BY <2>0, <3>2, <4>2, <4>3
    <3> QED BY <3>1, <3>2
  <2>5. Storage(Mdr)
    BY StoragesAre DEF Mdr
  <2>6. Tick(Compute("sub", Mdr, q, Mdr), k) = Put(k, Mdr, Sub(0, x))
    <3>1. Tick(Compute("sub", Mdr, q, Mdr), k) = Put(k, Mdr, Result("sub", At(k, Mdr), At(k, q)))
      BY <2>5, ComputeTick
    <3>2. Result("sub", 0, x) = Sub(0, x)
      BY ResultIs
    <3> QED BY <2>3, <2>4, <3>1, <3>2
  <2>7. Put(k, Mdr, Sub(0, x)) = Put(h, Mdr, Sub(0, x))
    <3>1. \A u, v : Put(Put(h, Mdr, u), Mdr, v) = Put(h, Mdr, v)
      BY PutIs
    <3> QED BY <2>0, <3>1
  <2>8. Tick(Produce("zero", Mdr), h) = k
    BY <2>0, <2>5, ProduceTick
  <2>9. Leads(<<Produce("zero", Mdr), Compute("sub", Mdr, q, Mdr)>>, h, Put(h, Mdr, Sub(0, x)))
    BY <2>6, <2>7, <2>8, LeadsTwo
  <2> QED BY <1>1, <2>0, <2>9, Itself DEF own, x
<1>14. w \in TwoOperandWords =>
         /\ Y(<<Compute("and", OperandAt(1), OperandAt(2), Mdr)>>, And(Operand(1), Operand(2)))
         /\ Y(<<Compute("add", OperandAt(1), OperandAt(2), Mdr)>>, Add(Operand(1), Operand(2)))
         /\ Y(<<Compute("sub", OperandAt(1), OperandAt(2), Mdr)>>, Sub(Operand(1), Operand(2)))
         /\ Y(<<Compute("xor", OperandAt(1), OperandAt(2), Mdr)>>, Xor(Operand(1), Operand(2)))
         /\ Y(<<Compute("lshift", OperandAt(1), OperandAt(2), Mdr)>>, ShiftLeft(Operand(1), Operand(2)))
         /\ Y(<<Compute("rshift", OperandAt(1), OperandAt(2), Mdr)>>, ShiftRight(Operand(1), Operand(2)))
         /\ Y(<<Compute("rashift", OperandAt(1), OperandAt(2), Mdr)>>, ShiftArith(Operand(1), Operand(2)))
  BY <1>11, ResultIs
<1>15. Y(Ticks(w), NewMdr(w))
  BY <1>4, <1>6, <1>7, <1>8, <1>9, <1>10, <1>12, <1>13, <1>14, ZenonT(200)
     DEF MdrWords, Ticks, NewMdr
<1> QED BY <1>15 DEF Y

(* A register is cleared, and bits of it are set. *)
LEMMA BitsSet ==
  /\ FlipBit(0, 4) = 16 /\ FlipBit(16, 2) = 20 /\ FlipBit(16, 0) = 17
  /\ FlipBit(16, 1) = 18 /\ FlipBit(18, 0) = 19
<1>1. \A w : FlipBit(w, 4) = IF (w \div 16) % 2 = 1 THEN w - 16 ELSE w + 16
  BY DEF FlipBit, Bit, Field
<1>2. \A w : FlipBit(w, 2) = IF (w \div 4) % 2 = 1 THEN w - 4 ELSE w + 4
  BY DEF FlipBit, Bit, Field
<1>3. \A w : FlipBit(w, 1) = IF (w \div 2) % 2 = 1 THEN w - 2 ELSE w + 2
  BY DEF FlipBit, Bit, Field
<1>4. \A w : FlipBit(w, 0) = IF (w \div 1) % 2 = 1 THEN w - 1 ELSE w + 1
  BY DEF FlipBit, Bit, Field
<1> QED BY <1>1, <1>2, <1>3, <1>4

(* A bit is flipped in what the tick before has left. *)
LEMMA FlipTwice ==
  ASSUME NEW h, NEW s, NEW v, NEW bit, Storage(s), s[1] \in DOMAIN h, s[2] \in DOMAIN h[s[1]]
  PROVE  Tick({Flip(s, bit)}, Put(h, s, v)) = Put(h, s, FlipBit(v, bit))
<1> DEFINE k == Put(h, s, v)
           w == FlipBit(v, bit)
<1>1. At(k, s) = v
  BY PutIs
<1>2. Put(k, s, w) = Put(h, s, w)
  <2> HIDE DEF w
  <2>1. \A u, x : Put(Put(h, s, u), s, x) = Put(h, s, x)
    BY PutIs
  <2> QED BY <2>1
<1>3. Tick({Flip(s, bit)}, k) = Put(k, s, FlipBit(At(k, s), bit))
  <2> HIDE DEF k
  <2> QED BY AloneTick
<1> QED BY <1>1, <1>2, <1>3

(* The control words that are built by hand. *)
LEMMA SetLeads ==
  ASSUME NEW h, NEW s, Storage(s), s[1] \in DOMAIN h, s[2] \in DOMAIN h[s[1]]
  PROVE  /\ Leads(ClearAndFlip(s, <<4>>), h, Put(h, s, 16))
         /\ Leads(ClearAndFlip(s, <<4, 0>>), h, Put(h, s, 17))
         /\ Leads(ClearAndFlip(s, <<4, 2>>), h, Put(h, s, 20))
         /\ Leads(ClearAndFlip(s, <<4, 1, 0>>), h, Put(h, s, 19))
<1> DEFINE c == {Change(s, "clear")}
           F(b) == {Flip(s, b)}
           P(v) == Put(h, s, v)
<1>1. Tick(c, h) = P(0)
  <2>1. Tick(c, h) = Put(h, s, ByItself(s[1], "clear", At(h, s)))
    BY AloneTick
  <2> QED BY <2>1, ByItselfIs
<1>2. \A v, b : Tick(F(b), P(v)) = P(FlipBit(v, b))
  BY FlipTwice
<1>3. /\ ClearAndFlip(s, <<4>>) = <<c>> \o <<F(4)>>
      /\ ClearAndFlip(s, <<4, 0>>) = <<c>> \o <<F(4), F(0)>>
      /\ ClearAndFlip(s, <<4, 2>>) = <<c>> \o <<F(4), F(2)>>
      /\ ClearAndFlip(s, <<4, 1, 0>>) = <<c>> \o <<F(4), F(1), F(0)>>
  <2> HIDE DEF c
  <2>1. ClearAndFlip(s, <<4>>) = <<c>> \o [n \in DOMAIN <<4>> |-> F(<<4>>[n])]
    BY DEF ClearAndFlip, c
  <2>2. ClearAndFlip(s, <<4, 0>>) = <<c>> \o [n \in DOMAIN <<4, 0>> |-> F(<<4, 0>>[n])]
    BY DEF ClearAndFlip, c
  <2>3. ClearAndFlip(s, <<4, 2>>) = <<c>> \o [n \in DOMAIN <<4, 2>> |-> F(<<4, 2>>[n])]
    BY DEF ClearAndFlip, c
  <2>4. ClearAndFlip(s, <<4, 1, 0>>) = <<c>> \o [n \in DOMAIN <<4, 1, 0>> |-> F(<<4, 1, 0>>[n])]
    BY DEF ClearAndFlip, c
  <2> HIDE DEF F
  <2>5. [n \in DOMAIN <<4>> |-> F(<<4>>[n])] = <<F(4)>>
    OBVIOUS
  <2>6. [n \in DOMAIN <<4, 0>> |-> F(<<4, 0>>[n])] = <<F(4), F(0)>>
    OBVIOUS
  <2>7. [n \in DOMAIN <<4, 2>> |-> F(<<4, 2>>[n])] = <<F(4), F(2)>>
    OBVIOUS
  <2>8. [n \in DOMAIN <<4, 1, 0>> |-> F(<<4, 1, 0>>[n])] = <<F(4), F(1), F(0)>>
    OBVIOUS
  <2> QED BY <2>1, <2>2, <2>3, <2>4, <2>5, <2>6, <2>7, <2>8
<1> HIDE DEF c, F, P
<1>4. Tick(F(4), P(0)) = P(16) /\ Tick(F(0), P(16)) = P(17) /\ Tick(F(2), P(16)) = P(20)
      /\ Tick(F(1), P(16)) = P(18) /\ Tick(F(0), P(18)) = P(19)
  BY <1>2, BitsSet
<1>5. /\ Leads(<<c>>, h, P(0)) /\ Leads(<<F(4)>>, P(0), P(16))
      /\ Leads(<<F(4), F(0)>>, P(0), P(17)) /\ Leads(<<F(4), F(2)>>, P(0), P(20))
      /\ Leads(<<F(4), F(1), F(0)>>, P(0), P(19))
  BY <1>1, <1>4, LeadsOne, LeadsTwo, LeadsThree
<1>6. /\ Leads(<<c>> \o <<F(4)>>, h, P(16)) /\ Leads(<<c>> \o <<F(4), F(0)>>, h, P(17))
      /\ Leads(<<c>> \o <<F(4), F(2)>>, h, P(20)) /\ Leads(<<c>> \o <<F(4), F(1), F(0)>>, h, P(19))
  BY <1>5, LeadsConcat
<1> QED BY <1>3, <1>6 DEF P

(* The control points that set a control word. *)
CntlWords ==
  { "cntl[0] <- 10011", "cntl[0] <- 10100", "cntl[1] <- 10001", "cntl[1] <- 10011",
    "cntl[1] <- cntl[0]", "cntl[1] <- tmp", "cntl[1](2) <- 0", "cntl[2] <- 10000",
    "cntl[2] <- 10011", "cntl[2] <- cntl[1]", "cntl[i] <- 00000 | regshift",
    "cntl[i] <- 10000", "cntl[i] <- 10000 | i", "cntl[i] <- 10100 | i", "cntl[i](2) <- 0" }

(* They leave the control word that FabComp says. *)
LEMMA CntlTicks ==
  ASSUME NEW h, HasFetched(h), DataTypeOK, NEW w \in CntlWords, Fault(w) = "none"
  PROVE  Yields(Ticks(w), h, "cntl", NewCntl(w))
<1> DEFINE Y(s, n, x) == Yields(s, h, "cntl", [cntl EXCEPT ![n] = x])
           I == {"cntl[i] <- 00000 | regshift", "cntl[i] <- 10000", "cntl[i] <- 10000 | i",
                 "cntl[i] <- 10100 | i", "cntl[i](2) <- 0"}
<1>0. /\ 0 \in OpndId /\ 1 \in OpndId /\ 2 \in OpndId
      /\ i \in Control /\ utmp \in Control
      /\ \A n \in OpndId : cntl[n] \in Control
  BY DEF OpndId, DataTypeOK, Control
<1>1. w \in I => i \in OpndId
  <2>1. w \in I => w \in IndexedWords
    BY DEF IndexedWords
  <2> QED BY <2>1, Unharmed
<1>2. \A n \in OpndId : Storage(Cntl(n)) /\ Cntl(n)[1] \in DOMAIN h /\ Cntl(n)[2] \in DOMAIN h[Cntl(n)[1]]
  <2>1. "cntl" \in DOMAIN h /\ h["cntl"] = Held["cntl"] /\ Held["cntl"] = cntl
    BY HeldIs DEF HasFetched, Banks
  <2>2. DOMAIN cntl = OpndId
    BY DEF DataTypeOK
  <2> QED BY <2>1, <2>2, StoragesAre
<1>3. \A s, n, x : Leads(s, h, Put(h, Cntl(n), x)) => Y(s, n, x)
  BY PutYieldsIn, Itself
<1> HIDE DEF Y, I
<1>4. \A n \in OpndId : /\ Y(ClearAndFlip(Cntl(n), <<4>>), n, 16)
                        /\ Y(ClearAndFlip(Cntl(n), <<4, 0>>), n, 17)
                        /\ Y(ClearAndFlip(Cntl(n), <<4, 2>>), n, 20)
                        /\ Y(ClearAndFlip(Cntl(n), <<4, 1, 0>>), n, 19)
  BY <1>2, <1>3, SetLeads
<1>5. \A n, from : At(h, from) \in Control => Leads(<<Via("pDBUS", from, Cntl(n))>>, h, Put(h, Cntl(n), At(h, from)))
  <2>1. ASSUME NEW n, NEW from, At(h, from) \in Control
        PROVE  Leads(<<Via("pDBUS", from, Cntl(n))>>, h, Put(h, Cntl(n), At(h, from)))
    <3>1. At(h, from) % 2^BusWidth["pDBUS"] = At(h, from)
      BY <2>1, ControlWidths DEF Control
    <3>2. "pDBUS" \in DOMAIN BusWidth /\ Storage(Cntl(n))
      BY BusNames, StoragesAre
    <3>3. Leads(<<Via("pDBUS", from, Cntl(n))>>, h, Put(h, Cntl(n), At(h, from) % 2^BusWidth["pDBUS"]))
      BY <3>2, ViaLeads
    <3> QED BY <3>1, <3>3
  <2> QED BY <2>1
<1>6. /\ \A m \in OpndId : \A n : Y(<<Via("pDBUS", Cntl(m), Cntl(n))>>, n, cntl[m])
      /\ \A n : Y(<<Via("pDBUS", The("utmp"), Cntl(n))>>, n, utmp)
      /\ \A n : Leads(<<Via("pDBUS", The("i"), Cntl(n))>>, h, Put(h, Cntl(n), i))
  <2>1. /\ \A m : At(h, Cntl(m)) = cntl[m]
        /\ At(h, The("utmp")) = utmp /\ At(h, The("i")) = i
    BY AtFetched
  <2> QED BY <1>0, <1>3, <1>5, <2>1
<1>7. \A n \in OpndId : \A v, b :
        Leads(<<{Flip(Cntl(n), b)}>>, Put(h, Cntl(n), v), Put(h, Cntl(n), FlipBit(v, b)))
  <2>1. \A n \in OpndId : \A v, b : Tick({Flip(Cntl(n), b)}, Put(h, Cntl(n), v)) = Put(h, Cntl(n), FlipBit(v, b))
    BY <1>2, FlipTwice
  <2>2. \A t, k : Leads(<<t>>, k, Tick(t, k))
    BY LeadsOne
  <2> QED BY <2>1, <2>2
<1>8. \A n \in OpndId : Y(<<Via("pDBUS", The("i"), Cntl(n))>> \o <<{Flip(Cntl(n), 4)}>>, n, FlipBit(i, 4))
  <2>1. \A n \in OpndId :
          Leads(<<Via("pDBUS", The("i"), Cntl(n))>> \o <<{Flip(Cntl(n), 4)}>>, h, Put(h, Cntl(n), FlipBit(i, 4)))
    BY <1>6, <1>7, LeadsConcat, Zenon
  <2> QED BY <1>3, <2>1
<1>9. \A n \in OpndId : Y(<<Via("pDBUS", The("i"), Cntl(n))>>
                            \o <<{Flip(Cntl(n), 4)}, {Flip(Cntl(n), 2)}>>, n, FlipBit(FlipBit(i, 4), 2))
  <2>1. ASSUME NEW n \in OpndId
        PROVE  Leads(<<{Flip(Cntl(n), 4)}, {Flip(Cntl(n), 2)}>>, Put(h, Cntl(n), i),
                     Put(h, Cntl(n), FlipBit(FlipBit(i, 4), 2)))
    <3>1. \A v, b : Tick({Flip(Cntl(n), b)}, Put(h, Cntl(n), v)) = Put(h, Cntl(n), FlipBit(v, b))
      BY <1>2, FlipTwice
    <3> QED BY <3>1, LeadsTwo
  <2>2. \A n \in OpndId :
          Leads(<<Via("pDBUS", The("i"), Cntl(n))>> \o <<{Flip(Cntl(n), 4)}, {Flip(Cntl(n), 2)}>>, h,
                Put(h, Cntl(n), FlipBit(FlipBit(i, 4), 2)))
    BY <1>6, <2>1, LeadsConcat, Zenon
  <2> QED BY <1>3, <2>2
<1>10. \A n \in OpndId : Y(<<{Flip(Cntl(n), 2)}>>, n, FlipBit(cntl[n], 2))
  <2>1. \A n \in OpndId : Leads(<<{Flip(Cntl(n), 2)}>>, h, Put(h, Cntl(n), FlipBit(At(h, Cntl(n)), 2)))
    BY <1>2, AloneLeads
  <2> QED BY <1>3, <2>1, AtFetched
<1>11. \A n \in OpndId : Y(<<{Change(Cntl(n), "clear")}>> \o <<Via("pBUS", Regshift, Cntl(n))>>, n, regshift % 16)
  <2>1. ASSUME NEW n \in OpndId
        PROVE  Leads(<<{Change(Cntl(n), "clear")}>> \o <<Via("pBUS", Regshift, Cntl(n))>>, h,
                     Put(h, Cntl(n), regshift % 16))
    <3> DEFINE s == Cntl(n)
               k == Put(h, s, 0)
    <3>1. Leads(<<{Change(s, "clear")}>>, h, k)
      <4>1. Storage(s)
        BY <1>2
      <4> HIDE DEF s
      <4>2. Leads(<<{Change(s, "clear")}>>, h, Put(h, s, ByItself(s[1], "clear", At(h, s))))
        BY <4>1, AloneLeads
      <4> QED BY <4>2, ByItselfIs
    <3>2. At(k, Regshift) = regshift
      <4>1. Regshift[1] \in DOMAIN h /\ Regshift[1] = "regshift" /\ s[1] = "cntl"
        BY StoragesAre DEF HasFetched, Banks, Regshift
      <4>2. At(h, Regshift) = regshift
        BY AtFetched
      <4> HIDE DEF s
      <4> QED BY <4>1, <4>2, ElsewhereIs
    <3>3. Put(k, s, regshift % 16) = Put(h, s, regshift % 16)
      <4> HIDE DEF s
      <4>1. \A u, v : Put(Put(h, s, u), s, v) = Put(h, s, v)
        BY PutIs
      <4> QED BY <4>1
    <3>4. Leads(<<Via("pBUS", Regshift, s)>>, k, Put(k, s, regshift % 16))
      <4>1. "pBUS" \in DOMAIN BusWidth /\ Storage(s)
        BY <1>2, BusNames
      <4> HIDE DEF s, k
      <4>2. Leads(<<Via("pBUS", Regshift, s)>>, k, Put(k, s, At(k, Regshift) % 2^BusWidth["pBUS"]))
        BY <4>1, ViaLeads
      <4>3. regshift % 2^BusWidth["pBUS"] = regshift % 16
        BY SmallWidths
      <4> QED BY <3>2, <4>2, <4>3
    <3> HIDE DEF s, k
    <3> QED BY <3>1, <3>3, <3>4, LeadsConcat DEF s
  <2> QED BY <1>3, <2>1
<1>12. /\ \A x \in {0, 1, 2} : /\ Y(ClearAndFlip(Cntl(x), <<4>>), x, 16)
                               /\ Y(ClearAndFlip(Cntl(x), <<4, 0>>), x, 17)
                               /\ Y(ClearAndFlip(Cntl(x), <<4, 2>>), x, 20)
                               /\ Y(ClearAndFlip(Cntl(x), <<4, 1, 0>>), x, 19)
       /\ Y(<<Via("pDBUS", Cntl(0), Cntl(1))>>, 1, cntl[0])
       /\ Y(<<Via("pDBUS", Cntl(1), Cntl(2))>>, 2, cntl[1])
       /\ Y(<<Via("pDBUS", The("utmp"), Cntl(1))>>, 1, utmp)
       /\ Y(<<{Flip(Cntl(1), 2)}>>, 1, FlipBit(cntl[1], 2))
  BY <1>0, <1>4, <1>6, <1>10
<1>13. w \in I =>
         /\ Y(ClearAndFlip(Cntl(i), <<4>>), i, 16)
         /\ Y(<<{Flip(Cntl(i), 2)}>>, i, FlipBit(cntl[i], 2))
         /\ Y(<<{Change(Cntl(i), "clear")}>> \o <<Via("pBUS", Regshift, Cntl(i))>>, i, regshift % 16)
         /\ Y(<<Via("pDBUS", The("i"), Cntl(i))>> \o <<{Flip(Cntl(i), 4)}>>, i, FlipBit(i, 4))
         /\ Y(<<Via("pDBUS", The("i"), Cntl(i))>> \o <<{Flip(Cntl(i), 4)}, {Flip(Cntl(i), 2)}>>,
              i, FlipBit(FlipBit(i, 4), 2))
  BY <1>1, <1>4, <1>8, <1>9, <1>10, <1>11, Zenon
<1> QED BY <1>12, <1>13, ZenonT(120) DEF CntlWords, Ticks, NewCntl, CntlAfter, Y, I

(* The control points that set a value register. *)
ValWords == {"Val[1] <- MDR", "Val[i] <- MDR", "Val[i] <- Mem[Addr[i]]", "Val[i] <- Mem[PC]"}

(* A word goes over a data bus. *)
LEMMA DataBus ==
  ASSUME NEW h, NEW from, At(h, from) \in Word, NEW to, Storage(to)
  PROVE  /\ Leads(<<Via("DBUS", from, to)>>, h, Put(h, to, At(h, from)))
         /\ Leads(<<Via("ABUS", from, to)>>, h, Put(h, to, At(h, from)))
<1>1. "DBUS" \in DOMAIN BusWidth /\ "ABUS" \in DOMAIN BusWidth
  BY BusNames
<1>2. \A bus \in DOMAIN BusWidth :
        Leads(<<Via(bus, from, to)>>, h, Put(h, to, At(h, from) % 2^BusWidth[bus]))
  BY ViaLeads
<1>3. At(h, from) % 2^BusWidth["ABUS"] = At(h, from) /\ At(h, from) % 2^BusWidth["DBUS"] = At(h, from)
  BY WordWidths
<1> QED BY <1>1, <1>2, <1>3

(* They leave the value that FabComp says. *)
LEMMA ValTicks ==
  ASSUME NEW h, HasFetched(h), DataTypeOK, NEW w \in ValWords, Fault(w) = "none"
  PROVE  Yields(Ticks(w), h, "val", NewVal(w))
<1> DEFINE Y(s, n, x) == Yields(s, h, "val", [val EXCEPT ![n] = x])
<1>0. /\ mdr \in Word /\ pc \in Word /\ At(h, Mdr) = mdr /\ At(h, Pc) = pc
      /\ (w \in IndexedWords => addr[i] \in Word) /\ \A n : At(h, Addr(n)) = addr[n] /\ Storage(Val(n))
  BY HeldFits, AtFetched, StoragesAre DEF DataTypeOK
<1>1. \A s, k, n, x : Alike(h, k) /\ Leads(s, h, Put(k, Val(n), x)) => Y(s, n, x)
  BY PutYieldsIn
<1> HIDE DEF Y
<1>2. \A n : Y(<<Via("DBUS", Mdr, Val(n))>>, n, mdr)
  <2>1. \A n : Leads(<<Via("DBUS", Mdr, Val(n))>>, h, Put(h, Val(n), mdr))
    BY <1>0, DataBus
  <2> QED BY <1>1, <2>1, Itself
<1>3. \A n, from : At(h, from) \in Word => Y(Load(from, Val(n)), n, Read(At(h, from)))
  BY <1>0, <1>1, LoadLeads
<1>4. /\ \A n : Y(Load(Pc, Val(n)), n, Read(pc))
      /\ w \in IndexedWords => \A n : Y(Load(Addr(i), Val(n)), n, Read(addr[i]))
  BY <1>0, <1>3
<1>5. w = "Val[i] <- Mem[Addr[i]]" => w \in IndexedWords
  BY DEF IndexedWords
<1> QED BY <1>2, <1>4, <1>5, ZenonT(60) DEF ValWords, Ticks, NewVal, Y

(* The control points that set a register of the program, MDR aside. *)
RegWords == {"Reg[15] <- PC", "Reg[cntl[0](3..0)] <- MDR"}

(* They leave in it what FabComp says. *)
LEMMA RegTicks ==
  ASSUME NEW h, HasFetched(h), DataTypeOK, NEW w \in RegWords
  PROVE  Yields(Ticks(w), h, "reg", NewReg(w))
<1>0. /\ mdr \in Word /\ At(h, Mdr) = mdr /\ At(h, Pc) = pc /\ \A n : Storage(Gpr(n))
  BY AtFetched, StoragesAre DEF DataTypeOK
<1>1. \A n : Yields(<<Via("DBUS", Mdr, Gpr(n))>>, h, "reg", [reg EXCEPT ![n] = mdr])
  <2>1. \A n : Leads(<<Via("DBUS", Mdr, Gpr(n))>>, h, Put(h, Gpr(n), mdr))
    BY <1>0, DataBus
  <2> QED BY <2>1, PutYieldsIn, Itself
<1>2. Yields(<<{Perform("rop2"), Latch(Gpr(15), "ALU"), Pull("OP2", Pc)}>>, h, "reg", [reg EXCEPT ![15] = pc])
  <2> DEFINE t == {Perform("rop2"), Latch(Gpr(15), "ALU"), Pull("OP2", Pc)}
  <2>1. Tick(t, h) = Put(h, Gpr(15), pc)
    BY <1>0, SecondTick
  <2> HIDE DEF t
  <2>2. Leads(<<t>>, h, Put(h, Gpr(15), pc))
    BY <2>1, LeadsOne
  <2>3. Yields(<<t>>, h, "reg", [reg EXCEPT ![15] = pc])
    BY <2>2, PutYieldsIn, Itself
  <2> QED BY <2>3 DEF t
<1> QED BY <1>1, <1>2, ZenonT(60) DEF RegWords, Ticks, NewReg

(* Registers that stand alone. *)
LEMMA AloneYields ==
  ASSUME NEW h, HasFetched(h), NEW name \in Alone, NEW s, NEW v, Leads(s, h, Put(h, The(name), v))
  PROVE  Yields(s, h, name, One(v))
BY PutYieldsIn, Itself

(* The control points that set PC. *)
PcWords == {"PC <- PC + 1", "PC <- op0"}

(* They leave the PC that FabComp says. *)
LEMMA PcTicks ==
  ASSUME NEW h, HasFetched(h), DataTypeOK, NEW w \in PcWords, Fault(w) = "none"
  PROVE  Yields(Ticks(w), h, "pc", One(NewPc(w)))
<1>1. "pc" \in Alone /\ Storage(Pc) /\ Pc = The("pc") /\ Pc[1] = "pc"
  BY StoragesAre DEF Alone, Pc
<1>2. Yields(<<{Change(Pc, "incr")}>>, h, "pc", One(Add(pc, 1)))
  <2>1. Leads(<<{Change(Pc, "incr")}>>, h, Put(h, Pc, ByItself("pc", "incr", pc)))
    <3>1. Leads(<<{Change(Pc, "incr")}>>, h, Put(h, Pc, ByItself(Pc[1], "incr", At(h, Pc))))
      BY <1>1, AloneLeads
    <3>2. At(h, Pc) = pc
      BY AtFetched
    <3> QED BY <1>1, <3>1, <3>2
  <2>2. ByItself("pc", "incr", pc) = Add(pc, 1)
    BY ByItselfIs, CounterWidths DEF Add, WORDS
  <2> QED BY <1>1, <2>1, <2>2, AloneYields
<1>3. w = "PC <- op0" => Yields(<<Via("ABUS", OperandAt(0), Pc)>>, h, "pc", One(Operand(0)))
  <2> SUFFICES ASSUME Operand(0) \in Word, ~NoOperand(0)
               PROVE  Yields(<<Via("ABUS", OperandAt(0), Pc)>>, h, "pc", One(Operand(0)))
    BY Unharmed, OperandsThere
  <2>1. At(h, OperandAt(0)) = Operand(0)
    BY OperandIsAt
  <2>2. Leads(<<Via("ABUS", OperandAt(0), Pc)>>, h, Put(h, Pc, Operand(0)))
    BY <1>1, <2>1, DataBus
  <2> QED BY <1>1, <2>2, AloneYields
<1> QED BY <1>2, <1>3, ZenonT(60) DEF PcWords, Ticks, NewPc

(* The control points that are alone in setting a register, or nearly so. *)
LEMMA OtherTicks ==
  ASSUME NEW h, HasFetched(h), DataTypeOK
  PROVE  /\ Yields(Ticks("TMP <- MDR"), h, "tmp", One(mdr))
         /\ Yields(Ticks("i <- 00"), h, "i", One(0))
         /\ Yields(Ticks("i <- i + 1"), h, "i", One((i + 1) % 4))
         /\ Yields(Ticks("tmp <- cntl[2]"), h, "utmp", One(cntl[2]))
         /\ Yields(Ticks("regshift <- MDR"), h, "regshift", One(mdr))
         /\ Yields(Ticks("regshift <- regshift >> 8"), h, "regshift", One(ShiftRight(regshift, 8)))
<1>0. /\ mdr \in Word /\ regshift \in Nat /\ cntl[2] \in 0..31
      /\ At(h, Mdr) = mdr /\ At(h, Regshift) = regshift /\ At(h, The("i")) = i /\ At(h, Cntl(2)) = cntl[2]
  BY AtFetched, WordIsNat DEF DataTypeOK, OpndId, Control
<1>1. /\ "tmp" \in Alone /\ "i" \in Alone /\ "utmp" \in Alone /\ "regshift" \in Alone
      /\ \A name : Storage(The(name)) /\ The(name)[1] = name
      /\ Regshift = The("regshift")
  BY StoragesAre DEF Alone, Regshift
<1>2. /\ Yields(<<Via("DBUS", Mdr, The("tmp"))>>, h, "tmp", One(mdr))
      /\ Yields(<<Via("DBUS", Mdr, Regshift)>>, h, "regshift", One(mdr))
  BY <1>0, <1>1, DataBus, AloneYields
<1>3. /\ Yields(<<{Change(The("i"), "clear")}>>, h, "i", One(0))
      /\ Yields(<<{Change(The("i"), "incr")}>>, h, "i", One((i + 1) % 4))
  <2>1. \A how : Leads(<<{Change(The("i"), how)}>>, h, Put(h, The("i"), ByItself("i", how, i)))
    BY <1>0, <1>1, AloneLeads
  <2>2. ByItself("i", "clear", i) = 0 /\ ByItself("i", "incr", i) = (i + 1) % 4
    BY ByItselfIs, CounterWidths
  <2> QED BY <1>1, <2>1, <2>2, AloneYields
<1>4. Yields(<<Via("pDBUS", Cntl(2), The("utmp"))>>, h, "utmp", One(cntl[2]))
  <2>1. cntl[2] % 2^BusWidth["pDBUS"] = cntl[2]
    BY <1>0, ControlWidths
  <2>2. "pDBUS" \in DOMAIN BusWidth
    BY BusNames
  <2>3. Leads(<<Via("pDBUS", Cntl(2), The("utmp"))>>, h, Put(h, The("utmp"), cntl[2]))
    BY <1>0, <1>1, <2>1, <2>2, ViaLeads
  <2> QED BY <1>1, <2>3, AloneYields
<1>5. Yields(EightShifts(Regshift), h, "regshift", One(ShiftRight(regshift, 8)))
  <2>1. ShiftRight(regshift, 8) = regshift \div 256
    BY DEF ShiftRight
  <2>2. Regshift[1] \in DOMAIN h /\ Regshift[2] \in DOMAIN h[Regshift[1]]
    BY StoragesAre, HeldIs, OneIs DEF HasFetched, Banks, Regshift
  <2>3. Leads(EightShifts(Regshift), h, Put(h, Regshift, regshift \div 256))
    BY <1>0, <1>1, <2>2, ShiftsLead
  <2> QED BY <1>1, <2>1, <2>3, AloneYields
<1>6. Ticks("TMP <- MDR") = <<Via("DBUS", Mdr, The("tmp"))>>
  BY ZenonT(60) DEF Ticks
<1>7. Ticks("i <- 00") = <<{Change(The("i"), "clear")}>>
  BY ZenonT(60) DEF Ticks
<1>8. Ticks("i <- i + 1") = <<{Change(The("i"), "incr")}>>
  BY ZenonT(60) DEF Ticks
<1>9. Ticks("tmp <- cntl[2]") = <<Via("pDBUS", Cntl(2), The("utmp"))>>
  BY ZenonT(60) DEF Ticks
<1>10. Ticks("regshift <- MDR") = <<Via("DBUS", Mdr, Regshift)>>
  BY ZenonT(60) DEF Ticks
<1>11. Ticks("regshift <- regshift >> 8") = EightShifts(Regshift)
  BY ZenonT(60) DEF Ticks
<1> QED BY <1>2, <1>3, <1>4, <1>5, <1>6, <1>7, <1>8, <1>9, <1>10, <1>11, Zenon

(* The instruction register, which is opc and modes side by side. *)
IrWords == {"IR <- Mem[PC]", "IR(opc)(2) <- 0", "IR(opc)(3) <- 0"}
NewModes(w) == IF w = "IR <- Mem[PC]" THEN Read(pc) % 256 ELSE modes

(* A bit of the word is a bit of the opcode. *)
LEMMA FlipsInIr ==
  ASSUME DataTypeOK
  PROVE  /\ FlipBit(256 * opc + modes, 10) = 256 * FlipBit(opc, 2) + modes
         /\ FlipBit(256 * opc + modes, 11) = 256 * FlipBit(opc, 3) + modes
<1>0. opc \in 0..255 /\ modes \in 0..255
  BY DEF DataTypeOK
<1>1. \A w : /\ FlipBit(w, 2) = IF (w \div 4) % 2 = 1 THEN w - 4 ELSE w + 4
             /\ FlipBit(w, 3) = IF (w \div 8) % 2 = 1 THEN w - 8 ELSE w + 8
  BY DEF FlipBit, Bit, Field
<1>2. \A w : /\ FlipBit(w, 10) = IF (w \div 1024) % 2 = 1 THEN w - 1024 ELSE w + 1024
             /\ FlipBit(w, 11) = IF (w \div 2048) % 2 = 1 THEN w - 2048 ELSE w + 2048
  <2>1. 2^10 = 1024 /\ 2^11 = 2048 /\ 2^(10 - 10 + 1) = 2 /\ 2^(11 - 11 + 1) = 2
    OBVIOUS
  <2> QED BY <2>1 DEF FlipBit, Bit, Field
<1>3. \A o, m \in 0..255 : (256 * o + m) \div 1024 = o \div 4 /\ (256 * o + m) \div 2048 = o \div 8
  OBVIOUS
<1>4. (256 * opc + modes) \div 1024 = opc \div 4 /\ (256 * opc + modes) \div 2048 = opc \div 8
  BY <1>0, <1>3
<1> QED BY <1>0, <1>1, <1>2, <1>4

(* They leave in IR what FabComp says. *)
LEMMA IrTicks ==
  ASSUME NEW h, HasFetched(h), DataTypeOK, NEW w \in IrWords
  PROVE  Yields(Ticks(w), h, "ir", One(256 * NewOpc(w) + NewModes(w)))
<1>0. "ir" \in Alone /\ Storage(Ir) /\ Ir = The("ir") /\ pc \in Word /\ At(h, Pc) = pc
      /\ At(h, Ir) = 256 * opc + modes
  BY StoragesAre, AtFetched DEF Alone, Ir, DataTypeOK
<1>1. CASE w = "IR <- Mem[PC]"
  <2>1. Ticks("IR <- Mem[PC]") = Load(Pc, Ir)
    BY ZenonT(60) DEF Ticks
  <2>2. PICK k : Alike(h, k) /\ Leads(Load(Pc, Ir), h, Put(k, Ir, Read(pc)))
    BY <1>0, LoadLeads
  <2>3. Yields(Load(Pc, Ir), h, "ir", One(Read(pc)))
    BY <1>0, <2>2, PutYieldsIn
  <2>4. Read(pc) = 256 * NewOpc("IR <- Mem[PC]") + NewModes("IR <- Mem[PC]")
    <3>1. NewOpc("IR <- Mem[PC]") = Read(pc) \div 256 /\ NewModes("IR <- Mem[PC]") = Read(pc) % 256
      BY DEF NewOpc, NewModes
    <3>2. \A r \in Nat : r = 256 * (r \div 256) + (r % 256)
      OBVIOUS
    <3>3. Read(pc) \in Nat
      BY ReadFits, WordIsNat
    <3>4. Read(pc) = 256 * (Read(pc) \div 256) + (Read(pc) % 256)
      BY <3>2, <3>3
    <3> QED BY <3>1, <3>4
  <2> QED BY <1>1, <2>1, <2>3, <2>4
<1>2. /\ Yields(<<{Flip(Ir, 10)}>>, h, "ir", One(256 * FlipBit(opc, 2) + modes))
      /\ Yields(<<{Flip(Ir, 11)}>>, h, "ir", One(256 * FlipBit(opc, 3) + modes))
  <2>1. \A b : Leads(<<{Flip(Ir, b)}>>, h, Put(h, Ir, FlipBit(256 * opc + modes, b)))
    <3>1. \A b : Leads(<<{Flip(Ir, b)}>>, h, Put(h, Ir, FlipBit(At(h, Ir), b)))
      BY <1>0, AloneLeads
    <3> QED BY <1>0, <3>1
  <2>2. \A b : Yields(<<{Flip(Ir, b)}>>, h, "ir", One(FlipBit(256 * opc + modes, b)))
    BY <1>0, <2>1, AloneYields
  <2> QED BY <2>2, FlipsInIr
<1>3. CASE w = "IR(opc)(2) <- 0"
  <2>1. Ticks("IR(opc)(2) <- 0") = <<{Flip(Ir, 10)}>>
    BY ZenonT(60) DEF Ticks
  <2>2. NewOpc("IR(opc)(2) <- 0") = FlipBit(opc, 2) /\ NewModes("IR(opc)(2) <- 0") = modes
    BY DEF NewOpc, NewModes
  <2>3. 256 * NewOpc("IR(opc)(2) <- 0") + NewModes("IR(opc)(2) <- 0") = 256 * FlipBit(opc, 2) + modes
    BY <2>2
  <2>4. Yields(Ticks("IR(opc)(2) <- 0"), h, "ir",
               One(256 * NewOpc("IR(opc)(2) <- 0") + NewModes("IR(opc)(2) <- 0")))
    BY <1>2, <2>1, <2>3
  <2> QED BY <1>3, <2>4, Zenon
<1>4. CASE w = "IR(opc)(3) <- 0"
  <2>1. Ticks("IR(opc)(3) <- 0") = <<{Flip(Ir, 11)}>>
    BY ZenonT(60) DEF Ticks
  <2>2. NewOpc("IR(opc)(3) <- 0") = FlipBit(opc, 3) /\ NewModes("IR(opc)(3) <- 0") = modes
    BY DEF NewOpc, NewModes
  <2>3. 256 * NewOpc("IR(opc)(3) <- 0") + NewModes("IR(opc)(3) <- 0") = 256 * FlipBit(opc, 3) + modes
    BY <2>2
  <2>4. Yields(Ticks("IR(opc)(3) <- 0"), h, "ir",
               One(256 * NewOpc("IR(opc)(3) <- 0") + NewModes("IR(opc)(3) <- 0")))
    BY <1>2, <2>1, <2>3
  <2> QED BY <1>4, <2>4, Zenon
<1> QED BY <1>1, <1>3, <1>4 DEF IrWords

(* Memory is written. *)
MemWords == {"Mem[Addr[cntl[0](3..0)]] <- MDR", "Mem[Reg[14]] <- Reg[15]"}

(* The tick that writes. *)
LEMMA StoreTick ==
  ASSUME NEW h, NEW from, NEW a, h["mar"][0] = a, "mem" \in DOMAIN h
  PROVE  Tick({Pull("WRITE", from), Store}, h)
           = [h EXCEPT !["mem"] = [x \in DOMAIN h["mem"] \cup {a} |->
                                     IF x = a THEN At(h, from) ELSE h["mem"][x]]]
<1> DEFINE t == {Pull("WRITE", from), Store}
           stored == [x \in DOMAIN h.mem \cup {h.mar[0]} |->
                        IF x = h.mar[0] THEN PulledOn(t, h, "WRITE") ELSE h.mem[x]]
           banks == {Kind(r.on) : r \in Changes(t)}
<1>1. Changes(t) = {} /\ Store \in t
  BY Verbs DEF Changes, Mutators
<1>2. PulledOn(t, h, "WRITE") = At(h, from)
  BY Verbs, PulledIs
<1>3. Tick(t, h) = [b \in DOMAIN h |->
                      CASE b \in banks -> Bank(t, h, b)
                        [] b = "mem" /\ Store \in t -> stored
                        [] OTHER -> h[b]]
  BY Zenon DEF Tick, Changes, Bank, Becoming, Left, OnPort, PulledOn, At
<1>4. banks = {}
  BY <1>1
<1> HIDE DEF banks, stored, t
<1>5. Tick(t, h) = [b \in DOMAIN h |-> IF b = "mem" THEN stored ELSE h[b]]
  BY <1>1, <1>3, <1>4
<1>6. Tick(t, h) = [h EXCEPT !["mem"] = stored]
  BY <1>5
<1> QED BY <1>2, <1>6 DEF stored, t

(* A word is saved at an address. *)
LEMMA SaveYields ==
  ASSUME NEW h, HasFetched(h), NEW from, NEW at, NEW a \in Word, At(h, at) = a,
         from[1] # "mar", from[1] \in Banks
  PROVE  Yields(Save(from, at), h, "mem", Write(a, At(h, from)))
<1> DEFINE mar == The("mar")
           k == Put(h, mar, a)
           u == Via("ABUS", at, mar)
           t == {Pull("WRITE", from), Store}
           g == Tick(t, k)
<1>1. Tick(u, h) = k
  <2>1. "ABUS" \in DOMAIN BusWidth /\ Storage(mar)
    BY BusNames, StoragesAre
  <2>2. Tick(u, h) = Put(h, mar, a % 2^BusWidth["ABUS"])
    BY <2>1, ViaTick
  <2> HIDE DEF u
  <2> QED BY <2>2, WordWidths
<1>2. /\ DOMAIN h = Banks \cup Within /\ DOMAIN h["mar"] = {0} /\ h["mem"] = mem
      /\ "mar" \in DOMAIN h /\ "mem" \in Banks /\ "mar" \notin Banks /\ mar[1] = "mar" /\ mar[2] = 0
  <2>1. DOMAIN h = Banks \cup Within /\ DOMAIN h["mar"] = {0} /\ h["mem"] = Held["mem"]
    BY DEF HasFetched, Banks
  <2> QED BY <2>1, HeldIs, StoragesAre DEF Banks, Within
<1>3. Leads(<<u, t>>, h, g)
  <2> HIDE DEF u, t, g
  <2> QED BY <1>1, LeadsTwo DEF g
<1> HIDE DEF mar, u
<1>4. /\ DOMAIN k = DOMAIN h
      /\ \A b \in DOMAIN h : k[b] = IF b = mar[1] THEN [h[b] EXCEPT ![mar[2]] = a] ELSE h[b]
  BY PutIs
<1>5. At(k, from) = At(h, from)
  <2>1. from[1] \in DOMAIN h
    BY <1>2
  <2> QED BY <1>2, <2>1, ElsewhereIs
<1> HIDE DEF k
<1>6. /\ k["mem"] = mem /\ k["mar"][0] = a /\ "mem" \in DOMAIN k
      /\ \A b \in Banks : k[b] = h[b]
  BY <1>2, <1>4
<1>7. g = [k EXCEPT !["mem"] = [x \in DOMAIN k["mem"] \cup {a} |->
                                  IF x = a THEN At(k, from) ELSE k["mem"][x]]]
  <2>1. Tick({Pull("WRITE", from), Store}, k)
           = [k EXCEPT !["mem"] = [x \in DOMAIN k["mem"] \cup {a} |->
                                     IF x = a THEN At(k, from) ELSE k["mem"][x]]]
    BY <1>6, StoreTick
  <2> QED BY <2>1
<1> HIDE DEF g, t
<1>8. /\ DOMAIN g = DOMAIN h /\ g["mem"] = Write(a, At(h, from))
      /\ \A c \in Banks \ {"mem"} : g[c] = h[c]
  <2> DEFINE x == [y \in DOMAIN k["mem"] \cup {a} |-> IF y = a THEN At(k, from) ELSE k["mem"][y]]
  <2>1. x = Write(a, At(h, from))
    BY <1>5, <1>6 DEF Write
  <2>2. g = [k EXCEPT !["mem"] = x]
    BY <1>7
  <2> HIDE DEF x
  <2> QED BY <1>2, <1>4, <1>6, <2>1, <2>2
<1>9. Save(from, at) = <<u, t>>
  BY DEF Save, u, t, mar
<1> QED BY <1>3, <1>8, <1>9, Zenon DEF Yields

(* They leave the memory that FabComp says. *)
LEMMA MemTicks ==
  ASSUME NEW h, HasFetched(h), DataTypeOK, NEW w \in MemWords, Fault(w) = "none"
  PROVE  Yields(Ticks(w), h, "mem", NewMem(w))
<1>0. /\ At(h, Mdr) = mdr /\ \A n : At(h, Addr(n)) = addr[n] /\ At(h, Gpr(n)) = reg[n]
      /\ Mdr[1] = "mdr" /\ \A n : Gpr(n)[1] = "reg"
      /\ "mdr" \in Banks /\ "reg" \in Banks
  BY AtFetched, StoragesAre DEF Mdr, Banks
<1>1. w = "Mem[Addr[cntl[0](3..0)]] <- MDR" =>
        Yields(Save(Mdr, Addr(Slot(0))), h, "mem", Write(addr[Slot(0)], mdr))
  <2> SUFFICES ASSUME Slot(0) \in OpndId
               PROVE  Yields(Save(Mdr, Addr(Slot(0))), h, "mem", Write(addr[Slot(0)], mdr))
    BY Unharmed
  <2>1. addr[Slot(0)] \in Word
    BY DEF DataTypeOK
  <2> QED BY <1>0, <2>1, SaveYields
<1>2. Yields(Save(Gpr(15), Gpr(14)), h, "mem", Write(reg[14], reg[15]))
  <2>1. reg[14] \in Word
    BY DEF DataTypeOK, RegId
  <2> QED BY <1>0, <2>1, SaveYields
<1> QED BY <1>1, <1>2, ZenonT(60) DEF MemWords, Ticks, NewMem

(* A register is incremented or decremented by way of MDR. *)
BumpWords ==
  { "Reg[14] <- Reg[14] + 1", "Reg[14] <- Reg[14] - 1",
    "Reg[Val[i](reg0)] <- Reg[Val[i](reg0)] + 1", "Reg[Val[i](reg0)] <- Reg[Val[i](reg0)] - 1" }

(* Ticks s, from h, leave x in MDR, y in the registers of the program. *)
YieldsBoth(s, h, x, y) ==
  \E g : /\ Leads(s, h, g) /\ g["mdr"] = x /\ g["reg"] = y
         /\ \A c \in Banks \ {"mdr", "reg"} : g[c] = h[c]

(* One goes to MDR, then the register is changed by it. *)
LEMMA BumpYields ==
  ASSUME NEW h, HasFetched(h), NEW n, NEW f
  PROVE  YieldsBoth(<<Produce("one", Mdr), Compute(f, Gpr(n), Mdr, Gpr(n))>>, h,
                    One(1), [reg EXCEPT ![n] = Result(f, reg[n], 1)])
<1> DEFINE s == Gpr(n)
           k == Put(h, Mdr, 1)
           x == Result(f, reg[n], 1)
           g == Put(k, s, x)
           t == Produce("one", Mdr)
           u == Compute(f, s, Mdr, s)
<1>1. /\ Storage(Mdr) /\ Mdr[1] = "mdr" /\ Mdr[2] = 0
      /\ Storage(s) /\ s[1] = "reg" /\ s[2] = n
  BY StoragesAre DEF Mdr
<1>2. /\ DOMAIN h = Banks \cup Within /\ h["mdr"] = One(mdr) /\ h["reg"] = reg
      /\ "mdr" \in Banks /\ "reg" \in Banks
  BY HeldIs DEF HasFetched, Banks
<1>3. Tick(t, h) = k
  BY <1>1, ProduceTick
<1> HIDE DEF s, t
<1>4. DOMAIN k = DOMAIN h /\ k["mdr"] = One(1) /\ \A b \in DOMAIN h : b # "mdr" => k[b] = h[b]
  BY <1>2, PutThe DEF Mdr
<1> HIDE DEF k
<1>5. At(k, Mdr) = 1 /\ At(k, s) = reg[n]
  BY <1>1, <1>2, <1>4, OneIs DEF At
<1> HIDE DEF g, x, u
<1>6. Tick(u, k) = g
  <2>1. Tick(u, k) = Put(k, s, Result(f, At(k, s), At(k, Mdr)))
    BY <1>1, ComputeTick DEF u
  <2> QED BY <1>5, <2>1 DEF g, x
<1>7. Leads(<<t, u>>, h, g)
  BY <1>3, <1>6, LeadsTwo
<1>8. DOMAIN g = DOMAIN k
      /\ \A b \in DOMAIN k : g[b] = IF b = s[1] THEN [k[b] EXCEPT ![s[2]] = x] ELSE k[b]
  BY PutIs DEF g
<1>9. /\ g["mdr"] = One(1) /\ g["reg"] = [reg EXCEPT ![n] = x]
      /\ \A c \in Banks \ {"mdr", "reg"} : g[c] = h[c]
  BY <1>1, <1>2, <1>4, <1>8
<1>10. YieldsBoth(<<t, u>>, h, One(1), [reg EXCEPT ![n] = x])
  BY <1>7, <1>9, Zenon DEF YieldsBoth
<1> QED BY <1>10 DEF t, u, s, x

(* They leave in both what FabComp says. *)
LEMMA BumpTicks ==
  ASSUME NEW h, HasFetched(h), NEW w \in BumpWords
  PROVE  YieldsBoth(Ticks(w), h, One(NewMdr(w)), NewReg(w))
<1> DEFINE Y(s, n, x) == YieldsBoth(s, h, One(1), [reg EXCEPT ![n] = x])
<1>1. \A n, f : Y(<<Produce("one", Mdr), Compute(f, Gpr(n), Mdr, Gpr(n))>>, n, Result(f, reg[n], 1))
  BY BumpYields
<1> HIDE DEF Y
<1>2. \A n : /\ Y(<<Produce("one", Mdr), Compute("add", Gpr(n), Mdr, Gpr(n))>>, n, Add(reg[n], 1))
             /\ Y(<<Produce("one", Mdr), Compute("sub", Gpr(n), Mdr, Gpr(n))>>, n, Sub(reg[n], 1))
  BY <1>1, ResultIs
<1>3. /\ Y(Ticks("Reg[14] <- Reg[14] + 1"), 14, Add(reg[14], 1))
      /\ Y(Ticks("Reg[14] <- Reg[14] - 1"), 14, Sub(reg[14], 1))
      /\ Y(Ticks("Reg[Val[i](reg0)] <- Reg[Val[i](reg0)] + 1"), Reg0(val[i]), Add(reg[Reg0(val[i])], 1))
      /\ Y(Ticks("Reg[Val[i](reg0)] <- Reg[Val[i](reg0)] - 1"), Reg0(val[i]), Sub(reg[Reg0(val[i])], 1))
  <2>1. Y(Ticks("Reg[14] <- Reg[14] + 1"), 14, Add(reg[14], 1))
    BY <1>2, ZenonT(60) DEF Ticks
  <2>2. Y(Ticks("Reg[14] <- Reg[14] - 1"), 14, Sub(reg[14], 1))
    BY <1>2, ZenonT(60) DEF Ticks
  <2>3. Y(Ticks("Reg[Val[i](reg0)] <- Reg[Val[i](reg0)] + 1"), Reg0(val[i]), Add(reg[Reg0(val[i])], 1))
    BY <1>2, ZenonT(60) DEF Ticks
  <2>4. Y(Ticks("Reg[Val[i](reg0)] <- Reg[Val[i](reg0)] - 1"), Reg0(val[i]), Sub(reg[Reg0(val[i])], 1))
    BY <1>2, ZenonT(60) DEF Ticks
  <2> QED BY <2>1, <2>2, <2>3, <2>4
<1>4. \A u \in BumpWords : NewMdr(u) = 1
  BY ZenonT(60) DEF NewMdr, BumpWords
<1>5. /\ NewReg("Reg[14] <- Reg[14] + 1") = [reg EXCEPT ![14] = Add(reg[14], 1)]
      /\ NewReg("Reg[14] <- Reg[14] - 1") = [reg EXCEPT ![14] = Sub(reg[14], 1)]
      /\ NewReg("Reg[Val[i](reg0)] <- Reg[Val[i](reg0)] + 1")
           = [reg EXCEPT ![Reg0(val[i])] = Add(reg[Reg0(val[i])], 1)]
      /\ NewReg("Reg[Val[i](reg0)] <- Reg[Val[i](reg0)] - 1")
           = [reg EXCEPT ![Reg0(val[i])] = Sub(reg[Reg0(val[i])], 1)]
  BY ZenonT(60) DEF NewReg
<1> QED BY <1>3, <1>4, <1>5, ZenonT(60) DEF Y, BumpWords

-----------------------------------------------------------------------------
(* Requests left for the tick of the next fetch. *)

(* Requests left for the tick of the next fetch: it does both their work and its own. *)
LEMMA LateTick ==
  ASSUME NEW h, NEW t, NEW p, Changes(t) = {p}, Storage(p.on), p.on[1] # "umar",
         Store \notin t
  PROVE  \E x : Tick(t \cup UAddress, h)
                  = Put(Put(h, The("umar"), x), p.on, Left(p, t \cup UAddress, h, At(h, p.on)))
<1> DEFINE r == Latch(The("umar"), "uABUS")
           u == t \cup UAddress
           x == Left(r, u, h, At(h, r.on))
<1>1. r.on = The("umar") /\ Storage(r.on) /\ r.on[1] = "umar"
  BY Verbs, StoragesAre
<1>2. UAddress = {Pull("uABUS", Upc), r}
  BY DEF UAddress, Via
<1>3. Changes(u) = {r, p} /\ Store \notin u
  <2>1. Changes(u) = Changes(t) \cup Changes(UAddress)
    BY DEF Changes
  <2>2. Changes(UAddress) = {r} /\ Store \notin UAddress
    BY <1>2, Verbs DEF Changes, Mutators
  <2> QED BY <2>1, <2>2
<1> HIDE DEF r, u
<1>4. Tick(u, h) = Put(Put(h, r.on, Left(r, u, h, At(h, r.on))), p.on, Left(p, u, h, At(h, p.on)))
  BY <1>1, <1>3, TwoChanges
<1> QED BY <1>1, <1>4 DEF u

(* The address of the microprogram on its way is no concern of the data path. *)
LEMMA PassingAlike ==
  ASSUME NEW h, HasFetched(h), NEW k, Alike(h, k), NEW x
  PROVE  Alike(h, Put(k, The("umar"), x))
<1>1. The("umar")[1] = "umar" /\ "umar" \notin Banks
  BY StoragesAre DEF Banks
<1> DEFINE s == The("umar")
           g == Put(k, s, x)
<1>2. /\ DOMAIN g = DOMAIN k
      /\ \A b \in DOMAIN k : g[b] = IF b = s[1] THEN [k[b] EXCEPT ![s[2]] = x] ELSE k[b]
  BY PutIs
<1> HIDE DEF g
<1>3. DOMAIN h = Banks \cup Within /\ DOMAIN k = DOMAIN h /\ \A b \in Banks : k[b] = h[b]
  BY DEF Alike, HasFetched
<1>4. s[1] = "umar"
  BY <1>1
<1> HIDE DEF s
<1>5. \A b \in Banks : g[b] = h[b]
  <2> TAKE b \in Banks
  <2>1. b \in DOMAIN k /\ b # s[1] /\ k[b] = h[b]
    BY <1>1, <1>3, <1>4
  <2>2. g[b] = k[b]
    BY <1>2, <2>1, Zenon
  <2> QED BY <2>1, <2>2
<1>6. Alike(h, g)
  BY <1>2, <1>3, <1>5 DEF Alike
<1> QED BY <1>6 DEF g, s

(* The ALU in that tick. *)
LEMMA LateCompute ==
  ASSUME NEW h, HasFetched(h), NEW f, NEW a, NEW b
  PROVE  Yields(<<Compute(f, a, b, Mdr) \cup UAddress>>, h, "mdr", One(Result(f, At(h, a), At(h, b))))
<1> DEFINE t == Compute(f, a, b, Mdr)
           p == Latch(Mdr, "ALU")
           u == t \cup UAddress
           y == Result(f, At(h, a), At(h, b))
<1>1. t = {Perform(f), p, Pull("OP1", a), Pull("OP2", b)}
  BY DEF Compute
<1>2. UAddress = {Pull("uABUS", Upc), Latch(The("umar"), "uABUS")}
  BY DEF UAddress, Via
<1>3. p.on = Mdr /\ Storage(Mdr) /\ Mdr[1] = "mdr" /\ Mdr = The("mdr") /\ "mdr" \in Alone
  BY Verbs, StoragesAre DEF Mdr, Alone
<1> HIDE DEF t
<1>4. Changes(t) = {p} /\ Store \notin t
  BY <1>1, Verbs DEF Changes, Mutators
<1>5. Left(p, u, h, At(h, p.on)) = y
  <2>1. u = {Perform(f), p, Pull("OP1", a), Pull("OP2", b), Pull("uABUS", Upc), Latch(The("umar"), "uABUS")}
    BY <1>1, <1>2
  <2> HIDE DEF u
  <2>2. PulledOn(u, h, "OP1") = At(h, a)
    <3>1. Pull("OP1", a) \in u
      BY <2>1
    <3>2. \A r \in u : r.verb = "pull" /\ r.how = "OP1" => r = Pull("OP1", a)
      BY <2>1, Verbs, SMTT(30)
    <3> QED BY <3>1, <3>2, PulledIs
  <2>3. PulledOn(u, h, "OP2") = At(h, b)
    <3>1. Pull("OP2", b) \in u
      BY <2>1
    <3>2. \A r \in u : r.verb = "pull" /\ r.how = "OP2" => r = Pull("OP2", b)
      BY <2>1, Verbs, SMTT(30)
    <3> QED BY <3>1, <3>2, PulledIs
  <2>4. (CHOOSE q \in u : q.verb = "perform") = Perform(f)
    BY <2>1, Verbs, SMTT(30)
  <2>5. (CHOOSE q \in u : q.verb = "perform").how = f
    <3> DEFINE c == CHOOSE q \in u : q.verb = "perform"
    <3>1. c = Perform(f)
      BY <2>4
    <3> HIDE DEF c
    <3>2. c.how = f
      BY <3>1, Verbs
    <3> QED BY <3>2 DEF c
  <2>6. OnPort(u, h, "ALU") = Result((CHOOSE q \in u : q.verb = "perform").how,
                                     PulledOn(u, h, "OP1"), PulledOn(u, h, "OP2"))
    BY OnPortIs, Zenon
  <2>7. OnPort(u, h, "ALU") = y
    BY <2>2, <2>3, <2>5, <2>6, Zenon
  <2> QED BY <2>7, LeftIs
<1>6. \E x : Tick(u, h) = Put(Put(h, The("umar"), x), Mdr, y)
  <2> HIDE DEF p, y
  <2>1. \E x : Tick(u, h) = Put(Put(h, The("umar"), x), p.on, Left(p, u, h, At(h, p.on)))
    BY <1>3, <1>4, LateTick
  <2> QED BY <1>3, <1>5, <2>1
<1> HIDE DEF u, y
<1>7. PICK x : Tick(u, h) = Put(Put(h, The("umar"), x), Mdr, y)
  BY <1>6
<1>8. Leads(<<u>>, h, Put(Put(h, The("umar"), x), Mdr, y))
  BY <1>7, LeadsOne
<1>9. Alike(h, Put(h, The("umar"), x))
  BY PassingAlike, Itself
<1>10. Yields(<<u>>, h, "mdr", One(y))
  BY <1>3, <1>8, <1>9, PutYieldsIn
<1> QED BY <1>10 DEF u, t, y

(* A load that ends with that tick. *)
LEMMA LateLoad ==
  ASSUME NEW h, HasFetched(h), DataTypeOK
  PROVE  Yields(<<Via("ABUS", Gpr(14), The("mar")), {Latch(Addr(0), "READ")} \cup UAddress>>, h,
                "addr", [addr EXCEPT ![0] = Read(reg[14])])
<1> DEFINE a == reg[14]
           mar == The("mar")
           k == Put(h, mar, a)
           p == Latch(Addr(0), "READ")
           t == {p}
           v == t \cup UAddress
           u == Via("ABUS", Gpr(14), mar)
<1>0. a \in Word /\ At(h, Gpr(14)) = a
  BY AtFetched DEF DataTypeOK, RegId
<1> HIDE DEF a
<1>1. Tick(u, h) = k
  <2>1. "ABUS" \in DOMAIN BusWidth /\ Storage(mar)
    BY BusNames, StoragesAre
  <2>2. Tick(u, h) = Put(h, mar, a % 2^BusWidth["ABUS"])
    BY <1>0, <2>1, ViaTick
  <2> HIDE DEF u
  <2> QED BY <1>0, <2>2, WordWidths
<1> HIDE DEF u
<1>2. /\ DOMAIN h = Banks \cup Within /\ DOMAIN h["mar"] = {0} /\ h["mem"] = mem
      /\ "mar" \in DOMAIN h /\ "mem" \in DOMAIN h /\ "mar" \notin Banks /\ mar[1] = "mar" /\ mar[2] = 0
  <2>1. DOMAIN h = Banks \cup Within /\ DOMAIN h["mar"] = {0} /\ h["mem"] = Held["mem"]
    BY DEF HasFetched, Banks
  <2> QED BY <2>1, HeldIs, StoragesAre DEF Banks, Within
<1> HIDE DEF mar
<1>3. /\ DOMAIN k = DOMAIN h
      /\ \A b \in DOMAIN h : k[b] = IF b = mar[1] THEN [h[b] EXCEPT ![mar[2]] = a] ELSE h[b]
  BY PutIs
<1> HIDE DEF k
<1>4. Alike(h, k) /\ k["mem"] = mem /\ k["mar"][0] = a
  BY <1>2, <1>3 DEF Alike
<1>5. \E x : Tick(v, k) = Put(Put(k, The("umar"), x), Addr(0), Read(a))
  <2>1. p.on = Addr(0) /\ Storage(p.on) /\ p.on[1] # "umar" /\ Changes(t) = {p} /\ Store \notin t
    BY Verbs, StoragesAre DEF Changes, Mutators
  <2>2. Left(p, v, k, At(k, p.on)) = Read(a)
    <3>1. Left(p, v, k, At(k, p.on)) = OnPort(v, k, "READ")
      BY LeftIs
    <3> HIDE DEF v
    <3>2. OnPort(v, k, "READ") = IF k.mar[0] \in DOMAIN k.mem THEN k.mem[k.mar[0]] ELSE 0
      BY PortsAre, Zenon
    <3>3. OnPort(v, k, "READ") = Read(a)
      BY <1>4, <3>2 DEF Read
    <3> QED BY <3>1, <3>3
  <2> HIDE DEF p, t
  <2>3. \E x : Tick(v, k) = Put(Put(k, The("umar"), x), p.on, Left(p, v, k, At(k, p.on)))
    BY <2>1, LateTick
  <2> QED BY <2>1, <2>2, <2>3
<1> HIDE DEF v
<1>6. PICK x : Tick(v, k) = Put(Put(k, The("umar"), x), Addr(0), Read(a))
  BY <1>5
<1>7. Leads(<<u, v>>, h, Put(Put(k, The("umar"), x), Addr(0), Read(a)))
  BY <1>1, <1>6, LeadsTwo
<1>8. Alike(h, Put(k, The("umar"), x))
  BY <1>4, PassingAlike
<1>9. Yields(<<u, v>>, h, "addr", [addr EXCEPT ![0] = Read(a)])
  BY <1>7, <1>8, PutYieldsIn
<1> QED BY <1>9 DEF u, v, t, p, mar, a

(* The control points that leave requests for the next fetch. *)
LEMMA UnfinishedTicks ==
  ASSUME NEW h, HasFetched(h), DataTypeOK
  PROVE  /\ Yields(ControlTicks("Addr[0] <- Mem[Reg[14]]"), h, "addr",
                   NewAddr("Addr[0] <- Mem[Reg[14]]"))
         /\ Fault("MDR <- op1 | op2") = "none"
              => Yields(ControlTicks("MDR <- op1 | op2"), h, "mdr", One(NewMdr("MDR <- op1 | op2")))
         /\ Fault("MDR <- op2 - op1") = "none"
              => Yields(ControlTicks("MDR <- op2 - op1"), h, "mdr", One(NewMdr("MDR <- op2 - op1")))
<1> DEFINE After(s) == [s EXCEPT ![Len(s)] = @ \cup UAddress]
<1>0. /\ "Addr[0] <- Mem[Reg[14]]" \in Unfinished
      /\ "MDR <- op1 | op2" \in Unfinished /\ "MDR <- op2 - op1" \in Unfinished
  BY DEF Unfinished
<1>1. \A t : After(<<t>>) = <<t \cup UAddress>>
  OBVIOUS
<1>2. \A t, u : After(<<t, u>>) = <<t, u \cup UAddress>>
  OBVIOUS
<1>3. \A w \in Unfinished : ControlTicks(w) = After(Ticks(w))
  BY Zenon DEF ControlTicks
<1> HIDE DEF After
<1>4. Yields(ControlTicks("Addr[0] <- Mem[Reg[14]]"), h, "addr", NewAddr("Addr[0] <- Mem[Reg[14]]"))
  <2>1. Ticks("Addr[0] <- Mem[Reg[14]]")
          = <<Via("ABUS", Gpr(14), The("mar")), {Latch(Addr(0), "READ")}>>
    BY ZenonT(60) DEF Ticks, Load
  <2>2. NewAddr("Addr[0] <- Mem[Reg[14]]") = [addr EXCEPT ![0] = Read(reg[14])]
    BY ZenonT(60) DEF NewAddr
  <2>3. ControlTicks("Addr[0] <- Mem[Reg[14]]")
          = <<Via("ABUS", Gpr(14), The("mar")), {Latch(Addr(0), "READ")} \cup UAddress>>
    BY <1>0, <1>2, <1>3, <2>1, Zenon
  <2> QED BY <2>2, <2>3, LateLoad, Zenon
<1>5. \A f, a, b : Yields(After(<<Compute(f, a, b, Mdr)>>), h, "mdr", One(Result(f, At(h, a), At(h, b))))
  BY <1>1, LateCompute
<1>6. \A w \in TwoOperandWords :
        Fault(w) = "none" => At(h, OperandAt(1)) = Operand(1) /\ At(h, OperandAt(2)) = Operand(2)
  BY OperandsThere, OperandIsAt
<1>7. "MDR <- op1 | op2" \in TwoOperandWords /\ "MDR <- op2 - op1" \in TwoOperandWords
  BY DEF TwoOperandWords
<1>8. /\ Ticks("MDR <- op1 | op2") = <<Compute("or", OperandAt(1), OperandAt(2), Mdr)>>
      /\ Ticks("MDR <- op2 - op1") = <<Compute("sub", OperandAt(2), OperandAt(1), Mdr)>>
  <2>1. Ticks("MDR <- op1 | op2") = <<Compute("or", OperandAt(1), OperandAt(2), Mdr)>>
    BY ZenonT(60) DEF Ticks
  <2>2. Ticks("MDR <- op2 - op1") = <<Compute("sub", OperandAt(2), OperandAt(1), Mdr)>>
    BY ZenonT(60) DEF Ticks
  <2> QED BY <2>1, <2>2
<1>9. /\ NewMdr("MDR <- op1 | op2") = Or(Operand(1), Operand(2))
      /\ NewMdr("MDR <- op2 - op1") = Sub(Operand(2), Operand(1))
  <2>1. NewMdr("MDR <- op1 | op2") = Or(Operand(1), Operand(2))
    BY ZenonT(60) DEF NewMdr
  <2>2. NewMdr("MDR <- op2 - op1") = Sub(Operand(2), Operand(1))
    BY ZenonT(60) DEF NewMdr
  <2> QED BY <2>1, <2>2
<1>10. \A a, b : Result("or", a, b) = Or(a, b) /\ Result("sub", a, b) = Sub(a, b)
  BY ResultIs
<1>11. Fault("MDR <- op1 | op2") = "none"
         => Yields(ControlTicks("MDR <- op1 | op2"), h, "mdr", One(NewMdr("MDR <- op1 | op2")))
  <2>1. Yields(ControlTicks("MDR <- op1 | op2"), h, "mdr",
               One(Or(At(h, OperandAt(1)), At(h, OperandAt(2)))))
    BY <1>0, <1>3, <1>5, <1>8, <1>10, Zenon
  <2> QED BY <1>6, <1>7, <1>9, <2>1, Zenon
<1>12. Fault("MDR <- op2 - op1") = "none"
         => Yields(ControlTicks("MDR <- op2 - op1"), h, "mdr", One(NewMdr("MDR <- op2 - op1")))
  <2>1. Yields(ControlTicks("MDR <- op2 - op1"), h, "mdr",
               One(Sub(At(h, OperandAt(2)), At(h, OperandAt(1)))))
    BY <1>0, <1>3, <1>5, <1>8, <1>10, Zenon
  <2> QED BY <1>6, <1>7, <1>9, <2>1, Zenon
<1> QED BY <1>4, <1>11, <1>12, Zenon

-----------------------------------------------------------------------------
(* What a control point leaves in every bank. *)

NewTmp(w)  == IF w = "TMP <- MDR" THEN mdr ELSE tmp
NewI(w)    == CASE w = "i <- 00" -> 0 [] w = "i <- i + 1" -> (i + 1) % 4 [] OTHER -> i
(* The registers that DataPath gives no operator of their own. *)
NewUtmp(w) == IF w = "tmp <- cntl[2]" THEN cntl[2] ELSE utmp
NewRegshift(w) == CASE w = "regshift <- MDR" -> mdr
                    [] w = "regshift <- regshift >> 8" -> ShiftRight(regshift, 8)
                    [] OTHER -> regshift

(* What is held once control point w is done, by FabComp. *)
NewHeld(w) ==
  [ pc |-> One(NewPc(w)), ir |-> One(256 * NewOpc(w) + NewModes(w)), mdr |-> One(NewMdr(w)),
    tmp |-> One(NewTmp(w)), reg |-> NewReg(w), val |-> NewVal(w), addr |-> NewAddr(w),
    mem |-> NewMem(w), cntl |-> NewCntl(w), i |-> One(NewI(w)), utmp |-> One(NewUtmp(w)),
    regshift |-> One(NewRegshift(w)),
    upc |-> One(CU!NextUpc), usp |-> One(usp), ustack |-> ustack ]

(* The same, bank by bank. *)
LEMMA NewHeldIs ==
  ASSUME NEW w
  PROVE  /\ NewHeld(w)["pc"] = One(NewPc(w))
         /\ NewHeld(w)["ir"] = One(256 * NewOpc(w) + NewModes(w))
         /\ NewHeld(w)["mdr"] = One(NewMdr(w)) /\ NewHeld(w)["tmp"] = One(NewTmp(w))
         /\ NewHeld(w)["reg"] = NewReg(w) /\ NewHeld(w)["val"] = NewVal(w)
         /\ NewHeld(w)["addr"] = NewAddr(w) /\ NewHeld(w)["mem"] = NewMem(w)
         /\ NewHeld(w)["cntl"] = NewCntl(w) /\ NewHeld(w)["i"] = One(NewI(w))
         /\ NewHeld(w)["utmp"] = One(NewUtmp(w)) /\ NewHeld(w)["regshift"] = One(NewRegshift(w))
         /\ NewHeld(w)["upc"] = One(CU!NextUpc) /\ NewHeld(w)["usp"] = One(usp)
         /\ NewHeld(w)["ustack"] = ustack
BY DEF NewHeld

(* The transfer of a control point, written as that. *)
LEMMA TransferIs ==
  ASSUME NEW w, Transfer(w), upc' = CU!NextUpc, UNCHANGED <<usp, ustack>>
  PROVE  Held' = NewHeld(w)
<1>1. /\ tmp' = NewTmp(w) /\ i' = NewI(w) /\ utmp' = NewUtmp(w) /\ regshift' = NewRegshift(w)
      /\ modes' = NewModes(w)
  BY Zenon DEF Transfer, NewTmp, NewI, NewUtmp, NewRegshift, NewModes
<1>2. /\ mdr' = NewMdr(w) /\ addr' = NewAddr(w) /\ val' = NewVal(w) /\ reg' = NewReg(w)
      /\ mem' = NewMem(w) /\ pc' = NewPc(w) /\ cntl' = NewCntl(w) /\ opc' = NewOpc(w)
  BY Zenon DEF Transfer
<1> QED BY <1>1, <1>2, Zenon DEF Held, NewHeld

(* All the words of each register. *)
AddrAll == AddrWords \cup {"Addr[0] <- Mem[Reg[14]]"}
MdrAll  == MdrWords \cup {"MDR <- op1 | op2", "MDR <- op2 - op1"}
IWords  == {"i <- 00", "i <- i + 1"}
RegshiftWords == {"regshift <- MDR", "regshift <- regshift >> 8"}

(* A control point of none of a register's words leaves it alone. *)
LEMMA LeftAlone ==
  ASSUME NEW w
  PROVE  /\ w \notin AddrAll => NewAddr(w) = addr
         /\ w \notin MdrAll \cup BumpWords => NewMdr(w) = mdr
         /\ w \notin CntlWords => NewCntl(w) = cntl
         /\ w \notin ValWords => NewVal(w) = val
         /\ w \notin RegWords \cup BumpWords => NewReg(w) = reg
         /\ w \notin PcWords => NewPc(w) = pc
         /\ w \notin IrWords => NewOpc(w) = opc /\ NewModes(w) = modes
         /\ w \notin MemWords => NewMem(w) = mem
         /\ w \notin IWords => NewI(w) = i
         /\ w \notin RegshiftWords => NewRegshift(w) = regshift
         /\ w \notin {"TMP <- MDR"} => NewTmp(w) = tmp
         /\ w \notin {"tmp <- cntl[2]"} => NewUtmp(w) = utmp
<1>1. w \notin AddrAll => NewAddr(w) = addr
  BY ZenonT(60) DEF AddrAll, AddrWords, NewAddr
<1>2. w \notin MdrAll \cup BumpWords => NewMdr(w) = mdr
  BY ZenonT(60) DEF MdrAll, MdrWords, BumpWords, NewMdr
<1>3. w \notin CntlWords => NewCntl(w) = cntl
  BY ZenonT(60) DEF CntlWords, NewCntl, CntlAfter
<1>4. w \notin ValWords => NewVal(w) = val
  BY ZenonT(60) DEF ValWords, NewVal
<1>5. w \notin RegWords \cup BumpWords => NewReg(w) = reg
  BY ZenonT(60) DEF RegWords, BumpWords, NewReg
<1>6. w \notin PcWords => NewPc(w) = pc
  BY ZenonT(60) DEF PcWords, NewPc
<1>7. w \notin IrWords => NewOpc(w) = opc /\ NewModes(w) = modes
  BY ZenonT(60) DEF IrWords, NewOpc, NewModes
<1>8. w \notin MemWords => NewMem(w) = mem
  BY ZenonT(60) DEF MemWords, NewMem
<1>9. w \notin IWords => NewI(w) = i
  BY ZenonT(60) DEF IWords, NewI
<1>10. w \notin RegshiftWords => NewRegshift(w) = regshift
  BY ZenonT(60) DEF RegshiftWords, NewRegshift
<1>11. /\ w \notin {"TMP <- MDR"} => NewTmp(w) = tmp
       /\ w \notin {"tmp <- cntl[2]"} => NewUtmp(w) = utmp
  BY ZenonT(60) DEF NewTmp, NewUtmp
<1> QED BY <1>1, <1>2, <1>3, <1>4, <1>5, <1>6, <1>7, <1>8, <1>9, <1>10, <1>11, Zenon

(* The words of each register, and of two at once. *)
Sorts == { "addr", "mdr", "cntl", "val", "reg", "pc", "ir", "mem", "i", "regshift", "tmp", "utmp", "both" }
WordsOf(b) ==
  CASE b = "addr" -> AddrAll
    [] b = "mdr" -> MdrAll
    [] b = "cntl" -> CntlWords
    [] b = "val" -> ValWords
    [] b = "reg" -> RegWords
    [] b = "pc" -> PcWords
    [] b = "ir" -> IrWords
    [] b = "mem" -> MemWords
    [] b = "i" -> IWords
    [] b = "regshift" -> RegshiftWords
    [] b = "tmp" -> {"TMP <- MDR"}
    [] b = "utmp" -> {"tmp <- cntl[2]"}
    [] b = "both" -> BumpWords

(* The same, one by one. *)
LEMMA WordsOfIs ==
  /\ WordsOf("addr") = AddrAll
  /\ WordsOf("mdr") = MdrAll
  /\ WordsOf("cntl") = CntlWords
  /\ WordsOf("val") = ValWords
  /\ WordsOf("reg") = RegWords
  /\ WordsOf("pc") = PcWords
  /\ WordsOf("ir") = IrWords
  /\ WordsOf("mem") = MemWords
  /\ WordsOf("i") = IWords
  /\ WordsOf("regshift") = RegshiftWords
  /\ WordsOf("tmp") = {"TMP <- MDR"}
  /\ WordsOf("utmp") = {"tmp <- cntl[2]"}
  /\ WordsOf("both") = BumpWords
BY DEF WordsOf

(* No control point is of two sorts. *)
LEMMA OfOneSort ==
  ASSUME NEW w
  PROVE  \A b, c \in Sorts : w \in WordsOf(b) /\ w \in WordsOf(c) => b = c
<1>1. w \in AddrAll => /\ w \notin MdrAll
                    /\ w \notin CntlWords
                    /\ w \notin ValWords
                    /\ w \notin RegWords
                    /\ w \notin PcWords
                    /\ w \notin IrWords
                    /\ w \notin MemWords
                    /\ w \notin IWords
                    /\ w \notin RegshiftWords
                    /\ w \notin {"TMP <- MDR"}
                    /\ w \notin {"tmp <- cntl[2]"}
                    /\ w \notin BumpWords
  BY ZenonT(60)
     DEF AddrAll, MdrAll, CntlWords, ValWords, RegWords, PcWords, IrWords, MemWords, IWords,
     RegshiftWords, BumpWords, AddrWords, MdrWords
<1>2. w \in MdrAll => /\ w \notin CntlWords
                    /\ w \notin ValWords
                    /\ w \notin RegWords
                    /\ w \notin PcWords
                    /\ w \notin IrWords
                    /\ w \notin MemWords
                    /\ w \notin IWords
                    /\ w \notin RegshiftWords
                    /\ w \notin {"TMP <- MDR"}
                    /\ w \notin {"tmp <- cntl[2]"}
                    /\ w \notin BumpWords
  BY ZenonT(60)
     DEF MdrAll, CntlWords, ValWords, RegWords, PcWords, IrWords, MemWords, IWords,
     RegshiftWords, BumpWords, MdrWords
<1>3. w \in CntlWords => /\ w \notin ValWords
                    /\ w \notin RegWords
                    /\ w \notin PcWords
                    /\ w \notin IrWords
                    /\ w \notin MemWords
                    /\ w \notin IWords
                    /\ w \notin RegshiftWords
                    /\ w \notin {"TMP <- MDR"}
                    /\ w \notin {"tmp <- cntl[2]"}
                    /\ w \notin BumpWords
  BY ZenonT(60)
     DEF CntlWords, ValWords, RegWords, PcWords, IrWords, MemWords, IWords, RegshiftWords,
     BumpWords
<1>4. w \in ValWords => /\ w \notin RegWords
                    /\ w \notin PcWords
                    /\ w \notin IrWords
                    /\ w \notin MemWords
                    /\ w \notin IWords
                    /\ w \notin RegshiftWords
                    /\ w \notin {"TMP <- MDR"}
                    /\ w \notin {"tmp <- cntl[2]"}
                    /\ w \notin BumpWords
  BY ZenonT(60) DEF ValWords, RegWords, PcWords, IrWords, MemWords, IWords, RegshiftWords, BumpWords
<1>5. w \in RegWords => /\ w \notin PcWords
                    /\ w \notin IrWords
                    /\ w \notin MemWords
                    /\ w \notin IWords
                    /\ w \notin RegshiftWords
                    /\ w \notin {"TMP <- MDR"}
                    /\ w \notin {"tmp <- cntl[2]"}
                    /\ w \notin BumpWords
  BY ZenonT(60) DEF RegWords, PcWords, IrWords, MemWords, IWords, RegshiftWords, BumpWords
<1>6. w \in PcWords => /\ w \notin IrWords
                    /\ w \notin MemWords
                    /\ w \notin IWords
                    /\ w \notin RegshiftWords
                    /\ w \notin {"TMP <- MDR"}
                    /\ w \notin {"tmp <- cntl[2]"}
                    /\ w \notin BumpWords
  BY ZenonT(60) DEF PcWords, IrWords, MemWords, IWords, RegshiftWords, BumpWords
<1>7. w \in IrWords => /\ w \notin MemWords
                    /\ w \notin IWords
                    /\ w \notin RegshiftWords
                    /\ w \notin {"TMP <- MDR"}
                    /\ w \notin {"tmp <- cntl[2]"}
                    /\ w \notin BumpWords
  BY ZenonT(60) DEF IrWords, MemWords, IWords, RegshiftWords, BumpWords
<1>8. w \in MemWords => /\ w \notin IWords
                    /\ w \notin RegshiftWords
                    /\ w \notin {"TMP <- MDR"}
                    /\ w \notin {"tmp <- cntl[2]"}
                    /\ w \notin BumpWords
  BY ZenonT(60) DEF MemWords, IWords, RegshiftWords, BumpWords
<1>9. w \in IWords => /\ w \notin RegshiftWords
                    /\ w \notin {"TMP <- MDR"}
                    /\ w \notin {"tmp <- cntl[2]"}
                    /\ w \notin BumpWords
  BY ZenonT(60) DEF IWords, RegshiftWords, BumpWords
<1>10. w \in RegshiftWords => /\ w \notin {"TMP <- MDR"}
                    /\ w \notin {"tmp <- cntl[2]"}
                    /\ w \notin BumpWords
  BY ZenonT(60) DEF RegshiftWords, BumpWords
<1>11. w \in {"TMP <- MDR"} => /\ w \notin {"tmp <- cntl[2]"}
                    /\ w \notin BumpWords
  BY ZenonT(60) DEF BumpWords
<1>12. w \in {"tmp <- cntl[2]"} => /\ w \notin BumpWords
  BY ZenonT(60) DEF BumpWords
<1> QED BY <1>1, <1>2, <1>3, <1>4, <1>5, <1>6, <1>7, <1>8, <1>9, <1>10, <1>11, <1>12, WordsOfIs, ZenonT(60)
   DEF Sorts

(* A control point changes only the registers of its sort. *)
LEMMA OthersStay ==
  ASSUME NEW w, NEW b \in Sorts, w \in WordsOf(b)
  PROVE  /\ b # "both" => \A c \in Banks \ {b, "upc"} : NewHeld(w)[c] = Held[c]
         /\ b = "both" => \A c \in Banks \ {"mdr", "reg", "upc"} : NewHeld(w)[c] = Held[c]
<1>1. \A c \in Sorts : c # b => w \notin WordsOf(c)
  BY OfOneSort, Zenon
<1>2. /\ b # "addr" => NewAddr(w) = addr
      /\ b \notin {"mdr", "both"} => NewMdr(w) = mdr
      /\ b # "cntl" => NewCntl(w) = cntl
      /\ b # "val" => NewVal(w) = val
      /\ b \notin {"reg", "both"} => NewReg(w) = reg
      /\ b # "pc" => NewPc(w) = pc
      /\ b # "ir" => NewOpc(w) = opc /\ NewModes(w) = modes
      /\ b # "mem" => NewMem(w) = mem
      /\ b # "i" => NewI(w) = i
      /\ b # "regshift" => NewRegshift(w) = regshift
      /\ b # "tmp" => NewTmp(w) = tmp
      /\ b # "utmp" => NewUtmp(w) = utmp
  BY <1>1, LeftAlone, WordsOfIs, Zenon DEF Sorts
<1>3. /\ NewHeld(w)["usp"] = Held["usp"] /\ NewHeld(w)["ustack"] = Held["ustack"]
      /\ b # "addr" => NewHeld(w)["addr"] = Held["addr"]
      /\ b \notin {"mdr", "both"} => NewHeld(w)["mdr"] = Held["mdr"]
      /\ b # "cntl" => NewHeld(w)["cntl"] = Held["cntl"]
      /\ b # "val" => NewHeld(w)["val"] = Held["val"]
      /\ b \notin {"reg", "both"} => NewHeld(w)["reg"] = Held["reg"]
      /\ b # "pc" => NewHeld(w)["pc"] = Held["pc"]
      /\ b # "ir" => NewHeld(w)["ir"] = Held["ir"]
      /\ b # "mem" => NewHeld(w)["mem"] = Held["mem"]
      /\ b # "i" => NewHeld(w)["i"] = Held["i"]
      /\ b # "regshift" => NewHeld(w)["regshift"] = Held["regshift"]
      /\ b # "tmp" => NewHeld(w)["tmp"] = Held["tmp"]
      /\ b # "utmp" => NewHeld(w)["utmp"] = Held["utmp"]
  BY <1>2, NewHeldIs, HeldIs
<1> QED BY <1>3, Zenon DEF Banks, Sorts

(* Ticks s, from h, leave in every bank what control point w does. *)
Lands(s, h, w) == \E g : Leads(s, h, g) /\ \A b \in Banks : g[b] = NewHeld(w)[b]

(* It is enough to know the bank that a control point changes, *)
LEMMA YieldsLands ==
  ASSUME NEW h, HasFetched(h), NEW s, NEW w, NEW b \in Sorts \ {"both"}, w \in WordsOf(b),
         Yields(s, h, b, NewHeld(w)[b])
  PROVE  Lands(s, h, w)
<1>1. PICK g : /\ Leads(s, h, g) /\ g[b] = NewHeld(w)[b]
               /\ \A c \in Banks \ {b} : g[c] = h[c]
  BY Zenon DEF Yields
<1>2. \A c \in Banks \ {b, "upc"} : NewHeld(w)[c] = Held[c]
  BY OthersStay
<1>3. /\ \A c \in Banks \ {"upc"} : h[c] = Held[c]
      /\ h["upc"] = One(CU!NextUpc)
  BY Zenon DEF HasFetched
<1>4. NewHeld(w)["upc"] = One(CU!NextUpc)
  BY NewHeldIs
<1>5. b # "upc"
  BY DEF Sorts
<1>6. ASSUME NEW c \in Banks PROVE g[c] = NewHeld(w)[c]
  BY <1>1, <1>2, <1>3, <1>4, <1>5, Zenon
<1> QED BY <1>1, <1>6, Zenon DEF Lands

(* or both of them. *)
LEMMA YieldsBothLands ==
  ASSUME NEW h, HasFetched(h), NEW s, NEW w \in BumpWords,
         YieldsBoth(s, h, NewHeld(w)["mdr"], NewHeld(w)["reg"])
  PROVE  Lands(s, h, w)
<1>1. PICK g : /\ Leads(s, h, g) /\ g["mdr"] = NewHeld(w)["mdr"] /\ g["reg"] = NewHeld(w)["reg"]
               /\ \A c \in Banks \ {"mdr", "reg"} : g[c] = h[c]
  BY Zenon DEF YieldsBoth
<1>2. \A c \in Banks \ {"mdr", "reg", "upc"} : NewHeld(w)[c] = Held[c]
  <2>1. "both" \in Sorts /\ w \in WordsOf("both")
    BY WordsOfIs DEF Sorts
  <2> QED BY <2>1, OthersStay
<1>3. /\ \A c \in Banks \ {"upc"} : h[c] = Held[c]
      /\ h["upc"] = One(CU!NextUpc)
  BY Zenon DEF HasFetched
<1>4. NewHeld(w)["upc"] = One(CU!NextUpc)
  BY NewHeldIs
<1>6. ASSUME NEW c \in Banks PROVE g[c] = NewHeld(w)[c]
  BY <1>1, <1>2, <1>3, <1>4, Zenon
<1> QED BY <1>1, <1>6, Zenon DEF Lands

(* What is no control point does nothing, but to halt the machine. *)
LEMMA NoneElse ==
  ASSUME NEW w, \A b \in Sorts : w \notin WordsOf(b)
  PROVE  Ticks(w) = <<>> /\ \A b \in Banks \ {"upc"} : NewHeld(w)[b] = Held[b]
<1>1. /\ w \notin AddrAll /\ w \notin MdrAll /\ w \notin CntlWords /\ w \notin ValWords
      /\ w \notin RegWords /\ w \notin PcWords /\ w \notin IrWords /\ w \notin MemWords
      /\ w \notin IWords /\ w \notin RegshiftWords /\ w \notin {"TMP <- MDR"}
      /\ w \notin {"tmp <- cntl[2]"} /\ w \notin BumpWords
  BY WordsOfIs, Zenon DEF Sorts
<1>2. Ticks(w) = <<>>
  BY <1>1, ZenonT(120) DEF Ticks, AddrAll, AddrWords, MdrAll, MdrWords, CntlWords, ValWords, RegWords,
     PcWords, IrWords, MemWords, IWords, RegshiftWords, BumpWords
<1>3. /\ NewAddr(w) = addr /\ NewMdr(w) = mdr /\ NewCntl(w) = cntl /\ NewVal(w) = val
      /\ NewReg(w) = reg /\ NewPc(w) = pc /\ NewOpc(w) = opc /\ NewModes(w) = modes
      /\ NewMem(w) = mem /\ NewI(w) = i /\ NewRegshift(w) = regshift /\ NewTmp(w) = tmp
      /\ NewUtmp(w) = utmp
  BY <1>1, LeftAlone, Zenon
<1>4. \A b \in Banks \ {"upc"} : NewHeld(w)[b] = Held[b]
  BY <1>3, NewHeldIs, HeldIs DEF Banks
<1> QED BY <1>2, <1>4

(* Most control points end with a tick. *)
LEMMA Finished == \A w : w \notin Unfinished => ControlTicks(w) = Ticks(w)
BY Zenon DEF ControlTicks

(* The ticks of a control point do what FabComp says it does. *)
LEMMA ControlLands ==
  ASSUME NEW h, HasFetched(h), DataTypeOK, NEW w, Fault(w) = "none"
  PROVE  Lands(ControlTicks(w), h, w)
<1>1. CASE \A b \in Sorts : w \notin WordsOf(b)
  <2>1. w \notin Unfinished
    <3>1. w \notin AddrAll /\ w \notin MdrAll
      BY <1>1, WordsOfIs, Zenon DEF Sorts
    <3> QED BY <3>1, Zenon DEF AddrAll, MdrAll, Unfinished
  <2>2. ControlTicks(w) = <<>> /\ \A b \in Banks \ {"upc"} : NewHeld(w)[b] = Held[b]
    BY <1>1, <2>1, Finished, NoneElse
  <2>3. Leads(<<>>, h, h)
    BY LeadsNone
  <2>4. \A b \in Banks : h[b] = NewHeld(w)[b]
    BY <2>2, NewHeldIs DEF HasFetched
  <2> QED BY <2>2, <2>3, <2>4, Zenon DEF Lands
<1>2. CASE w \in BumpWords
  <2>1. w \notin Unfinished
    BY <1>2, Zenon DEF BumpWords, Unfinished
  <2>2. YieldsBoth(Ticks(w), h, One(NewMdr(w)), NewReg(w))
    BY <1>2, BumpTicks
  <2>3. YieldsBoth(ControlTicks(w), h, NewHeld(w)["mdr"], NewHeld(w)["reg"])
    BY <2>1, <2>2, Finished, NewHeldIs, Zenon
  <2> QED BY <1>2, <2>3, YieldsBothLands
<1>3. ASSUME NEW b \in Sorts \ {"both"}, w \in WordsOf(b)
      PROVE  Lands(ControlTicks(w), h, w)
  <2> SUFFICES Yields(ControlTicks(w), h, b, NewHeld(w)[b])
    BY <1>3, YieldsLands
  <2>1. w \in AddrAll => Yields(ControlTicks(w), h, "addr", NewAddr(w))
    <3>1. w \in AddrWords => w \notin Unfinished /\ Yields(Ticks(w), h, "addr", NewAddr(w))
      BY AddrTicks, Zenon DEF AddrWords, Unfinished
    <3> QED BY <3>1, Finished, UnfinishedTicks, Zenon DEF AddrAll
  <2>2. w \in MdrAll => Yields(ControlTicks(w), h, "mdr", One(NewMdr(w)))
    <3>1. w \in MdrWords => w \notin Unfinished /\ Yields(Ticks(w), h, "mdr", One(NewMdr(w)))
      BY MdrTicks, Zenon DEF MdrWords, Unfinished
    <3> QED BY <3>1, Finished, UnfinishedTicks, Zenon DEF MdrAll
  <2>3. w \in CntlWords => Yields(ControlTicks(w), h, "cntl", NewCntl(w))
    <3>1. w \in CntlWords => w \notin Unfinished /\ Yields(Ticks(w), h, "cntl", NewCntl(w))
      BY CntlTicks, Zenon DEF CntlWords, Unfinished
    <3> QED BY <3>1, Finished, Zenon
  <2>4. w \in ValWords => Yields(ControlTicks(w), h, "val", NewVal(w))
    <3>1. w \in ValWords => w \notin Unfinished /\ Yields(Ticks(w), h, "val", NewVal(w))
      BY ValTicks, Zenon DEF ValWords, Unfinished
    <3> QED BY <3>1, Finished, Zenon
  <2>5. w \in RegWords => Yields(ControlTicks(w), h, "reg", NewReg(w))
    <3>1. w \in RegWords => w \notin Unfinished /\ Yields(Ticks(w), h, "reg", NewReg(w))
      BY RegTicks, Zenon DEF RegWords, Unfinished
    <3> QED BY <3>1, Finished, Zenon
  <2>6. w \in PcWords => Yields(ControlTicks(w), h, "pc", One(NewPc(w)))
    <3>1. w \in PcWords => w \notin Unfinished /\ Yields(Ticks(w), h, "pc", One(NewPc(w)))
      BY PcTicks, Zenon DEF PcWords, Unfinished
    <3> QED BY <3>1, Finished, Zenon
  <2>7. w \in IrWords => Yields(ControlTicks(w), h, "ir", One(256 * NewOpc(w) + NewModes(w)))
    <3>1. w \in IrWords => w \notin Unfinished
      BY Zenon DEF IrWords, Unfinished
    <3>2. w \in IrWords => Yields(Ticks(w), h, "ir", One(256 * NewOpc(w) + NewModes(w)))
      BY IrTicks
    <3> QED BY <3>1, <3>2, Finished, Zenon
  <2>8. w \in MemWords => Yields(ControlTicks(w), h, "mem", NewMem(w))
    <3>1. w \in MemWords => w \notin Unfinished /\ Yields(Ticks(w), h, "mem", NewMem(w))
      BY MemTicks, Zenon DEF MemWords, Unfinished
    <3> QED BY <3>1, Finished, Zenon
  <2>9. w \in IWords => Yields(ControlTicks(w), h, "i", One(NewI(w)))
    <3>1. w \in IWords => w \notin Unfinished /\ Yields(Ticks(w), h, "i", One(NewI(w)))
      BY OtherTicks, Zenon DEF IWords, Unfinished, NewI
    <3> QED BY <3>1, Finished, Zenon
  <2>10. w \in RegshiftWords => Yields(ControlTicks(w), h, "regshift", One(NewRegshift(w)))
    <3>1. w \in RegshiftWords
            => w \notin Unfinished /\ Yields(Ticks(w), h, "regshift", One(NewRegshift(w)))
      BY OtherTicks, Zenon DEF RegshiftWords, Unfinished, NewRegshift
    <3> QED BY <3>1, Finished, Zenon
  <2>11. w \in {"TMP <- MDR"} => Yields(ControlTicks(w), h, "tmp", One(NewTmp(w)))
    <3>1. w \in {"TMP <- MDR"} => w \notin Unfinished /\ Yields(Ticks(w), h, "tmp", One(NewTmp(w)))
      BY OtherTicks, Zenon DEF Unfinished, NewTmp
    <3> QED BY <3>1, Finished, Zenon
  <2>12. w \in {"tmp <- cntl[2]"} => Yields(ControlTicks(w), h, "utmp", One(NewUtmp(w)))
    <3>1. w \in {"tmp <- cntl[2]"} => w \notin Unfinished /\ Yields(Ticks(w), h, "utmp", One(NewUtmp(w)))
      BY OtherTicks, Zenon DEF Unfinished, NewUtmp
    <3> QED BY <3>1, Finished, Zenon
  <2> DEFINE Y(c) == w \in WordsOf(c) => Yields(ControlTicks(w), h, c, NewHeld(w)[c])
  <2>13. /\ Y("addr") /\ Y("mdr") /\ Y("cntl") /\ Y("val")
         /\ Y("reg") /\ Y("pc") /\ Y("ir") /\ Y("mem")
         /\ Y("i") /\ Y("regshift") /\ Y("tmp") /\ Y("utmp")
    <3>1. Y("addr")
      BY <2>1, WordsOfIs, NewHeldIs, Zenon
    <3>2. Y("mdr")
      BY <2>2, WordsOfIs, NewHeldIs, Zenon
    <3>3. Y("cntl")
      BY <2>3, WordsOfIs, NewHeldIs, Zenon
    <3>4. Y("val")
      BY <2>4, WordsOfIs, NewHeldIs, Zenon
    <3>5. Y("reg")
      BY <2>5, WordsOfIs, NewHeldIs, Zenon
    <3>6. Y("pc")
      BY <2>6, WordsOfIs, NewHeldIs, Zenon
    <3>7. Y("ir")
      BY <2>7, WordsOfIs, NewHeldIs, Zenon
    <3>8. Y("mem")
      BY <2>8, WordsOfIs, NewHeldIs, Zenon
    <3>9. Y("i")
      BY <2>9, WordsOfIs, NewHeldIs, Zenon
    <3>10. Y("regshift")
      BY <2>10, WordsOfIs, NewHeldIs, Zenon
    <3>11. Y("tmp")
      BY <2>11, WordsOfIs, NewHeldIs, Zenon
    <3>12. Y("utmp")
      BY <2>12, WordsOfIs, NewHeldIs, Zenon
    <3> QED BY <3>1, <3>2, <3>3, <3>4, <3>5, <3>6, <3>7, <3>8, <3>9, <3>10, <3>11, <3>12
  <2> HIDE DEF Y
  <2>14. Y(b)
    BY <2>13, Zenon DEF Sorts
  <2> QED BY <1>3, <2>14, Zenon DEF Y
<1> QED BY <1>1, <1>2, <1>3, WordsOfIs, Zenon

-----------------------------------------------------------------------------
(* The sequencer's ticks. *)

(* What is held before the last ticks of a jump or call. *)
Ready(h) ==
  /\ DOMAIN h = Banks \cup Within
  /\ h["upc"] = One(CU!NextUpc) /\ h["usp"] = One(usp) /\ h["ustack"] = ustack
  /\ DOMAIN h["ujmar"] = {0}

(* Ticks s, from h, leave a in uPC, p in uSP and t in the microstack. *)
Sends(s, h, a, p, t) ==
  \E g : /\ Leads(s, h, g)
         /\ g["upc"] = One(a) /\ g["usp"] = One(p) /\ g["ustack"] = t
         /\ \A b \in Banks \ {"upc", "usp", "ustack"} : g[b] = h[b]

(* It is held after the fetch. *)
LEMMA FetchedReady == ASSUME NEW h, HasFetched(h) PROVE Ready(h)
<1>1. \A b \in Banks \ {"upc"} : h[b] = Held[b]
  BY DEF HasFetched
<1>2. "usp" \in Banks \ {"upc"} /\ "ustack" \in Banks \ {"upc"}
  BY DEF Banks
<1>3. h["usp"] = One(usp) /\ h["ustack"] = ustack
  BY <1>1, <1>2, HeldIs, Zenon
<1> QED BY <1>3, Zenon DEF Ready, HasFetched

(* A jump: the table is looked up, then uPC latches. *)
LEMMA JumpSends ==
  ASSUME NEW h, Ready(h), NEW q, NEW x, At(h, q) = x
  PROVE  Sends(<<Lookup(q), {Latch(Upc, "jREAD")}>>, h, CU!Target(x % 128), usp, ustack)
<1> DEFINE mar == The("ujmar")
           k == Put(h, mar, x % 128)
           u == Lookup(q)
           t == {Latch(Upc, "jREAD")}
           a == CU!Target(x % 128)
           g == Put(k, Upc, a)
<1>1. Tick(u, h) = k
  <2>1. "uJBUS" \in DOMAIN BusWidth /\ Storage(mar)
    BY BusNames, StoragesAre
  <2>2. Tick(u, h) = Put(h, mar, At(h, q) % 2^BusWidth["uJBUS"])
    BY <2>1, ViaTick DEF Lookup
  <2> HIDE DEF u
  <2> QED BY <2>2, SmallWidths
<1> HIDE DEF u
<1>2. /\ DOMAIN h = Banks \cup Within /\ DOMAIN h["ujmar"] = {0}
      /\ "ujmar" \in DOMAIN h /\ "ujmar" \notin Banks /\ mar[1] = "ujmar" /\ mar[2] = 0
      /\ "upc" \in Banks /\ "usp" \in Banks /\ "ustack" \in Banks
  BY StoragesAre DEF Ready, Banks, Within
<1> HIDE DEF mar
<1>3. /\ DOMAIN k = DOMAIN h
      /\ \A b \in DOMAIN h : k[b] = IF b = mar[1] THEN [h[b] EXCEPT ![mar[2]] = x % 128] ELSE h[b]
  BY PutIs
<1> HIDE DEF k
<1>4. k["ujmar"][0] = x % 128 /\ \A b \in Banks : k[b] = h[b]
  <2>1. k["ujmar"] = [h["ujmar"] EXCEPT ![0] = x % 128]
    BY <1>2, <1>3
  <2>2. k["ujmar"][0] = x % 128
    BY <1>2, <2>1
  <2>3. \A b \in Banks : b \in DOMAIN h /\ b # mar[1]
    BY <1>2
  <2> QED BY <1>3, <2>2, <2>3, Zenon
<1>5. Tick(t, k) = g
  <2>1. Tick(t, k) = Put(k, Upc, OnPort(t, k, "jREAD"))
    <3>1. Storage(Upc)
      BY StoragesAre DEF Upc
    <3> QED BY <3>1, AloneTick
  <2> HIDE DEF t
  <2>2. OnPort(t, k, "jREAD") = CU!Target(k.ujmar[0])
    BY PortsAre, Zenon
  <2> QED BY <1>4, <2>1, <2>2
<1> HIDE DEF t, a
<1>6. Leads(<<u, t>>, h, g)
  BY <1>1, <1>5, LeadsTwo
<1>7. k["upc"] = One(CU!NextUpc) /\ k["usp"] = One(usp) /\ k["ustack"] = ustack
  BY <1>2, <1>4 DEF Ready
<1>8. g["upc"] = One(a) /\ \A b \in DOMAIN k : b # "upc" => g[b] = k[b]
  <2>1. "upc" \in DOMAIN k
    BY <1>2, <1>3
  <2> QED BY <1>7, <2>1, PutThe DEF Upc
<1> HIDE DEF g
<1>9. g["usp"] = One(usp) /\ g["ustack"] = ustack
      /\ \A b \in Banks \ {"upc", "usp", "ustack"} : g[b] = h[b]
  BY <1>2, <1>3, <1>4, <1>7, <1>8
<1>10. Sends(<<u, t>>, h, a, usp, ustack)
  BY <1>6, <1>8, <1>9, Zenon DEF Sends
<1> QED BY <1>10 DEF u, t, a

(* The microprogram begins again. *)
LEMMA RestartSends ==
  ASSUME NEW h, Ready(h)
  PROVE  Sends(<<{Change(Upc, "clear")}>>, h, 0, usp, ustack)
<1> DEFINE t == {Change(Upc, "clear")}
           g == Put(h, Upc, 0)
<1>1. Leads(<<t>>, h, g)
  <2>1. Tick(t, h) = g
    <3>1. Storage(Upc)
      BY StoragesAre DEF Upc
    <3>2. Tick(t, h) = Put(h, Upc, ByItself(Upc[1], "clear", At(h, Upc)))
      BY <3>1, AloneTick
    <3> QED BY <3>2, ByItselfIs
  <2> HIDE DEF t, g
  <2> QED BY <2>1, LeadsOne
<1>2. /\ DOMAIN h = Banks \cup Within
      /\ "upc" \in Banks /\ "usp" \in Banks /\ "ustack" \in Banks
  BY DEF Ready, Banks
<1>3. h["upc"] = One(CU!NextUpc) /\ h["usp"] = One(usp) /\ h["ustack"] = ustack
  BY DEF Ready
<1>4. g["upc"] = One(0) /\ \A b \in DOMAIN h : b # "upc" => g[b] = h[b]
  <2>1. "upc" \in DOMAIN h
    BY <1>2
  <2> QED BY <1>3, <2>1, PutThe DEF Upc
<1> HIDE DEF g, t
<1>5. Sends(<<t>>, h, 0, usp, ustack)
  BY <1>1, <1>2, <1>3, <1>4, Zenon DEF Sends
<1> QED BY <1>5 DEF t

(* uprocedure_call: the address after the call is saved while the table is looked up. *)
LEMMA CallSends ==
  ASSUME NEW h, Ready(h), NEW q, NEW x, At(h, q) = x, upc \in CU!UAddr
  PROVE  Sends(CallTicks(q), h, CU!Target(x % 128), (usp + 1) % 8,
               [ustack EXCEPT ![usp] = CU!NextUpc])
<1> DEFINE mar == The("ujmar")
           s == <<"ustack", usp>>
           r == Latch(s, "uABUS")
           p == Latch(mar, "uJBUS")
           u == Via("uABUS", Upc, s) \cup Lookup(q)
           k == Put(Put(h, s, CU!NextUpc), mar, x % 128)
<1>0. /\ DOMAIN h = Banks \cup Within /\ DOMAIN h["ujmar"] = {0}
      /\ "ujmar" \in DOMAIN h /\ "ujmar" \notin Banks /\ mar[1] = "ujmar" /\ mar[2] = 0
      /\ "upc" \in Banks /\ "usp" \in Banks /\ "ustack" \in Banks
      /\ Storage(mar) /\ Storage(s) /\ s[1] = "ustack" /\ s[2] = usp
  BY StoragesAre DEF Ready, Banks, Within, Storage
<1>1. At(h, Upc) = CU!NextUpc /\ CU!NextUpc \in CU!UAddr
  <2>1. h["upc"] = One(CU!NextUpc)
    BY DEF Ready
  <2>2. At(h, Upc) = CU!NextUpc
    BY <2>1, OneIs, StoragesAre DEF At, Upc
  <2> QED BY <2>2, SMTT(30) DEF CU!NextUpc, CU!After, CU!UAddr
<1> HIDE DEF mar, s
<1>2. u = {Pull("uABUS", Upc), r, Pull("uJBUS", q), p}
  BY DEF Via, Lookup, mar
<1> HIDE DEF u
<1>3. /\ r.on = s /\ p.on = mar /\ r.on[1] # p.on[1] /\ Changes(u) = {r, p} /\ Store \notin u
  <2>1. r.on = s /\ p.on = mar /\ Changes(u) = {r, p} /\ Store \notin u
    BY <1>2, Verbs DEF Changes, Mutators
  <2> QED BY <2>1, <1>0
<1>4. Left(r, u, h, At(h, r.on)) = CU!NextUpc
  <2>1. PulledOn(u, h, "uABUS") = CU!NextUpc
    BY <1>1, <1>2, Verbs, PulledIs
  <2>2. Left(r, u, h, At(h, r.on)) = OnPort(u, h, "uABUS")
    BY LeftIs
  <2>3. OnPort(u, h, "uABUS") = PulledOn(u, h, "uABUS") % 2^BusWidth["uABUS"]
    BY OnPortIs, BusNames
  <2>4. CU!NextUpc % 2^BusWidth["uABUS"] = CU!NextUpc
    BY <1>1, MicroWidths, Zenon
  <2> QED BY <2>1, <2>2, <2>3, <2>4, Zenon
<1>5. Left(p, u, h, At(h, p.on)) = x % 128
  <2>1. PulledOn(u, h, "uJBUS") = x
    BY <1>2, Verbs, PulledIs
  <2>2. Left(p, u, h, At(h, p.on)) = OnPort(u, h, "uJBUS")
    BY LeftIs
  <2>3. OnPort(u, h, "uJBUS") = PulledOn(u, h, "uJBUS") % 2^BusWidth["uJBUS"]
    BY OnPortIs, BusNames
  <2> QED BY <2>1, <2>2, <2>3, SmallWidths, Zenon
<1> HIDE DEF r, p
<1>6. Tick(u, h) = k
  <2>1. Tick(u, h) = Put(Put(h, r.on, CU!NextUpc), p.on, x % 128)
    BY <1>0, <1>3, <1>4, <1>5, TwoChanges
  <2> QED BY <1>3, <2>1
<1>7. /\ DOMAIN k = DOMAIN h /\ k["ujmar"][0] = x % 128
      /\ k["ustack"] = [h["ustack"] EXCEPT ![usp] = CU!NextUpc]
      /\ \A b \in Banks : b # "ustack" => k[b] = h[b]
  <2> DEFINE m == Put(h, s, CU!NextUpc)
  <2>1. /\ DOMAIN m = DOMAIN h
        /\ \A b \in DOMAIN h : m[b] = IF b = s[1] THEN [h[b] EXCEPT ![s[2]] = CU!NextUpc] ELSE h[b]
    BY PutIs
  <2> HIDE DEF m
  <2>2. /\ DOMAIN k = DOMAIN m
        /\ \A b \in DOMAIN m : k[b] = IF b = mar[1] THEN [m[b] EXCEPT ![mar[2]] = x % 128] ELSE m[b]
    BY PutIs DEF m
  <2> HIDE DEF k
  <2>3. m["ujmar"] = h["ujmar"] /\ m["ustack"] = [h["ustack"] EXCEPT ![usp] = CU!NextUpc]
        /\ \A b \in Banks : b # "ustack" => m[b] = h[b]
    BY <1>0, <2>1
  <2>4. k["ujmar"] = [h["ujmar"] EXCEPT ![0] = x % 128]
    BY <1>0, <2>1, <2>2, <2>3
  <2>5. k["ujmar"][0] = x % 128
    BY <1>0, <2>4
  <2>6. k["ustack"] = m["ustack"] /\ \A b \in Banks : k[b] = m[b]
    <3>1. \A b \in Banks : b \in DOMAIN m /\ b # mar[1]
      BY <1>0, <2>1
    <3> QED BY <1>0, <2>2, <3>1, Zenon
  <2> QED BY <2>1, <2>2, <2>3, <2>5, <2>6
<1> HIDE DEF k
<1> DEFINE v == {Change(The("usp"), "incr"), Latch(Upc, "jREAD")}
           a == CU!Target(x % 128)
           n == (usp + 1) % 8
           g1 == Put(k, The("usp"), n)
           g == Put(g1, Upc, a)
<1>8. k["upc"] = One(CU!NextUpc) /\ k["usp"] = One(usp) /\ "usp" \in DOMAIN k /\ "upc" \in DOMAIN k
  BY <1>0, <1>7 DEF Ready
<1>9. Tick(v, k) = g
  <2> DEFINE c == Change(The("usp"), "incr")
             l == Latch(Upc, "jREAD")
  <2>1. /\ c.on = The("usp") /\ l.on = Upc /\ Storage(c.on) /\ Storage(l.on)
        /\ c.on[1] # l.on[1] /\ Store \notin v /\ Changes(v) = {c, l}
    BY Verbs, StoragesAre DEF Changes, Mutators, Upc
  <2>2. Left(c, v, k, At(k, c.on)) = n
    <3>1. At(k, The("usp")) = usp
      BY <1>8, OneIs, StoragesAre DEF At
    <3>2. Left(c, v, k, At(k, c.on)) = ByItself("usp", "incr", usp)
      BY <2>1, <3>1, LeftIs, StoragesAre
    <3> QED BY <3>2, ByItselfIs, CounterWidths
  <2>3. Left(l, v, k, At(k, l.on)) = a
    <3>1. Left(l, v, k, At(k, l.on)) = OnPort(v, k, "jREAD")
      BY LeftIs
    <3> HIDE DEF v
    <3>2. OnPort(v, k, "jREAD") = CU!Target(k.ujmar[0])
      BY PortsAre, Zenon
    <3> QED BY <1>7, <3>1, <3>2
  <2> HIDE DEF c, l, v, a, n
  <2>4. Tick(v, k) = Put(Put(k, c.on, n), l.on, a)
    BY <2>1, <2>2, <2>3, TwoChanges
  <2> QED BY <2>1, <2>4
<1> HIDE DEF v, a, n
<1>10. DOMAIN g1 = DOMAIN k /\ g1["usp"] = One(n) /\ \A b \in DOMAIN k : b # "usp" => g1[b] = k[b]
  BY <1>8, PutThe
<1> HIDE DEF g1
<1>11. g["upc"] = One(a) /\ \A b \in DOMAIN g1 : b # "upc" => g[b] = g1[b]
  <2>1. "upc" \in DOMAIN g1 /\ g1["upc"] = One(CU!NextUpc)
    BY <1>8, <1>10
  <2> QED BY <2>1, PutThe DEF Upc
<1> HIDE DEF g
<1>12. /\ g["usp"] = One(n) /\ g["ustack"] = [ustack EXCEPT ![usp] = CU!NextUpc]
       /\ \A b \in Banks \ {"upc", "usp", "ustack"} : g[b] = h[b]
  <2>1. h["ustack"] = ustack
    BY DEF Ready
  <2>2. DOMAIN g1 = DOMAIN h /\ DOMAIN k = DOMAIN h /\ Banks \subseteq DOMAIN h
    BY <1>0, <1>7, <1>10 DEF Ready
  <2>3. "usp" \in DOMAIN g1 /\ "ustack" \in DOMAIN g1 /\ "ustack" \in DOMAIN k
    BY <2>2 DEF Banks
  <2>4. g["usp"] = One(n)
    BY <1>10, <1>11, <2>3
  <2>5. g["ustack"] = [ustack EXCEPT ![usp] = CU!NextUpc]
    BY <1>7, <1>10, <1>11, <2>1, <2>3
  <2>6. ASSUME NEW b \in Banks \ {"upc", "usp", "ustack"} PROVE g[b] = h[b]
    BY <1>7, <1>10, <1>11, <2>2
  <2> QED BY <2>4, <2>5, <2>6
<1>13. Leads(<<u, v>>, h, g)
  BY <1>6, <1>9, LeadsTwo
<1>14. Sends(<<u, v>>, h, a, n, [ustack EXCEPT ![usp] = CU!NextUpc])
  BY <1>11, <1>12, <1>13, Zenon DEF Sends
<1>15. CallTicks(q) = <<u, v>>
  BY DEF CallTicks, u, v, s
<1> QED BY <1>14, <1>15 DEF a, n

(* IR, and its opcode. *)
LEMMA Shifted ==
  ASSUME DataTypeOK
  PROVE  /\ 256 * opc + modes \in Word
         /\ (256 * opc + modes) \div 256 = opc /\ 256 * opc + modes \in Nat
<1>1. opc \in 0..255 /\ modes \in 0..255
  BY DEF DataTypeOK
<1> DEFINE x == 256 * opc + modes
<1>2. opc \in Int /\ modes \in Int /\ 0 <= opc /\ opc <= 255 /\ 0 <= modes /\ modes <= 255
  BY <1>1
<1>3. x \in Int /\ 0 <= x /\ x < 65536
  BY <1>2
<1>4. x \div 256 = opc
  BY <1>2
<1>5. x \in Nat /\ x \in Word
  <2> HIDE DEF x
  <2>1. x \in Int /\ 0 <= x /\ x <= WORDS - 1
    BY <1>3 DEF WORDS
  <2> QED BY <2>1, WordIs
<1> QED BY <1>4, <1>5

(* regshift takes the opcode to the bus. *)
LEMMA OpcodeShifts ==
  ASSUME NEW h, HasFetched(h), DataTypeOK
  PROVE  \E k : /\ Leads(<<Via("DBUS", Ir, Regshift)>> \o EightShifts(Regshift), h, k)
                /\ Ready(k) /\ At(k, Regshift) = opc /\ k["regshift"] = One(opc)
                /\ \A b \in Banks \ {"regshift"} : k[b] = h[b]
<1> DEFINE x == 256 * opc + modes
           s == Regshift
           k1 == Put(h, s, x)
           k == Put(k1, s, opc)
<1>1. /\ At(h, Ir) = x /\ x \in Word /\ x \in Nat /\ x \div 256 = opc
      /\ Storage(s) /\ s[1] = "regshift" /\ s[2] = 0
  BY AtFetched, Shifted, StoragesAre DEF Regshift
<1> HIDE DEF x, s
<1>2. /\ DOMAIN h = Banks \cup Within /\ "regshift" \in Banks /\ DOMAIN h["regshift"] = {0}
      /\ h["regshift"] = One(regshift)
  <2>1. "regshift" \in Banks \ {"upc"}
    BY DEF Banks
  <2> QED BY <2>1, HeldIs, OneIs DEF HasFetched
<1>3. Leads(<<Via("DBUS", Ir, s)>>, h, k1)
  BY <1>1, DataBus
<1>4. DOMAIN k1 = DOMAIN h /\ k1["regshift"] = One(x) /\ At(k1, s) = x
      /\ \A b \in DOMAIN h : b # "regshift" => k1[b] = h[b]
  <2>1. DOMAIN k1 = DOMAIN h /\ k1["regshift"] = One(x)
        /\ \A b \in DOMAIN h : b # "regshift" => k1[b] = h[b]
    BY <1>2, PutThe DEF Regshift, s
  <2> HIDE DEF k1
  <2> QED BY <1>1, <2>1, OneIs DEF At
<1> HIDE DEF k1
<1>5. Leads(EightShifts(s), k1, k)
  <2>1. s[1] \in DOMAIN k1 /\ s[2] \in DOMAIN k1[s[1]]
    BY <1>1, <1>2, <1>4, OneIs
  <2>2. Leads(EightShifts(s), k1, Put(k1, s, x \div 256))
    BY <1>1, <1>4, <2>1, ShiftsLead
  <2> QED BY <1>1, <2>2
<1>6. DOMAIN k = DOMAIN k1 /\ k["regshift"] = One(opc) /\ At(k, s) = opc
      /\ \A b \in DOMAIN k1 : b # "regshift" => k[b] = k1[b]
  <2>1. DOMAIN k = DOMAIN k1 /\ k["regshift"] = One(opc)
        /\ \A b \in DOMAIN k1 : b # "regshift" => k[b] = k1[b]
    BY <1>2, <1>4, PutThe DEF Regshift, s
  <2> HIDE DEF k
  <2> QED BY <1>1, <2>1, OneIs DEF At
<1> HIDE DEF k
<1>7. Leads(<<Via("DBUS", Ir, s)>> \o EightShifts(s), h, k)
  BY <1>3, <1>5, LeadsConcat
<1>8. DOMAIN k = DOMAIN h /\ \A b \in DOMAIN h : b # "regshift" => k[b] = h[b]
  BY <1>4, <1>6, Zenon
<1>9. Ready(k)
  <2>1. Ready(h)
    BY FetchedReady
  <2>2. /\ "upc" \in DOMAIN h /\ "usp" \in DOMAIN h /\ "ustack" \in DOMAIN h /\ "ujmar" \in DOMAIN h
    BY <1>2 DEF Banks, Within
  <2> QED BY <1>2, <1>8, <2>1, <2>2 DEF Ready
<1>10. \A b \in Banks \ {"regshift"} : k[b] = h[b]
  BY <1>2, <1>8
<1> QED BY <1>6, <1>7, <1>9, <1>10 DEF s

(* A return: uSP is decremented first, so that it selects the saved address. *)
LEMMA ReturnSends ==
  ASSUME NEW h, Ready(h), usp \in CU!SPtr, CU!UspBelow \in CU!Slots,
         ustack \in [CU!Slots -> CU!UAddr]
  PROVE  Sends(<<{Change(The("usp"), "decr")}, Via("uABUS", <<"ustack", CU!UspBelow>>, Upc)>>, h,
               ustack[CU!UspBelow], CU!UspBelow, ustack)
<1> DEFINE t == {Change(The("usp"), "decr")}
           s == <<"ustack", CU!UspBelow>>
           u == Via("uABUS", s, Upc)
           n == CU!UspBelow
           a == ustack[n]
           k == Put(h, The("usp"), n)
           g == Put(k, Upc, a)
<1>1. /\ DOMAIN h = Banks \cup Within /\ "upc" \in Banks /\ "usp" \in Banks /\ "ustack" \in Banks
      /\ h["usp"] = One(usp) /\ h["upc"] = One(CU!NextUpc) /\ h["ustack"] = ustack
  BY DEF Ready, Banks
<1>2. Tick(t, h) = k
  <2>1. At(h, The("usp")) = usp
    BY <1>1, OneIs, StoragesAre DEF At
  <2>2. Tick(t, h) = Put(h, The("usp"), ByItself("usp", "decr", usp))
    <3>1. Storage(The("usp")) /\ The("usp")[1] = "usp"
      BY StoragesAre
    <3>2. Tick(t, h) = Put(h, The("usp"), ByItself(The("usp")[1], "decr", At(h, The("usp"))))
      BY <3>1, AloneTick
    <3> QED BY <2>1, <3>1, <3>2
  <2>3. ByItself("usp", "decr", usp) = (usp - 1) % 8
    BY ByItselfIs, CounterWidths
  <2>4. (usp - 1) % 8 = (usp + 7) % 8
    BY DEF CU!SPtr
  <2> QED BY <2>2, <2>3, <2>4 DEF CU!UspBelow
<1>3. /\ DOMAIN k = DOMAIN h /\ k["usp"] = One(n)
      /\ \A b \in DOMAIN h : b # "usp" => k[b] = h[b]
  <2> HIDE DEF n
  <2> QED BY <1>1, PutThe
<1> HIDE DEF t, k
<1>4. At(k, s) = a /\ a \in CU!UAddr
  BY <1>1, <1>3 DEF At
<1> HIDE DEF s, a
<1>5. Tick(u, k) = g
  <2>1. "uABUS" \in DOMAIN BusWidth /\ Storage(Upc)
    BY BusNames, StoragesAre DEF Upc
  <2>2. Tick(u, k) = Put(k, Upc, a % 2^BusWidth["uABUS"])
    BY <1>4, <2>1, ViaTick
  <2>3. a % 2^BusWidth["uABUS"] = a
    BY <1>4, MicroWidths, Zenon
  <2> QED BY <2>2, <2>3
<1>6. /\ g["upc"] = One(a) /\ \A b \in DOMAIN k : b # "upc" => g[b] = k[b]
  <2>1. "upc" \in DOMAIN k /\ k["upc"] = One(CU!NextUpc)
    BY <1>1, <1>3
  <2> QED BY <2>1, PutThe DEF Upc
<1> HIDE DEF u, g, n
<1>7. Leads(<<t, u>>, h, g)
  BY <1>2, <1>5, LeadsTwo
<1>8. g["usp"] = One(n) /\ g["ustack"] = ustack
      /\ \A b \in Banks \ {"upc", "usp", "ustack"} : g[b] = h[b]
  BY <1>1, <1>3, <1>6
<1>9. Sends(<<t, u>>, h, a, n, ustack)
  BY <1>6, <1>7, <1>8, Zenon DEF Sends
<1> QED BY <1>9 DEF t, u, s, a, n

-----------------------------------------------------------------------------
(* Turns. *)

(* What the storages hold next. *)
LEMMA HeldNext ==
  /\ Held'["pc"] = One(pc') /\ Held'["ir"] = One(256 * opc' + modes') /\ Held'["mdr"] = One(mdr')
  /\ Held'["tmp"] = One(tmp') /\ Held'["reg"] = reg' /\ Held'["val"] = val' /\ Held'["addr"] = addr'
  /\ Held'["mem"] = mem' /\ Held'["cntl"] = cntl' /\ Held'["i"] = One(i') /\ Held'["utmp"] = One(utmp')
  /\ Held'["regshift"] = One(regshift') /\ Held'["upc"] = One(upc') /\ Held'["usp"] = One(usp')
  /\ Held'["ustack"] = ustack'
BY DEF Held

(* What g holds is what is held after the machine's step. *)
Implements(g) ==
  /\ \A b \in DOMAIN Held \ {"ustack"} : g[b] = Held[b]'
  /\ \A n \in 0..(usp' - 1) : g.ustack[n] = ustack'[n]

(* Data that a step leaves alone. *)
LEMMA HeldStays ==
  ASSUME UNCHANGED <<pc, mdr, tmp, opc, modes, reg, val, addr, mem, cntl, i, utmp>>
  PROVE  /\ \A b \in Banks \ {"upc", "usp", "ustack", "regshift"} : Held'[b] = Held[b]
         /\ UNCHANGED regshift => Held'["regshift"] = Held["regshift"]
<1>1. /\ Held'["pc"] = Held["pc"] /\ Held'["ir"] = Held["ir"] /\ Held'["mdr"] = Held["mdr"]
      /\ Held'["tmp"] = Held["tmp"] /\ Held'["reg"] = Held["reg"] /\ Held'["val"] = Held["val"]
      /\ Held'["addr"] = Held["addr"] /\ Held'["mem"] = Held["mem"] /\ Held'["cntl"] = Held["cntl"]
      /\ Held'["i"] = Held["i"] /\ Held'["utmp"] = Held["utmp"]
      /\ UNCHANGED regshift => Held'["regshift"] = Held["regshift"]
  BY HeldIs, HeldNext
<1> QED BY <1>1, Zenon DEF Banks

(* Some ticks from h lead to what the step leaves. *)
Finishes(s, h) == \E g : Leads(s, h, g) /\ Implements(g)

(* Ticks that send control where the step does. *)
LEMMA SendsFinishes ==
  ASSUME NEW k, NEW s, NEW a, NEW p, NEW t, Sends(s, k, a, p, t),
         upc' = a, usp' = p, \A n \in 0..(p - 1) : t[n] = ustack'[n],
         \A b \in Banks \ {"upc", "usp", "ustack"} : k[b] = Held'[b]
  PROVE  Finishes(s, k)
<1>1. PICK g : /\ Leads(s, k, g)
               /\ g["upc"] = One(a) /\ g["usp"] = One(p) /\ g["ustack"] = t
               /\ \A b \in Banks \ {"upc", "usp", "ustack"} : g[b] = k[b]
  BY Zenon DEF Sends
<1>2. Held'["upc"] = One(a) /\ Held'["usp"] = One(p) /\ DOMAIN Held = Banks
  BY HeldNext, HeldIs
<1>3. \A b \in DOMAIN Held \ {"ustack"} : g[b] = Held[b]'
  BY <1>1, <1>2
<1>4. \A n \in 0..(usp' - 1) : g.ustack[n] = ustack'[n]
  BY <1>1
<1> QED BY <1>1, <1>3, <1>4, Zenon DEF Finishes, Implements

(* Ticks that do what a control point does. *)
LEMMA LandsFinishes ==
  ASSUME NEW h, NEW s, NEW w, Lands(s, h, w), Held' = NewHeld(w), UNCHANGED ustack
  PROVE  Finishes(s, h)
<1>1. PICK g : Leads(s, h, g) /\ \A b \in Banks : g[b] = NewHeld(w)[b]
  BY Zenon DEF Lands
<1>2. DOMAIN Held = Banks /\ NewHeld(w)["ustack"] = ustack /\ "ustack" \in Banks
  BY HeldIs, NewHeldIs DEF Banks
<1>3. \A b \in DOMAIN Held \ {"ustack"} : g[b] = Held[b]'
  BY <1>1, <1>2
<1>4. \A n \in 0..(usp' - 1) : g.ustack[n] = ustack'[n]
  BY <1>1, <1>2
<1> QED BY <1>1, <1>3, <1>4, Zenon DEF Finishes, Implements

(* The fetch, then ticks that finish: the turn implements the step. *)
LEMMA TurnFinishes ==
  ASSUME NEW h, Leads(UFetch, AtFirst, h), NEW s, Turn = UFetch \o s, Finishes(s, h)
  PROVE  Implements(AfterTurn)
<1>1. PICK g : Leads(s, h, g) /\ Implements(g)
  BY Zenon DEF Finishes
<1>2. Leads(Turn, AtFirst, g)
  BY <1>1, LeadsConcat
<1>3. AfterTurn = g
  BY <1>2, AfterTurnIs
<1> QED BY <1>1, <1>3, Zenon DEF Implements

(* No tick but the fetch: control goes to the next microinstruction. *)
LEMMA NothingSends == ASSUME NEW h, Ready(h) PROVE Sends(<<>>, h, CU!NextUpc, usp, ustack)
BY LeadsNone, Zenon DEF Sends, Ready

(* The types of microinstructions that carry no condition. *)
LEMMA Unconditional ==
  ASSUME MicrocodeFits, upc \in CU!UAddr
  PROVE  /\ UInst.cond = "always" \/ UInst.op \in U!Conditional
         /\ UInst.jump % 128 = UInst.jump
<1>0. uMem \in Seq(U!MicroType)
  BY DEF MicrocodeFits, U!UMemAssumption
<1>1. \A n \in DOMAIN uMem : uMem[n].cond = "always" \/ uMem[n].op \in U!Conditional
  BY DEF MicrocodeFits, U!UMemAssumption
<1>2. CASE upc < Len(uMem)
  <2>1. upc + 1 \in DOMAIN uMem /\ UInst = uMem[upc + 1]
    <3>1. UInst = uMem[upc + 1]
      BY <1>2, Zenon DEF UInst, CU!UInst, CU!Inst
    <3>2. upc \in Nat /\ Len(uMem) \in Nat /\ DOMAIN uMem = 1..Len(uMem)
      BY <1>0 DEF CU!UAddr
    <3>3. upc + 1 \in DOMAIN uMem
      BY <1>2, <3>2
    <3> QED BY <3>1, <3>3
  <2>2. uMem[upc + 1].jump \in 0..127
    <3>1. uMem[upc + 1] \in U!MicroType
      BY <1>0, <2>1
    <3> QED BY <3>1 DEF U!MicroType, U!JIndex
  <2>3. \A x \in 0..127 : x % 128 = x
    OBVIOUS
  <2> QED BY <1>1, <2>1, <2>2, <2>3
<1>3. CASE ~(upc < Len(uMem))
  <2>1. UInst = CU!Blank
    BY <1>3 DEF UInst, CU!UInst, CU!Inst
  <2>2. CU!Blank.cond = "always" /\ CU!Blank.jump = 0
    BY DEF CU!Blank
  <2> QED BY <2>1, <2>2
<1> QED BY <1>2, <1>3

(* What a turn is. *)
LEMMA TurnIs ==
  /\ UInst.op = "ctrl" /\ UInst.cond = "always" => Turn = UFetch \o ControlTicks(UInst.ctrl)
  /\ UInst.op # "ctrl" /\ UInst.cond # "always" /\ Holds(UInst.cond) => Turn = UFetch \o <<>>
  /\ UInst.op # "ctrl" /\ ~(UInst.cond # "always" /\ Holds(UInst.cond))
       => Turn = UFetch \o SequencerTicks
BY Zenon DEF Turn

(* The ticks of each type. *)
LEMMA SequencerTicksAre ==
  /\ UInst.op = "jump" => SequencerTicks = <<Lookup(The("uir")), {Latch(Upc, "jREAD")}>>
  /\ UInst.op = "restart" => SequencerTicks = <<{Change(Upc, "clear")}>>
  /\ UInst.op = "call" => SequencerTicks = CallTicks(The("uir"))
  /\ UInst.op = "callopc" => SequencerTicks = <<Via("DBUS", Ir, Regshift)>> \o EightShifts(Regshift)
                                                \o CallTicks(Regshift)
  /\ UInst.op = "return" => SequencerTicks = <<{Change(The("usp"), "decr")},
                                               Via("uABUS", <<"ustack", CU!UspBelow>>, Upc)>>
  /\ UInst.op = "print" => SequencerTicks = <<>>
BY Zenon DEF SequencerTicks

(* The sequencer registers of the machine keep their widths. *)
LEMMA MachineTypes == ASSUME MicrocodeFits PROVE Spec => []CU!TypeOK
<1>1. U!Spec => []U!TypeOK
  BY U!TypeCorrect, PTL DEF MicrocodeFits
<1>2. U!UAddr = CU!UAddr /\ U!SPtr = CU!SPtr /\ U!Byte = CU!Byte
  BY Zenon DEF U!UAddr, CU!UAddr, U!SPtr, CU!SPtr, U!Byte, CU!Byte
<1>3. U!Slots = CU!Slots
  BY Zenon DEF U!Slots, CU!Slots
<1>4. U!Statuses = CU!Statuses
  BY Zenon DEF U!Statuses, CU!Statuses
<1>5. U!TypeOK => CU!TypeOK
  BY <1>2, <1>3, <1>4, Zenon DEF U!TypeOK, CU!TypeOK
<1> QED BY <1>1, <1>5, FollowsAny, PTL

-----------------------------------------------------------------------------
(* Each step, by its turn. *)

(* A control point. *)
LEMMA ControlPointTicks ==
  ASSUME NEW h, HasFetched(h), DataTypeOK, ControlPoint
  PROVE  Finishes(ControlTicks(UInst.ctrl), h)
<1>1. Fault(UInst.ctrl) = "none" /\ Transfer(UInst.ctrl) /\ upc' = CU!NextUpc
      /\ UNCHANGED <<usp, ustack>>
  BY Zenon DEF ControlPoint
<1> DEFINE w == UInst.ctrl
<1> HIDE DEF w
<1>2. Fault(w) = "none" /\ Transfer(w)
  BY <1>1, Zenon DEF w
<1>3. Held' = NewHeld(w)
  BY <1>1, <1>2, TransferIs
<1>4. Lands(ControlTicks(w), h, w)
  BY <1>2, ControlLands
<1>5. Finishes(ControlTicks(w), h)
  BY <1>1, <1>3, <1>4, LandsFinishes
<1> QED BY <1>5 DEF w

(* What the fetch leaves stays what the step leaves, the sequencer's registers aside. *)
LEMMA DataStaysHeld ==
  ASSUME NEW h, HasFetched(h), UNCHANGED <<pc, mdr, tmp, opc, modes, reg, val, addr, mem, cntl, i, utmp>>
  PROVE  /\ \A b \in Banks \ {"upc", "usp", "ustack", "regshift"} : h[b] = Held'[b]
         /\ UNCHANGED regshift => \A b \in Banks \ {"upc", "usp", "ustack"} : h[b] = Held'[b]
<1>1. \A b \in Banks \ {"upc"} : h[b] = Held[b]
  BY DEF HasFetched
<1>2. "regshift" \in Banks
  BY DEF Banks
<1> QED BY <1>1, <1>2, HeldStays, Zenon

(* A step that leaves the data alone and sends control on. *)
LEMMA SentOn ==
  ASSUME NEW h, HasFetched(h), NEW s, NEW a, NEW p, NEW t, Sends(s, h, a, p, t),
         UNCHANGED <<pc, mdr, tmp, opc, modes, reg, val, addr, mem, cntl, i, utmp, regshift>>,
         upc' = a, usp' = p, \A n \in 0..(p - 1) : t[n] = ustack'[n]
  PROVE  Finishes(s, h)
<1>1. \A b \in Banks \ {"upc", "usp", "ustack"} : h[b] = Held'[b]
  BY DataStaysHeld
<1> QED BY <1>1, SendsFinishes

(* The next microinstruction, nothing else having changed. *)
LEMMA NextInTurn ==
  ASSUME NEW h, HasFetched(h), CU!GoTo(CU!NextUpc),
         UNCHANGED <<pc, mdr, tmp, modes, reg, val, addr, mem, cntl, i, utmp, regshift>>
  PROVE  Finishes(<<>>, h)
<1>1. upc' = CU!NextUpc /\ UNCHANGED <<usp, ustack, opc>>
  BY DEF CU!GoTo
<1>2. Sends(<<>>, h, CU!NextUpc, usp, ustack)
  BY FetchedReady, NothingSends
<1>3. usp' = usp /\ \A n \in 0..(usp - 1) : ustack[n] = ustack'[n]
  BY <1>1
<1> QED BY <1>1, <1>2, <1>3, SentOn

(* A jump. *)
LEMMA JumpTicks ==
  ASSUME NEW h, HasFetched(h), CU!GoTo(CU!Target(UInst.jump)), UNCHANGED dataVars,
         UInst.jump % 128 = UInst.jump
  PROVE  Finishes(<<Lookup(The("uir")), {Latch(Upc, "jREAD")}>>, h)
<1> DEFINE a == CU!Target(UInst.jump)
<1>1. upc' = a /\ UNCHANGED <<usp, ustack, opc>>
  BY DEF CU!GoTo
<1>2. Sends(<<Lookup(The("uir")), {Latch(Upc, "jREAD")}>>, h, a, usp, ustack)
  <2>1. At(h, The("uir")) = UInst.jump /\ Ready(h)
    BY AtFetched, FetchedReady
  <2> QED BY <2>1, JumpSends
<1> HIDE DEF a
<1>3. usp' = usp /\ \A n \in 0..(usp - 1) : ustack[n] = ustack'[n]
  BY <1>1
<1>4. UNCHANGED <<pc, mdr, tmp, opc, modes, reg, val, addr, mem, cntl, i, utmp, regshift>>
  BY DEF dataVars
<1> QED BY <1>1, <1>2, <1>3, <1>4, SentOn

(* A restart. *)
LEMMA RestartTicks ==
  ASSUME NEW h, HasFetched(h), CU!GoTo(0), UNCHANGED dataVars
  PROVE  Finishes(<<{Change(Upc, "clear")}>>, h)
<1>1. upc' = 0 /\ UNCHANGED <<usp, ustack, opc>>
  BY DEF CU!GoTo
<1>2. Sends(<<{Change(Upc, "clear")}>>, h, 0, usp, ustack)
  BY FetchedReady, RestartSends
<1>3. usp' = usp /\ \A n \in 0..(usp - 1) : ustack[n] = ustack'[n]
  BY <1>1
<1>4. UNCHANGED <<pc, mdr, tmp, opc, modes, reg, val, addr, mem, cntl, i, utmp, regshift>>
  BY DEF dataVars
<1> QED BY <1>1, <1>2, <1>3, <1>4, SentOn

(* A call of a label. *)
LEMMA CallLabelTicks ==
  ASSUME NEW h, HasFetched(h), upc \in CU!UAddr, UNCHANGED dataVars, UInst.jump % 128 = UInst.jump,
         ustack' = [ustack EXCEPT ![usp] = CU!NextUpc], usp' = (usp + 1) % 8,
         upc' = CU!Target(UInst.jump)
  PROVE  Finishes(CallTicks(The("uir")), h)
<1> DEFINE a == CU!Target(UInst.jump)
           p == (usp + 1) % 8
           t == [ustack EXCEPT ![usp] = CU!NextUpc]
<1>1. Sends(CallTicks(The("uir")), h, a, p, t)
  <2>1. At(h, The("uir")) = UInst.jump /\ Ready(h)
    BY AtFetched, FetchedReady
  <2> QED BY <2>1, CallSends
<1>2. upc' = a /\ usp' = p /\ ustack' = t
  OBVIOUS
<1> HIDE DEF a, p, t
<1>3. \A n \in 0..(p - 1) : t[n] = ustack'[n]
  BY <1>2
<1>4. UNCHANGED <<pc, mdr, tmp, opc, modes, reg, val, addr, mem, cntl, i, utmp, regshift>>
  BY DEF dataVars
<1> QED BY <1>1, <1>2, <1>3, <1>4, SentOn

(* A call by the opcode, which takes nine ticks more. *)
LEMMA CallByOpcodeTicks ==
  ASSUME NEW h, HasFetched(h), DataTypeOK, upc \in CU!UAddr, regshift' = opc,
         UNCHANGED <<pc, mdr, tmp, opc, modes, reg, val, addr, mem, cntl, i, utmp>>,
         ustack' = [ustack EXCEPT ![usp] = CU!NextUpc], usp' = (usp + 1) % 8,
         upc' = CU!Target(opc % 128)
  PROVE  Finishes(<<Via("DBUS", Ir, Regshift)>> \o EightShifts(Regshift) \o CallTicks(Regshift), h)
<1> DEFINE a == CU!Target(opc % 128)
           p == (usp + 1) % 8
           t == [ustack EXCEPT ![usp] = CU!NextUpc]
           s == <<Via("DBUS", Ir, Regshift)>> \o EightShifts(Regshift)
<1>1. PICK k : /\ Leads(s, h, k)
               /\ Ready(k) /\ At(k, Regshift) = opc /\ k["regshift"] = One(opc)
               /\ \A b \in Banks \ {"regshift"} : k[b] = h[b]
  BY OpcodeShifts
<1>2. Sends(CallTicks(Regshift), k, a, p, t)
  BY <1>1, CallSends
<1>3. upc' = a /\ usp' = p /\ ustack' = t
  OBVIOUS
<1> HIDE DEF a, p, t, s
<1>4. \A n \in 0..(p - 1) : t[n] = ustack'[n]
  BY <1>3
<1>5. \A b \in Banks \ {"upc", "usp", "ustack"} : k[b] = Held'[b]
  <2>1. \A b \in Banks \ {"upc", "usp", "ustack", "regshift"} : h[b] = Held'[b]
    BY DataStaysHeld
  <2>2. Held'["regshift"] = One(opc)
    BY HeldNext
  <2> QED BY <1>1, <2>1, <2>2, Zenon
<1>6. Finishes(CallTicks(Regshift), k)
  BY <1>2, <1>3, <1>4, <1>5, SendsFinishes
<1>7. PICK g : Leads(CallTicks(Regshift), k, g) /\ Implements(g)
  BY <1>6, Zenon DEF Finishes
<1>8. Leads(s \o CallTicks(Regshift), h, g)
  BY <1>1, <1>7, LeadsConcat
<1>9. Finishes(s \o CallTicks(Regshift), h)
  BY <1>7, <1>8, Zenon DEF Finishes
<1> QED BY <1>9 DEF s

(* A return. *)
LEMMA ReturnTicks ==
  ASSUME MicrocodeFits, NEW h, HasFetched(h), CU!TypeOK, CU!UspBelow \in CU!Slots,
         UNCHANGED dataVars,
         usp' = CU!UspBelow, upc' = ustack[CU!UspBelow],
         ustack' = [ustack EXCEPT ![CU!UspBelow] = 0]
  PROVE  Finishes(<<{Change(The("usp"), "decr")}, Via("uABUS", <<"ustack", CU!UspBelow>>, Upc)>>, h)
<1> DEFINE p == CU!UspBelow
           a == ustack[p]
           s == <<{Change(The("usp"), "decr")}, Via("uABUS", <<"ustack", p>>, Upc)>>
<1>1. usp \in CU!SPtr /\ ustack \in [CU!Slots -> CU!UAddr]
  BY DEF CU!TypeOK
<1>2. Sends(s, h, a, p, ustack)
  <2>1. Ready(h)
    BY FetchedReady
  <2> QED BY <1>1, <2>1, ReturnSends
<1>3. p \in Int
  BY <1>1 DEF CU!SPtr, CU!UspBelow
<1>4. upc' = a /\ usp' = p /\ ustack' = [ustack EXCEPT ![p] = 0]
  OBVIOUS
<1>8. p \in CU!Slots
  OBVIOUS
<1>9. CTRL_STACK_HEIGHT \in 1..7
  BY DEF MicrocodeFits, U!HeightAssumption
<1> HIDE DEF s, p, a
<1>5. \A n \in 0..(p - 1) : ustack[n] = ustack'[n]
  <2>1. \A n \in 0..(p - 1) : n # p
    BY <1>3
  <2>2. DOMAIN ustack = CU!Slots
    BY <1>1
  <2>3. \A n \in 0..(p - 1) : n \in DOMAIN ustack
    BY <1>3, <1>8, <1>9, <2>2 DEF CU!Slots
  <2> QED BY <1>4, <2>1, <2>3
<1>6. UNCHANGED <<pc, mdr, tmp, opc, modes, reg, val, addr, mem, cntl, i, utmp, regshift>>
  BY DEF dataVars
<1>7. Finishes(s, h)
  BY <1>2, <1>4, <1>5, <1>6, SentOn
<1> QED BY <1>7 DEF s, p

-----------------------------------------------------------------------------
\* The fetch done, some ticks make up the turn and lead to what the step leaves.
Completes(h) == \E s : Turn = UFetch \o s /\ Finishes(s, h)

(* The turn of a microinstruction that is not skipped. *)
LEMMA SequencerTurn ==
  ASSUME UInst.op # "ctrl", Taken
  PROVE  Turn = UFetch \o SequencerTicks
BY TurnIs, Zenon DEF Taken

(* A control point carries no condition. *)
LEMMA ControlPointCompletes ==
  ASSUME MicrocodeFits, NEW h, HasFetched(h), DataTypeOK, CU!TypeOK, ControlPoint
  PROVE  Completes(h)
<1>1. UInst.op = "ctrl"
  BY Zenon DEF ControlPoint
<1>2. upc \in CU!UAddr
  BY Zenon DEF CU!TypeOK
<1>3. "ctrl" \notin U!Conditional
  BY Zenon DEF U!Conditional
<1>4. UInst.cond = "always"
  BY <1>1, <1>2, <1>3, Unconditional, Zenon
<1>5. Turn = UFetch \o ControlTicks(UInst.ctrl)
  BY <1>1, <1>4, TurnIs, Zenon
<1> QED BY <1>5, ControlPointTicks, Zenon DEF Completes

(* A microinstruction whose condition holds ends with its fetch. *)
LEMMA SkipCompletes ==
  ASSUME MicrocodeFits, NEW h, HasFetched(h), CU!TypeOK, Skip
  PROVE  Completes(h)
<1>1. UInst.cond # "always" /\ Holds(UInst.cond) /\ CU!GoTo(CU!NextUpc) /\ UNCHANGED dataVars
  BY Zenon DEF Skip, Taken, CU!Skip, UInst, DataStays
<1>2. upc \in CU!UAddr
  BY Zenon DEF CU!TypeOK
<1>3. "ctrl" \notin U!Conditional
  BY Zenon DEF U!Conditional
<1>4. UInst.op # "ctrl"
  BY <1>1, <1>2, <1>3, Unconditional, Zenon
<1>5. Turn = UFetch \o <<>>
  BY <1>1, <1>4, TurnIs, Zenon
<1>6. UNCHANGED <<pc, mdr, tmp, modes, reg, val, addr, mem, cntl, i, utmp, regshift>>
  BY <1>1, Zenon DEF dataVars
<1>7. Finishes(<<>>, h)
  BY <1>1, <1>6, NextInTurn
<1> QED BY <1>5, <1>7, Zenon DEF Completes

(* Printing takes no tick. *)
LEMMA PrintCompletes ==
  ASSUME MicrocodeFits, NEW h, HasFetched(h), CU!TypeOK, PrintOperand
  PROVE  Completes(h)
<1>1. UInst.op = "print" /\ CU!GoTo(CU!NextUpc)
      /\ UNCHANGED <<pc, mdr, tmp, modes, reg, val, addr, mem, cntl, i, utmp, regshift>>
  BY Zenon DEF PrintOperand, CU!PrintOperand, UInst
<1>2. upc \in CU!UAddr
  BY Zenon DEF CU!TypeOK
<1>3. "print" \notin U!Conditional
  BY Zenon DEF U!Conditional
<1>4. UInst.cond = "always"
  BY <1>1, <1>2, <1>3, Unconditional, Zenon
<1>5. UInst.op # "ctrl"
  BY <1>1, Zenon
<1>6. Turn = UFetch \o SequencerTicks /\ SequencerTicks = <<>>
  BY <1>1, <1>4, <1>5, TurnIs, SequencerTicksAre, Zenon
<1>7. Finishes(<<>>, h)
  BY <1>1, NextInTurn
<1> QED BY <1>6, <1>7, Zenon DEF Completes

(* A jump that is taken. *)
LEMMA JumpCompletes ==
  ASSUME MicrocodeFits, NEW h, HasFetched(h), CU!TypeOK, Jump
  PROVE  Completes(h)
<1>1. UInst.op = "jump" /\ CU!GoTo(CU!Target(UInst.jump)) /\ UNCHANGED dataVars /\ Taken
  BY Zenon DEF Jump, CU!Jump, UInst, DataStays
<1>2. UInst.jump % 128 = UInst.jump
  BY Unconditional, Zenon DEF CU!TypeOK
<1>3. UInst.op # "ctrl"
  BY <1>1, Zenon
<1>4. Turn = UFetch \o SequencerTicks
      /\ SequencerTicks = <<Lookup(The("uir")), {Latch(Upc, "jREAD")}>>
  BY <1>1, <1>3, SequencerTurn, SequencerTicksAre, Zenon
<1>5. Finishes(<<Lookup(The("uir")), {Latch(Upc, "jREAD")}>>, h)
  BY <1>1, <1>2, JumpTicks, Zenon
<1> QED BY <1>4, <1>5, Zenon DEF Completes

(* A restart that is taken. *)
LEMMA RestartCompletes ==
  ASSUME NEW h, HasFetched(h), Restart
  PROVE  Completes(h)
<1>1. UInst.op = "restart" /\ CU!GoTo(0) /\ UNCHANGED dataVars /\ Taken
  BY Zenon DEF Restart, CU!Restart, UInst, DataStays
<1>2. UInst.op # "ctrl"
  BY <1>1, Zenon
<1>3. Turn = UFetch \o SequencerTicks /\ SequencerTicks = <<{Change(Upc, "clear")}>>
  BY <1>1, <1>2, SequencerTurn, SequencerTicksAre, Zenon
<1>4. Finishes(<<{Change(Upc, "clear")}>>, h)
  BY <1>1, RestartTicks, Zenon
<1> QED BY <1>3, <1>4, Zenon DEF Completes

\* A machine that goes on has not halted.
LEMMA EntersRow ==
  ASSUME NEW k, CU!Enter(k), status' = "run"
  PROVE  /\ ustack' = [ustack EXCEPT ![usp] = CU!NextUpc] /\ usp' = (usp + 1) % 8
         /\ upc' = CU!Target(k)
<1>1. ~CU!StopWith("overflow")
  BY Zenon DEF CU!StopWith
<1> QED BY <1>1, Zenon DEF CU!Enter

(* A call that finds room. *)
LEMMA CallLabelCompletes ==
  ASSUME MicrocodeFits, NEW h, HasFetched(h), CU!TypeOK, CallLabel, status' = "run"
  PROVE  Completes(h)
<1>1. UInst.op = "call" /\ CU!Enter(UInst.jump) /\ UNCHANGED dataVars /\ Taken
  BY Zenon DEF CallLabel, CU!CallLabel, UInst, DataStays
<1>2. upc \in CU!UAddr /\ UInst.jump % 128 = UInst.jump
  BY Unconditional, Zenon DEF CU!TypeOK
<1>3. UInst.op # "ctrl"
  BY <1>1, Zenon
<1>4. Turn = UFetch \o SequencerTicks /\ SequencerTicks = CallTicks(The("uir"))
  BY <1>1, <1>3, SequencerTurn, SequencerTicksAre, Zenon
<1>5. /\ ustack' = [ustack EXCEPT ![usp] = CU!NextUpc] /\ usp' = (usp + 1) % 8
      /\ upc' = CU!Target(UInst.jump)
  BY <1>1, EntersRow, Zenon
<1>6. Finishes(CallTicks(The("uir")), h)
  BY <1>1, <1>2, <1>5, CallLabelTicks, Zenon
<1> QED BY <1>4, <1>6, Zenon DEF Completes

(* A call by the opcode that finds room. *)
LEMMA CallByOpcodeCompletes ==
  ASSUME NEW h, HasFetched(h), DataTypeOK, CU!TypeOK, CallByOpcode, status' = "run"
  PROVE  Completes(h)
<1>1. UInst.op = "callopc" /\ CU!Enter(opc % 128) /\ regshift' = opc /\ Taken
      /\ UNCHANGED <<pc, mdr, tmp, opc, modes, reg, val, addr, mem, cntl, i, utmp>>
  BY Zenon DEF CallByOpcode, CU!CallByOpcode, UInst
<1>2. upc \in CU!UAddr
  BY Zenon DEF CU!TypeOK
<1>3. UInst.op # "ctrl"
  BY <1>1, Zenon
<1>4. Turn = UFetch \o SequencerTicks
      /\ SequencerTicks = <<Via("DBUS", Ir, Regshift)>> \o EightShifts(Regshift)
                            \o CallTicks(Regshift)
  BY <1>1, <1>3, SequencerTurn, SequencerTicksAre, Zenon
<1>5. /\ ustack' = [ustack EXCEPT ![usp] = CU!NextUpc] /\ usp' = (usp + 1) % 8
      /\ upc' = CU!Target(opc % 128)
  BY <1>1, EntersRow, Zenon
<1>6. Finishes(<<Via("DBUS", Ir, Regshift)>> \o EightShifts(Regshift) \o CallTicks(Regshift), h)
  BY <1>1, <1>2, <1>5, CallByOpcodeTicks, Zenon
<1> QED BY <1>4, <1>6, Zenon DEF Completes

(* A return that finds an address. *)
LEMMA ReturnCompletes ==
  ASSUME MicrocodeFits, NEW h, HasFetched(h), CU!TypeOK, Return, status' = "run"
  PROVE  Completes(h)
<1>1. UInst.op = "return" /\ UNCHANGED dataVars /\ Taken /\ CU!Return
  BY Zenon DEF Return, CU!Return, UInst, DataStays
<1>2. ~CU!StopWith("underflow") /\ ~CU!StopWith("wild")
  BY Zenon DEF CU!StopWith
<1>3. /\ CU!UspBelow \in CU!Slots /\ usp' = CU!UspBelow /\ upc' = ustack[CU!UspBelow]
      /\ ustack' = [ustack EXCEPT ![CU!UspBelow] = 0]
  BY <1>1, <1>2, Zenon DEF CU!Return
<1>4. UInst.op # "ctrl"
  BY <1>1, Zenon
<1>5. Turn = UFetch \o SequencerTicks
      /\ SequencerTicks = <<{Change(The("usp"), "decr")},
                            Via("uABUS", <<"ustack", CU!UspBelow>>, Upc)>>
  BY <1>1, <1>4, SequencerTurn, SequencerTicksAre, Zenon
<1>6. Finishes(<<{Change(The("usp"), "decr")}, Via("uABUS", <<"ustack", CU!UspBelow>>, Upc)>>, h)
  BY <1>1, <1>3, ReturnTicks, Zenon
<1> QED BY <1>5, <1>6, Zenon DEF Completes

(* Halts leave a machine that is stopped. *)
LEMMA StopsNot ==
  ASSUME status' = "run", Trouble = "none"
  PROVE  ~Halt /\ ~EmergencyHalt
<1>1. \A why : CU!StopWith(why) => why = "run"
  BY Zenon DEF CU!StopWith
<1>2. ~CU!Halt
  <2>1. "run" \notin {"halt", "reject", "invalid"}
    BY Zenon
  <2> QED BY <1>1, <2>1, Zenon DEF CU!Halt
<1> QED BY <1>2, Zenon DEF Halt, EmergencyHalt

(* Whatever the step, the turn implements it. *)
LEMMA StepDone ==
  ASSUME MicrocodeFits, DataTypeOK, CU!TypeOK, Next, Runs, status' = "run"
  PROVE  Implements(AfterTurn)
<1>1. Step /\ Trouble = "none"
  BY Zenon DEF Next, Done, Runs
<1>2. upc \in CU!UAddr
  BY Zenon DEF CU!TypeOK
<1>3. PICK h : Leads(UFetch, AtFirst, h) /\ HasFetched(h)
  BY <1>2, FetchLeads
<1>4. Completes(h)
  BY <1>1, <1>3, StopsNot, ControlPointCompletes, SkipCompletes, JumpCompletes, RestartCompletes,
     CallLabelCompletes, CallByOpcodeCompletes, ReturnCompletes, PrintCompletes, Zenon DEF Step
<1>5. PICK s : Turn = UFetch \o s /\ Finishes(s, h)
  BY <1>4, Zenon DEF Completes
<1> QED BY <1>3, <1>5, TurnFinishes

\* For every microprogram, program and data, the ticks of a turn, taken one
\* after the other, leave in every register and in memory what FabComp's step
\* does: no control point reads what it has overwritten, and the requests that
\* microcontroller.cpp:192, 435 and 442 leave for the next fetch come in time.
THEOREM TicksAreSteps ==
  ASSUME MicrocodeFits
  PROVE  Spec => TicksImplementSteps
<1> DEFINE A == Runs /\ status' = "run" =>
                  LET done == AfterTurn
                  IN  /\ \A b \in DOMAIN Held \ {"ustack"} : done[b] = Held[b]'
                      /\ \A n \in 0..(usp' - 1) : done.ustack[n] = ustack'[n]
<1>1. ASSUME DataTypeOK, CU!TypeOK, [Next]_machine PROVE [A]_machine
  <2>1. ASSUME Next, Runs, status' = "run"
        PROVE  /\ \A b \in DOMAIN Held \ {"ustack"} : AfterTurn[b] = Held[b]'
               /\ \A n \in 0..(usp' - 1) : AfterTurn.ustack[n] = ustack'[n]
    BY <1>1, <2>1, StepDone DEF Implements
  <2> QED BY <1>1, <2>1
<1>2. Spec => []DataTypeOK
  BY DataAlwaysFits
<1>3. Spec => []CU!TypeOK
  BY MachineTypes
<1> QED BY <1>1, <1>2, <1>3, PTL DEF Spec, TicksImplementSteps
=============================================================================
