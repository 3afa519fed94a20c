------------------------------ MODULE MCPrograms ------------------------------
(***************************************************************************)
(* Implementation running the repository's test programs, as fasm          *)
(* assembles them.                                                         *)
(***************************************************************************)
EXTENDS MCImplementation, OperandFlow, TLC

Image(words) == [a \in 0..(Len(words) - 1) |-> words[a + 1]]
NoRegs == [r \in RegId |-> 0]

\* fasm/test_progs/series.fs: prints 6, 6 and the stack pointer, 65535.
SeriesWords ==
  <<6064, 3584, 4, 11324, 28160, 0, 3, 0, 11324, 28160, 0, 2, 256, 11324, 28160, 0, 1, 512,
    11324, 28160, 0, 0, 1024, 11440, 1024, 0, 6687, 42, 0, 256, 9776, 0, 10768, 0, 5692,
    1024, 768, 11324, 0, 28160, 0, 3, 10544, 4608, 5692, 768, 1024, 11324, 0, 28160, 0, 3,
    11324, 256, 28160, 0, 2, 11324, 512, 28160, 0, 1, 11324, 1024, 28160, 0, 0, 5808, 3584,
    4, 11008, 6748, 100, 28160, 0, 0, 65535, 6064, 3584, 4, 11324, 28160, 0, 3, 3840, 11324,
    28160, 0, 2, 1024, 11324, 28160, 0, 1, 1280, 11440, 28160, 0, 0, 65535, 6687, 118, 0,
    256, 11324, 1280, 0, 10544, 4608, 5756, 0, 1280, 1, 5692, 1024, 768, 10256, 71, 10544,
    4608, 5695, 768, 1024, 768, 11324, 3840, 28160, 0, 3, 11324, 1024, 28160, 0, 2, 11324,
    1280, 28160, 0, 1, 5808, 3584, 4, 10288, 7936, 5695, 768, 0, 0, 10288, 7936, 11440, 3584,
    65535, 11440, 0, 1, 11440, 256, 2, 11440, 512, 144, 10768, 0, 7728, 768, 11440, 0, 1,
    11440, 256, 2, 11440, 512, 144, 11440, 1024, 0, 10512, 71, 7728, 768, 7728, 3584>>

\* loopy.fs: totals the array 1..10 in s1.
LoopyWords ==
  <<1, 2, 3, 4, 5, 6, 7, 8, 9, 10, 11440, 1024, 10, 11440, 1280, 0, 10032, 1024, 11324, 0,
    1024, 10512, 33, 5692, 1280, 768, 9500, 16, 1024, 5808, 1280, 0, 0, 11324, 768, 24576, 0,
    0, 10288, 7936>>

\* perimeter.fs: the perimeters of three boxes, each in its third word.
PerimeterWords ==
  <<5, 4, 0, 2, 3, 0, 10, 10, 0, 0, 3, 6, 65535, 11440, 2304, 9, 11440, 1024, 0, 11440, 3072,
    0, 11440, 2048, 0, 1148, 2560, 14664, 0, 1, 9776, 2048, 1148, 2816, 29824, 0, 9, 1, 9776,
    2048, 5695, 29824, 0, 9, 2560, 2816, 9776, 1024, 6175, 22, 3072, 25600, 0, 9, 0>>

\* test.fs: "should result in $t0 being zero" (README:69).
TestProgramWords ==
  <<828, 2048, 2048, 11324, 2304, 2048, 9776, 2304, 11324, 2560, 2304, 9776, 2560, 5695,
    2048, 2304, 2560, 5948, 2048, 2560, 10032, 2048>>

\* branchTest.fs: "should result in 0" (README:44).
BranchTestWords ==
  <<0, 1, 7696, 1, 0, 6352, 2, 1, 0, 6608, 2, 0, 1, 6864, 2, 0, 1, 7120, 2, 0, 0, 7376, 2, 1,
    0, 7632, 2, 0, 1, 9360, 2, 1, 9616, 2, 0, 7696, 0, 0>>

\* addrmodeTest.fs: every address mode; it only has to end.
AddrmodeTestWords ==
  <<0, 12, 0, 2, 0, 11440, 1024, 0, 11440, 1280, 1, 11324, 2048, 1024, 828, 2048, 1024, 7728,
    2048, 828, 2048, 1280, 7728, 2048, 828, 2048, 1280, 7728, 2048, 11324, 2048, 1024, 7984,
    2048, 7728, 2048, 7984, 2048, 7728, 2048, 11440, 30848, 0, 3, 42, 7728, 30848, 0, 3,
    11324, 25856, 0, 3, 30848, 0, 3, 7728, 25856, 0, 3, 11440, 2048, 0, 11324, 22528, 25856,
    0, 3, 7728, 2048, 9776, 2048, 7728, 6144, 11440, 2048, 0, 5692, 18432, 22528, 7728, 6144,
    11440, 1536, 3, 11324, 13960, 0, 18432, 10032, 2048, 7728, 13960, 0, 11324, 9808, 0,
    13960, 0, 7728, 9808, 0, 5872, 2048, 3, 1, 11324, 6144, 9808, 0, 7728, 6144, 11324, 2304,
    6144, 7728, 2304, 11408, 2, 50, 11440, 25856, 0, 2, 60, 11308, 65410, 2304, 7712, 65408,
    11288, 2, 65407, 7696, 2, 0>>

\* bequality.fs: a comparison that goes wrong leads to "fail", which prints 1.
BequalityWords ==
  <<6864, 6, 0, 0, 10256, 21, 6864, 21, 0, 1, 7120, 21, 0, 0, 7120, 20, 0, 1, 10256, 21, 0,
    11440, 2048, 1, 7728, 2048>>

\* loop.fs: a loop around a jal; adds 10, 9, ..., 1 to s1.
LoopWords ==
  <<11440, 1024, 10, 11440, 1280, 0, 11324, 0, 1024, 10512, 23, 5692, 1280, 768, 10032,
    1024, 9500, 6, 1024, 5808, 1280, 0, 0, 11324, 768, 0, 10288, 7936>>

\* logicTest.fs: "treated in c style": lnot of 0 and 5000, last, are 1 and 0.
LogicTestWords ==
  <<11440, 1024, 0, 11440, 1280, 1, 2367, 2048, 1024, 1024, 2367, 2304, 1024, 1280, 2367,
    2560, 1280, 1280, 10768, 102, 2623, 2048, 1024, 1024, 2623, 2304, 1024, 1280, 2623,
    2560, 1280, 1280, 10768, 102, 2879, 2048, 1024, 1024, 2879, 2304, 1024, 1280, 2879,
    2560, 1280, 1280, 10768, 102, 3391, 2048, 1024, 1024, 3391, 2304, 1024, 1280, 3391,
    2560, 1280, 1280, 10768, 102, 3647, 2048, 1024, 1024, 3647, 2304, 1024, 1280, 3647,
    2560, 1280, 1280, 10768, 102, 3903, 2048, 1024, 1024, 3903, 2304, 1024, 1280, 3903,
    2560, 1280, 1280, 10768, 102, 7996, 2048, 1024, 8112, 2304, 5000, 11440, 2560, 0, 10768,
    102, 0, 7728, 2048, 7728, 2304, 7728, 2560, 11008>>

\* setTest.fs: every comparison; snz of 0 and 1, last.
SetTestWords ==
  <<11440, 1024, 0, 11440, 1280, 1, 4159, 2048, 1024, 1024, 4159, 2304, 1024, 1280, 4159,
    2560, 1280, 1024, 10768, 113, 4415, 2048, 1024, 1024, 4415, 2304, 1024, 1280, 4415,
    2560, 1280, 1024, 10768, 113, 4671, 2048, 1024, 1024, 4671, 2304, 1024, 1280, 4671,
    2560, 1280, 1024, 10768, 113, 4927, 2048, 1024, 1024, 4927, 2304, 1024, 1280, 4927,
    2560, 1280, 1024, 10768, 113, 5183, 2048, 1024, 1024, 5183, 2304, 1024, 1280, 5183,
    2560, 1280, 1024, 10768, 113, 5439, 2048, 1024, 1024, 5439, 2304, 1024, 1280, 5439,
    2560, 1280, 1024, 10768, 113, 8252, 2048, 1024, 8252, 2304, 1280, 11440, 2560, 10,
    10768, 113, 8508, 2048, 1024, 8508, 2304, 1280, 11440, 2560, 10, 10768, 113, 0, 7728,
    2048, 7728, 2304, 7728, 2560, 11008>>

\* print.fs: incr of memory's second word, 10; then it changes words of its own code.
PrintWords ==
  <<9, 10, 11440, 2048, 7, 7728, 2048, 5808, 2048, 6, 4732, 2560, 6144, 8, 7728, 18432,
    7696, 0, 11440, 2304, 1, 7728, 26880, 0, 0, 9776, 26880, 0, 0, 7728, 26880, 0, 0, 2224,
    6144, 8, 432, 6144, 15, 6064, 6144, 2, 7728, 6144>>

(* What a test's comments say of its end: registers, memory, the last word
   printed.                                                                *)
Test(words, main, regs, cells, printed) ==
  [mem |-> Image(words), pc |-> main, reg |-> NoRegs, left |-> Fresh,
   regs |-> regs, cells |-> cells, printed |-> printed]

Tests == {
  Test(SeriesWords, 150, {<<3, 6>>, <<14, 65535>>}, {}, {65535}),
  Test(LoopyWords, 10, {<<5, 55>>}, {}, Word),
  Test(PerimeterWords, 13, {}, {<<2, 18>>, <<5, 10>>, <<8, 40>>}, Word),
  Test(TestProgramWords, 0, {<<8, 0>>}, {}, Word),
  Test(BranchTestWords, 5, {}, {}, {0}),
  Test(AddrmodeTestWords, 5, {}, {}, Word),
  Test(BequalityWords, 0, {}, {}, {0}),
  Test(LoopWords, 0, {<<5, 55>>}, {}, Word),
  Test(LogicTestWords, 0, {<<8, 1>>, <<9, 0>>, <<10, 0>>}, {}, {0}),
  Test(SetTestWords, 0, {<<8, 0>>, <<9, 1>>, <<10, 10>>}, {}, {10}),
  Test(PrintWords, 2, {}, {<<1, 11>>}, Word) }

-----------------------------------------------------------------------------
\* Each test program of fasm/test_progs ends, and with the result its comments
\* (or the README's) announce.
TestsPass ==
  \A t \in Tests :
    (pc = t.pc /\ mem = t.mem) =>
      <>(/\ status = "halt"
         /\ \A x \in t.regs : reg[x[1]] = x[2]
         /\ \A x \in t.cells : Read(x[1]) = x[2]
         /\ out \in t.printed)

-----------------------------------------------------------------------------
(* The certificate of OperandFlow for FabComp's microprogram, computed: what a
   procedure entered with a shape may meet, the procedures it calls being
   entered with theirs.                                                     *)

LegalOpcodes == 0..44
MainPlace    == <<0, Forgotten>>

(* Where x goes on in its own procedure, but for calls, in the image m. *)
LocalNext(m, x) ==
  LET s    == x[2]
      inst == m.words[x[1] + 1]
  IN  (IF inst.op = "ctrl" THEN {<<x[1] + 1, ShapeAfter(inst.ctrl, s)>>} ELSE {})
      \cup (IF inst.op = "print" \/ Skips(inst, s) THEN {<<x[1] + 1, IfHeld(inst.cond, s)>>}
            ELSE {})
      \cup (IF inst.op = "jump" /\ Goes(inst, s)
            THEN {<<m.rows[inst.jump + 1], IfFailed(inst.cond, s)>>} ELSE {})
      \cup (IF inst.op = "restart" /\ Goes(inst, s) THEN {MainPlace} ELSE {})

(* The places it calls. *)
Entries(m, x) ==
  LET s    == x[2]
      inst == m.words[x[1] + 1]
  IN  CASE inst.op = "call" /\ Goes(inst, s) -> {<<m.rows[inst.jump + 1], s>>}
        [] inst.op = "callopc" /\ Goes(inst, s) ->
             {<<m.rows[o + 1], [s EXCEPT !.o = o]>> :
                o \in IF s.o = AnyFetched THEN LegalOpcodes ELSE {s.o}}
        [] OTHER -> {}

RECURSIVE Walk(_, _, _)
Walk(m, new, met) ==
  LET Back(x) == {<<x[1] + 1, y[2]>> :
                    y \in {z \in UNION {Walk(m, {e}, {}) : e \in Entries(m, x)} :
                             Returns(m.words[z[1] + 1], z[2])}}
      next    == UNION {LocalNext(m, x) \cup Back(x) : x \in new}
  IN  IF new = {} THEN met ELSE Walk(m, next \ (met \cup new), met \cup new)

(* flow, with what the entries in new, and the ones they lead to, meet. *)
RECURSIVE Explore(_, _, _)
Explore(m, new, flow) ==
  LET known == [e \in new |-> Walk(m, {e}, {})] @@ flow
      next  == UNION {UNION {Entries(m, x) : x \in known[e]} : e \in new}
  IN  IF new = {} THEN flow ELSE Explore(m, next \ DOMAIN known, known)

FabMeets ==
  LET m == [words |-> MicroWords, rows |-> JumpRows]
  IN  Explore(m, {MainPlace}, [e \in {} |-> {}])
=============================================================================
