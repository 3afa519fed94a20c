# FabComp in TLA+

FabComp is a 16-bit, microprogrammed, memory-to-memory machine: a C++ simulator
of its data path and control path (`chip/`), the microprogram it executes
(written as an RTL listing inside `hard.tex`), a toolchain of scripts that turns
that listing into two ROM images (`ucode/`), and an assembler (`fasm/`).
`isa.tex` says what a programmer sees, `hard.tex` how the hardware is built.

This directory holds a model of the part where the machine's logic is, the
configurations that check it with TLC, and theorems checked by TLAPS. Paths
below are relative to the repository.

## 1. The system

| Component | Code | State it keeps | Operations | Talks to |
|---|---|---|---|---|
| Microsequencer | `chip/microcontroller.cpp` `interpret_microprogram`, `uprocedure_call`; `chip/control_path.cpp` | `uPC`, `uSP`, `ustack[5]`, `uIR`, whether it has stopped | one per microinstruction type: control point, jump, restart, call a label, call by opcode, return, halt, reject, print, conditional or not | asks the data path for conditions and for the opcode; tells it which transfer to make |
| Data path | `execute_rtl`, `decide_conditional`; `chip/accessors.cpp`; `chip/data_path.cpp` | `PC IR MDR tmp regshift`, 16 registers, `Val[3] Addr[3] cntl[3] i`, main memory | 68 register transfers (0x00 to 0x43), 27 conditions | the ALU and memory of the Arch library |
| Microprogram | listing of `hard.tex` (lines 131 to 586) | none (it is the program of the two above) | fetch, decode, PC-relative pass, load, execute (40 procedures), write-back | calls its procedures by label and by opcode |
| Microcode toolchain | `ucode/rtlparser.sh`, `ucodegenerator.py`, `jtabgenerator.py` | shell variables for open constructs, an address counter, the two output files | one turn of the loop for each kind of line | produces the images the controller loads |
| FlipRegister | `chip/FlipRegister.cpp` | a pending flip or clear | flip a bit, clear, else as a shift register | used for `IR` and `cntl` |
| Wiring | `wire_data_path`, `wire_control_path` | the connections between registers, buses and the ALU | connect, at start-up | every transfer relies on one |
| Assembler | `fasm/fasm.cpp` | the binary so far, labels, references to relocate; the instruction word, immediate words and operand counter of the line being read; whether there was an error | read a directive, a label, a mnemonic, an operand; give a line up; close it; relocate a label; finish | produces the programs |
| Arch library | not in the repository | clock, buses, ALU, memory, counters | | underlies everything in `chip/` |
| Simulator | `chip/CPU.cpp` | files | check arguments, load, run, free | |

The simulator is sequential: one loop, one microinstruction at a time. There is
no concurrency, no message and nothing persisted. What is hard here is

* a **long sequence of legal steps**: one instruction is 20 to 80
  microinstructions through up to five nested procedures, some called through
  the opcode, whose bits the microprogram changes on the way;
* **names and values that go stale**: `cntl[i]` says where operand `i` is, and
  must be renamed after the load, before the write-back, and in short forms;
  `MDR` and `tmp` are shared by decoder, operations and conditions;
* **order**: operands are decoded left to right and may change registers, yet a
  PC-relative address needs the PC after the last of them;
* **limits**: five registers of microstack, a pointer of three bits, seven bits
  of jump-table index for eight bits of opcode, 16-bit differences;
* **the toolchain's bookkeeping**: shell variables named after a nesting level
  and reused, addresses counted while they are being emitted;
* **the clock**: requests to buses, ALU and registers take effect at the next
  tick only, three control points leave theirs to the tick of the next fetch, and
  which register a request concerns is known only at run time;
* **half-done work in the assembler**: a line may be given up after it declared
  labels and left references, addresses are computed before the words they are
  of are emitted, and arrays are guarded by a count made beforehand.

`PROJECT.json` lists each of these at its line, with the properties on it.

What makes each part correct:

* *sequencer with its microprogram*: calls and returns pair, the microstack is
  high enough, nothing is left on it between instructions, control stays in the
  program, every stop has a reason;
* *data path with the microprogram*: each instruction does what `isa.tex` says,
  or is rejected where `isa.tex` rejects it, and each one ends;
* *toolchain*: the images are those the structure of the listing calls for;
* *FlipRegister*: flipping clears, where the listing means to clear;
* *wiring*: each request uses a connection that exists, no two of a tick
  contend, and the ticks of a turn add up to the transfer it stands for;
* *assembler*: it accepts the legal sources and no others, what it emits decodes
  to what was written, and it writes inside its arrays and its binary.

## 2. Modules

| Module | Models | Correspondence |
|---|---|---|
| `RtlListing` | the language of the listing, and the images it stands for | a listing is a sequence of lines (`Rtl`, `Call`, `If`, `Else`, `Loop`, `Until`, ...). `Placed` gives each line its address and nesting, without any of the script's variables; `MicroImage` and `JumpImage` follow: the reference definition the scripts are checked against |
| `Microcode` | the microprogram | `Listing` is `hard.tex` line by line, in named pieces (phases, groups of procedures); `MicroWords` and `JumpRows` are its two images |
| `RtlParser` | the scripts | one action for each branch of `while read line`; `loops`, `elses` and `fis` are the script's counters of labels, `arr[<<lvl, k>>]` its variables `arr<lvl>_<k>` and `saved[lvl]` the index kept in `arr<lvl>_0`; `address`, `microtemp`, and the two columns `at` and `jumptable` what it writes; `Writeback` is `microcodewriteback`. `MicroFile` and `JumpFile` are the two Python scripts |
| `ControlUnit` | the sequencer | `upc usp ustack` are the registers, `opc` the opcode field of `IR`, `status` why the machine stopped. One action for each type of microinstruction; the data are abstracted to "either way" |
| `CallGraph` | when a microprogram is safe on the microstack | a certificate (contexts, the addresses and opcodes each may meet, how many frames it may need), checked one microinstruction at a time |
| `ControlUnitProofs`, `CallGraphProofs`, `RtlParserProofs` | theorems about the three | section 5 |
| `Words` | 16-bit words, fields, the ALU | external: the repository only uses the ALU. The logical operations are sums over the bits, without recursion, so that theorems can be stated about them |
| `DataPath` | registers, memory, transfers, conditions | each register's new value is an operator by control point (`NewMdr`, `NewAddr`, ...), and `Transfer` is the whole of `execute_rtl`; `Fault` and `CondFault` are the cases in which an accessor calls `emergency_halt` or indexes outside an array |
| `FabComp` | the machine | `CU == INSTANCE ControlUnit`; each action joins an action of the sequencer and what it does to the data. Here a condition is decided by the registers. `FollowsSequencer` says that it refines `ControlUnit` with any byte for an opcode: by itself that allows overflow and any flip, and the certificate of `CallGraph` carries over only to programs that keep to `FetchesKnown` (`MachineStackSafe`) |
| `OperandFlow` | when a microprogram handles its operands well | a shape is what can be known of the control words, `i` and the opcode without the data; a certificate `Meets` says which shapes each procedure, entered with a given one, meets at each address, and is checked one microinstruction at a time (`Sound`). `FetchesKnown` describes the programs it is for |
| `FabCompProofs`, `MachineProofs` | theorems about the machine: its words and registers, with any microprogram; with certified ones | section 5 |
| `ISA` | what the machine promises its programmer | `PC`, 16 registers, memory, last word printed; one step is one instruction |
| `Implementation` | FabComp implements ISA | a history variable `arch` keeps the programmer's state at the last instruction boundary; `Promise == INSTANCE ISA WITH pc <- arch.pc, ...` |
| `Wiring` | FabComp by clock ticks: the code's requests, the connections, what a tick does | a storage is a name and an index; `Feeds` and `Takes` are `wire_data_path` and `wire_control_path`; `Ticks` is `execute_rtl` control point by control point, each tick the set of requests made since the last; `SequencerTicks` and `UFetch` are `interpret_microprogram`; `Tick` computes what is held after a tick from what was held before; `AfterTurn` runs the ticks of one turn of the loop from `FabComp`'s state |
| `WiringProofs` | theorems about the requests, and about what ticks add up to | section 5 |
| `Fasm` | the assembler | `cs symbTab relTab noerrors` are its globals, `sawOpc inst curOpnd imms` the locals of `proc_line`, `ln` and `at` its two loops; one action for each kind of directive and piece, and each label relocated. A piece of the source is a record of what its text parses to, and of what is wrong with it |
| `Assembly` | what a source says | sizes and addresses from the lines alone, `Legal`, and `Decodes`: the words at a line's address are read by `ISA`'s decoder (`FabComp(a) == INSTANCE ISA ...`) and compared with what the line's operands stand for |
| `FasmProofs`, `AssemblyProofs` | theorems about the assembler: what it accepts; what it writes | section 5 |
| `MCRtlParser`, `MCControlUnit`, `MCSequencer`, `MCCallGraph`, `MCImplementation`, `MCPrograms`, `MCFasm` | instances for TLC | section 3 |

Grain of the model: one step is one microinstruction (one turn of
`interpret_microprogram`), because the loop is sequential and no state is seen
between its clock ticks by anything else. `Wiring` justifies that grain: it
recomputes each of those steps tick by tick, from the requests the code makes.
The toolchain's step is one line, the assembler's one piece of a line. The
control points and conditions keep the names the listing gives them; their
numbers, which the scripts assign with `sort | uniq` and the header spells out
again, are abstracted away.

A register popped off the microstack is forgotten (it is overwritten before it
is read again, which `FramesFollowCalls` and `NeverWild` confirm).

## 3. What the runs check

| Run | What it checks | States |
|---|---|---|
| `parser` | on `hard.tex`'s own listing and on every well-nested listing of up to 7 lines (loops, ifs, elifs, elses, around a call and an alias): the address counter is the number of lines written (`AddressCounts`), a line refers to a shell variable only while its construct is open (`ReferencesOpen`), and both files are the images the structure calls for (`ImagesRight`) | 26 000 |
| `certificate` | FabComp's microprogram on opcodes 0 to 44, whatever the data: the microstack never over- or underflows (`StackSafe`), is empty between instructions (`FetchBalanced`), and "IR(opc)(n) <- 0", which is a flip, always clears (`FlipsClear`). TLC also evaluates the assumptions of `CallGraph` on FabComp's certificate, so the theorems apply to it | 17 000 |
| `unit_any` | the same microprogram with any byte as opcode (a program that runs into its data): every return has its call, every saved address is the one after a call, and control stays in the microprogram (`NeverWild`, `FramesFollowCalls`, `StaysInProgram`). Overflow may happen there, and is reported | 315 000 |
| `sequencer` | a microprogram of 19 words that meets every type, with the conditional restart, call and return that the controller decodes but the toolchain never emits, recursion that fills the microstack, and an unbalanced return, on the 5 registers of the source: the registers' types (`TypeOK`) and `FramesFollowCalls` | 12 000 |
| `isa` | the machine implements the ISA (`ImplementsISA`) on every opcode with every number and kind of operands, every pair of address modes with operands that share and change registers, and every operation on edge values; meanwhile operations read values and never addresses (`ReadsValues`), no accessor ever refuses what it is asked (`NoEmergency`), registers keep their widths (`DataTypeOK`), and every step is one that the sequencer alone allows (`FollowsSequencer`). In each of these states and steps, tick by tick: every request goes over a connection that was made (`Wired`), no two of a tick contend (`NoContention`), and the ticks of a turn do what the step does (`TicksImplementSteps`) | 378 000 |
| `test_programs` | eleven programs of `fasm/test_progs`, as `fasm` assembles them, from start to halt: `ImplementsISA` at each instruction, each instruction ends (`InstructionsEnd`), each program ends with the result its comments announce (`TestsPass`), and none executes an opcode beyond 44 (`FetchesKnown`). TLC also computes the operand certificate of FabComp's microprogram (`FabMeets`) and evaluates the assumption of `OperandFlow` on it | 34 000 |
| `fasm` | 4217 sources: the assembler's tables have room for every operand it reads (`OperandsFit`), it complains of illegal sources and of no legal one (`AcceptsLegal`; that a complaint has its effect is `ErrorsBailOut`, in `fasm_errors`), what it writes decodes to the source, with labels, relocations and repetitions where they belong (`AssemblesMeaning`), and until an error every reference is inside the binary (`ReferencesInside`) | 97 000 |

Five more runs exhibit disagreements between code and documents:
`sequencer_underflow`, `isa_nested`, `isa_count`, `isa_overflow`, `fasm_errors`
(section 6).

Bounds, and why they are enough:

* `MaxLines = 7` in `parser`: three levels of nesting with something inside
  each, two constructs in sequence at the same level, and an `elif` chain of
  four. Each shell variable is named after a level, so what can go wrong needs
  two constructs at a level, or one inside another.
* `LegalOpcodes = 0..44` are those `isa.tex` defines; `AllOpcodes` is all bytes.
* `certificate` and `unit_any` have no bound: the data are nondeterministic and
  the state space of the sequencer is finite.
* `isa`: one instruction at address 16, then memory that is 0, a `HALT`. Every
  start is an explicit state (`ShapeStarts`, `ModeStarts`, `ValueStarts`), chosen
  so that operands of distinct kinds meet, that registers used as bases, indices
  and destinations coincide, that auto-increment and -decrement come before,
  between and after their register's other uses, that values lie at 0, the sign,
  16 (a shift by a whole word) and 65535, and that `PC` and the stack pointer
  wrap. The inputs on which the machine departs from the ISA are taken out by
  `Departs` and `Overflows`, by name, and are the subject of runs of their own.
  Each instruction finds leftovers of an earlier one in `MDR`, `tmp`, `Val`,
  `Addr`, `cntl` and `i` (`Used`), so that one that relied on a cleared register
  would be noticed; programs start from a cleared machine (`Fresh`).
* `test_programs`: deterministic; eleven programs of ten instructions to some
  hundreds, with loops, calls, recursion, every address mode, every logical
  operation and comparison, and one that changes its own code. The other fourteen
  are shorter, or exercise operations that `isa` covers one by one.

* `fasm`: every source has a subject line in fixed company: a label before it,
  data with repetitions on both sides, a label and a directive that refers to
  another one behind it, and `main` last, so that a size that is off by one moves
  something that is looked at. The subjects are all instructions of up to three
  operands of twelve forms (every address mode, numbers and labels, backward and
  forward references, one and two offsets), pairs with each of eight faulty
  operands, five pieces, labels before, after and between, two labels, a label
  declared twice, lines that are given up and leave references, and every
  directive, right and wrong. The registers hold small numbers (`SmallRegs`), so
  that the addresses the decoder computes lie inside the binary. One mnemonic
  stands for all: the assembler treats them alike.

Fairness: `FabComp!Spec` and `HSpec` assume weak fairness of the whole
next-state relation. `interpret_microprogram` is one loop that goes on until the
machine stops, and nothing else runs: a step that can be taken is taken. It is used only by `InstructionsEnd` and `TestsPass`. No other
specification assumes any.

Each property of a passing run comes with a plausible slip in the code (a
mutant: an operator with a comment "Mutant", next to the one it would replace)
under which TLC finds it violated.

## 4. External parts

The Arch library is not in the repository. `Words` and `DataPath` give its ALU,
memory and fields the meaning that the chip and its documents rely on: results
are taken modulo 2^16; a left or right shift by 16 or more gives 0, an
arithmetic one the sign; memory reads 0 where nothing was loaded. `Tick` gives
its clock the meaning the chip relies on: requests (`pullFrom`, `latchFrom`,
`perform`, `incr`, `read`, `write`, ...) wait for the next tick, where all look at
what was held before it; a bus truncates to its width. What a `FlipRegister` does
at a tick is in the repository (`FlipRegister::phase1`). If the library did anything
else, `execute_rtl` would be right or wrong for reasons outside this model.

## 5. What is proved

For every microprogram, jump table, set of opcodes and microstack height that
satisfy the assumptions of `ControlUnit` (`UMemAssumption`: fewer than 4096 words
of the 12-bit address space, and a condition only on the five types that have one,
as only cases 0xa to 0xe of `interpret_microprogram` look at it;
`UJumpTabAssumption`: at most 128 rows;
`OpcodesAssumption`: bytes; `HeightAssumption`: 1 to 7 registers, which the
pointer can count):

* `TypeCorrect`: `Spec => []TypeOK`. Inductive as it stands. Each action
  disturbs one or two registers; the lemmas say that the next address, a row of
  the jump table and a flipped opcode stay in range.
* `FramesCorrect`: `Spec => []FramesFollowCalls`. Inductive relative to `TypeOK`:
  only `Enter` adds a frame, and its current microinstruction is a call; a
  return only shortens the stack.

* `LowerHeightNeverReports`: with fewer than 7 registers, as in the source, the
  check of `microcontroller.cpp:152` never reports anything, whatever the
  microprogram: what `sequencer_underflow` shows of one of them.
* `ReturnsMatchCalls`: `ASSUME MainLoop(M) PROVE Spec => []NeverWild`. `NeverWild`
  is not inductive: what keeps the outermost level from returning is that control
  stays in the main loop there. `AboveMain(M)` says that with nothing on the
  microstack control is in `M`, and that the lowest frame returns into it;
  `MainLoop(M)` that no local step leaves `M` and that it has no return.
  `ClosedStaysInProgram`, likewise: with a set of addresses that every
  microinstruction stays in, control does. Neither looks at the opcodes: TLC
  evaluates both premises on FabComp's microprogram with every byte for an
  opcode (`AnyOpcodeAssumption` of `MCCallGraph`), so they hold of the programs
  that run into their data as well.

For every microprogram that has a certificate (the assumptions
`ContextsAssumption` and `SoundAssumption` of `CallGraph`):

* `AlwaysCertified`: `Spec => []Certified`, the inductive invariant. `StackSafe`
  alone is not inductive: that a return finds a frame depends on who called, and
  that a call fits depends on how deep its callers were allowed to be. `Certified`
  says that there is a path of contexts, one for each frame and the main loop
  first, such that each one's level plus its position fits the stack, each saved
  address continues its caller's code with any opcode its callee can return, and
  the current place is code of the last context. A local step stays in the last
  context, a call extends the path by the context `SoundCall` names, whose level
  is smaller, a return drops the last one.
* `CertifiedStackSafe`, `CertifiedFetchBalanced`, `CertifiedStaysInProgram`,
  `CertifiedFlipsClear`: the properties follow from `Certified`.

That FabComp's microprogram has a certificate (`MCCallGraph`: procedures, the
opcodes each is entered with, the addresses where a bit is cleared) is evaluated
by TLC. The certificate's levels show how the five registers are used: the
deepest chain is `illogical`, `logical`, `snz`, `siz`, `validator_four`, one frame
each; with four registers the same microprogram overflows.

For every set of sources that satisfy `SourcesAssumption` (lines are directives
with a number of repetitions, or sequences of pieces in which a mnemonic follows
only labels, as a second one would be read as a label's name; and a piece says
what its text can say, `PieceAssumption`: an opcode of the table `OPC`, a register
of `REG`, at least one term where there are parentheses, shifts of a byte):

* `OperandsAlwaysFit`: `Spec => []OperandsFit`. The count that guards the operand
  loop is made before it (`NumOpnds`), by discounting the mnemonic and one label.
  The induction has to say how that count relates to the loop: `PiecesCounted`,
  the operands read so far, the mnemonic and one label are at most the pieces
  passed; and that each operand has taken at most three words.
* `ReferencesAlwaysInside`: `Spec => []ReferencesInside`. Inductive together with
  `FasmTypeOK`: an operand's reference is within the words the operand takes
  (`OperandWords`), which join the binary when the line is closed; a line that is
  given up ends the claim, as `noerrors` becomes false.
* `AlwaysAcceptsLegal`: `Spec => []AcceptsLegal`. Each check of the code is of one
  line or one label, and `Legal` is of the whole source. The invariant, `AInv`,
  relates the two as the source is read: until something is reported, the lines
  and pieces read so far are legal, the labels declared are exactly those read so
  far, no two the same, and each reference read so far is in `relTab` or its
  label is declared; and as long as the source is legal with few labels, nothing
  is reported. An earlier form of `Legal` was found wrong by this proof: a
  directive that repeats zero times refers to nothing, so the code accepts it
  even if its label is never declared. The run `fasm` has such a source now.
* `AlwaysAssemblesMeaning`: `Spec => []AssemblesMeaning`, for binaries that fit in
  memory (a longer one would wrap around its own beginning). The invariant, `BInv`,
  adds to `AInv` what is in the binary: each line read has its words at its place,
  each of them either final or recorded in `relTab` with the label that will
  replace it (`Stored`); labels have the addresses of their lines; and the
  instruction being read has the mode bits and words of its operands so far.
  That a label is the size of the binary when it is read, and that a line adds as
  many words as `Place` counts, is what the induction is about. When the binary is
  written no reference is left, and the rest takes no steps: `ISA`'s decoder is
  run on those words, operand by operand, through every kind of operand, its
  fields taken apart (`OperandDecodes`, `InstructionDecodes`). So what the
  assembler emits and what the machine promises agree for all operands, offsets
  and values, not just those of the run.

For every set of listings that are well nested and well named
(`ListingsAssumption` of `RtlParser`; TLC evaluates it on `hard.tex`'s listing and
on the small ones of `parser`). Well nested: every `elif`, `else` and `fi` is in an
`if`, every `until` in a `loop`, and all are closed in the end. Well named: no name
is one the script's greps would take for a `loop`, an `else` or a `fi`, no two
labels share a name, and whatever is called or has a slot in the table has a label.

* `AddressAlwaysCounts`: `Spec => []AddressCounts`.
* `ReferencesAlwaysOpen`: `Spec => []ReferencesOpen`. The induction needs that
  `level` is the number of constructs the lines read so far have opened and not
  closed, and that a written line refers to no level above it. The first is a
  count over the lines, which each line changes by one at most; the second is
  what `Writeback` restores when a construct closes.
* `ImagesAlwaysRight`: `Spec => []ImagesRight`. The property is about finished files;
  the induction is about unfinished ones (`ImagesInv`). Of each line read so far
  `LinesOK` says what stands for it in the file: a line that jumps, whose construct is
  still open, refers to a shell variable, and either that variable holds the label
  of the next clause, or it is the one that the next clause will assign and none
  has come yet; once the construct is closed, the jump names that label for good.
  `SlotsOK` says that the variable of an open loop holds its label, `TableOK` and
  `PlacesOK` that the columns of the jump table are as the lines read so far require,
  `CountsOK` that the counters count lines. The step rests on what nesting means:
  two lines of the same nesting in constructs that are both still open have the
  same opener (`OneOpener`), so that what a clause or a `fi` assigns or resolves is
  its own construct's and no other's (`IfOfOpen`, `NoIfAtUntil`, `NoLoopAtClause`).
  In the end no construct is open (`AllClosed`), no two lines share a row or a label
  (`RowInjective`, `LabelInjective`), and each word and each row is compared with
  the reference definition (`WordRight`, `PlaceRight`).

For every microprogram, every program in memory and all data (`StartsAssumption`
of `FabComp`: the machine starts with words in its registers):

* `DataAlwaysFits`: `Spec => []DataTypeOK`. Inductive as it stands, but it takes
  what `Fault` says: a control point that selects a register by `i` runs only with
  `i` below 3, one that uses an operand only when there is one. The lemmas of
  `FabCompProofs` say that each result of the ALU is a word, and that each
  register's new value fits it.
* `MachineFollowsSequencer`: `Spec => FollowsSequencer`, the refinement of
  `ControlUnit` by `FabComp`. A fetch brings a byte, and the bit that
  `FlipRegister` flips is the one `ControlUnit` flips: both rest on `DataTypeOK`.
* `MachineFrames`, `MachineReturnsMatchCalls`, `MachineStaysInProgram`: through it,
  `FramesFollowCalls`, `NeverWild` and `StaysInProgram` hold of the whole machine,
  whatever it executes (the last two with a main loop and a closed set as above).
* `NeverContend`: `Spec => []NoContention`. Of each control point's ticks, and of
  the sequencer's, that they are good is shown by how they are built; three
  control points leave requests for the fetch's tick, which those must leave alone.
* `TicksAreSteps`: `Spec => TicksImplementSteps`, the grain of `FabComp` justified:
  the ticks of a turn, each looking only at what the one before has left, do what
  the step does at once. What is held is followed through the turn (`Leads`). A tick
  changes the storages its requests name and no other (`TickIs`, `OneChange`,
  `TwoChanges`); the fetch leaves the data alone (`FetchLeads`); each control point's
  ticks leave in its bank of registers what `DataPath` says (`AddrTicks`, `MdrTicks`,
  `CntlTicks`, ...) and in the other banks what was there (`ControlLands`): two
  loads that pass through MAR, increments that pass through MDR, eight shifts by one
  that add up to a division by 256, a control word cleared and then flipped bit by
  bit. The three control points that end without a tick take their last one from
  the next fetch, and it is shown that its requests and theirs do not meet
  (`LateTick`). Last come the turns of the sequencer (`Sends`): a call saves the
  incremented uPC and replaces it in the same two ticks, a return selects the
  saved address by the decremented uSP. It needs the registers' widths
  (`DataAlwaysFits`, and `TypeCorrect` through `FollowsAny`), because buses truncate, and that a
  control point has no condition.
* `MachineStackSafe`, `MachineFetchBalanced`: with a certified microprogram, the
  whole machine has these properties as long as the program does not execute
  words with opcodes outside the certificate (`FetchesKnown`; `certificate` is
  FabComp's, for opcodes 0 to 44). Without that premise they do not hold: in the
  runs with any byte for an opcode the microstack may overflow, which is reported.

With an operand certificate as well (`FlowAssumption` of `OperandFlow`, which TLC
evaluates on FabComp's in `test_programs`), for programs of known opcodes:

* `MachineReadsValues`: `[]ReadsValues`, and `MachineNoEmergency`: `[]NoEmergency`.
  Neither is inductive: whether `op1` is a value depends on what a decoder loop, a
  load loop and a validator several procedures away did to `cntl`. The invariant,
  `Met`, relates the registers and the microstack to the certificate: there is a
  path of scopes, one for each frame and the main loop first, such that the
  current address is met by the last of them with a shape that fits the
  registers, and each saved address is one where its scope goes on with whatever
  shape the procedure it called may return. A control point builds control words
  from a shape as it does from the registers (`CntlAfter` is one operator used
  for both), a condition that the shape decides goes the way it says, and an
  undecided one narrows the shape (`IfHeld`, `IfFailed`). A scope is a procedure
  and the shape it is entered with, because `validator_one` does different things
  for operands in registers and in memory. An instruction that begins forgets
  everything: nothing rests on what the one before left behind.
  For `NoEmergency` the microstack's part comes from `MachineStackSafe`, and that
  no other status is reached from the shapes: where a control point is `Safe`, no
  accessor refuses.
* `AlwaysWired`: `[]Wired`, from `ReadsValues`: operands are where the ports of
  the ALU reach them, an address never is a second operand.

The premise `FetchesKnown` is about programs, and no code checks it; the run
`test_programs` checks it of the repository's own, and both certificates are for
opcodes 0 to 44.

Only model-checked: that the machine does what the ISA says (`ImplementsISA`),
which rests on what the whole microprogram adds up to, one instruction after the
other; it holds only outside the inputs that `Departs` and `Overflows` name.
(Where a proof needs an induction over data, as `Place` of the assembler, a turn's
ticks or the addresses of a listing do, it is made over a set of numbers,
`NatSetInduction`, because the provers cannot instantiate the library's induction
rules.)
Liveness (`InstructionsEnd`, `TestsPass`) is out of the prover's reach, and so
is anything that needs `ENABLED`. `UnderflowReported` fails at the height of the source (section 6);
`MachineStackSafe` shows that FabComp's microprogram never gets there.

## 6. Where code and documents disagree

Shown by a run:

* `isa_nested`: `nand`, `nor`, `xnor`, `slt`, `seq`, `sne`, `sle`, `sge` with two
  operands and operand 0 in memory are rejected. Both the operation and the one
  it calls run `validator_one`; the first names operand 1 `Val[0]`, that is
  10000, which the second takes for "not used". `isa.tex:201` allows 2 or 3
  operands to the whole group.
* `isa_count`: `land` and its family execute with a single operand
  (`isa.tex:201`), and the operations of groups 3 to 9 with superfluous ones: no
  validator looks beyond the operands its group uses (`isa.tex:206` to 218 give
  each group's number). The run has one instruction of each group, and each of
  them alone violates `ImplementsISA`; `Departs` leaves out these, and those of
  `isa_nested`, from the starts of `isa`.
* `isa_overflow`: the orderings look at the sign of a 16-bit difference; `slt` of
  -32768 and 1 is 0 (`isa.tex:155`).
* `sequencer_underflow`: a return from an empty microstack decrements the 3-bit
  pointer to 7, which is not 5, so the check for underflow
  (`microcontroller.cpp:152`) misses it and `ustack[7]` is read. FabComp's own
  microprogram never does this (`NeverWild`).
* `fasm_errors`: what `scaled_ams` returns is dropped (`fasm.cpp:353`,
  `fasm.cpp:404`): after an error in a scaled operand the line is assembled, with
  zeros for what was not read, the binary is written and the exit status is 0,
  against "Bail out if there was an assembly error" (`fasm.cpp:242`).

Seen while modelling, not the subject of a run: `ADDENDUM:16` gives `PRNT` the
opcode 0x20, all the code and `isa.tex` 0x1e; `hard.tex:654` calls the condition of
a conditional goto its "sufficient clause", while the controller skips the goto
when the condition holds (the toolchain emits conditions accordingly); `hard.tex:83`
calls the microstack a 3-register bank, where the code has 5 and the microprogram
needs them. In the assembler: relocations are made before it bails out, those of
lines that were given up included, and such a line's references may be past the
end of the binary (`cs[ref]`, `fasm.cpp:239`; the model ends in status `wild`
there, as what follows is undefined); only one label of a line is discounted
(`fasm.cpp:280`), so that a line with two and three operands is refused; the
check for a digit at `fasm.cpp:375` looks at the `%` in front and never fires; after an
error, directives are skipped without a look at their name; `syntax.txt` gives
`.word` and immediates no labels, the code supports both.

## 7. Not modelled, and why

* In the assembler: how text is cut into pieces, numbers and names; a `.word`
  without an argument and a scaled operand without a term, whose outcome is
  undefined and no source would mean; scale factors above 255, which would run
  into the next field; file names and the format of the output.
* In the toolchain: the `sed` commands that take the listing out of the
  document, the numbering of control points and conditions, LaTeX tables.
* `CPU.cpp` (arguments, files, freeing), trace output and its table of
  mnemonics: sequential I/O without state to check.
* Opcodes 45 to 255 with data: they execute clauses of other procedures, which
  no document describes. Only the sequencer's side is checked (`unit_any`).

## 8. Plan

Order of construction, the most important behaviour first:

1. *Done.* `RtlListing`, `Microcode`, `RtlParser`: the images everything runs on.
2. *Done.* `ControlUnit`, `MCSequencer`, `MCControlUnit`: the sequencer. `TypeOK`
   and `FramesFollowCalls` proved.
3. *Done.* `CallGraph`: microstack safety proved for certified microprograms.
4. *Done.* `Words`, `DataPath`, `FabComp`, `ISA`, `Implementation`: the machine
   implements its instruction set, on small instances.
5. *Done.* `Fasm`, `Assembly`: labels, relocation and operand encoding, composed
   with `ISA`'s decoder, and the error path whose result is dropped.
   All four properties of the run proved.
6. *Done.* `Wiring`: connections, contention, and the ticks as a refinement of
   the machine's steps; `FlipRegister` with several requests in one tick.
7. *Done.* `RtlParserProofs`; `FabComp` refines `ControlUnit`, checked and
   proved, which, for programs that keep to `FetchesKnown`, carries
   the certificate over to the whole machine; `DataTypeOK`.
8. *Done.* `OperandFlow`: operands as a certificate, checked by TLC, and the
   theorems on operands, emergencies and wiring that rest on it.
9. *Done.* `AssemblyProofs`: what the assembler writes decodes to the source.
10. *Done.* `TicksImplementSteps`, control point by control point.
11. *Done.* `ImagesRight`, for every listing.
12. Left: `ImplementsISA` as a theorem, procedure by procedure: a certificate of what
    the registers hold at each address, as `OperandFlow` is one of where operands are.
