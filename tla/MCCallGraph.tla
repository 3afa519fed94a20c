----------------------------- MODULE MCCallGraph -----------------------------
(***************************************************************************)
(* The certificate of FabComp's microprogram.  A context is a procedure    *)
(* with the opcode it is entered with; the opcode changes only where one   *)
(* of its bits is cleared, or in "logical", called by "illogical".         *)
(***************************************************************************)
EXTENDS CallGraph, Microcode

UMem     == MicroWords
UJumpTab == JumpRows

LegalOpcodes == 0..44

(* The procedures in uMem, in listing order: first and last address, how many
   frames it may still need, the opcodes it is entered with.                *)
P(first, last, level, opcodes) ==
  [first |-> first, last |-> last, level |-> level, opcodes |-> opcodes]

Computing  ==
  << P(106, 106, 0, {0}),                        \* halt
     P(107, 109, 1, {1, 5}),                     \* and
     P(110, 112, 1, {2, 6}),                     \* or
     P(113, 115, 1, {3, 7}),                     \* xor
     P(116, 118, 1, {4}),                        \* lsft
     P(119, 124, 2, {5}),                        \* nand
     P(125, 130, 2, {6}),                        \* nor
     P(131, 136, 2, {7}),                        \* xnor
     P(137, 139, 1, {8}),                        \* rsft
     P(140, 142, 1, {12}),                       \* rasft
     P(143, 149, 2, {16, 21}),                   \* slt
     P(150, 156, 1, {17, 20}),                   \* sgt
     P(157, 163, 2, 18..19),                     \* seq
     P(164, 169, 3, {19}),                       \* sne
     P(170, 175, 2, {20}),                       \* sle
     P(176, 181, 3, {21}),                       \* sge
     P(182, 184, 1, {22, 38}),                   \* add
     P(185, 187, 1, {16, 18, 19, 21, 23, 39}),   \* sub
     P(188, 190, 1, {30}),                       \* prnt
     P(191, 196, 1, 1..3 \cup 9..11 \cup 19..21 \cup 31..33), \* siz
     P(197, 201, 2, 9..11 \cup {33}),            \* snz
     P(202, 204, 1, 5..7 \cup {34}),             \* not
     P(205, 207, 1, {35}),                       \* neg
     P(208, 210, 2, {38}),                       \* incr
     P(211, 213, 2, {39}) >>                     \* decr

Moving ==
  << P(214, 217, 1, {40, 43}),                   \* jmp
     P(218, 222, 1, 41..42),                     \* jal
     P(223, 227, 2, {42}),                       \* call
     P(228, 233, 2, {43}),                       \* ret
     P(234, 236, 1, {44}),                       \* move
     P(237, 248, 3, 9..11),                      \* logical
     P(249, 254, 4, 13..15),                     \* illogical
     P(255, 261, 4, 24..29),                     \* compbranch
     P(262, 268, 3, 36..37) >>                   \* simpbranch

Validators ==
  << P(269, 278, 0, 1..8 \cup {12} \cup 16..23 \cup 38..39),   \* one
     P(279, 287, 0, 24..29),                                   \* two
     P(288, 294, 0, {30}),                                     \* three
     P(295, 301, 0, 1..3 \cup 5..7 \cup 9..11 \cup 19..21 \cup 31..35), \* four
     P(302, 308, 0, 36..37),                                   \* five
     P(309, 313, 0, 38..39),                                   \* six
     P(314, 318, 0, 40..43),                                   \* seven
     P(319, 319, 0, {43}),                                     \* eight
     P(320, 324, 0, {44}) >>                                   \* nine

Procedures == Computing \o Moving \o Validators

(* Where bits of the opcode are cleared: at a's successor it is less by bits. *)
Clearings == {<<246, 8>>, <<249, 4>>, <<250, 8>>, <<256, 8>>, <<263, 4>>}
Before4(first, a) == Cardinality({c \in Clearings : first <= c[1] /\ c[1] < a /\ c[2] = 4})
Before8(first, a) == Cardinality({c \in Clearings : first <= c[1] /\ c[1] < a /\ c[2] = 8})
OpcodeAt(first, a, o) == o - 4 * Before4(first, a) - 8 * Before8(first, a)

MainCtx == <<0, 0>>

FabCtx ==
  {MainCtx} \cup UNION {{<<k, o>> : o \in Procedures[k].opcodes} : k \in DOMAIN Procedures}

CodeOf(p, o) == {<<a, OpcodeAt(p.first, a, o)>> : a \in p.first..p.last}

FabCode == [c \in FabCtx |-> IF c = MainCtx THEN (0..105) \X LegalOpcodes
                             ELSE CodeOf(Procedures[c[1]], c[2])]
FabLvl  == [c \in FabCtx |-> IF c = MainCtx THEN 5 ELSE Procedures[c[1]].level]

-----------------------------------------------------------------------------
(* Whatever the opcodes: the main loop is what precedes the procedures. *)
ASSUME AnyOpcodeAssumption == MainLoop(0..105) /\ Closed(0..(Len(uMem) - 1))
=============================================================================
