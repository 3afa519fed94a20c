---------------------------- MODULE MCSequencer ----------------------------
(***************************************************************************)
(* ControlUnit running a small microprogram made to meet every type of     *)
(* microinstruction, conditional and not: types 0xb to 0xe and the invalid *)
(* ones are decoded by the controller but never emitted by the toolchain,  *)
(* and FabComp's own microprogram has no unbalanced call or return.        *)
(***************************************************************************)
EXTENDS ControlUnit

Micro(op, cond, ctrl, jump) == [op |-> op, cond |-> cond, ctrl |-> ctrl, jump |-> jump]
Plain(op) == Micro(op, "always", "", 0)

(* 0: the main loop; 9: a procedure that may call itself; 15: a procedure
   reached by opcode, which returns under a condition or falls through to a
   second return; 18: an invalid word.                                     *)
TinyProgram ==
  << Micro("ctrl", "always", "IR <- Mem[PC]", 0),   \* 0
     Micro("callopc", "c", "", 0),                  \* 1   0xd
     Micro("restart", "c", "", 0),                  \* 2   0xb
     Micro("call", "c", "", 2),                     \* 3   0xc
     Plain("callopc"),                              \* 4
     Micro("jump", "c", "", 3),                     \* 5   0xa
     Plain("print"),                                \* 6
     Plain("restart"),                              \* 7
     Plain("reject"),                               \* 8
     Micro("ctrl", "always", "IR(opc)(2) <- 0", 0), \* 9
     Micro("return", "c", "", 0),                   \* 10  0xe
     Micro("call", "always", "", 2),                \* 11
     Micro("ctrl", "always", "IR(opc)(3) <- 0", 0), \* 12
     Plain("return"),                               \* 13
     Plain("halt"),                                 \* 14
     Micro("return", "c", "", 0),                   \* 15
     Plain("return"),                               \* 16
     Plain("return"),                               \* 17  reached with no call
     Plain("invalid") >>                            \* 18

TinyTable == <<14, 15, 9, 17, 18, 8>>

TinyOpcodes == {0, 1, 2, 4, 5, 6}
=============================================================================
