--------------------------------- MODULE Fasm ---------------------------------
(***************************************************************************)
(* The assembler (fasm.cpp): a pass over the lines, then the relocations.  *)
(* One step is one directive, one piece of a line of code, or the          *)
(* relocation of one label.                                                *)
(*                                                                         *)
(* A source is a sequence of lines, already split into pieces.  A piece    *)
(* says what its text parses to, and in "fault" what is wrong with it, if  *)
(* anything; "" stands for no label.                                       *)
(***************************************************************************)
EXTENDS Words, Sequences

CONSTANT Sources

Directive(fault, value, label, reps) ==
  [kind |-> "directive", fault |-> fault, value |-> value, label |-> label, reps |-> reps]
Code(pieces) == [kind |-> "code", pieces |-> pieces]

LabelPiece(name, fault) == [kind |-> "label", label |-> name, fault |-> fault]
Mnemonic(o, fault)      == [kind |-> "mnemonic", opcode |-> o, fault |-> fault]

(* Operands: a register and its granular suffix, a value or a label, offsets. *)
Operand(kind, r, suffix, value, label, terms, fault) ==
  [kind |-> kind, reg |-> r, suffix |-> suffix, value |-> value, label |-> label,
   terms |-> terms, fault |-> fault]
Immediate(value, label)  == Operand("imm", 0, "", value, label, <<>>, "none")
Absolute(label)          == Operand("abs", 0, "", 0, label, <<>>, "none")
PcRelative(value)        == Operand("rel", 0, "", value, "", <<>>, "none")
Register(r, suffix)      == Operand("reg", r, suffix, 0, "", <<>>, "none")
Scaled(r, terms)         == Operand("scaled", r, "", 0, "", terms, "none")
Displaced(value, label, terms) == Operand("disp", 0, "", value, label, terms, "none")
Term(r, shift, fault)    == [reg |-> r, shift |-> shift, fault |-> fault]

IsSeq(s) == s \in Seq({s[k] : k \in DOMAIN s})

OperandKinds == {"imm", "abs", "rel", "reg", "scaled", "disp"}

(* What the text of a piece can say: opcodes of OPC, registers of REG, shifts
   of a byte (a larger one would spill into the other's byte), and a term at
   least where there are parentheses.                                      *)
PieceAssumption(p) ==
  \/ p.kind = "label"
  \/ p.kind = "mnemonic" /\ p.opcode \in 0..44
  \/ /\ p.kind \in OperandKinds
     /\ p.reg \in 0..15 /\ p.suffix \in {"", "%", "+", "-"} /\ p.value \in Int
     /\ p.kind \in {"rel", "reg", "scaled"} => p.label = ""
     /\ p.kind \in {"scaled", "disp"} =>
          /\ IsSeq(p.terms) /\ p.terms # <<>>
          /\ \A k \in DOMAIN p.terms : p.terms[k].reg \in 0..15 /\ p.terms[k].shift \in 0..255

(* A source is lines that say as much as the assembler looks at; a mnemonic's
   name among the operands is an operand (a label's name).                 *)
ASSUME SourcesAssumption ==
  \A s \in Sources :
    /\ IsSeq(s)
    /\ \A k \in DOMAIN s :
         \/ s[k].kind = "directive" /\ s[k].reps \in Nat /\ s[k].value \in Int
         \/ /\ s[k].kind = "code" /\ IsSeq(s[k].pieces)
            /\ \A n \in DOMAIN s[k].pieces :
                 /\ PieceAssumption(s[k].pieces[n])
                 /\ s[k].pieces[n].kind = "mnemonic" =>
                      \A m \in 1..(n - 1) : s[k].pieces[m].kind = "label"

VARIABLES
  src,       \* the source
  ln,        \* the line being read
  at,        \* the piece of it that comes next; 0 before the line is opened
  sawOpc, inst, curOpnd, imms,   \* the line's instruction so far
  cs,        \* the binary
  symbTab,   \* label -> address
  relTab,    \* references not relocated yet: pairs of a label and an address
  noerrors,
  reported,  \* an error was printed
  status     \* what the assembler is doing, or how it ended

lineVars == <<sawOpc, inst, curOpnd, imms>>
vars == <<src, ln, at, lineVars, cs, symbTab, relTab, noerrors, reported, status>>

Init == /\ src \in Sources
        /\ ln = 1 /\ at = 0
        /\ sawOpc = FALSE /\ inst = 0 /\ curOpnd = 0 /\ imms = <<>>
        /\ cs = <<>> /\ symbTab = <<>> /\ relTab = {}
        /\ noerrors = TRUE /\ reported = FALSE
        /\ status = "reading"

Reading == status = "reading" /\ ln <= Len(src)
Line    == src[ln]
Piece   == Line.pieces[at]

NextLine == /\ ln' = ln + 1
            /\ at' = 0
            /\ sawOpc' = FALSE /\ inst' = 0 /\ curOpnd' = 0 /\ imms' = <<>>
            /\ UNCHANGED <<src, status>>

(* error(), and the line is given up; what it declared or referred to stays. *)
GiveUp == /\ noerrors' = FALSE
          /\ reported' = TRUE
          /\ NextLine
          /\ UNCHANGED <<cs, symbTab, relTab>>

-----------------------------------------------------------------------------
(* Directives.  After an error only their number of arguments is looked at. *)

BadDirective == Line.fault = "count" \/ (noerrors /\ Line.fault # "none")

RejectDirective == /\ Line.kind = "directive"
                   /\ BadDirective
                   /\ GiveUp

SkipDirective == /\ Line.kind = "directive"
                 /\ ~BadDirective /\ ~noerrors
                 /\ NextLine
                 /\ UNCHANGED <<cs, symbTab, relTab, noerrors, reported>>

WordDirective ==
  /\ Line.kind = "directive"
  /\ ~BadDirective /\ noerrors
  /\ cs' = cs \o [k \in 1..Line.reps |-> Line.value % WORDS]
  /\ relTab' = IF Line.label = "" THEN relTab
               ELSE relTab \cup {<<Line.label, Len(cs) + k - 1>> : k \in 1..Line.reps}
  /\ NextLine
  /\ UNCHANGED <<symbTab, noerrors, reported>>

-----------------------------------------------------------------------------
(* Lines of code. *)

(* Mutant: labels are not discounted. *)
NumOpndsWithLabels(pieces) == Len(pieces) - 1

(* Mutant: two labels are discounted wherever there is one. *)
NumOpndsLenient(pieces) ==
  LET n == Len(pieces)
  IN  n - (IF \E k \in 1..n : pieces[k].kind = "label" THEN (IF n < 3 THEN n ELSE 3) ELSE 1)

(* A colon anywhere counts as a label, and only one label is discounted. *)
NumOpnds(pieces) ==
  LET n == Len(pieces)
  IN  n - (IF \E k \in 1..n : pieces[k].kind = "label" THEN (IF n < 2 THEN n ELSE 2) ELSE 1)

OpenLine == /\ Line.kind = "code" /\ at = 0
            /\ NumOpnds(Line.pieces) <= 3
            /\ at' = 1
            /\ UNCHANGED <<src, ln, lineVars, cs, symbTab, relTab, noerrors, reported, status>>

TooManyOperands == /\ Line.kind = "code" /\ at = 0
                   /\ NumOpnds(Line.pieces) > 3
                   /\ GiveUp

AtPiece == Line.kind = "code" /\ at \in DOMAIN Line.pieces

LegalLabel == ~sawOpc /\ Piece.fault = "none" /\ Piece.label \notin DOMAIN symbTab

DeclareLabel == /\ AtPiece /\ Piece.kind = "label"
                /\ LegalLabel
                /\ symbTab' = [l \in DOMAIN symbTab \cup {Piece.label} |->
                                 IF l = Piece.label THEN Len(cs) ELSE symbTab[l]]
                /\ at' = at + 1
                /\ UNCHANGED <<src, ln, lineVars, cs, relTab, noerrors, reported, status>>

ReadMnemonic == /\ AtPiece /\ Piece.kind # "label" /\ ~sawOpc
                /\ Piece.kind = "mnemonic" /\ Piece.fault = "none"
                /\ sawOpc' = TRUE
                /\ inst' = 256 * Piece.opcode
                /\ at' = at + 1
                /\ UNCHANGED <<src, ln, curOpnd, imms, cs, symbTab, relTab, noerrors,
                               reported, status>>

-----------------------------------------------------------------------------
(* scaled_ams: it stops at the first faulty term; the fields it has not come
   to stay 0.  A term's register comes before its shift; two coefficients
   too many count as a faulty register.                                    *)

TermsFail(terms) == Len(terms) > 2 \/ \E k \in DOMAIN terms : terms[k].fault # "none"

Reached(terms, k) == /\ Len(terms) <= 2 /\ k <= Len(terms)
                     /\ \A j \in 1..(k - 1) : terms[j].fault = "none"

RegField == <<256, 16, 1>>    \* REG_SHIFT
ShiftField == <<256, 1>>      \* SIMM_SHIFT

TermReg(terms, k, offset) ==
  IF Reached(terms, k) /\ terms[k].fault # "register"
  THEN RegField[offset + k] * terms[k].reg ELSE 0
TermShift(terms, k) ==
  IF Reached(terms, k) /\ terms[k].fault = "none" THEN ShiftField[k] * terms[k].shift ELSE 0

RImm(terms, offset) ==
  (IF Len(terms) > 2 THEN 0 ELSE 4096 * (Len(terms) + 1))
    + TermReg(terms, 1, offset) + TermReg(terms, 2, offset)
SImm(terms) == TermShift(terms, 1) + TermShift(terms, 2)

-----------------------------------------------------------------------------
(* Operands. *)

Mode == [imm |-> 0, abs |-> 1, rel |-> 2, reg |-> 3, scaled |-> 3, disp |-> 3]
Granular(suffix) == CASE suffix = "" -> 0 [] suffix = "%" -> 1
                      [] suffix = "+" -> 4 [] suffix = "-" -> 5

(* The immediate words of operand p. *)
WordsOf(p) ==
  IF      p.kind = "reg"    THEN <<4096 * Granular(p.suffix) + 256 * p.reg>>
  ELSE IF p.kind = "scaled" THEN <<256 * p.reg + RImm(p.terms, 1), SImm(p.terms)>>
  ELSE IF p.kind = "disp"   THEN <<4096 * 4 + RImm(p.terms, 0), SImm(p.terms),
                                   p.value % WORDS>>
  ELSE <<p.value % WORDS>>

(* Mutant: the instruction word is forgotten. *)
ReferenceToInst(p) ==
  IF p.label = "" THEN {}
  ELSE {<<p.label, Len(cs) + Len(imms) + (IF p.kind = "disp" THEN 2 ELSE 0)>>}

(* Mutant: a base address after the displacement's three words. *)
ReferencePast(p) ==
  IF p.label = "" THEN {}
  ELSE {<<p.label, Len(cs) + 1 + Len(imms) + (IF p.kind = "disp" THEN 3 ELSE 0)>>}

(* Where p's label will have to be written. *)
Reference(p) ==
  IF p.label = "" THEN {}
  ELSE {<<p.label, Len(cs) + 1 + Len(imms) + (IF p.kind = "disp" THEN 2 ELSE 0)>>}

(* ADM_SHIFT and IMM_SHIFT. *)
ModeBits(p) == IF p.kind = "imm" THEN 2^(8 - curOpnd) ELSE Mode[p.kind] * 4^(2 - curOpnd)

LegalOperand == Piece.fault = "none" /\ ~(Piece.kind = "imm" /\ curOpnd = 0)

AtOperand == AtPiece /\ Piece.kind # "label" /\ sawOpc

(* What scaled_ams returns is ignored. *)
ReadOperand == /\ AtOperand
               /\ LegalOperand
               /\ inst' = inst + ModeBits(Piece)
               /\ imms' = imms \o WordsOf(Piece)
               /\ relTab' = relTab \cup Reference(Piece)
               /\ curOpnd' = curOpnd + 1
               /\ at' = at + 1
               /\ reported' = (reported \/ TermsFail(Piece.terms))
               /\ UNCHANGED <<src, ln, sawOpc, cs, symbTab, noerrors, status>>

RejectPiece ==
  /\ AtPiece
  /\ \/ Piece.kind = "label" /\ ~LegalLabel
     \/ Piece.kind # "label" /\ ~sawOpc /\ (Piece.kind # "mnemonic" \/ Piece.fault # "none")
     \/ AtOperand /\ ~LegalOperand
  /\ GiveUp

CloseLine == /\ Line.kind = "code" /\ at > Len(Line.pieces)
             /\ cs' = IF sawOpc THEN cs \o <<inst>> \o imms ELSE cs
             /\ NextLine
             /\ UNCHANGED <<symbTab, relTab, noerrors, reported>>

-----------------------------------------------------------------------------
(* Relocations, in the order of a hash table, whether there were errors or not. *)

EndOfSource == /\ status = "reading" /\ ln > Len(src)
               /\ status' = "relocating"
               /\ UNCHANGED <<src, ln, at, lineVars, cs, symbTab, relTab, noerrors, reported>>

Relocate(label) ==
  LET refs == {r \in relTab : r[1] = label}
  IN  /\ refs # {}
      /\ relTab' = relTab \ refs
      /\ UNCHANGED <<src, ln, at, lineVars, symbTab, noerrors>>
      /\ \/ /\ label \notin DOMAIN symbTab
            /\ status' = "undefined"
            /\ reported' = TRUE
            /\ UNCHANGED cs
         \/ /\ label \in DOMAIN symbTab
            /\ cs' = [k \in DOMAIN cs |-> IF <<label, k - 1>> \in refs
                                          THEN symbTab[label] % WORDS ELSE cs[k]]
            \* a reference of a line that was given up may be past the end
            /\ status' = IF \E r \in refs : r[2] >= Len(cs) THEN "wild" ELSE status
            /\ UNCHANGED reported

Finish == /\ status = "relocating" /\ relTab = {}
          /\ status' = IF ~noerrors THEN "failed"
                       ELSE IF cs = <<>> THEN "empty" ELSE "written"
          /\ UNCHANGED <<src, ln, at, lineVars, cs, symbTab, relTab, noerrors, reported>>

(* Execution starts at main, if there is one. *)
Entry == IF "main" \in DOMAIN symbTab THEN symbTab["main"] ELSE 0

ReadLine == RejectDirective \/ SkipDirective \/ WordDirective \/ OpenLine \/ TooManyOperands
            \/ DeclareLabel \/ ReadMnemonic \/ ReadOperand \/ RejectPiece \/ CloseLine

Relocations == status = "relocating" /\ \E r \in relTab : Relocate(r[1])

Ended == status \in {"undefined", "wild", "failed", "empty", "written"}

Next == \/ Reading /\ ReadLine
        \/ EndOfSource
        \/ Relocations
        \/ Finish
        \/ Ended /\ UNCHANGED vars

Spec == Init /\ [][Next]_vars
=============================================================================
