------------------------------- MODULE Assembly -------------------------------
(***************************************************************************)
(* What a source says, line by line, and what the assembler must make of   *)
(* it.  Sizes, addresses and operands are taken from the lines alone; the  *)
(* words the assembler wrote are read back by FabComp's decoding (ISA).    *)
(***************************************************************************)
EXTENDS Fasm, FiniteSets

CONSTANT Regs    \* the registers' contents the instructions are decoded with

Lines == DOMAIN src
Has(k, kind) == src[k].kind = "code"
                /\ \E n \in DOMAIN src[k].pieces : src[k].pieces[n].kind = kind
Instructions == {k \in Lines : Has(k, "mnemonic")}

Opcode(k)   == (CHOOSE p \in {src[k].pieces[n] : n \in DOMAIN src[k].pieces} :
                  p.kind = "mnemonic").opcode
Labels(k)   == IF src[k].kind = "code"
               THEN {n \in DOMAIN src[k].pieces : src[k].pieces[n].kind = "label"} ELSE {}
IsOperand(p) == p.kind \notin {"label", "mnemonic"}
(* The operands, of a line in the order LegalLine wants. *)
Written(k)  == SubSeq(src[k].pieces, Cardinality(Labels(k)) + 2, Len(src[k].pieces))

Size(p) == IF p.kind = "disp" THEN 3 ELSE IF p.kind = "scaled" THEN 2 ELSE 1
SizeOf(opnds, n) == IF n <= Len(opnds) THEN Size(opnds[n]) ELSE 0

(* A legal instruction has at most three operands. *)
LineSize(k) ==
  IF src[k].kind = "directive" THEN src[k].reps
  ELSE IF k \in Instructions
       THEN 1 + SizeOf(Written(k), 1) + SizeOf(Written(k), 2) + SizeOf(Written(k), 3)
       ELSE 0

(* The address of line k, were there no errors. *)
Place[k \in 1..(Len(src) + 1)] == IF k = 1 THEN 0 ELSE Place[k - 1] + LineSize(k - 1)

Declares(k, label) == \E n \in Labels(k) : src[k].pieces[n].label = label
Declared == UNION {{src[k].pieces[n].label : n \in Labels(k)} : k \in Lines}
Address(label) == Place[CHOOSE k \in Lines : Declares(k, label)]
ValueOf(p) == (IF p.label = "" THEN p.value ELSE Address(p.label)) % WORDS

-----------------------------------------------------------------------------
(* The binary, as FabComp decodes it. *)

Image == [a \in 0..(Len(cs) - 1) |-> cs[a + 1]]

FabComp(a) == INSTANCE ISA WITH pc <- a, reg <- Regs, mem <- Image, out <- 0,
                                status <- "run"

At(a) == IF a \in DOMAIN Image THEN Image[a] ELSE 0

(* The offset of a term: its register, shifted. *)
Offset(t, r) == ShiftLeft(r[t.reg], t.shift)
Indexed(base, terms, r) ==
  LET first == Add(base, Offset(terms[1], r))
  IN  IF Len(terms) = 1 THEN first ELSE Add(At(first), Offset(terms[2], r))

(* What operand p of an instruction before address next stands for. *)
Stands(p, r, next) ==
  CASE p.kind = "imm" -> <<"imm", ValueOf(p)>>
    [] p.kind = "reg" /\ p.suffix = "" -> <<"reg", p.reg>>
    [] p.kind = "reg" /\ p.suffix # "" -> <<"mem", r[p.reg]>>
    [] p.kind = "abs" -> <<"mem", ValueOf(p)>>
    [] p.kind = "rel" -> <<"mem", Add(p.value % WORDS, next)>>
    [] p.kind = "scaled" -> <<"mem", Indexed(r[p.reg], p.terms, r)>>
    [] p.kind = "disp"   -> <<"mem", Indexed(ValueOf(p), p.terms, r)>>

(* The registers after the first n operands. *)
Stepped(opnds, n, r) ==
  IF n > Len(opnds) THEN r
  ELSE IF opnds[n].kind = "reg" /\ opnds[n].suffix \in {"+", "-"}
       THEN [r EXCEPT ![opnds[n].reg] = IF opnds[n].suffix = "+" THEN Add(@, 1) ELSE Sub(@, 1)]
       ELSE r
RegsAfter(opnds, n) ==
  LET one == Stepped(opnds, 1, Regs)
      two == Stepped(opnds, 2, one)
  IN  IF n = 0 THEN Regs ELSE IF n = 1 THEN one ELSE IF n = 2 THEN two
      ELSE Stepped(opnds, 3, two)

(* Line k's instruction is at its address and decodes to what was written. *)
Decodes(k) ==
  LET a     == Place[k]
      next  == Place[k + 1] % WORDS
      opnds == Written(k)
      read  == FabComp(a)!Operands
  IN  /\ FabComp(a)!Opcode = Opcode(k)
      /\ read[2].pc = next
      /\ read[2].reg = RegsAfter(opnds, 3)
      /\ \A n \in 0..2 :
           IF n < Len(opnds)
           THEN <<read[n].kind, read[n].at>> = Stands(opnds[n + 1], RegsAfter(opnds, n), next)
           ELSE read[n].kind = "none"

Holds(k) == \A a \in Place[k]..(Place[k + 1] - 1) : Image[a] = ValueOf(src[k])

-----------------------------------------------------------------------------
(* Legal sources. *)

Pieces(k) == {src[k].pieces[n] : n \in DOMAIN src[k].pieces}

LegalLine(k) ==
  \/ src[k].kind = "directive" /\ src[k].fault = "none"
  \/ /\ src[k].kind = "code"
     /\ \A p \in Pieces(k) : p.fault = "none" /\ (IsOperand(p) => ~TermsFail(p.terms))
     \* labels, then the mnemonic, then up to three operands; only labels may stand alone
     /\ LET n == Cardinality(Labels(k)) + 1
        IN  /\ \A m \in DOMAIN src[k].pieces :
                 /\ m < n => src[k].pieces[m].kind = "label"
                 /\ m = n => src[k].pieces[m].kind = "mnemonic"
                 /\ m > n => IsOperand(src[k].pieces[m])
                 /\ m = n + 1 => src[k].pieces[m].kind # "imm"
            /\ Len(src[k].pieces) <= n + 3

(* A word that is not stored once refers to nothing. *)
References(k) == IF src[k].kind = "directive"
                 THEN {src[k].label : n \in 1..src[k].reps}
                 ELSE {p.label : p \in {q \in Pieces(k) : IsOperand(q)}}
Referred == UNION {References(k) : k \in Lines}

Legal == /\ \A k \in Lines : LegalLine(k)
         /\ \A k, l \in Lines : \A m \in Labels(k), n \in Labels(l) :
              src[k].pieces[m].label = src[l].pieces[n].label => <<k, m>> = <<l, n>>
         /\ Referred \subseteq Declared \cup {""}

-----------------------------------------------------------------------------
(* Properties. *)

(* ADM_SHIFT has a shift, and imms has room, for every operand that is read
   (fasm.cpp:282 counts pieces, and discounts one label, before reading any). *)
OperandsFit == Reading /\ AtOperand => curOpnd < 3 /\ Len(imms) + Size(Piece) <= 9

(* A source is assembled without a complaint exactly if it is legal; a line
   with two labels may be refused (fasm.cpp:280 discounts one).            *)
Clean == status \in {"written", "empty"} /\ ~reported
FewLabels == \A k \in Lines : Cardinality(Labels(k)) < 2
AcceptsLegal == Ended => (Legal /\ FewLabels => Clean) /\ (Clean => Legal)

(* What is written without a complaint is what the source says: every
   instruction decodes to its operands, labels stand for the places of their
   lines, and execution starts at main; so long as it fits in memory.      *)
AssemblesMeaning ==
  status = "written" /\ ~reported /\ Len(cs) <= WORDS =>
    /\ Len(cs) = Place[Len(src) + 1]
    /\ \A k \in Lines : CASE src[k].kind = "directive" -> Holds(k)
                          [] k \in Instructions -> Decodes(k)
                          [] OTHER -> TRUE
    /\ Entry = IF "main" \in Declared THEN Address("main") ELSE 0

(* A relocation writes inside the binary unless a line was given up
   (fasm.cpp:239, cs[ref]): each reference is to a word already in the
   binary, or to one the line being read is about to add.                  *)
ReferencesInside ==
  noerrors => \A r \in relTab : r[2] < Len(cs) + (IF sawOpc THEN 1 + Len(imms) ELSE 0)

(* The comment at fasm.cpp:242, "Bail out if there was an assembly error". *)
ErrorsBailOut == status = "written" => ~reported
=============================================================================
