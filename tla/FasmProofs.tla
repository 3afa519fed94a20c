----------------------------- MODULE FasmProofs -----------------------------
(***************************************************************************)
(* For every source: no operand is read that inst or imms has no room for, *)
(* no relocation falls outside the binary unless a line was given up, and  *)
(* it is assembled without a complaint exactly if it is legal.             *)
(***************************************************************************)
EXTENDS Assembly, FiniteSetTheorems, TLAPS

-----------------------------------------------------------------------------
(* Sequences, whatever they hold. *)

(* An element of some Seq(S) is a sequence. *)
LEMMA SeqIsSeq == ASSUME NEW S, NEW s \in Seq(S) PROVE IsSeq(s)
  BY DEF IsSeq

(* A concatenation is a sequence, as long as its parts together. *)
LEMMA ConcatIsSeq ==
  ASSUME NEW s, NEW t, IsSeq(s), IsSeq(t)
  PROVE  IsSeq(s \o t) /\ Len(s \o t) = Len(s) + Len(t) /\ Len(s) \in Nat /\ Len(t) \in Nat
<1> DEFINE S == {s[k] : k \in DOMAIN s} \cup {t[k] : k \in DOMAIN t}
<1>1. s \in Seq(S) /\ t \in Seq(S)
  BY DEF IsSeq
<1>2. s \o t \in Seq(S) /\ Len(s \o t) = Len(s) + Len(t) /\ Len(s) \in Nat /\ Len(t) \in Nat
  BY <1>1
<1> QED BY <1>2, SeqIsSeq

(* A function on 1..n is a sequence of length n. *)
LEMMA FunctionIsSeq ==
  ASSUME NEW n \in Nat, NEW f, f = [k \in 1..n |-> f[k]]
  PROVE  IsSeq(f) /\ Len(f) = n
<1> DEFINE S == {f[k] : k \in 1..n}
<1>1. f \in [1..n -> S]
  OBVIOUS
<1>2. f \in Seq(S) /\ Len(f) = n
  BY <1>1
<1> QED BY <1>2, SeqIsSeq

-----------------------------------------------------------------------------
(* The inductive invariant. *)

FasmTypeOK ==
  /\ src \in Sources
  /\ ln \in Nat \ {0} /\ at \in Nat /\ curOpnd \in Nat
  /\ sawOpc \in BOOLEAN /\ noerrors \in BOOLEAN
  /\ IsSeq(cs) /\ IsSeq(imms)
  /\ \A r \in relTab : r[2] \in Nat

LabelBefore(n) == \E k \in 1..(n - 1) : Line.pieces[k].kind = "label"
OtherBefore(n) == \E k \in 1..(n - 1) : Line.pieces[k].kind # "label"

(* Each piece read so far was a label, the mnemonic or an operand. *)
PiecesCounted ==
  /\ curOpnd + (IF sawOpc THEN 1 ELSE 0) + (IF LabelBefore(at) THEN 1 ELSE 0) <= at - 1
  /\ sawOpc => OtherBefore(at)

LineInv ==
  /\ ~sawOpc => curOpnd = 0 /\ imms = <<>>
  /\ at = 0 => ~sawOpc
  /\ Len(imms) <= 3 * curOpnd
  /\ Reading /\ Line.kind = "directive" => at = 0
  /\ Reading /\ Line.kind = "code" /\ at # 0 => NumOpnds(Line.pieces) <= 3 /\ PiecesCounted

IInv == FasmTypeOK /\ LineInv /\ ReferencesInside

PieceOK(n) == \/ Line.pieces[n].kind \in {"label"} \cup OperandKinds
              \/ /\ Line.pieces[n].kind = "mnemonic"
                 /\ \A m \in 1..(n - 1) : Line.pieces[m].kind = "label"

(* The line being read is one of the source's. *)
LEMMA LineOK ==
  ASSUME FasmTypeOK, Reading
  PROVE  /\ Line.kind \in {"directive", "code"}
         /\ Line.kind = "directive" => Line.reps \in Nat
         /\ Line.kind = "code" =>
              /\ IsSeq(Line.pieces) /\ Len(Line.pieces) \in Nat
              /\ DOMAIN Line.pieces = 1..Len(Line.pieces)
              /\ \A n \in DOMAIN Line.pieces : PieceOK(n)
<1>1. IsSeq(src) /\ ln \in DOMAIN src
  BY SourcesAssumption DEF FasmTypeOK, Reading, IsSeq
<1>4. \A p : PieceAssumption(p) => p.kind \in {"label", "mnemonic"} \cup OperandKinds
  BY Zenon DEF PieceAssumption
<1>5. \/ Line.kind = "directive" /\ Line.reps \in Nat
      \/ /\ Line.kind = "code" /\ IsSeq(Line.pieces)
         /\ \A n \in DOMAIN Line.pieces :
              /\ PieceAssumption(Line.pieces[n])
              /\ Line.pieces[n].kind = "mnemonic" =>
                   \A m \in 1..(n - 1) : Line.pieces[m].kind = "label"
  BY <1>1, SourcesAssumption DEF FasmTypeOK, Line
<1>2. \/ Line.kind = "directive" /\ Line.reps \in Nat
      \/ /\ Line.kind = "code" /\ IsSeq(Line.pieces)
         /\ \A n \in DOMAIN Line.pieces : PieceOK(n)
  BY <1>4, <1>5 DEF PieceOK
<1>3. IsSeq(Line.pieces) => Len(Line.pieces) \in Nat /\ DOMAIN Line.pieces = 1..Len(Line.pieces)
  BY DEF IsSeq
<1> QED BY <1>2, <1>3

(* An operand takes its Size in immediate words, and its label is in one of them. *)
LEMMA OperandWords ==
  ASSUME FasmTypeOK, NEW p, p.kind \in OperandKinds
  PROVE  /\ IsSeq(WordsOf(p)) /\ Len(WordsOf(p)) = Size(p) /\ Size(p) \in 1..3
         /\ \A r \in Reference(p) :
              r[2] \in Nat /\ r[2] < Len(cs) + 1 + Len(imms) + Size(p)
<1>1. /\ \A a : IsSeq(<<a>>) /\ Len(<<a>>) = 1
      /\ \A a, b : IsSeq(<<a, b>>) /\ Len(<<a, b>>) = 2
      /\ \A a, b, c : IsSeq(<<a, b, c>>) /\ Len(<<a, b, c>>) = 3
  BY DEF IsSeq
<1> DEFINE a == 4096 * Granular(p.suffix) + 256 * p.reg
           b == 256 * p.reg + RImm(p.terms, 1)
           c == 4096 * 4 + RImm(p.terms, 0)
           d == SImm(p.terms)
           e == p.value % WORDS
<1>2. WordsOf(p) = IF p.kind = "reg" THEN <<a>> ELSE IF p.kind = "scaled" THEN <<b, d>>
                   ELSE IF p.kind = "disp" THEN <<c, d, e>> ELSE <<e>>
  <2>1. CASE p.kind = "reg"
    BY <2>1, Zenon DEF WordsOf
  <2>2. CASE p.kind # "reg" /\ p.kind = "scaled"
    BY <2>2, Zenon DEF WordsOf
  <2>3. CASE p.kind # "reg" /\ p.kind # "scaled" /\ p.kind = "disp"
    BY <2>3, Zenon DEF WordsOf
  <2>4. CASE p.kind # "reg" /\ p.kind # "scaled" /\ p.kind # "disp"
    BY <2>4, Zenon DEF WordsOf
  <2> QED BY <2>1, <2>2, <2>3, <2>4
<1> HIDE DEF a, b, c, d, e
<1>3. IsSeq(WordsOf(p)) /\ Len(WordsOf(p)) = Size(p)
  BY <1>1, <1>2 DEF Size
<1>4. Size(p) \in 1..3 /\ (p.kind = "disp" => Size(p) = 3)
  BY DEF Size
<1>5. Len(cs) \in Nat /\ Len(imms) \in Nat
  BY DEF FasmTypeOK, IsSeq
<1>6. ASSUME NEW r \in Reference(p)
      PROVE  r[2] = Len(cs) + 1 + Len(imms) + (IF p.kind = "disp" THEN 2 ELSE 0)
  <2> DEFINE n == Len(cs) + 1 + Len(imms) + (IF p.kind = "disp" THEN 2 ELSE 0)
  <2>1. Reference(p) = IF p.label = "" THEN {} ELSE {<<p.label, n>>}
    BY Zenon DEF Reference
  <2> HIDE DEF n
  <2>2. r = <<p.label, n>>
    BY <1>6, <2>1
  <2>3. r[2] = n
    BY <2>2
  <2> QED BY <2>3 DEF n
<1> QED BY <1>3, <1>4, <1>5, <1>6

(* Starting the next line keeps the invariant's parts about a line. *)
LEMMA NextLineInv ==
  ASSUME FasmTypeOK, NextLine, IsSeq(cs'), noerrors' \in BOOLEAN, \A r \in relTab' : r[2] \in Nat
  PROVE  FasmTypeOK' /\ LineInv'
<1>e. IsSeq(<<>>) /\ Len(<<>>) = 0
  BY DEF IsSeq
<1>1. FasmTypeOK'
  <2>1. IsSeq(imms') /\ IsSeq(cs')
    BY <1>e DEF NextLine
  <2>2. src' = src /\ ln' = ln + 1 /\ at' = 0 /\ curOpnd' = 0 /\ sawOpc' = FALSE
    BY DEF NextLine
  <2>3. at' \in Nat /\ curOpnd' \in Nat
    BY <2>2
  <2>4. src' \in Sources /\ sawOpc' \in BOOLEAN
    BY <2>2 DEF FasmTypeOK
  <2>5. ln' \in Nat \ {0}
    <3>1. ln \in Nat /\ ln' = ln + 1
      BY <2>2 DEF FasmTypeOK
    <3> QED BY <3>1
  <2> QED BY Zenon, <2>1, <2>3, <2>4, <2>5 DEF FasmTypeOK
<1>2. at' = 0 /\ ~sawOpc' /\ curOpnd' = 0 /\ imms' = <<>> /\ Len(imms') = 0
  BY <1>e DEF NextLine
<1> QED BY <1>1, <1>2 DEF LineInv

(* A piece is at most the number of pieces read, plus itself. *)
LEMMA NextPieceInv ==
  ASSUME IInv, Reading, AtPiece,
         at' = at + 1, UNCHANGED <<src, ln, cs, noerrors, status>>, sawOpc' \in BOOLEAN,
         \/ Piece.kind = "label" /\ UNCHANGED lineVars
         \/ Piece.kind # "label" /\ ~sawOpc /\ sawOpc' /\ UNCHANGED <<curOpnd, imms>>
         \/ /\ Piece.kind # "label" /\ sawOpc /\ UNCHANGED sawOpc
            /\ curOpnd' = curOpnd + 1 /\ IsSeq(imms') /\ Len(imms') <= Len(imms) + 3,
         \A r \in relTab' : r[2] \in Nat
  PROVE  FasmTypeOK' /\ LineInv'
<1> USE DEF IInv
<1>1. FasmTypeOK'
  BY DEF FasmTypeOK, lineVars, IsSeq
<1>2. Line' = Line /\ Reading' = Reading
  BY DEF Line, Reading
<1>3. at \in 1..Len(Line.pieces) /\ Len(Line.pieces) \in Nat /\ Line.kind = "code"
  BY LineOK DEF AtPiece
<1>4. NumOpnds(Line.pieces) <= 3 /\ PiecesCounted
  BY <1>3 DEF LineInv
<1>5. /\ LabelBefore(at)' <=> LabelBefore(at) \/ Piece.kind = "label"
      /\ OtherBefore(at)' <=> OtherBefore(at) \/ Piece.kind # "label"
  <2>1. 1..(at' - 1) = (1..(at - 1)) \cup {at}
    BY <1>3
  <2> QED BY <2>1, <1>2 DEF LabelBefore, OtherBefore, Piece
<1>6. Len(imms) \in Nat /\ Len(imms') \in Nat /\ curOpnd \in Nat
  BY <1>1 DEF FasmTypeOK, IsSeq
<1>7. PiecesCounted'
  BY <1>3, <1>4, <1>5, <1>6 DEF PiecesCounted, FasmTypeOK, lineVars
<1>8. Len(imms') <= 3 * curOpnd'
  BY <1>6 DEF LineInv, lineVars
<1>9. ~sawOpc' => curOpnd' = 0 /\ imms' = <<>>
  BY DEF LineInv, lineVars
<1>10. at' # 0
  BY <1>3
<1> QED BY <1>1, <1>2, <1>3, <1>4, <1>7, <1>8, <1>9, <1>10 DEF LineInv

(* What is read as an operand is one: only labels come before a mnemonic. *)
LEMMA OperandPiece ==
  ASSUME IInv, Reading, AtOperand
  PROVE  Piece.kind \in OperandKinds
<1>1. AtPiece /\ Piece.kind # "label" /\ sawOpc
  BY DEF AtOperand
<1>2. at \in DOMAIN Line.pieces /\ Line.kind = "code"
  BY <1>1 DEF AtPiece
<1>3. PieceOK(at)
  BY <1>2, LineOK DEF IInv
<1>4. at # 0
  BY <1>1 DEF IInv, LineInv
<1>5. OtherBefore(at)
  BY <1>1, <1>2, <1>4 DEF IInv, LineInv, PiecesCounted
<1> QED BY <1>1, <1>3, <1>5 DEF PieceOK, OtherBefore, Piece

(* The invariant holds of the initial states. *)
LEMMA InitIInv == Init => IInv
<1>1. IsSeq(<<>>) /\ Len(<<>>) = 0
  BY DEF IsSeq
<1> SUFFICES ASSUME Init PROVE IInv
  OBVIOUS
<1>2. FasmTypeOK
  <2>1. IsSeq(cs) /\ IsSeq(imms) /\ src \in Sources /\ relTab = {}
    BY <1>1 DEF Init
  <2>2. ln \in Nat \ {0} /\ at \in Nat /\ curOpnd \in Nat
    BY DEF Init
  <2>3. sawOpc \in BOOLEAN /\ noerrors \in BOOLEAN
    BY DEF Init
  <2> QED BY Zenon, <2>1, <2>2, <2>3 DEF FasmTypeOK
<1>3. LineInv
  BY <1>1 DEF Init, LineInv
<1>4. ReferencesInside
  BY DEF Init, ReferencesInside
<1> QED BY <1>2, <1>3, <1>4 DEF IInv

(* Each step keeps the invariant: a line that is left adds to the binary what
   its references count on, or is given up.                                *)
LEMMA StepIInv == IInv /\ [Next]_vars => IInv'
<1> SUFFICES ASSUME IInv, [Next]_vars PROVE IInv'
  OBVIOUS
<1>t. FasmTypeOK /\ LineInv /\ ReferencesInside
  BY DEF IInv
<1>n. Len(cs) \in Nat /\ Len(imms) \in Nat /\ noerrors \in BOOLEAN /\ IsSeq(cs)
  BY <1>t DEF FasmTypeOK, IsSeq
<1>g. ASSUME GiveUp PROVE IInv'
  <2>1. IsSeq(cs') /\ noerrors' \in BOOLEAN /\ (\A r \in relTab : r[2] \in Nat)' /\ NextLine
        /\ ~noerrors'
    BY <1>g, <1>t, <1>n DEF GiveUp, FasmTypeOK
  <2> QED BY <2>1, <1>t, NextLineInv DEF IInv, ReferencesInside
<1>1. ASSUME Reading, RejectDirective PROVE IInv'
  BY <1>1, <1>g DEF RejectDirective
<1>2. ASSUME Reading, SkipDirective PROVE IInv'
  <2>1. IsSeq(cs') /\ noerrors' \in BOOLEAN /\ (\A r \in relTab : r[2] \in Nat)' /\ NextLine
        /\ ~noerrors'
    BY <1>2, <1>t, <1>n DEF SkipDirective, FasmTypeOK
  <2> QED BY <2>1, <1>t, NextLineInv DEF IInv, ReferencesInside
<1>3. ASSUME Reading, WordDirective PROVE IInv'
  <2> DEFINE n == Line.reps
             w == Line.value % WORDS
             added == [k \in 1..n |-> w]
             here == {<<Line.label, Len(cs) + k - 1>> : k \in 1..n}
  <2>1. n \in Nat /\ ~sawOpc
    BY <1>3, <1>t, LineOK DEF WordDirective, LineInv
  <2>2. cs' = cs \o added
    BY <1>3 DEF WordDirective
  <2>3. relTab' \subseteq relTab \cup here
    BY <1>3 DEF WordDirective
  <2>4. NextLine /\ noerrors' = noerrors /\ ~sawOpc'
    BY <1>3 DEF WordDirective, NextLine
  <2> HIDE DEF w
  <2>5. IsSeq(added) /\ Len(added) = n
    BY <2>1, FunctionIsSeq
  <2>6. IsSeq(cs') /\ Len(cs') = Len(cs) + n
    BY <2>2, <2>5, <1>n, ConcatIsSeq
  <2> HIDE DEF n, added
  <2>7. ASSUME NEW r \in here PROVE r[2] \in Nat /\ r[2] < Len(cs')
    <3>1. PICK k \in 1..n : r = <<Line.label, Len(cs) + k - 1>>
      BY <2>7
    <3>2. r[2] = Len(cs) + k - 1
      BY <3>1
    <3> QED BY <3>2, <2>1, <2>6, <1>n
  <2>8. \A r \in relTab : r[2] \in Nat /\ (noerrors => r[2] < Len(cs'))
    BY <1>t, <2>1, <2>6, <1>n DEF FasmTypeOK, ReferencesInside
  <2> HIDE DEF here
  <2>9. \A r \in relTab' : r[2] \in Nat /\ (noerrors => r[2] < Len(cs'))
    BY <2>3, <2>7, <2>8
  <2>10. FasmTypeOK' /\ LineInv'
    BY <1>t, <1>n, <2>4, <2>6, <2>9, NextLineInv
  <2>11. ReferencesInside'
    BY <2>4, <2>6, <2>9, <2>1, <1>n DEF ReferencesInside
  <2> QED BY <2>10, <2>11 DEF IInv
<1>4. ASSUME Reading, OpenLine PROVE IInv'
  <2>1. at = 0 /\ at' = 1 /\ Line.kind = "code" /\ NumOpnds(Line.pieces) <= 3
        /\ UNCHANGED <<src, ln, sawOpc, curOpnd, imms, cs, relTab, noerrors, status>>
    BY <1>4 DEF OpenLine, lineVars
  <2>2. FasmTypeOK' /\ ReferencesInside'
    BY <1>t, <2>1 DEF FasmTypeOK, ReferencesInside, IsSeq
  <2>3. Line' = Line /\ Reading' = Reading
    BY <2>1 DEF Line, Reading
  <2>4. ~sawOpc /\ curOpnd = 0 /\ ~LabelBefore(at)'
    BY <1>t, <2>1 DEF LineInv, LabelBefore
  <2>5. PiecesCounted'
    BY <2>1, <2>4 DEF PiecesCounted
  <2>6. LineInv'
    BY <1>t, <2>1, <2>3, <2>4, <2>5 DEF LineInv
  <2> QED BY <2>2, <2>6 DEF IInv
<1>5. ASSUME Reading, TooManyOperands PROVE IInv'
  BY <1>5, <1>g DEF TooManyOperands
<1>6. ASSUME Reading, DeclareLabel PROVE IInv'
  <2>1. /\ AtPiece /\ Piece.kind = "label"
        /\ at' = at + 1 /\ UNCHANGED <<src, ln, lineVars, cs, relTab, noerrors, status>>
    BY <1>6 DEF DeclareLabel
  <2>2. sawOpc' \in BOOLEAN /\ \A r \in relTab' : r[2] \in Nat
    BY <2>1, <1>t DEF lineVars, FasmTypeOK
  <2>3. FasmTypeOK' /\ LineInv'
    BY <1>6, <2>1, <2>2, NextPieceInv
  <2> QED BY <1>t, <2>1, <2>3 DEF IInv, ReferencesInside, lineVars
<1>7. ASSUME Reading, ReadMnemonic PROVE IInv'
  <2>1. /\ AtPiece /\ Piece.kind # "label" /\ ~sawOpc /\ sawOpc' = TRUE
        /\ at' = at + 1
        /\ UNCHANGED <<src, ln, curOpnd, imms, cs, relTab, noerrors, status>>
    BY <1>7 DEF ReadMnemonic
  <2>2. sawOpc' \in BOOLEAN /\ \A r \in relTab' : r[2] \in Nat
    BY <2>1, <1>t DEF FasmTypeOK
  <2>3. FasmTypeOK' /\ LineInv'
    BY <1>7, <2>1, <2>2, NextPieceInv
  <2>4. ReferencesInside'
    BY <1>t, <1>n, <2>1 DEF ReferencesInside, FasmTypeOK
  <2> QED BY <2>3, <2>4 DEF IInv
<1>8. ASSUME Reading, ReadOperand PROVE IInv'
  <2>1. /\ AtPiece /\ Piece.kind # "label" /\ sawOpc /\ UNCHANGED sawOpc
        /\ at' = at + 1 /\ curOpnd' = curOpnd + 1
        /\ imms' = imms \o WordsOf(Piece) /\ relTab' = relTab \cup Reference(Piece)
        /\ UNCHANGED <<src, ln, cs, noerrors, status>>
    BY <1>8 DEF ReadOperand, AtOperand
  <2>2. Piece.kind \in OperandKinds
    BY <1>8, OperandPiece DEF ReadOperand
  <2>3. /\ IsSeq(WordsOf(Piece)) /\ Len(WordsOf(Piece)) = Size(Piece) /\ Size(Piece) \in 1..3
        /\ \A r \in Reference(Piece) :
             r[2] \in Nat /\ r[2] < Len(cs) + 1 + Len(imms) + Size(Piece)
    BY <2>2, <1>t, OperandWords
  <2>4. IsSeq(imms') /\ Len(imms') = Len(imms) + Size(Piece)
    BY <2>1, <2>3, <1>t, ConcatIsSeq DEF FasmTypeOK
  <2>5. \A r \in relTab' : r[2] \in Nat
    BY <2>1, <2>3, <1>t DEF FasmTypeOK
  <2>6. FasmTypeOK' /\ LineInv'
    <3>1. sawOpc' \in BOOLEAN /\ Len(imms') <= Len(imms) + 3
      BY <2>1, <2>3, <2>4, <1>n, <1>t DEF FasmTypeOK
    <3> QED BY <1>8, <2>1, <2>4, <2>5, <3>1, NextPieceInv
  <2>7. ReferencesInside'
    <3>1. \A r \in relTab : noerrors => r[2] < Len(cs) + 1 + Len(imms)
      BY <1>t, <2>1 DEF ReferencesInside
    <3>2. \A r \in relTab' : noerrors => r[2] < Len(cs) + 1 + Len(imms')
      BY <1>t, <1>n, <2>1, <2>3, <2>4, <3>1 DEF FasmTypeOK
    <3> QED BY <2>1, <3>2, <1>n, <2>4, <2>3 DEF ReferencesInside
  <2> QED BY <2>6, <2>7 DEF IInv
<1>9. ASSUME Reading, RejectPiece PROVE IInv'
  BY <1>9, <1>g DEF RejectPiece
<1>10. ASSUME Reading, CloseLine PROVE IInv'
  <2>1. /\ cs' = IF sawOpc THEN cs \o <<inst>> \o imms ELSE cs
        /\ NextLine /\ relTab' = relTab /\ noerrors' = noerrors /\ sawOpc' = FALSE
    BY <1>10 DEF CloseLine, NextLine
  <2>2. IsSeq(<<inst>>) /\ Len(<<inst>>) = 1
    BY DEF IsSeq
  <2>3. IsSeq(cs') /\ Len(cs') = Len(cs) + (IF sawOpc THEN 1 + Len(imms) ELSE 0)
    <3>1. IsSeq(cs \o <<inst>>) /\ Len(cs \o <<inst>>) = Len(cs) + 1
      BY <2>2, <1>n, ConcatIsSeq
    <3>2. /\ IsSeq(cs \o <<inst>> \o imms)
          /\ Len(cs \o <<inst>> \o imms) = Len(cs) + 1 + Len(imms)
      BY <3>1, <1>t, ConcatIsSeq DEF FasmTypeOK
    <3> QED BY <2>1, <3>2, <1>n
  <2>4. \A r \in relTab' : r[2] \in Nat
    BY <2>1, <1>t DEF FasmTypeOK
  <2>5. FasmTypeOK' /\ LineInv'
    BY <1>t, <1>n, <2>1, <2>3, <2>4, NextLineInv
  <2>6. ReferencesInside'
    BY <1>t, <1>n, <2>1, <2>3 DEF ReferencesInside
  <2> QED BY <2>5, <2>6 DEF IInv
<1>11. ASSUME ~Reading', UNCHANGED <<src, ln, at, lineVars>>,
              IsSeq(cs'), Len(cs') = Len(cs), relTab' \subseteq relTab, noerrors' = noerrors
       PROVE  IInv'
  <2>1. FasmTypeOK'
    BY <1>t, <1>11 DEF FasmTypeOK, lineVars, IsSeq
  <2>2. LineInv'
    BY <1>t, <1>11 DEF LineInv, lineVars
  <2>3. ReferencesInside'
    BY <1>t, <1>11 DEF ReferencesInside, lineVars
  <2> QED BY <2>1, <2>2, <2>3 DEF IInv
<1>12. CASE EndOfSource
  BY <1>12, <1>11, <1>n DEF EndOfSource, Reading, IsSeq
<1>13. CASE Relocations
  <2>1. PICK label : Relocate(label) /\ status = "relocating"
    BY <1>13 DEF Relocations
  <2>2. /\ UNCHANGED <<src, ln, at, lineVars, noerrors>> /\ relTab' \subseteq relTab
        /\ status' # "reading"
        /\ \/ cs' = cs
           \/ cs' = [k \in DOMAIN cs |-> cs'[k]]
    BY <2>1 DEF Relocate
  <2>3. IsSeq(cs') /\ Len(cs') = Len(cs)
    <3>1. DOMAIN cs = 1..Len(cs)
      BY <1>n DEF IsSeq
    <3> QED BY <2>2, <3>1, <1>n, FunctionIsSeq
  <2> QED BY <1>11, <2>2, <2>3 DEF Reading
<1>14. CASE Finish
  <2>1. /\ UNCHANGED <<src, ln, at, lineVars, cs, relTab, noerrors>>
        /\ status' # "reading"
    BY <1>14 DEF Finish
  <2> QED BY <1>11, <1>n, <2>1 DEF Reading, IsSeq
<1>15. CASE UNCHANGED vars
  BY <1>t, <1>15 DEF vars, lineVars, IInv, FasmTypeOK, LineInv, ReferencesInside, Reading, Line,
                     PiecesCounted, LabelBefore, OtherBefore, IsSeq
<1> QED
  BY <1>1, <1>2, <1>3, <1>4, <1>5, <1>6, <1>7, <1>8, <1>9, <1>10, <1>12, <1>13, <1>14, <1>15
  DEF Next, ReadLine, Ended

-----------------------------------------------------------------------------
LEMMA IInvAlways == Spec => []IInv
  BY InitIInv, StepIInv, PTL DEF Spec

(* The invariant bounds what inst and imms are indexed with. *)
LEMMA OperandFits == ASSUME IInv PROVE OperandsFit
<1> SUFFICES ASSUME Reading, AtOperand
             PROVE  curOpnd < 3 /\ Len(imms) + Size(Piece) <= 9
  BY DEF OperandsFit
<1> DEFINE n == Len(Line.pieces)
           Labelled == \E k \in 1..n : Line.pieces[k].kind = "label"
<1>1. n \in Nat /\ at \in 1..n /\ sawOpc /\ Piece.kind # "label" /\ Line.kind = "code"
  BY LineOK DEF AtOperand, AtPiece, IInv
<1>2. NumOpnds(Line.pieces) <= 3 /\ PiecesCounted /\ Len(imms) <= 3 * curOpnd
  BY <1>1 DEF IInv, LineInv
<1>3. Labelled => LabelBefore(at) \/ at < n
  BY <1>1 DEF LabelBefore, Piece
<1>4. NumOpnds(Line.pieces) = n - (IF Labelled THEN (IF n < 2 THEN n ELSE 2) ELSE 1)
  BY DEF NumOpnds
<1>5. curOpnd \in Nat /\ Len(imms) \in Nat /\ Size(Piece) \in 1..3
  BY DEF IInv, FasmTypeOK, IsSeq, Size
<1> HIDE DEF n, Labelled
<1>6. curOpnd < 3
  BY <1>1, <1>2, <1>3, <1>4, <1>5 DEF PiecesCounted
<1> QED BY <1>2, <1>5, <1>6

\* Whatever the source, and whatever errors it has, ADM_SHIFT and imms are
\* never indexed past their ends (fasm.cpp:279-283 and 322-461).
THEOREM OperandsAlwaysFit == Spec => []OperandsFit
  BY OperandFits, IInvAlways, PTL

\* Whatever the source, each relocation of one without errors writes a word of
\* the binary (fasm.cpp:231-240).
THEOREM ReferencesAlwaysInside == Spec => []ReferencesInside
<1>1. IInv => ReferencesInside
  BY DEF IInv
<1> QED BY <1>1, IInvAlways, PTL

-----------------------------------------------------------------------------
(* What is accepted. *)

(* Piece n of line k was read. *)
WasRead(k, n) == k < ln \/ (k = ln /\ n < at)

NoLabel == ""

Name(k, n) == src[k].pieces[n].label

(* The first n pieces of line k are legal, and c of them are labels. *)
LegalPieces(k, c, n) ==
  \A m \in 1..n : /\ src[k].pieces[m].fault = "none"
                  /\ IsOperand(src[k].pieces[m]) => ~TermsFail(src[k].pieces[m].terms)
                  /\ m <= c => src[k].pieces[m].kind = "label"
                  /\ m = c + 1 => src[k].pieces[m].kind = "mnemonic"
                  /\ m > c + 1 => IsOperand(src[k].pieces[m])
                  /\ m = c + 2 => src[k].pieces[m].kind # "imm"

LinesClean ==
  /\ \A k \in Lines : k < ln => LegalLine(k)
  /\ Reading /\ Line.kind = "code" /\ at # 0 =>
       /\ at - 1 <= Len(Line.pieces)
       /\ ~sawOpc => LegalPieces(ln, at - 1, at - 1)
       /\ sawOpc  => curOpnd + 2 <= at /\ LegalPieces(ln, at - 2 - curOpnd, at - 1)

(* symbTab holds the labels that were read, and no two are the same. *)
LabelsClean ==
  /\ \A k \in Lines : \A m \in Labels(k) : WasRead(k, m) => Name(k, m) \in DOMAIN symbTab
  /\ \A l \in DOMAIN symbTab : \E k \in Lines : \E m \in Labels(k) :
       WasRead(k, m) /\ Name(k, m) = l
  /\ \A j, k \in Lines : \A m \in Labels(j), n \in Labels(k) :
       WasRead(j, m) /\ WasRead(k, n) /\ Name(j, m) = Name(k, n) => j = k /\ m = n

(* What the part of line k that was read refers to. *)
ReferencesRead(k) ==
  IF k < ln THEN References(k)
  ELSE IF k = ln /\ src[k].kind = "code"
       THEN {Name(k, n) : n \in {m \in DOMAIN src[k].pieces :
                                   m < at /\ IsOperand(src[k].pieces[m])}}
       ELSE {}

(* relTab holds the references that were read, but for those relocated. *)
ReferencesClean ==
  /\ \A k \in Lines : \A l \in ReferencesRead(k) :
       \/ l = NoLabel
       \/ \E r \in relTab : r[1] = l
       \/ status # "reading" /\ l \in DOMAIN symbTab
  /\ \A r \in relTab : r[1] # NoLabel /\ \E k \in Lines : r[1] \in ReferencesRead(k)

SoFarLegal == /\ noerrors
              /\ status \in {"reading", "relocating", "written", "empty"}
              /\ LinesClean /\ LabelsClean /\ ReferencesClean

StatusInv == /\ status # "reading" => ln > Len(src)
             /\ ln > Len(src) => at = 0
             /\ status \in {"written", "empty"} => relTab = {}

AInv == /\ IInv /\ StatusInv
        /\ ~reported => SoFarLegal
        /\ Legal /\ FewLabels => ~reported

-----------------------------------------------------------------------------
(* The source stays as it is, and with it whatever it alone decides. *)
LEMMA SrcFixed ==
  ASSUME src' = src
  PROVE  /\ Lines' = Lines
         /\ \A k : Labels(k)' = Labels(k)
         /\ \A k : References(k)' = References(k)
         /\ \A k : LegalLine(k)' <=> LegalLine(k)
         /\ \A k, c, n : LegalPieces(k, c, n)' <=> LegalPieces(k, c, n)
         /\ \A k, n : Name(k, n)' = Name(k, n)
         /\ Legal' <=> Legal
         /\ FewLabels' <=> FewLabels
<1>1. Lines' = Lines
  BY DEF Lines
<1>2. \A k : Labels(k)' = Labels(k)
  BY DEF Labels
<1>3. \A k : References(k)' = References(k)
  BY DEF References, Pieces
<1>4. \A k : LegalLine(k)' <=> LegalLine(k)
  BY <1>2 DEF LegalLine, Pieces
<1>5. \A k, c, n : LegalPieces(k, c, n)' <=> LegalPieces(k, c, n)
  BY DEF LegalPieces
<1>6. \A k, n : Name(k, n)' = Name(k, n)
  BY DEF Name
<1>7. Legal' <=> Legal
  <2>1. Referred' = Referred /\ Declared' = Declared
    BY <1>1, <1>2, <1>3 DEF Referred, Declared
  <2> DEFINE Distinct == \A k, l \in Lines : \A m \in Labels(k), n \in Labels(l) :
               src[k].pieces[m].label = src[l].pieces[n].label => <<k, m>> = <<l, n>>
  <2>2. Distinct' <=> Distinct
    BY <1>1, <1>2
  <2>3. (\A k \in Lines : LegalLine(k))' <=> \A k \in Lines : LegalLine(k)
    BY <1>1, <1>4
  <2> QED BY <2>1, <2>2, <2>3, Zenon DEF Legal
<1>8. FewLabels' <=> FewLabels
  BY <1>1, <1>2 DEF FewLabels
<1> QED BY <1>1, <1>2, <1>3, <1>4, <1>5, <1>6, <1>7, <1>8

(* What a source's lines and pieces are. *)
LEMMA SourceOK ==
  ASSUME FasmTypeOK
  PROVE  /\ Lines = 1..Len(src) /\ Len(src) \in Nat
         /\ \A k \in Lines :
              \/ src[k].kind = "directive" /\ src[k].reps \in Nat /\ Labels(k) = {}
              \/ /\ src[k].kind = "code"
                 /\ DOMAIN src[k].pieces = 1..Len(src[k].pieces)
                 /\ Len(src[k].pieces) \in Nat
                 /\ \A n \in DOMAIN src[k].pieces :
                      \/ src[k].pieces[n].kind \in {"label"} \cup OperandKinds
                      \/ /\ src[k].pieces[n].kind = "mnemonic"
                         /\ \A m \in 1..(n - 1) : src[k].pieces[m].kind = "label"
                 /\ Labels(k) = {n \in DOMAIN src[k].pieces : src[k].pieces[n].kind = "label"}
<1>1. IsSeq(src) /\ src \in Sources
  BY SourcesAssumption DEF FasmTypeOK
<1>2. Lines = 1..Len(src) /\ Len(src) \in Nat
  BY <1>1 DEF IsSeq, Lines
<1>3. ASSUME NEW k \in Lines
      PROVE  \/ src[k].kind = "directive" /\ src[k].reps \in Nat
             \/ /\ src[k].kind = "code" /\ IsSeq(src[k].pieces)
                /\ \A n \in DOMAIN src[k].pieces :
                      \/ src[k].pieces[n].kind \in {"label"} \cup OperandKinds
                      \/ /\ src[k].pieces[n].kind = "mnemonic"
                         /\ \A m \in 1..(n - 1) : src[k].pieces[m].kind = "label"
  <2>1. \A p : PieceAssumption(p) => p.kind \in {"label", "mnemonic"} \cup OperandKinds
    BY Zenon DEF PieceAssumption
  <2>2. \/ src[k].kind = "directive" /\ src[k].reps \in Nat
        \/ /\ src[k].kind = "code" /\ IsSeq(src[k].pieces)
           /\ \A n \in DOMAIN src[k].pieces :
                /\ PieceAssumption(src[k].pieces[n])
                /\ src[k].pieces[n].kind = "mnemonic" =>
                     \A m \in 1..(n - 1) : src[k].pieces[m].kind = "label"
    BY <1>1, SourcesAssumption DEF Lines
  <2> QED BY <2>1, <2>2
<1>4. ASSUME NEW k \in Lines, IsSeq(src[k].pieces)
      PROVE  DOMAIN src[k].pieces = 1..Len(src[k].pieces) /\ Len(src[k].pieces) \in Nat
  BY <1>4 DEF IsSeq
<1> QED BY <1>2, <1>3, <1>4 DEF Labels

(* Where the assembler is in them. *)
LEMMA LinesOK ==
  ASSUME FasmTypeOK
  PROVE  /\ Lines = 1..Len(src) /\ Len(src) \in Nat /\ ln \in Nat \ {0} /\ at \in Nat
         /\ Lines \subseteq Nat /\ (Reading => ln \in Lines)
         /\ \A k \in Lines : \A m \in Labels(k) : m \in Nat \ {0}
         /\ \A k \in Lines : src[k].kind = "code" =>
              \A m \in DOMAIN src[k].pieces : m \in Nat \ {0}
<1>1. Lines = 1..Len(src) /\ Len(src) \in Nat
  BY SourceOK
<1>2. ln \in Nat \ {0} /\ at \in Nat
  BY DEF FasmTypeOK
<1>3. ASSUME NEW k \in Lines, src[k].kind = "code"
      PROVE  DOMAIN src[k].pieces \subseteq Nat \ {0} /\ Labels(k) \subseteq DOMAIN src[k].pieces
  <2>1. DOMAIN src[k].pieces = 1..Len(src[k].pieces) /\ Len(src[k].pieces) \in Nat
    BY <1>3, SourceOK
  <2> QED BY <2>1, <1>3 DEF Labels
<1>4. \A k \in Lines : src[k].kind # "code" => Labels(k) = {}
  BY DEF Labels
<1>5. Reading => ln \in Lines
  BY <1>1, <1>2 DEF Reading
<1> QED BY <1>1, <1>2, <1>3, <1>4, <1>5

(* A legal line of code, by the number of its labels. *)
LEMMA LegalCode ==
  ASSUME FasmTypeOK, NEW k \in Lines, src[k].kind = "code", LegalLine(k)
  PROVE  LET c == Cardinality(Labels(k))
             n == Len(src[k].pieces)
         IN  c \in Nat /\ LegalPieces(k, c, n) /\ n <= c + 4
<1> DEFINE c == Cardinality(Labels(k))
           n == Len(src[k].pieces)
<1>1. n \in Nat /\ DOMAIN src[k].pieces = 1..n /\ Labels(k) \subseteq 1..n
  BY SourceOK
<1>2. c \in Nat
  <2>1. IsFiniteSet(1..n)
    BY <1>1, FS_Interval
  <2> QED BY <1>1, <2>1, FS_Subset, FS_CardinalityType
<1>3. /\ \A p \in Pieces(k) : p.fault = "none" /\ (IsOperand(p) => ~TermsFail(p.terms))
      /\ \A m \in 1..n :
           /\ m < c + 1 => src[k].pieces[m].kind = "label"
           /\ m = c + 1 => src[k].pieces[m].kind = "mnemonic"
           /\ m > c + 1 => IsOperand(src[k].pieces[m])
           /\ m = c + 1 + 1 => src[k].pieces[m].kind # "imm"
      /\ n <= c + 1 + 3
  BY <1>1 DEF LegalLine
<1>4. \A m \in 1..n : src[k].pieces[m] \in Pieces(k)
  BY <1>1 DEF Pieces
<1> HIDE DEF c, n
<1>5. LegalPieces(k, c, n)
  BY <1>1, <1>2, <1>3, <1>4 DEF LegalPieces
<1>6. n <= c + 4
  BY <1>1, <1>2, <1>3
<1> QED BY <1>2, <1>5, <1>6 DEF c, n

(* And the other way round. *)
LEMMA CodeLegal ==
  ASSUME FasmTypeOK, NEW k \in Lines, src[k].kind = "code",
         NEW c \in 0..Len(src[k].pieces),
         LegalPieces(k, c, Len(src[k].pieces)), Len(src[k].pieces) <= c + 4
  PROVE  Labels(k) = 1..c /\ Cardinality(Labels(k)) = c /\ LegalLine(k)
<1> DEFINE n == Len(src[k].pieces)
<1>1. /\ n \in Nat /\ DOMAIN src[k].pieces = 1..n
      /\ Labels(k) = {m \in 1..n : src[k].pieces[m].kind = "label"}
  BY SourceOK
<1> HIDE DEF n
<1>2. Labels(k) = 1..c
  <2>1. \A m \in 1..n : /\ m <= c => src[k].pieces[m].kind = "label"
                        /\ m > c => src[k].pieces[m].kind # "label"
    BY <1>1 DEF LegalPieces, IsOperand, n
  <2>2. c \in Nat /\ c <= n
    BY <1>1 DEF n
  <2> QED BY <1>1, <2>1, <2>2
<1>3. Cardinality(Labels(k)) = c
  <2>1. c \in Int /\ 1 \in Int /\ c \in Nat
    BY <1>1 DEF n
  <2>2. Cardinality(1..c) = IF 1 > c THEN 0 ELSE c - 1 + 1
    BY <2>1, FS_Interval, Zenon
  <2> QED BY <1>2, <2>1, <2>2
<1>4. \A p \in Pieces(k) : p.fault = "none" /\ (IsOperand(p) => ~TermsFail(p.terms))
  BY <1>1 DEF Pieces, LegalPieces, n
<1>5. \A m \in DOMAIN src[k].pieces :
        /\ m < c + 1 => src[k].pieces[m].kind = "label"
        /\ m = c + 1 => src[k].pieces[m].kind = "mnemonic"
        /\ m > c + 1 => IsOperand(src[k].pieces[m])
        /\ m = c + 1 + 1 => src[k].pieces[m].kind # "imm"
  BY <1>1 DEF LegalPieces, n
<1>6. n <= c + 1 + 3
  BY <1>1 DEF n
<1> QED BY <1>2, <1>3, <1>4, <1>5, <1>6 DEF LegalLine, n

-----------------------------------------------------------------------------
(* The labels stay as they are, and so does which of them were read. *)
LEMMA LabelsKept ==
  ASSUME LabelsClean, src' = src, symbTab' = symbTab,
         \A k \in Lines : \A m \in Labels(k) : WasRead(k, m)' <=> WasRead(k, m)
  PROVE  LabelsClean'
  BY SrcFixed DEF LabelsClean

(* No reference is read, and a relocation is of a label that has an address. *)
LEMMA ReferencesKept ==
  ASSUME ReferencesClean, src' = src, relTab' \subseteq relTab, symbTab' = symbTab,
         \A k \in Lines : ReferencesRead(k)' = ReferencesRead(k),
         status' = status \/ status' # "reading",
         \A r \in relTab \ relTab' : status' # "reading" /\ r[1] \in DOMAIN symbTab
  PROVE  ReferencesClean'
<1>1. Lines' = Lines
  BY SrcFixed
<1>2. ASSUME NEW k \in Lines, NEW l \in ReferencesRead(k)
      PROVE  \/ l = NoLabel \/ \E r \in relTab' : r[1] = l
             \/ status' # "reading" /\ l \in DOMAIN symbTab
  BY <1>2 DEF ReferencesClean
<1>3. \A r \in relTab' : r[1] # NoLabel /\ \E k \in Lines : r[1] \in ReferencesRead(k)
  BY DEF ReferencesClean
<1> QED BY <1>1, <1>2, <1>3 DEF ReferencesClean

(* A line that was read to its end was legal; the next one is started. *)
LEMMA NextLineClean ==
  ASSUME NEW i, i = ln, FasmTypeOK, SoFarLegal, Reading, NextLine,
         symbTab' = symbTab, noerrors' = noerrors,
         LegalLine(i), \A m \in Labels(i) : m < at,
         relTab \subseteq relTab',
         \A r \in relTab' : r \in relTab \/ (r[1] # NoLabel /\ r[1] \in References(i)),
         ReferencesRead(i) \subseteq References(i),
         \A l \in References(i) :
           l = NoLabel \/ l \in ReferencesRead(i) \/ \E r \in relTab' : r[1] = l
  PROVE  SoFarLegal'
<1>1. src' = src /\ ln' = ln + 1 /\ at' = 0 /\ status' = status /\ status = "reading"
  BY DEF NextLine, Reading
<1>2. ln \in Nat /\ Lines = 1..Len(src) /\ Len(src) \in Nat /\ ln \in Lines /\ i = ln
  BY LinesOK
<1>3. \A k \in Lines : k < ln' => k < i \/ k = i
  BY <1>1, <1>2
<1>4. LinesClean'
  BY <1>1, <1>3, SrcFixed DEF SoFarLegal, LinesClean
<1>5. \A k \in Lines : \A m \in Labels(k) : m \in Nat \ {0}
  BY LinesOK
<1>6. LabelsClean'
  <2>1. ASSUME NEW k \in Lines, NEW m \in Labels(k) PROVE WasRead(k, m)' <=> WasRead(k, m)
    BY <1>1, <1>2, <1>5 DEF WasRead
  <2> QED BY <1>1, <2>1, LabelsKept DEF SoFarLegal
<1>7. /\ \A k \in Lines : k < i => ReferencesRead(k)' = ReferencesRead(k)
      /\ ReferencesRead(i)' = References(i)
      /\ \A k \in Lines : k > i => ReferencesRead(k)' = {}
  <2>1. ASSUME NEW k \in Lines, k < i PROVE ReferencesRead(k)' = ReferencesRead(k)
    BY <1>1, <1>2, <2>1, SrcFixed DEF ReferencesRead
  <2>2. ReferencesRead(i)' = References(i)
    <3>1. \A k : k < ln' => ReferencesRead(k)' = References(k)
      BY <1>1, SrcFixed DEF ReferencesRead
    <3> QED BY <1>1, <1>2, <3>1
  <2>3. ASSUME NEW k \in Lines, k > i PROVE ReferencesRead(k)' = {}
    <3>1. ~(k < ln')
      BY <1>1, <1>2, <2>3
    <3>2. src[k].kind = "code" => \A m \in DOMAIN src[k].pieces : ~(m < 0)
      BY LinesOK
    <3> QED BY <1>1, <3>1, <3>2 DEF ReferencesRead
  <2> QED BY <2>1, <2>2, <2>3
<1>8. ReferencesClean'
  <2>1. Lines' = Lines
    BY <1>1, SrcFixed
  <2>2. ASSUME NEW k \in Lines, NEW l \in ReferencesRead(k)'
        PROVE  l = NoLabel \/ \E r \in relTab' : r[1] = l
    <3>1. k < i \/ k = i \/ k > i
      BY <1>2
    <3>2. \A j \in Lines : \A x \in ReferencesRead(j) : x = NoLabel \/ \E r \in relTab' : r[1] = x
      <4>1. \A j \in Lines : \A x \in ReferencesRead(j) :
              \/ x = NoLabel \/ \E r \in relTab : r[1] = x
              \/ status # "reading" /\ x \in DOMAIN symbTab
        BY DEF SoFarLegal, ReferencesClean
      <4> QED BY <1>1, <4>1
    <3> QED BY <1>2, <1>7, <2>2, <3>1, <3>2
  <2>3. ASSUME NEW r \in relTab'
        PROVE  r[1] # NoLabel /\ \E k \in Lines : r[1] \in ReferencesRead(k)'
    <3>1. CASE r \in relTab
      <4>1. r[1] # NoLabel /\ \E k \in Lines : r[1] \in ReferencesRead(k)
        BY <3>1 DEF SoFarLegal, ReferencesClean
      <4>2. PICK k \in Lines : r[1] \in ReferencesRead(k)
        BY <4>1
      <4>3. CASE k > i
        BY <1>2, <4>2, <4>3 DEF ReferencesRead
      <4>4. CASE k < i
        BY <1>7, <4>1, <4>2, <4>4
      <4>5. CASE k = i
        BY <1>2, <1>7, <4>1, <4>2, <4>5
      <4> QED BY <1>2, <4>3, <4>4, <4>5
    <3>2. CASE r[1] # NoLabel /\ r[1] \in References(i)
      BY <1>2, <1>7, <3>2
    <3> QED BY <3>1, <3>2
  <2> QED BY <2>1, <2>2, <2>3 DEF ReferencesClean
<1>9. noerrors' /\ status' \in {"reading", "relocating", "written", "empty"}
  BY <1>1 DEF SoFarLegal
<1> QED BY <1>4, <1>6, <1>8, <1>9 DEF SoFarLegal

(* No more is read, and a relocation is of a label that has an address. *)
LEMMA RelocatingClean ==
  ASSUME SoFarLegal, src' = src, ln' = ln, at' = at, symbTab' = symbTab, noerrors' = noerrors,
         status' \in {"relocating", "written", "empty"},
         relTab' \subseteq relTab, \A r \in relTab \ relTab' : r[1] \in DOMAIN symbTab
  PROVE  SoFarLegal'
<1>1. status' # "reading"
  OBVIOUS
<1>2. LinesClean'
  BY <1>1, SrcFixed DEF SoFarLegal, LinesClean, Reading
<1>3. \A k, m : WasRead(k, m)' <=> WasRead(k, m)
  BY DEF WasRead
<1>4. LabelsClean'
  BY <1>3, LabelsKept DEF SoFarLegal
<1>5. \A k : ReferencesRead(k)' = ReferencesRead(k)
  BY SrcFixed DEF ReferencesRead
<1>6. ReferencesClean'
  BY <1>1, <1>5, ReferencesKept DEF SoFarLegal
<1> QED BY <1>2, <1>4, <1>6 DEF SoFarLegal

(* What one more piece adds to what was read. *)
LEMMA PieceRead ==
  ASSUME NEW i, i = ln, NEW a, a = at, FasmTypeOK, Reading, AtPiece,
         src' = src, ln' = ln, at' = at + 1
  PROVE  /\ i \in Lines /\ src[i].kind = "code" /\ Line = src[i] /\ Piece = src[i].pieces[a]
         /\ a \in Nat \ {0} /\ a \in DOMAIN src[i].pieces
         /\ a <= Len(src[i].pieces) /\ Len(src[i].pieces) \in Nat
         /\ a \in Labels(i) <=> Piece.kind = "label"
         /\ \A k \in Lines : \A m \in Labels(k) :
              WasRead(k, m)' <=> WasRead(k, m) \/ (k = i /\ m = a)
         /\ \A k \in Lines : k # i => ReferencesRead(k)' = ReferencesRead(k)
         /\ ReferencesRead(i)' = ReferencesRead(i)
                                   \cup (IF IsOperand(Piece) THEN {Name(i, a)} ELSE {})
<1>1. i \in Lines /\ src[i].kind = "code" /\ Line = src[i] /\ Piece = src[i].pieces[a]
  BY LinesOK DEF Line, Piece, AtPiece
<1>2. DOMAIN src[i].pieces = 1..Len(src[i].pieces) /\ Len(src[i].pieces) \in Nat
  BY <1>1, SourceOK
<1>3. a \in DOMAIN src[i].pieces
  BY <1>1 DEF AtPiece
<1>4. a \in Nat \ {0} /\ a <= Len(src[i].pieces)
  BY <1>2, <1>3
<1>5. a \in Labels(i) <=> Piece.kind = "label"
  BY <1>1, <1>3 DEF Labels
<1>6. ASSUME NEW k \in Lines, NEW m \in Labels(k)
      PROVE  WasRead(k, m)' <=> WasRead(k, m) \/ (k = i /\ m = a)
  <2>1. m \in Nat /\ k \in Nat /\ ln \in Nat /\ at \in Nat
    BY LinesOK
  <2> QED BY <2>1 DEF WasRead
<1>7. ASSUME NEW k \in Lines, k # i PROVE ReferencesRead(k)' = ReferencesRead(k)
  BY <1>7, SrcFixed DEF ReferencesRead
<1>8. ReferencesRead(i)' = ReferencesRead(i) \cup (IF IsOperand(Piece) THEN {Name(i, a)} ELSE {})
  <2> DEFINE Opnds(n) == {Name(i, m) : m \in {j \in DOMAIN src[i].pieces :
                                                 j < n /\ IsOperand(src[i].pieces[j])}}
  <2>1. ~(i < ln)
    BY LinesOK
  <2>2. ReferencesRead(i) = Opnds(a)
    BY <1>1, <2>1 DEF ReferencesRead
  <2>3. ReferencesRead(i)' = Opnds(a + 1)
    BY <1>1, <2>1, SrcFixed DEF ReferencesRead
  <2>4. \A j \in DOMAIN src[i].pieces : j < a + 1 <=> j < a \/ j = a
    BY <1>2, <1>4
  <2>5. Opnds(a + 1) = Opnds(a) \cup (IF IsOperand(src[i].pieces[a]) THEN {Name(i, a)} ELSE {})
    BY <1>3, <2>4
  <2> QED BY <1>1, <2>2, <2>3, <2>5
<1> QED BY <1>1, <1>2, <1>3, <1>4, <1>5, <1>6, <1>7, <1>8

(* A label that was read is a new one. *)
LEMMA DeclareClean ==
  ASSUME FasmTypeOK, SoFarLegal, Reading, DeclareLabel
  PROVE  SoFarLegal'
<1>1. PICK i, a : i = ln /\ a = at
  OBVIOUS
<1>2. /\ src' = src /\ ln' = ln /\ at' = at + 1 /\ status' = status /\ noerrors' = noerrors
      /\ sawOpc' = sawOpc /\ curOpnd' = curOpnd /\ relTab' = relTab
      /\ AtPiece /\ Piece.kind = "label" /\ LegalLabel
  BY DEF DeclareLabel, lineVars
<1>3. /\ i \in Lines /\ src[i].kind = "code" /\ Line = src[i] /\ Piece = src[i].pieces[a]
      /\ a \in Nat \ {0} /\ a \in DOMAIN src[i].pieces
      /\ a <= Len(src[i].pieces) /\ Len(src[i].pieces) \in Nat
      /\ a \in Labels(i)
      /\ \A k \in Lines : \A m \in Labels(k) :
           WasRead(k, m)' <=> WasRead(k, m) \/ (k = i /\ m = a)
      /\ \A k \in Lines : k # i => ReferencesRead(k)' = ReferencesRead(k)
      /\ ReferencesRead(i)' = ReferencesRead(i) \cup (IF IsOperand(Piece) THEN {Name(i, a)} ELSE {})
  BY <1>1, <1>2, PieceRead
<1>4. LinesClean'
  <2>1. ~sawOpc /\ Piece.fault = "none"
    BY <1>2 DEF LegalLabel
  <2>2. LegalPieces(i, a - 1, a - 1)
    BY <1>1, <1>3, <2>1 DEF SoFarLegal, LinesClean
  <2>3. LegalPieces(i, a, a)
    <3>1. \A m \in 1..a : m \in 1..(a - 1) \/ m = a
      BY <1>3
    <3>2. \A m \in 1..(a - 1) : m <= a - 1 /\ m <= a /\ ~(m = a + 1) /\ ~(m > a + 1) /\ ~(m = a + 2)
      BY <1>3
    <3>3. ~(a = a + 1) /\ ~(a > a + 1) /\ ~(a = a + 2)
      BY <1>3
    <3>4. ~IsOperand(src[i].pieces[a])
      BY <1>2, <1>3 DEF IsOperand
    <3> QED BY <1>2, <1>3, <2>1, <2>2, <3>1, <3>2, <3>3, <3>4 DEF LegalPieces
  <2>4. LegalPieces(i, at' - 1, at' - 1) /\ at' - 1 <= Len(src[i].pieces) /\ Line' = src[i]
    <3>1. at' - 1 = a
      BY <1>1, <1>2, <1>3
    <3> QED BY <1>1, <1>2, <1>3, <2>3, <3>1 DEF Line
  <2>5. \A k \in Lines' : k < ln' => LegalLine(k)'
    BY <1>2, SrcFixed DEF SoFarLegal, LinesClean
  <2>6. LegalPieces(ln, at - 1, at - 1)'
    BY <1>1, <1>2, <2>4, SrcFixed
  <2> QED BY <1>2, <2>1, <2>4, <2>5, <2>6 DEF LinesClean
<1>5. LabelsClean'
  <2>1. DOMAIN symbTab' = DOMAIN symbTab \cup {Name(i, a)}
    BY <1>3 DEF DeclareLabel, Name
  <2>2. Name(i, a) \notin DOMAIN symbTab
    BY <1>2, <1>3 DEF LegalLabel, Name
  <2>3. LabelsClean
    BY DEF SoFarLegal
  <2>4. /\ Lines' = Lines /\ (\A k : Labels(k)' = Labels(k)) /\ \A k, n : Name(k, n)' = Name(k, n)
    BY <1>2, SrcFixed
  <2>5. \A k \in Lines : \A m \in Labels(k) : WasRead(k, m) => Name(k, m) # Name(i, a)
    BY <2>2, <2>3 DEF LabelsClean
  <2>6. \A k \in Lines : \A m \in Labels(k) : WasRead(k, m)' => Name(k, m) \in DOMAIN symbTab'
    BY <1>3, <2>1, <2>3 DEF LabelsClean
  <2>7. \A l \in DOMAIN symbTab' : \E k \in Lines : \E m \in Labels(k) :
          WasRead(k, m)' /\ Name(k, m) = l
    BY <1>3, <2>1, <2>3 DEF LabelsClean
  <2>8. \A j, k \in Lines : \A m \in Labels(j), n \in Labels(k) :
          WasRead(j, m)' /\ WasRead(k, n)' /\ Name(j, m) = Name(k, n) => j = k /\ m = n
    BY <1>3, <2>3, <2>5 DEF LabelsClean
  <2> QED BY <2>4, <2>6, <2>7, <2>8 DEF LabelsClean
<1>6. ReferencesClean'
  <2>1. \A k \in Lines : ReferencesRead(k)' = ReferencesRead(k)
    BY <1>2, <1>3 DEF IsOperand
  <2> QED BY <1>2, <2>1, SrcFixed DEF SoFarLegal, ReferencesClean, Reading
<1> QED BY <1>2, <1>4, <1>5, <1>6 DEF SoFarLegal

(* The mnemonic comes after labels only. *)
LEMMA MnemonicClean ==
  ASSUME IInv, SoFarLegal, Reading, ReadMnemonic
  PROVE  SoFarLegal'
<1>1. PICK i, a : i = ln /\ a = at
  OBVIOUS
<1>2. /\ src' = src /\ ln' = ln /\ at' = at + 1 /\ status' = status /\ noerrors' = noerrors
      /\ sawOpc' = TRUE /\ curOpnd' = curOpnd /\ relTab' = relTab /\ symbTab' = symbTab
      /\ AtPiece /\ Piece.kind = "mnemonic" /\ Piece.fault = "none" /\ ~sawOpc /\ curOpnd = 0
  BY DEF ReadMnemonic, IInv, LineInv
<1>3. /\ i \in Lines /\ src[i].kind = "code" /\ Line = src[i] /\ Piece = src[i].pieces[a]
      /\ a \in Nat \ {0} /\ a <= Len(src[i].pieces) /\ Len(src[i].pieces) \in Nat
      /\ a \notin Labels(i)
      /\ \A k \in Lines : \A m \in Labels(k) :
           WasRead(k, m)' <=> WasRead(k, m) \/ (k = i /\ m = a)
      /\ \A k \in Lines : k # i => ReferencesRead(k)' = ReferencesRead(k)
      /\ ReferencesRead(i)' = ReferencesRead(i) \cup (IF IsOperand(Piece) THEN {Name(i, a)} ELSE {})
  BY <1>1, <1>2, PieceRead DEF IInv
<1>4. LinesClean'
  <2>1. LegalPieces(i, a - 1, a - 1)
    BY <1>1, <1>2, <1>3 DEF SoFarLegal, LinesClean
  <2>2. LegalPieces(i, a - 1, a)
    <3>1. \A m \in 1..a : m \in 1..(a - 1) \/ m = a
      BY <1>3
    <3>2. ~(a <= a - 1) /\ a = a - 1 + 1 /\ ~(a > a - 1 + 1) /\ ~(a = a - 1 + 2)
      BY <1>3
    <3>3. ~IsOperand(src[i].pieces[a])
      BY <1>2, <1>3 DEF IsOperand
    <3> QED BY <1>2, <1>3, <2>1, <3>1, <3>2, <3>3 DEF LegalPieces
  <2>3. /\ at' - 1 = a /\ at' - 2 - curOpnd' = a - 1 /\ curOpnd' + 2 <= at'
        /\ Line' = src[i] /\ a <= Len(src[i].pieces)
    BY <1>1, <1>2, <1>3 DEF Line
  <2>4. \A k \in Lines' : k < ln' => LegalLine(k)'
    BY <1>2, SrcFixed DEF SoFarLegal, LinesClean
  <2>5. LegalPieces(ln, at - 2 - curOpnd, at - 1)'
    BY <1>1, <1>2, <2>2, <2>3, SrcFixed
  <2> QED BY <1>2, <2>3, <2>4, <2>5 DEF LinesClean
<1>5. LabelsClean'
  <2>1. \A k \in Lines : \A m \in Labels(k) : WasRead(k, m)' <=> WasRead(k, m)
    BY <1>3
  <2> QED BY <1>2, <2>1, LabelsKept DEF SoFarLegal
<1>6. ReferencesClean'
  <2>1. \A k \in Lines : ReferencesRead(k)' = ReferencesRead(k)
    BY <1>2, <1>3 DEF IsOperand
  <2> QED BY <1>2, <2>1, ReferencesKept DEF SoFarLegal
<1> QED BY <1>2, <1>4, <1>5, <1>6 DEF SoFarLegal

(* An operand comes after the mnemonic, and is not a first one that is immediate. *)
LEMMA OperandClean ==
  ASSUME IInv, SoFarLegal, Reading, ReadOperand, ~TermsFail(Piece.terms)
  PROVE  SoFarLegal'
<1>1. PICK i, a, c : i = ln /\ a = at /\ c = at - 2 - curOpnd
  OBVIOUS
<1>2. /\ src' = src /\ ln' = ln /\ at' = at + 1 /\ status' = status /\ noerrors' = noerrors
      /\ sawOpc' = sawOpc /\ curOpnd' = curOpnd + 1 /\ symbTab' = symbTab
      /\ relTab' = relTab \cup Reference(Piece)
      /\ AtPiece /\ AtOperand /\ LegalOperand /\ sawOpc /\ curOpnd \in Nat
  BY DEF ReadOperand, AtOperand, IInv, FasmTypeOK
<1>3. /\ i \in Lines /\ src[i].kind = "code" /\ Line = src[i] /\ Piece = src[i].pieces[a]
      /\ a \in Nat \ {0} /\ a <= Len(src[i].pieces) /\ Len(src[i].pieces) \in Nat
      /\ a \in Labels(i) <=> Piece.kind = "label"
      /\ \A k \in Lines : \A m \in Labels(k) :
           WasRead(k, m)' <=> WasRead(k, m) \/ (k = i /\ m = a)
      /\ \A k \in Lines : k # i => ReferencesRead(k)' = ReferencesRead(k)
      /\ ReferencesRead(i)' = ReferencesRead(i) \cup (IF IsOperand(Piece) THEN {Name(i, a)} ELSE {})
  BY <1>1, <1>2, PieceRead DEF IInv
<1>4. IsOperand(Piece) /\ Piece.kind # "label"
  BY <1>2, OperandPiece DEF OperandKinds, IsOperand
<1>5. LinesClean'
  <2>1. LegalPieces(i, c, a - 1) /\ curOpnd + 2 <= a
    BY <1>1, <1>2, <1>3 DEF SoFarLegal, LinesClean
  <2>2. Piece.fault = "none" /\ (Piece.kind = "imm" => curOpnd # 0)
    BY <1>2 DEF LegalOperand
  <2>3. LegalPieces(i, c, a)
    <3>1. \A m \in 1..a : m \in 1..(a - 1) \/ m = a
      BY <1>3
    <3>2. c \in Nat /\ ~(a <= c) /\ ~(a = c + 1) /\ a > c + 1 /\ (a = c + 2 => curOpnd = 0)
      BY <1>1, <1>2, <1>3, <2>1
    <3> QED BY <1>3, <1>4, <2>1, <2>2, <3>1, <3>2 DEF LegalPieces
  <2>4. /\ at' - 1 = a /\ at' - 2 - curOpnd' = c /\ curOpnd' + 2 <= at'
        /\ Line' = src[i] /\ a <= Len(src[i].pieces)
    BY <1>1, <1>2, <1>3, <2>1 DEF Line
  <2>5. \A k \in Lines' : k < ln' => LegalLine(k)'
    BY <1>2, SrcFixed DEF SoFarLegal, LinesClean
  <2>6. LegalPieces(ln, at - 2 - curOpnd, at - 1)'
    BY <1>1, <1>2, <2>3, <2>4, SrcFixed
  <2> QED BY <1>2, <2>4, <2>5, <2>6 DEF LinesClean
<1>6. LabelsClean'
  <2>1. \A k \in Lines : \A m \in Labels(k) : WasRead(k, m)' <=> WasRead(k, m)
    BY <1>3, <1>4
  <2> QED BY <1>2, <2>1, LabelsKept DEF SoFarLegal
<1>7. ReferencesClean'
  <2>1. PICK n : Reference(Piece) = IF Piece.label = NoLabel THEN {} ELSE {<<Piece.label, n>>}
    BY Zenon DEF Reference, NoLabel
  <2>2. Piece.label = Name(i, a)
    BY <1>3 DEF Name
  <2>3. \A r \in Reference(Piece) : r[1] = Name(i, a) /\ Name(i, a) # NoLabel
    BY <2>1, <2>2
  <2>4. Name(i, a) = NoLabel \/ \E r \in relTab' : r[1] = Name(i, a)
    <3>1. CASE Name(i, a) # NoLabel
      <4>1. <<Name(i, a), n>> \in relTab'
        BY <1>2, <2>1, <2>2, <3>1
      <4> QED BY <4>1
    <3> QED BY <3>1
  <2>5. \A k \in Lines : \A l \in ReferencesRead(k) : l = NoLabel \/ \E r \in relTab : r[1] = l
    <3>1. status = "reading"
      BY DEF Reading
    <3> QED BY <3>1 DEF SoFarLegal, ReferencesClean
  <2>6. \A k \in Lines : \A l \in ReferencesRead(k)' : l = NoLabel \/ \E r \in relTab' : r[1] = l
    BY <1>2, <1>3, <1>4, <2>4, <2>5
  <2>7. \A r \in relTab : r[1] # NoLabel /\ \E k \in Lines : r[1] \in ReferencesRead(k)
    BY DEF SoFarLegal, ReferencesClean
  <2>8. \A r \in relTab' : r[1] # NoLabel /\ \E k \in Lines : r[1] \in ReferencesRead(k)'
    <3>1. \A k \in Lines : ReferencesRead(k) \subseteq ReferencesRead(k)'
      BY <1>3
    <3>2. Name(i, a) \in ReferencesRead(i)'
      BY <1>3, <1>4
    <3> QED BY <1>2, <1>3, <2>3, <2>7, <3>1, <3>2
  <2> QED BY <1>2, <2>6, <2>8, SrcFixed DEF ReferencesClean
<1> QED BY <1>2, <1>5, <1>6, <1>7 DEF SoFarLegal

(* A directive's references are read with it, if it stores a word at all. *)
LEMMA WordClean ==
  ASSUME IInv, SoFarLegal, Reading, WordDirective
  PROVE  SoFarLegal'
<1>1. PICK i : i = ln
  OBVIOUS
<1>2. /\ NextLine /\ symbTab' = symbTab /\ noerrors' = noerrors /\ noerrors
      /\ Line.kind = "directive" /\ Line.fault = "none"
  BY DEF WordDirective, BadDirective
<1>3. FasmTypeOK /\ i \in Lines /\ Line = src[i] /\ Labels(i) = {} /\ src[i].reps \in Nat
  BY <1>1, <1>2, LinesOK, SourceOK DEF IInv, Line
<1>4. LegalLine(i)
  BY <1>2, <1>3 DEF LegalLine
<1>5. References(i) = {src[i].label : n \in 1..src[i].reps}
  BY <1>2, <1>3 DEF References
<1>6. ReferencesRead(i) = {}
  <2>1. ~(i < ln)
    BY <1>1, LinesOK DEF IInv
  <2> QED BY <1>2, <1>3, <2>1 DEF ReferencesRead
<1>7. relTab' = IF src[i].label = NoLabel THEN relTab
                ELSE relTab \cup {<<src[i].label, Len(cs) + k - 1>> : k \in 1..src[i].reps}
  BY <1>3, Zenon DEF WordDirective, NoLabel
<1>8. \A r \in relTab' : r \in relTab \/ (r[1] # NoLabel /\ r[1] \in References(i))
  <2>1. ASSUME NEW k \in 1..src[i].reps, NEW r, r = <<src[i].label, Len(cs) + k - 1>>
        PROVE  r[1] \in References(i) /\ r[1] = src[i].label
    BY <1>5, <2>1
  <2> QED BY <1>7, <2>1
<1>9. \A l \in References(i) : l = NoLabel \/ \E r \in relTab' : r[1] = l
  <2>1. ASSUME NEW k \in 1..src[i].reps, src[i].label # NoLabel
        PROVE  \E r \in relTab' : r[1] = src[i].label
    <3>1. <<src[i].label, Len(cs) + k - 1>> \in relTab'
      BY <1>7, <2>1
    <3> QED BY <3>1
  <2> QED BY <1>5, <2>1
<1> QED
  BY <1>1, <1>2, <1>3, <1>4, <1>6, <1>7, <1>8, <1>9, NextLineClean

(* A line of code that was read to its end had labels, perhaps a mnemonic and
   up to three operands.                                                    *)
LEMMA CloseLegal ==
  ASSUME IInv, SoFarLegal, Reading, CloseLine, NEW i, i = ln
  PROVE  /\ LegalLine(i) /\ \A m \in DOMAIN src[i].pieces : m < at
         /\ i \in Lines /\ src[i].kind = "code" /\ curOpnd \in Nat
         /\ Cardinality(Labels(i)) = Len(src[i].pieces) - (IF sawOpc THEN curOpnd + 1 ELSE 0)
         /\ at - 2 - curOpnd = Len(src[i].pieces) - curOpnd - 1
<1> DEFINE n == Len(src[i].pieces)
<1>1. /\ i \in Lines /\ Line = src[i] /\ src[i].kind = "code" /\ n \in Nat
      /\ DOMAIN src[i].pieces = 1..n /\ at \in Nat /\ at > n /\ FasmTypeOK
  BY LinesOK, SourceOK DEF IInv, Line, CloseLine
<1>2. at = n + 1 /\ NumOpnds(src[i].pieces) <= 3
  BY <1>1 DEF SoFarLegal, LinesClean, IInv, LineInv
<1>5. curOpnd \in Nat /\ at - 2 - curOpnd = n - curOpnd - 1
  <2>1. curOpnd \in Nat
    BY <1>1 DEF FasmTypeOK
  <2>2. n \in Nat /\ at = n + 1
    BY <1>1, <1>2
  <2> QED BY <2>1, <2>2
<1>6. \A m \in DOMAIN src[i].pieces : m < at
  BY <1>1, <1>2
<1>3. CASE ~sawOpc
  <2>1. LegalPieces(i, n, n)
    <3>1. LegalPieces(ln, at - 1, at - 1)
      BY <1>1, <1>3 DEF SoFarLegal, LinesClean
    <3>2. at - 1 = n
      BY <1>1, <1>2
    <3> QED BY <3>1, <3>2
  <2>2. n \in 0..n /\ n <= n + 4
    BY <1>1
  <2>3. Cardinality(Labels(i)) = n /\ LegalLine(i)
    BY <1>1, <2>1, <2>2, CodeLegal
  <2> HIDE DEF n
  <2>4. n = n - 0
    BY <1>1
  <2>5. Cardinality(Labels(i)) = n - (IF sawOpc THEN curOpnd + 1 ELSE 0)
    BY <1>3, <2>3, <2>4
  <2> QED BY <1>1, <1>5, <1>6, <2>3, <2>5 DEF n
<1>4. CASE sawOpc
  <2> DEFINE c == n - 1 - curOpnd
  <2>1. c \in 0..n /\ curOpnd \in Nat /\ n # 0
    BY <1>1, <1>2, <1>4 DEF SoFarLegal, LinesClean, IInv, FasmTypeOK
  <2>2. LegalPieces(i, c, n)
    <3>1. LegalPieces(ln, at - 2 - curOpnd, at - 1)
      BY <1>1, <1>4 DEF SoFarLegal, LinesClean
    <3>2. at - 1 = n /\ at - 2 - curOpnd = c
      BY <1>1, <1>2, <2>1
    <3> QED BY <3>1, <3>2
  <2>3. n <= c + 4
    <3> DEFINE Labelled == \E k \in 1..n : src[i].pieces[k].kind = "label"
    <3>1. NumOpnds(src[i].pieces) = n - (IF Labelled THEN (IF n < 2 THEN n ELSE 2) ELSE 1)
      BY DEF NumOpnds
    <3>2. Labelled => c # 0
      <4>1. SUFFICES ASSUME c = 0, NEW k \in 1..n PROVE src[i].pieces[k].kind # "label"
        OBVIOUS
      <4>2. k = c + 1 \/ k > c + 1
        BY <4>1, <1>1
      <4> QED BY <2>2, <4>2 DEF LegalPieces, IsOperand
    <3> HIDE DEF Labelled, n, c
    <3> QED BY <1>1, <1>2, <2>1, <3>1, <3>2
  <2>4. Cardinality(Labels(i)) = c /\ LegalLine(i)
    BY <1>1, <2>1, <2>2, <2>3, CodeLegal
  <2> HIDE DEF n
  <2>5. c = n - (curOpnd + 1)
    BY <1>1, <1>5
  <2>6. Cardinality(Labels(i)) = n - (IF sawOpc THEN curOpnd + 1 ELSE 0)
    BY <1>4, <2>4, <2>5
  <2> QED BY <1>1, <1>5, <1>6, <2>4, <2>6 DEF n
<1> QED BY <1>3, <1>4

(* So the next line is started with nothing amiss. *)
LEMMA CloseClean ==
  ASSUME IInv, SoFarLegal, Reading, CloseLine
  PROVE  SoFarLegal'
<1>1. PICK i : i = ln
  OBVIOUS
<1>2. LegalLine(i) /\ \A m \in DOMAIN src[i].pieces : m < at
  BY <1>1, CloseLegal
<1>3. /\ FasmTypeOK /\ NextLine /\ symbTab' = symbTab /\ noerrors' = noerrors /\ relTab' = relTab
      /\ Line = src[i] /\ Line.kind = "code"
  BY <1>1 DEF CloseLine, IInv, Line
<1>4. \A m \in Labels(i) : m < at
  BY <1>2, <1>3 DEF Labels
<1>5. References(i) = {p.label : p \in {q \in Pieces(i) : IsOperand(q)}}
  BY <1>3 DEF References
<1>6. ReferencesRead(i) = {Name(i, n) : n \in {m \in DOMAIN src[i].pieces :
                                                m < at /\ IsOperand(src[i].pieces[m])}}
  <2>1. ~(i < ln)
    BY <1>1, <1>3, LinesOK
  <2> QED BY <1>1, <1>3, <2>1 DEF ReferencesRead
<1>7. References(i) = ReferencesRead(i)
  BY <1>2, <1>5, <1>6 DEF Pieces, Name
<1> QED BY <1>1, <1>2, <1>3, <1>4, <1>7, NextLineClean

-----------------------------------------------------------------------------
(* Each step that prints no error keeps what was read legal. *)
LEMMA CleanStep ==
  ASSUME AInv, [Next]_vars, ~reported'
  PROVE  SoFarLegal'
<1>1. IInv /\ FasmTypeOK /\ StatusInv /\ (~reported => SoFarLegal)
  BY DEF AInv, IInv
<1>2. ~GiveUp
  BY DEF GiveUp
<1>3. ASSUME Reading, ReadLine PROVE SoFarLegal'
  <2>1. CASE RejectDirective \/ TooManyOperands \/ RejectPiece
    BY <1>2, <2>1 DEF RejectDirective, TooManyOperands, RejectPiece
  <2>2. CASE SkipDirective
    BY <1>1, <2>2 DEF SkipDirective, SoFarLegal
  <2>3. CASE WordDirective
    <3>1. ~reported
      BY <2>3 DEF WordDirective
    <3> QED BY <1>1, <1>3, <2>3, <3>1, WordClean
  <2>4. CASE OpenLine
    <3>1. /\ ~reported /\ at = 0 /\ at' = 1 /\ Line.kind = "code"
          /\ src' = src /\ ln' = ln /\ status' = status /\ noerrors' = noerrors /\ sawOpc' = sawOpc
          /\ relTab' = relTab /\ symbTab' = symbTab
      BY <2>4 DEF OpenLine, lineVars
    <3>2. ~sawOpc
      BY <1>1, <3>1 DEF IInv, LineInv
    <3>3. ln \in Lines /\ Line = src[ln] /\ Len(src[ln].pieces) \in Nat
      BY <1>1, <1>3, <3>1, LinesOK, SourceOK DEF Line
    <3>4. LinesClean'
      <4>1. \A k \in Lines' : k < ln' => LegalLine(k)'
        BY <1>1, <3>1, SrcFixed DEF SoFarLegal, LinesClean
      <4>3. at' - 1 = 0 /\ Line' = src[ln] /\ 0 <= Len(src[ln].pieces)
        BY <3>1, <3>3 DEF Line
      <4>4. LegalPieces(ln, at - 1, at - 1)'
        BY <4>3 DEF LegalPieces
      <4> QED BY <3>1, <3>2, <4>1, <4>3, <4>4 DEF LinesClean
    <3>5. \A k \in Lines : \A m \in Labels(k) : WasRead(k, m)' <=> WasRead(k, m)
      BY <1>1, <3>1, LinesOK DEF WasRead
    <3>6. \A k \in Lines : ReferencesRead(k)' = ReferencesRead(k)
      <4>1. ASSUME NEW k \in Lines, src[k].kind = "code"
            PROVE  {m \in DOMAIN src[k].pieces : m < 1 /\ IsOperand(src[k].pieces[m])}
                   = {m \in DOMAIN src[k].pieces : m < 0 /\ IsOperand(src[k].pieces[m])}
        BY <1>1, <4>1, LinesOK
      <4> QED BY <3>1, <4>1, SrcFixed DEF ReferencesRead
    <3> QED BY <1>1, <3>1, <3>4, <3>5, <3>6, LabelsKept, ReferencesKept DEF SoFarLegal
  <2>5. CASE DeclareLabel
    <3>1. ~reported
      BY <2>5 DEF DeclareLabel
    <3> QED BY <1>1, <1>3, <2>5, <3>1, DeclareClean
  <2>6. CASE ReadMnemonic
    <3>1. ~reported
      BY <2>6 DEF ReadMnemonic
    <3> QED BY <1>1, <1>3, <2>6, <3>1, MnemonicClean
  <2>7. CASE ReadOperand
    <3>1. ~reported /\ ~TermsFail(Piece.terms)
      BY <2>7 DEF ReadOperand
    <3> QED BY <1>1, <1>3, <2>7, <3>1, OperandClean
  <2>8. CASE CloseLine
    <3>1. ~reported
      BY <2>8 DEF CloseLine
    <3> QED BY <1>1, <1>3, <2>8, <3>1, CloseClean
  <2> QED BY <1>3, <2>1, <2>2, <2>3, <2>4, <2>5, <2>6, <2>7, <2>8 DEF ReadLine
<1>4. CASE EndOfSource
  <2>1. ~reported /\ UNCHANGED <<src, ln, at, symbTab, relTab, noerrors>> /\ status' = "relocating"
    BY <1>4 DEF EndOfSource
  <2> QED BY <1>1, <2>1, RelocatingClean
<1>5. CASE Relocations
  <2>1. PICK label : Relocate(label) /\ status = "relocating"
    BY <1>5 DEF Relocations
  <2> DEFINE refs == {r \in relTab : r[1] = label}
  <2>2. /\ UNCHANGED <<src, ln, at, sawOpc, symbTab, noerrors>> /\ relTab' = relTab \ refs
        /\ ~reported /\ label \in DOMAIN symbTab
        /\ status' = IF \E r \in refs : r[2] >= Len(cs) THEN "wild" ELSE status
    BY <2>1 DEF Relocate, lineVars
  <2>3. ~(\E r \in refs : r[2] >= Len(cs))
    <3>1. at = 0 /\ noerrors
      BY <1>1, <2>1, <2>2 DEF StatusInv, SoFarLegal
    <3>2. \A r \in relTab : r[2] < Len(cs)
      BY <1>1, <3>1 DEF IInv, LineInv, ReferencesInside
    <3>3. Len(cs) \in Nat /\ \A r \in relTab : r[2] \in Nat
      BY <1>1 DEF FasmTypeOK, IsSeq
    <3> QED BY <3>2, <3>3
  <2> QED BY <1>1, <2>1, <2>2, <2>3, RelocatingClean
<1>6. CASE Finish
  <2>1. ~reported /\ UNCHANGED <<src, ln, at, symbTab, relTab, noerrors>> /\ noerrors
    BY <1>1, <1>6 DEF Finish, SoFarLegal
  <2>2. status' \in {"empty", "written"}
    BY <1>6, <2>1 DEF Finish
  <2> QED BY <1>1, <2>1, <2>2, RelocatingClean
<1>7. CASE UNCHANGED vars
  <2>1. /\ ~reported /\ src' = src /\ ln' = ln /\ at' = at /\ status' = status
        /\ noerrors' = noerrors /\ sawOpc' = sawOpc /\ curOpnd' = curOpnd
        /\ relTab' = relTab /\ symbTab' = symbTab
    BY <1>7 DEF vars, lineVars
  <2>2. \A k, m : WasRead(k, m)' <=> WasRead(k, m)
    BY <2>1 DEF WasRead
  <2>3. \A k : ReferencesRead(k)' = ReferencesRead(k)
    BY <2>1, SrcFixed DEF ReferencesRead
  <2>4. LinesClean'
    <3>1. Reading' = Reading /\ Line' = Line
      BY <2>1 DEF Reading, Line
    <3>2. LegalPieces(ln, at - 1, at - 1)' = LegalPieces(ln, at - 1, at - 1)
      BY <2>1 DEF LegalPieces
    <3>3. LegalPieces(ln, at - 2 - curOpnd, at - 1)' = LegalPieces(ln, at - 2 - curOpnd, at - 1)
      BY <2>1 DEF LegalPieces
    <3> QED BY <1>1, <2>1, <3>1, <3>2, <3>3, SrcFixed DEF SoFarLegal, LinesClean
  <2> QED BY <1>1, <2>1, <2>2, <2>3, <2>4, LabelsKept, ReferencesKept DEF SoFarLegal
<1> QED BY <1>3, <1>4, <1>5, <1>6, <1>7 DEF Next, Ended

(* What a line says where the assembler stands in a legal source. *)
LEMMA LegalNext ==
  ASSUME IInv, SoFarLegal, Reading, Legal, FewLabels, Line.kind = "code", NEW i, i = ln
  PROVE  /\ NumOpnds(src[i].pieces) <= 3
         /\ AtPiece => ~RejectPiece /\ (AtOperand => ~TermsFail(Piece.terms))
<1> DEFINE c == Cardinality(Labels(i))
           n == Len(src[i].pieces)
<1>1. /\ i \in Lines /\ Line = src[i] /\ src[i].kind = "code" /\ n \in Nat
      /\ DOMAIN src[i].pieces = 1..n /\ at \in Nat /\ FasmTypeOK /\ curOpnd \in Nat
      /\ Labels(i) = {m \in DOMAIN src[i].pieces : src[i].pieces[m].kind = "label"}
  <2>1. i \in Lines /\ Line = src[i] /\ src[i].kind = "code" /\ FasmTypeOK
    BY LinesOK DEF IInv, Line
  <2> QED BY <2>1, SourceOK DEF FasmTypeOK
<1>2. c \in Nat /\ LegalPieces(i, c, n) /\ n <= c + 4 /\ c < 2
  BY <1>1, LegalCode DEF Legal, FewLabels
<1>3. NumOpnds(src[i].pieces) <= 3
  <2> DEFINE Labelled == \E k \in 1..n : src[i].pieces[k].kind = "label"
  <2>1. NumOpnds(src[i].pieces) = n - (IF Labelled THEN (IF n < 2 THEN n ELSE 2) ELSE 1)
    BY DEF NumOpnds
  <2>2. Labelled => c # 0
    <3>1. SUFFICES ASSUME c = 0, NEW k \in 1..n PROVE src[i].pieces[k].kind # "label"
      OBVIOUS
    <3>2. k = c + 1 \/ k > c + 1
      BY <3>1, <1>1
    <3> QED BY <1>2, <3>2 DEF LegalPieces, IsOperand
  <2>3. c = 1 /\ n # 0 => Labelled
    <3> SUFFICES ASSUME c = 1, n # 0 PROVE Labelled
      OBVIOUS
    <3>1. 1 \in 1..n /\ 1 <= c
      BY <1>1
    <3> QED BY <1>2, <3>1 DEF LegalPieces
  <2> HIDE DEF Labelled, n, c
  <2> QED BY <1>1, <1>2, <2>1, <2>2, <2>3
<1>4. ASSUME AtPiece PROVE ~RejectPiece /\ (AtOperand => ~TermsFail(Piece.terms))
  <2>1. at \in 1..n /\ Piece = src[i].pieces[at]
    BY <1>1, <1>4 DEF AtPiece, Piece
  <2>2. /\ Piece.fault = "none" /\ (IsOperand(Piece) => ~TermsFail(Piece.terms))
        /\ at <= c => Piece.kind = "label"
        /\ at = c + 1 => Piece.kind = "mnemonic"
        /\ at > c + 1 => IsOperand(Piece)
        /\ at = c + 2 => Piece.kind # "imm"
    BY <1>2, <2>1 DEF LegalPieces
  <2>3. /\ ~sawOpc => \A m \in 1..(at - 1) : src[i].pieces[m].kind = "label"
        /\ sawOpc => /\ at - 1 - curOpnd \in 1..(at - 1)
                     /\ src[i].pieces[at - 1 - curOpnd].kind = "mnemonic"
    <3>1. /\ ~sawOpc => LegalPieces(ln, at - 1, at - 1)
          /\ sawOpc  => curOpnd + 2 <= at /\ LegalPieces(ln, at - 2 - curOpnd, at - 1)
      BY <1>1, <2>1 DEF SoFarLegal, LinesClean
    <3>2. CASE sawOpc
      <4>1. at - 1 - curOpnd \in 1..(at - 1) /\ at - 1 - curOpnd = at - 2 - curOpnd + 1
        BY <1>1, <3>1, <3>2
      <4> QED BY <3>1, <3>2, <4>1 DEF LegalPieces
    <3>3. CASE ~sawOpc
      <4>1. \A m \in 1..(at - 1) : m <= at - 1
        BY <1>1
      <4> QED BY <3>1, <3>3, <4>1 DEF LegalPieces
    <3> QED BY <3>2, <3>3
  <2>4. ~sawOpc => at <= c + 1
    <3> SUFFICES ASSUME ~sawOpc, at > c + 1 PROVE FALSE
      BY <1>1, <1>2
    <3>1. c + 1 \in 1..(at - 1) /\ c + 1 \in 1..n
      BY <1>1, <1>2, <2>1
    <3> QED BY <1>2, <2>3, <3>1 DEF LegalPieces
  <2>5. sawOpc => at = c + 2 + curOpnd
    <3> SUFFICES ASSUME sawOpc PROVE at = c + 2 + curOpnd
      OBVIOUS
    <3>1. at - 1 - curOpnd \in 1..n
      BY <1>1, <2>1, <2>3
    <3>2. ~(at - 1 - curOpnd <= c) /\ ~(at - 1 - curOpnd > c + 1)
      BY <1>2, <2>3, <3>1 DEF LegalPieces, IsOperand
    <3> QED BY <1>1, <1>2, <2>1, <3>1, <3>2
  <2>6. sawOpc => at > c + 1 /\ (curOpnd = 0 => at = c + 2)
    <3>1. at \in Nat /\ curOpnd \in Nat /\ c \in Nat
      BY <1>1, <1>2, <2>1
    <3> QED BY <2>5, <3>1
  <2>7. Piece.kind = "label" => Piece.label \notin DOMAIN symbTab
    <3> SUFFICES ASSUME Piece.kind = "label", Piece.label \in DOMAIN symbTab PROVE FALSE
      OBVIOUS
    <3>1. PICK k \in Lines : \E m \in Labels(k) : WasRead(k, m) /\ Name(k, m) = Piece.label
      BY DEF SoFarLegal, LabelsClean
    <3>2. PICK m \in Labels(k) : WasRead(k, m) /\ Name(k, m) = Piece.label
      BY <3>1
    <3>3. at \in Labels(i)
      BY <1>1, <2>1
    <3>4. src[k].pieces[m].label = src[i].pieces[at].label => <<k, m>> = <<i, at>>
      <4>1. \A j, l \in Lines : \A x \in Labels(j), y \in Labels(l) :
              src[j].pieces[x].label = src[l].pieces[y].label => <<j, x>> = <<l, y>>
        BY Zenon DEF Legal
      <4> QED BY <1>1, <3>1, <3>2, <3>3, <4>1
    <3>5. k = i /\ m = at
      BY <2>1, <3>2, <3>4 DEF Name
    <3>6. ln \in Nat
      BY <1>1, LinesOK
    <3> QED BY <1>1, <3>2, <3>5, <3>6 DEF WasRead
  <2>8. LegalLabel \/ Piece.kind # "label"
    BY <2>2, <2>6, <2>7 DEF LegalLabel, IsOperand
  <2>9. ~sawOpc /\ Piece.kind # "label" => Piece.kind = "mnemonic" /\ Piece.fault = "none"
    <3>1. ~sawOpc => at <= c \/ at = c + 1
      BY <1>1, <1>2, <2>1, <2>4
    <3> QED BY <2>2, <3>1
  <2>10. AtOperand => LegalOperand
    BY <2>2, <2>6 DEF AtOperand, LegalOperand
  <2>11. AtOperand => ~TermsFail(Piece.terms)
    BY <2>2, <2>6 DEF AtOperand
  <2> QED BY <2>8, <2>9, <2>10, <2>11 DEF RejectPiece
<1> QED BY <1>3, <1>4

(* An error is printed in no source that is legal, with a label to a line. *)
LEMMA LegalStep ==
  ASSUME AInv, [Next]_vars, Legal, FewLabels
  PROVE  ~reported'
<1>1. IInv /\ StatusInv /\ ~reported /\ SoFarLegal
  BY DEF AInv
<1>2. ASSUME Reading, ReadLine PROVE ~reported'
  <2>1. ln \in Lines /\ Line = src[ln] /\ LegalLine(ln) /\ noerrors
    BY <1>1, <1>2, LinesOK DEF IInv, Line, Legal, SoFarLegal
  <2>2. CASE RejectDirective
    <3>1. Line.kind = "directive" /\ Line.fault # "none"
      BY <2>1, <2>2 DEF RejectDirective, BadDirective
    <3> QED BY <2>1, <3>1 DEF LegalLine
  <2>3. CASE TooManyOperands
    <3>1. Line.kind = "code" /\ NumOpnds(src[ln].pieces) > 3
      BY <2>1, <2>3 DEF TooManyOperands
    <3>2. NumOpnds(src[ln].pieces) <= 3
      BY <1>1, <1>2, <3>1, LegalNext
    <3>3. Len(src[ln].pieces) \in Nat /\ NumOpnds(src[ln].pieces) \in Int
      <4>1. Len(src[ln].pieces) \in Nat
        BY <1>1, <2>1, <3>1, SourceOK DEF IInv
      <4> QED BY <4>1 DEF NumOpnds
    <3> QED BY <3>1, <3>2, <3>3
  <2>4. CASE RejectPiece
    <3>1. Line.kind = "code" /\ AtPiece
      BY <2>4 DEF RejectPiece, AtPiece
    <3> QED BY <1>1, <1>2, <2>4, <3>1, LegalNext
  <2>5. CASE ReadOperand
    <3>1. /\ Line.kind = "code" /\ AtPiece /\ AtOperand
          /\ reported' = (reported \/ TermsFail(Piece.terms))
      BY <2>5 DEF ReadOperand, AtOperand, AtPiece
    <3> QED BY <1>1, <1>2, <3>1, LegalNext
  <2> QED BY <1>1, <1>2, <2>1, <2>2, <2>3, <2>4, <2>5
          DEF ReadLine, SkipDirective, WordDirective, OpenLine, DeclareLabel, ReadMnemonic,
              CloseLine
<1>3. CASE Relocations
  <2>1. PICK r \in relTab : Relocate(r[1]) /\ status = "relocating"
    BY <1>3 DEF Relocations
  <2>2. PICK k \in Lines : r[1] \in ReferencesRead(k) /\ r[1] # NoLabel
    BY <1>1 DEF SoFarLegal, ReferencesClean
  <2>3. k < ln
    BY <1>1, <2>1, LinesOK DEF StatusInv, IInv
  <2>4. r[1] \in Referred
    BY <2>2, <2>3 DEF ReferencesRead, Referred
  <2>5. r[1] \in Declared
    <3>1. Referred \subseteq Declared \cup {NoLabel}
      BY Zenon DEF Legal, NoLabel
    <3> QED BY <2>2, <2>4, <3>1
  <2>0. PICK j \in Lines : \E m \in Labels(j) : r[1] = Name(j, m)
    BY <2>5 DEF Declared, Name
  <2>6. PICK m \in Labels(j) : r[1] = Name(j, m)
    BY <2>0
  <2>7. WasRead(j, m)
    BY <1>1, <2>1, LinesOK DEF StatusInv, IInv, WasRead
  <2>8. r[1] \in DOMAIN symbTab
    BY <1>1, <2>6, <2>7 DEF SoFarLegal, LabelsClean
  <2> QED BY <1>1, <2>1, <2>8 DEF Relocate
<1> QED BY <1>1, <1>2, <1>3 DEF Next, EndOfSource, Finish, Ended, vars

(* The rest of the invariant. *)
LEMMA StatusStep ==
  ASSUME AInv, [Next]_vars
  PROVE  StatusInv'
<1>1. IInv /\ StatusInv
  BY DEF AInv
<1>2. ln \in Nat /\ at \in Nat /\ Len(src) \in Nat
  BY <1>1, LinesOK DEF IInv
<1>3. ASSUME NextLine, Reading PROVE StatusInv'
  BY <1>3 DEF NextLine, StatusInv, Reading
<1>4. ASSUME Reading, UNCHANGED <<src, ln, status>> PROVE StatusInv'
  BY <1>2, <1>4 DEF StatusInv, Reading
<1>5. ASSUME Reading, ReadLine PROVE StatusInv'
  <2>1. NextLine \/ UNCHANGED <<src, ln, status>>
    BY <1>5 DEF ReadLine, RejectDirective, SkipDirective, WordDirective, OpenLine, TooManyOperands,
                GiveUp, DeclareLabel, ReadMnemonic, ReadOperand, RejectPiece, CloseLine
  <2> QED BY <1>3, <1>4, <1>5, <2>1
<1>6. CASE EndOfSource
  BY <1>1, <1>6 DEF EndOfSource, StatusInv
<1>7. CASE Relocations
  <2>1. PICK label : Relocate(label) /\ status = "relocating"
    BY <1>7 DEF Relocations
  <2>2. UNCHANGED <<src, ln, at>> /\ status' \in {"undefined", "wild", "relocating"}
    BY <2>1 DEF Relocate
  <2> QED BY <1>1, <2>1, <2>2 DEF StatusInv
<1>8. CASE Finish
  BY <1>1, <1>8 DEF Finish, StatusInv
<1>9. CASE UNCHANGED vars
  BY <1>1, <1>9 DEF vars, StatusInv
<1> QED BY <1>5, <1>6, <1>7, <1>8, <1>9 DEF Next, Ended

(* Nothing was read yet. *)
LEMMA InitAInv == Init => AInv
<1> SUFFICES ASSUME Init PROVE AInv
  OBVIOUS
<1>1. IInv /\ FasmTypeOK
  BY InitIInv DEF IInv
<1>2. StatusInv /\ ~reported
  BY DEF Init, StatusInv
<1>3. /\ \A k \in Lines : ~(k < ln)
      /\ \A k \in Lines : \A m \in Labels(k) : ~WasRead(k, m)
  BY <1>1, LinesOK DEF Init, WasRead
<1>4. \A k \in Lines : ReferencesRead(k) = {}
  <2>1. ASSUME NEW k \in Lines, src[k].kind = "code"
        PROVE  \A m \in DOMAIN src[k].pieces : ~(m < at)
    BY <1>1, <2>1, LinesOK DEF Init
  <2> QED BY <1>3, <2>1 DEF ReferencesRead
<1>5. DOMAIN symbTab = {} /\ relTab = {} /\ at = 0 /\ noerrors /\ status = "reading"
  BY DEF Init
<1>6. SoFarLegal
  BY <1>3, <1>4, <1>5 DEF SoFarLegal, LinesClean, LabelsClean, ReferencesClean
<1> QED BY <1>1, <1>2, <1>6 DEF AInv

(* No step breaks the invariant. *)
LEMMA StepAInv == AInv /\ [Next]_vars => AInv'
<1> SUFFICES ASSUME AInv, [Next]_vars PROVE AInv'
  OBVIOUS
<1>1. IInv'
  BY StepIInv DEF AInv
<1>2. src' = src
  BY DEF Next, ReadLine, RejectDirective, SkipDirective, WordDirective, OpenLine, TooManyOperands,
         GiveUp, NextLine, DeclareLabel, ReadMnemonic, ReadOperand, RejectPiece, CloseLine,
         EndOfSource, Relocations, Relocate, Finish, Ended, vars
<1>3. (Legal /\ FewLabels)' => Legal /\ FewLabels
  BY <1>2, SrcFixed
<1> QED BY <1>1, <1>3, CleanStep, LegalStep, StatusStep DEF AInv

(* So it always holds. *)
LEMMA AInvAlways == Spec => []AInv
  BY InitAInv, StepAInv, PTL DEF Spec

\* Whatever the source, it is assembled without a complaint exactly if it is
\* legal, lines of two labels apart (fasm.cpp:277-283 and 231-249).
THEOREM AlwaysAcceptsLegal == Spec => []AcceptsLegal
<1>1. ASSUME AInv PROVE AcceptsLegal
  <2> SUFFICES ASSUME Ended PROVE (Legal /\ FewLabels => Clean) /\ (Clean => Legal)
    BY DEF AcceptsLegal
  <2>1. Legal /\ FewLabels => Clean
    BY <1>1 DEF AInv, SoFarLegal, Ended, Clean
  <2>2. ASSUME Clean PROVE Legal
    <3>1. SoFarLegal /\ relTab = {} /\ status # "reading" /\ ln > Len(src)
      BY <1>1, <2>2 DEF AInv, Clean, StatusInv
    <3>2. \A k \in Lines : k < ln
      BY <1>1, <3>1, LinesOK DEF AInv, IInv
    <3>3. \A k \in Lines : LegalLine(k)
      BY <3>1, <3>2 DEF SoFarLegal, LinesClean
    <3>4. \A k \in Lines : (\A m \in Labels(k) : WasRead(k, m)) /\ ReferencesRead(k) = References(k)
      BY <3>2 DEF WasRead, ReferencesRead
    <3>5. \A k, l \in Lines : \A m \in Labels(k), n \in Labels(l) :
            src[k].pieces[m].label = src[l].pieces[n].label => <<k, m>> = <<l, n>>
      BY <3>1, <3>4 DEF SoFarLegal, LabelsClean, Name
    <3>6. Referred \subseteq Declared \cup {NoLabel}
      <4>1. DOMAIN symbTab \subseteq Declared
        BY <3>1 DEF SoFarLegal, LabelsClean, Declared, Name
      <4>2. \A k \in Lines : \A l \in References(k) : l = NoLabel \/ l \in DOMAIN symbTab
        BY <3>1, <3>4 DEF SoFarLegal, ReferencesClean
      <4> QED BY <4>1, <4>2 DEF Referred
    <3> QED BY <3>3, <3>5, <3>6, Zenon DEF Legal, NoLabel
  <2> QED BY <2>1, <2>2
<1> QED BY <1>1, AInvAlways, PTL
=============================================================================
