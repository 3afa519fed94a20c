--------------------------- MODULE AssemblyProofs ---------------------------
(***************************************************************************)
(* fasm.cpp writes what the source says (AssemblesMeaning of Assembly),    *)
(* for every source the assembler accepts.                                 *)
(*                                                                         *)
(* The first half is an invariant of the assembler, BInv: until it reports *)
(* something, the lines read so far are stored at their places, the labels *)
(* read so far have the addresses of their lines, and the instruction that *)
(* is being read has the mode bits and the words of the operands seen so   *)
(* far.  It rests on AInv (FasmProofs), which says that those lines and    *)
(* operands are legal.                                                     *)
(*                                                                         *)
(* The second half takes no steps: the decoder of the instruction set      *)
(* (FabComp) is run on the words of Binary, operand by operand, and finds  *)
(* what was written.                                                       *)
(***************************************************************************)
EXTENDS FasmProofs, SequenceTheorems, WellFoundedInduction

(* What has been assembled, the line being read included. *)
Binary == cs \o (IF sawOpc THEN <<inst>> \o imms ELSE <<>>)

(* Address a holds word v, or the address of label, if there is one, or will
   when the label is relocated.  The opcode word of the line being read is
   not there yet.                                                          *)
Stored(a, label, v) ==
  /\ a \in Nat /\ a < Len(Binary) /\ (sawOpc => a # Len(cs))
  /\ \/ /\ label = NoLabel /\ Binary[a + 1] = v
        /\ \A r \in relTab : r[2] # a
     \/ /\ label # NoLabel /\ <<label, a>> \in relTab
        /\ \A r \in relTab : r[2] = a => r[1] = label
     \/ /\ label # NoLabel /\ label \in DOMAIN symbTab /\ status # "reading"
        /\ Binary[a + 1] = symbTab[label] % WORDS
        /\ \A r \in relTab : r[2] # a

(* The words of operand p are at q and after it. *)
OperandStored(p, q) ==
  \A n \in 1..Size(p) : Stored(q + n - 1, IF n = Size(p) THEN p.label ELSE NoLabel, WordsOf(p)[n])

(* Operand n of line k, which has c labels; the sizes and the modes of the first n. *)
Opnd(k, c, n) == src[k].pieces[c + 1 + n]

SizeUpTo(k, c, n) == (IF n > 0 THEN Size(Opnd(k, c, 1)) ELSE 0)
                       + (IF n > 1 THEN Size(Opnd(k, c, 2)) ELSE 0)
                       + (IF n > 2 THEN Size(Opnd(k, c, 3)) ELSE 0)

(* The mode bits that operand p sets as the first, second and third. *)
First(p)  == 16 * Mode[p.kind]
Second(p) == IF p.kind = "imm" THEN 128 ELSE 4 * Mode[p.kind]
Third(p)  == IF p.kind = "imm" THEN 64 ELSE Mode[p.kind]
InstUpTo(k, c, n) == 256 * src[k].pieces[c + 1].opcode
                       + (IF n > 0 THEN First(Opnd(k, c, 1)) ELSE 0)
                       + (IF n > 1 THEN Second(Opnd(k, c, 2)) ELSE 0)
                       + (IF n > 2 THEN Third(Opnd(k, c, 3)) ELSE 0)

(* The first n operands of line k follow the instruction word at q. *)
OperandsStored(k, c, n, q) ==
  \A m \in 1..n : OperandStored(Opnd(k, c, m), q + 1 + SizeUpTo(k, c, m - 1))

(* Line k is where Place says, as it was written. *)
LineStored(k) ==
  LET c == Cardinality(Labels(k))
      n == Len(src[k].pieces) - c - 1
  IN  /\ src[k].kind = "directive" =>
           \A m \in 1..src[k].reps :
             Stored(Place[k] + m - 1, src[k].label, src[k].value % WORDS)
      /\ src[k].kind = "code" /\ n >= 0 =>
           /\ Stored(Place[k], NoLabel, InstUpTo(k, c, n))
           /\ OperandsStored(k, c, n, Place[k])

(* The instruction being read has the operands seen so far. *)
InstructionMeant ==
  Reading /\ sawOpc =>
    LET c == at - 2 - curOpnd
    IN  /\ inst = InstUpTo(ln, c, curOpnd)
        /\ Len(imms) = SizeUpTo(ln, c, curOpnd)
        /\ OperandsStored(ln, c, curOpnd, Len(cs))
        /\ \A r \in relTab : r[2] # Len(cs)

(* The labels read so far have the addresses of their lines. *)
AddressesMeant ==
  \A k \in Lines : \A m \in Labels(k) : WasRead(k, m) => symbTab[Name(k, m)] = Place[k]

(* All the lines before this one, and this one so far. *)
Meant ==
  /\ ln <= Len(src) + 1
  /\ \A k \in 1..ln : Place[k] \in Nat
  /\ Len(cs) = Place[ln]
  /\ \A k \in Lines : k < ln => LineStored(k)
  /\ AddressesMeant
  /\ InstructionMeant

(* The inductive invariant. *)
BInv == AInv /\ (~reported => Meant)

-----------------------------------------------------------------------------
(* Induction over the numbers, for a set of them. *)
LEMMA NatSetInduction ==
  ASSUME NEW S, 0 \in S, \A n \in Nat : n \in S => n + 1 \in S
  PROVE  Nat \subseteq S
<1> DEFINE T == Nat \ S
           R == {ss \in Nat \X Nat : ss[1] < ss[2]}
<1> SUFFICES ASSUME T # {} PROVE FALSE
  OBVIOUS
<1>1. IsWellFoundedOn(R, Nat)
  BY NatLessThanWellFounded, Zenon DEF OpToRel
<1>2. PICK x \in T : \A y \in T : ~(<<y, x>> \in R)
  <2>1. T \subseteq Nat
    OBVIOUS
  <2> HIDE DEF T, R
  <2> QED BY <1>1, <2>1, WFMin
<1>3. x \in Nat \ {0} /\ x - 1 \in Nat /\ x - 1 < x
  OBVIOUS
<1>4. x - 1 \in T
  BY <1>3
<1>5. <<x - 1, x>> \in R
  BY <1>3
<1> QED BY <1>2, <1>4, <1>5

(* The recursion that defines Place has a solution. *)
LEMMA PlaceIs ==
  ASSUME FasmTypeOK
  PROVE  Place = [k \in 1..(Len(src) + 1) |-> IF k = 1 THEN 0 ELSE Place[k - 1] + LineSize(k - 1)]
<1> DEFINE Solves(f, n) == f = [k \in 1..(n + 1) |-> IF k = 1 THEN 0
                                                    ELSE f[k - 1] + LineSize(k - 1)]
           S == {n \in Nat : \E f : Solves(f, n)}
<1>1. 0 \in S
  <2>1. Solves([k \in 1..1 |-> 0], 0)
    OBVIOUS
  <2> QED BY <2>1
<1>2. ASSUME NEW n \in Nat, n \in S PROVE n + 1 \in S
  <2>1. PICK f : Solves(f, n)
    BY <1>2
  <2> DEFINE g == [k \in 1..(n + 2) |-> IF k = n + 2 THEN f[k - 1] + LineSize(k - 1) ELSE f[k]]
  <2>2. \A k \in 1..(n + 2) : k = n + 2 \/ k \in 1..(n + 1)
    OBVIOUS
  <2>3. \A k \in 1..(n + 1) : f[k] = IF k = 1 THEN 0 ELSE f[k - 1] + LineSize(k - 1)
    BY <2>1
  <2>4. ASSUME NEW k \in 1..(n + 2)
        PROVE  g[k] = IF k = 1 THEN 0 ELSE g[k - 1] + LineSize(k - 1)
    <3>1. k # 1 => k - 1 \in 1..(n + 2) /\ k - 1 # n + 2
      OBVIOUS
    <3>2. k # 1 => g[k - 1] = f[k - 1]
      BY <3>1
    <3>3. CASE k = n + 2
      BY <3>2, <3>3
    <3>4. CASE k \in 1..(n + 1)
      BY <2>3, <3>2, <3>4
    <3> QED BY <2>2, <3>3, <3>4
  <2>5. g = [k \in 1..(n + 2) |-> IF k = 1 THEN 0 ELSE g[k - 1] + LineSize(k - 1)]
    <3> DEFINE h == [k \in 1..(n + 2) |-> IF k = 1 THEN 0 ELSE g[k - 1] + LineSize(k - 1)]
    <3>1. \A k \in 1..(n + 2) : g[k] = h[k]
      BY <2>4
    <3>2. DOMAIN g = 1..(n + 2) /\ DOMAIN h = 1..(n + 2)
      OBVIOUS
    <3>3. g = [k \in 1..(n + 2) |-> g[k]] /\ h = [k \in 1..(n + 2) |-> h[k]]
      OBVIOUS
    <3> HIDE DEF g, h
    <3>4. g = h
      BY <3>1, <3>3
    <3> QED BY <3>4 DEF h
  <2> HIDE DEF g
  <2>6. n + 1 + 1 = n + 2
    OBVIOUS
  <2>7. Solves(g, n + 1)
    BY <2>5, <2>6
  <2> QED BY <2>7
<1> HIDE DEF S
<1>3. Len(src) \in S
  BY <1>1, <1>2, LinesOK, NatSetInduction
<1>4. \E f : Solves(f, Len(src))
  BY <1>3 DEF S
<1> QED BY <1>4, Zenon DEF Place

(* The place after line k. *)
LEMMA PlaceNext ==
  ASSUME FasmTypeOK, NEW k \in Lines
  PROVE  Place[k + 1] = Place[k] + LineSize(k)
<1>1. PICK j : j = k + 1
  OBVIOUS
<1>2. j \in 1..(Len(src) + 1) /\ j # 1 /\ j - 1 = k
  BY <1>1, LinesOK
<1>3. \A i \in 1..(Len(src) + 1) : Place[i] = IF i = 1 THEN 0 ELSE Place[i - 1] + LineSize(i - 1)
  BY PlaceIs, Zenon
<1>4. Place[j] = Place[j - 1] + LineSize(j - 1)
  BY <1>2, <1>3, Zenon
<1> QED BY <1>1, <1>2, <1>4

(* Places do not move. *)
LEMMA PlaceFixed ==
  ASSUME src' = src
  PROVE  Place' = Place /\ \A k : LineSize(k)' = LineSize(k)
<1>1. Lines' = Lines /\ \A k : Labels(k)' = Labels(k)
  BY SrcFixed
<1>2. Instructions' = Instructions
  BY <1>1 DEF Instructions, Has
<1>3. \A k : Written(k)' = Written(k)
  BY <1>1 DEF Written
<1>4. \A k : LineSize(k)' = LineSize(k)
  BY <1>2, <1>3 DEF LineSize
<1>5. Place' = Place
  BY <1>4, Zenon DEF Place
<1> QED BY <1>4, <1>5

-----------------------------------------------------------------------------
(* What is stored stays stored. *)

(* The words of a concatenation. *)
LEMMA ConcatAt ==
  ASSUME NEW s, NEW t, IsSeq(s), IsSeq(t)
  PROVE  /\ \A i \in 1..Len(s) : (s \o t)[i] = s[i]
         /\ \A i \in 1..Len(t) : (s \o t)[Len(s) + i] = t[i]
<1> DEFINE S == {s[k] : k \in DOMAIN s} \cup {t[k] : k \in DOMAIN t}
<1>1. s \in Seq(S) /\ t \in Seq(S)
  BY DEF IsSeq
<1> HIDE DEF S
<1> QED BY <1>1

(* Concatenations associate. *)
LEMMA Associates ==
  ASSUME NEW s, NEW o, NEW t, IsSeq(s), IsSeq(t)
  PROVE  s \o (<<o>> \o t) = s \o <<o>> \o t
<1> DEFINE S == {s[k] : k \in DOMAIN s} \cup {t[k] : k \in DOMAIN t} \cup {o}
<1>1. s \in Seq(S) /\ t \in Seq(S) /\ <<o>> \in Seq(S)
  BY DEF IsSeq
<1> HIDE DEF S
<1> QED BY <1>1

(* An instruction after what was assembled before. *)
LEMMA Assembled ==
  ASSUME NEW s, NEW o, NEW t, IsSeq(s), IsSeq(t)
  PROVE  /\ IsSeq(s \o <<o>> \o t) /\ Len(s \o <<o>> \o t) = Len(s) + 1 + Len(t)
         /\ \A i \in 1..Len(s) : (s \o <<o>> \o t)[i] = s[i]
         /\ (s \o <<o>> \o t)[Len(s) + 1] = o
         /\ \A i \in 1..Len(t) : (s \o <<o>> \o t)[Len(s) + 1 + i] = t[i]
<1>1. IsSeq(<<o>>) /\ Len(<<o>>) = 1 /\ <<o>>[1] = o
  BY DEF IsSeq
<1> DEFINE u == s \o <<o>>
<1>2. IsSeq(u) /\ Len(u) = Len(s) + 1 /\ Len(s) \in Nat /\ Len(t) \in Nat
  BY <1>1, ConcatIsSeq
<1>3. (\A i \in 1..Len(s) : u[i] = s[i]) /\ u[Len(s) + 1] = o
  <2>1. (\A i \in 1..Len(s) : u[i] = s[i]) /\ \A i \in 1..1 : u[Len(s) + i] = <<o>>[i]
    BY <1>1, ConcatAt
  <2> QED BY <1>1, <2>1
<1> HIDE DEF u
<1>4. IsSeq(u \o t) /\ Len(u \o t) = Len(u) + Len(t)
  BY <1>2, ConcatIsSeq
<1>5. /\ \A i \in 1..Len(u) : (u \o t)[i] = u[i]
      /\ \A i \in 1..Len(t) : (u \o t)[Len(u) + i] = t[i]
  BY <1>2, ConcatAt
<1>6. \A i \in 1..Len(s) : (u \o t)[i] = s[i]
  BY <1>2, <1>3, <1>5
<1>7. (u \o t)[Len(s) + 1] = o
  BY <1>2, <1>3, <1>5
<1>8. \A i \in 1..Len(t) : (u \o t)[Len(s) + 1 + i] = t[i]
  BY <1>2, <1>5
<1>9. IsSeq(u \o t) /\ Len(u \o t) = Len(s) + 1 + Len(t)
  BY <1>2, <1>4
<1> QED BY <1>6, <1>7, <1>8, <1>9 DEF u

(* Where the words of what has been assembled are. *)
LEMMA BinaryIs ==
  ASSUME FasmTypeOK
  PROVE  /\ IsSeq(cs) /\ IsSeq(imms) /\ Len(cs) \in Nat /\ Len(imms) \in Nat
         /\ IsSeq(Binary) /\ Len(Binary) = Len(cs) + (IF sawOpc THEN 1 + Len(imms) ELSE 0)
         /\ \A i \in 1..Len(cs) : Binary[i] = cs[i]
         /\ ~sawOpc => Binary = cs
         /\ sawOpc => \A i \in 1..Len(imms) : Binary[Len(cs) + 1 + i] = imms[i]
<1>1. IsSeq(cs) /\ IsSeq(imms) /\ Len(cs) \in Nat /\ Len(imms) \in Nat
  BY DEF FasmTypeOK, IsSeq
<1>2. CASE sawOpc
  <2>1. Binary = cs \o <<inst>> \o imms
    <3>1. cs \o (<<inst>> \o imms) = cs \o <<inst>> \o imms
      BY <1>1, Associates
    <3> QED BY <1>2, <3>1 DEF Binary
  <2> QED BY <1>1, <1>2, <2>1, Assembled
<1>3. CASE ~sawOpc
  <2>1. Binary = cs
    <3>1. cs \o <<>> = cs
      BY <1>1 DEF IsSeq
    <3> QED BY <1>3, <3>1 DEF Binary
  <2> QED BY <1>1, <1>3, <2>1
<1> QED BY <1>2, <1>3

(* Words that are where they were, and no new reference to them. *)
LEMMA StoredKept ==
  ASSUME NEW a, NEW label, NEW v, Stored(a, label, v),
         a < Len(Binary'), Binary'[a + 1] = Binary[a + 1], sawOpc' => a # Len(cs'),
         relTab \subseteq relTab', \A r \in relTab' \ relTab : r[2] # a,
         \A l \in DOMAIN symbTab : l \in DOMAIN symbTab' /\ symbTab'[l] = symbTab[l],
         status # "reading" => status' # "reading"
  PROVE  Stored(a, label, v)'
  BY DEF Stored

(* What is stored stays stored in this step. *)
AllKept == \A a, label, v : Stored(a, label, v) => Stored(a, label, v)'

(* If the words are kept, so are the lines and the operands they make up. *)
LEMMA LinesKept ==
  ASSUME src' = src, AllKept
  PROVE  /\ \A k : LineStored(k) => LineStored(k)'
         /\ \A k, c, n, q : OperandsStored(k, c, n, q) => OperandsStored(k, c, n, q)'
<1>1. \A p, q : OperandStored(p, q) => OperandStored(p, q)'
  BY DEF AllKept, OperandStored
<1>2. /\ \A k, c, n : Opnd(k, c, n)' = Opnd(k, c, n)
  BY DEF Opnd
<1>3. \A k, c, n : SizeUpTo(k, c, n)' = SizeUpTo(k, c, n) /\ InstUpTo(k, c, n)' = InstUpTo(k, c, n)
  BY <1>2 DEF SizeUpTo, InstUpTo
<1>4. \A k, c, n, q : OperandsStored(k, c, n, q) => OperandsStored(k, c, n, q)'
  BY <1>1, <1>2, <1>3 DEF OperandsStored
<1>5. ASSUME NEW k, LineStored(k) PROVE LineStored(k)'
  <2>1. Labels(k)' = Labels(k) /\ Place' = Place
    BY SrcFixed, PlaceFixed
  <2> DEFINE c == Cardinality(Labels(k))
             n == Len(src[k].pieces) - c - 1
  <2>2. /\ src[k].kind = "directive" =>
             \A m \in 1..src[k].reps : Stored(Place[k] + m - 1, src[k].label, src[k].value % WORDS)
        /\ src[k].kind = "code" /\ n >= 0 =>
             Stored(Place[k], NoLabel, InstUpTo(k, c, n)) /\ OperandsStored(k, c, n, Place[k])
    BY <1>5 DEF LineStored
  <2>3. c' = c /\ n' = n
    BY <2>1
  <2> HIDE DEF c, n
  <2>4. /\ src'[k].kind = "directive" =>
             \A m \in 1..src'[k].reps :
               Stored(Place[k] + m - 1, src[k].label, src[k].value % WORDS)'
        /\ src'[k].kind = "code" /\ n' >= 0 =>
             Stored(Place[k], NoLabel, InstUpTo(k, c, n))' /\ OperandsStored(k, c, n, Place[k])'
    BY <1>3, <1>4, <2>1, <2>2, <2>3 DEF AllKept
  <2> QED BY <2>4 DEF LineStored, c, n
<1> QED BY <1>4, <1>5

-----------------------------------------------------------------------------
(* While a line is read, and while labels are relocated, the lines before it
   mean what they did.                                                     *)
LEMMA SameLine ==
  ASSUME Meant, src' = src, ln' = ln, Len(cs') = Len(cs), AllKept,
         AddressesMeant', InstructionMeant'
  PROVE  Meant'
<1>1. Place' = Place /\ Lines' = Lines
  BY PlaceFixed, SrcFixed
<1>2. \A k \in Lines' : k < ln' => LineStored(k)'
  BY <1>1, LinesKept DEF Meant
<1> QED BY <1>1, <1>2 DEF Meant

(* The next line begins where this one ends. *)
LEMMA NextLineMeant ==
  ASSUME FasmTypeOK, Meant, Reading, NextLine, AllKept, symbTab' = symbTab, NEW i, i = ln,
         LineStored(i)', LineSize(i) \in Nat, Len(cs') = Len(cs) + LineSize(i),
         \A m \in Labels(i) : m < at
  PROVE  Meant'
<1>1. src' = src /\ ln' = ln + 1 /\ at' = 0 /\ sawOpc' = FALSE
  BY DEF NextLine
<1>2. /\ Place' = Place /\ Lines' = Lines /\ (\A k : Labels(k)' = Labels(k))
      /\ \A k, n : Name(k, n)' = Name(k, n)
  BY <1>1, PlaceFixed, SrcFixed
<1>3. i \in Lines /\ Lines = 1..Len(src) /\ Len(src) \in Nat /\ i \in Nat \ {0} /\ i = ln
  BY LinesOK
<1>4. Place[i] \in Nat /\ Len(cs) = Place[i]
  BY <1>3 DEF Meant
<1>5. Place[i + 1] = Place[i] + LineSize(i)
  BY <1>3, PlaceNext
<1>6. ln' <= Len(src') + 1 /\ Len(cs') = Place'[ln']
  BY <1>1, <1>2, <1>3, <1>4, <1>5
<1>7. \A k \in 1..ln' : Place'[k] \in Nat
  <2>1. ASSUME NEW k \in 1..ln' PROVE Place[k] \in Nat
    <3>1. k \in 1..ln \/ k = i + 1
      BY <1>1, <1>3
    <3>2. Place[i + 1] \in Nat
      BY <1>4, <1>5
    <3> QED BY <3>1, <3>2 DEF Meant
  <2> QED BY <1>2, <2>1
<1>8. \A k \in Lines' : k < ln' => LineStored(k)'
  <2>1. ASSUME NEW k \in Lines, k < ln' PROVE LineStored(k)'
    <3>1. k < ln \/ k = i
      BY <1>1, <1>3, <2>1
    <3>2. k < ln => LineStored(k)
      BY DEF Meant
    <3> QED BY <1>1, <3>1, <3>2, LinesKept
  <2> QED BY <1>2, <2>1
<1>9. AddressesMeant'
  <2>1. ASSUME NEW k \in Lines, NEW m \in Labels(k), WasRead(k, m)' PROVE WasRead(k, m)
    <3>1. m \in Nat
      BY LinesOK
    <3>2. k < ln \/ k = i
      BY <1>1, <1>3, <2>1, <3>1 DEF WasRead
    <3> QED BY <1>3, <3>2 DEF WasRead
  <2> QED BY <1>2, <2>1 DEF Meant, AddressesMeant
<1>10. InstructionMeant'
  BY <1>1 DEF InstructionMeant
<1> QED BY <1>6, <1>7, <1>8, <1>9, <1>10 DEF Meant

(* Nothing is read, and nothing assembled. *)
LEMMA QuietKept ==
  ASSUME cs' = cs, sawOpc' = sawOpc, inst' = inst, imms' = imms, relTab' = relTab,
         \A l \in DOMAIN symbTab : l \in DOMAIN symbTab' /\ symbTab'[l] = symbTab[l],
         status # "reading" => status' # "reading"
  PROVE  AllKept
<1>1. Binary' = Binary
  BY DEF Binary
<1>2. ASSUME NEW a, NEW label, NEW v, Stored(a, label, v) PROVE Stored(a, label, v)'
  <2>1. a < Len(Binary) /\ (sawOpc => a # Len(cs))
    BY <1>2 DEF Stored
  <2> QED BY <1>1, <1>2, <2>1, StoredKept
<1> QED BY <1>2 DEF AllKept

(* Labels that were read keep their addresses. *)
LEMMA AddressesKept ==
  ASSUME LabelsClean, AddressesMeant, src' = src,
         \A l \in DOMAIN symbTab : symbTab'[l] = symbTab[l],
         \A k \in Lines : \A m \in Labels(k) : WasRead(k, m)' => WasRead(k, m)
  PROVE  AddressesMeant'
<1>1. /\ Place' = Place /\ Lines' = Lines /\ (\A k : Labels(k)' = Labels(k))
      /\ \A k, n : Name(k, n)' = Name(k, n)
  BY PlaceFixed, SrcFixed
<1> QED BY <1>1 DEF AddressesMeant, LabelsClean

(* Each word of a directive is its value, or a reference. *)
LEMMA WordMeant ==
  ASSUME IInv, SoFarLegal, Meant, Reading, WordDirective
  PROVE  Meant'
<1>1. PICK i, n, w, label, len :
        i = ln /\ n = Line.reps /\ w = Line.value % WORDS /\ label = Line.label /\ len = Len(cs)
  OBVIOUS
<1>2. /\ NextLine /\ symbTab' = symbTab /\ noerrors /\ Line.kind = "directive"
      /\ cs' = cs \o [k \in 1..n |-> w]
      /\ sawOpc' = FALSE /\ src' = src /\ status' = status
  BY <1>1, Zenon DEF WordDirective, NextLine
<1>3. relTab' = IF label = NoLabel THEN relTab
                ELSE relTab \cup {<<label, len + k - 1>> : k \in 1..n}
  BY <1>1, Zenon DEF WordDirective, NoLabel
<1>4. /\ FasmTypeOK /\ i \in Lines /\ Line = src[i] /\ Labels(i) = {} /\ n \in Nat /\ ~sawOpc
      /\ i \in Nat
  <2>1. FasmTypeOK /\ i \in Lines /\ Line = src[i] /\ i \in Nat
    BY <1>1, LinesOK DEF IInv, Line
  <2>2. ~sawOpc
    BY <1>2, LineOK DEF IInv, LineInv
  <2> QED BY <1>1, <1>2, <2>1, <2>2, SourceOK
<1>5. len \in Nat /\ IsSeq(cs) /\ Binary = cs /\ Len(cs) = len
  BY <1>1, <1>4, BinaryIs
<1>6. Binary' = cs' /\ Len(cs') = len + n
      /\ (\A k \in 1..len : cs'[k] = cs[k]) /\ \A k \in 1..n : cs'[len + k] = w
  <2> DEFINE t == [k \in 1..n |-> w]
  <2>1. IsSeq(t) /\ Len(t) = n
    BY <1>4, FunctionIsSeq
  <2>2. cs' = cs \o t
    BY <1>2
  <2>3. \A k \in 1..n : t[k] = w
    OBVIOUS
  <2> HIDE DEF t
  <2>4. IsSeq(cs') /\ Len(cs') = len + n
    BY <1>5, <2>1, <2>2, ConcatIsSeq
  <2>5. (\A k \in 1..len : cs'[k] = cs[k]) /\ \A k \in 1..Len(t) : cs'[len + k] = t[k]
    BY <1>5, <2>1, <2>2, ConcatAt
  <2>6. cs' \o <<>> = cs'
    BY <2>4 DEF IsSeq
  <2>7. Binary' = cs'
    BY <1>2, <2>6 DEF Binary
  <2> QED BY <2>1, <2>3, <2>4, <2>5, <2>7
<1>7. \A r \in relTab : r[2] \in Nat /\ r[2] < len
  BY <1>1, <1>2, <1>4, <1>5 DEF IInv, FasmTypeOK, ReferencesInside
<1>8. ASSUME NEW k \in 1..n PROVE <<label, len + k - 1>>[1] = label
                                  /\ <<label, len + k - 1>>[2] = len + k - 1
  OBVIOUS
<1>9. \A r \in relTab' \ relTab : r[1] = label /\ r[2] >= len
  <2>1. ASSUME NEW r \in relTab' \ relTab PROVE r[1] = label /\ r[2] >= len
    <3>1. PICK k \in 1..n : r = <<label, len + k - 1>>
      BY <1>3, <2>1
    <3> QED BY <1>4, <1>5, <1>8, <3>1
  <2> QED BY <2>1
<1>10. AllKept
  <2>1. ASSUME NEW a, NEW l, NEW v, Stored(a, l, v) PROVE Stored(a, l, v)'
    <3>1. a \in Nat /\ a < len
      BY <1>5, <2>1 DEF Stored
    <3>2. a < Len(Binary') /\ Binary'[a + 1] = Binary[a + 1]
      BY <1>4, <1>5, <1>6, <3>1
    <3>3. relTab \subseteq relTab' /\ \A r \in relTab' \ relTab : r[2] # a
      BY <1>3, <1>5, <1>9, <3>1
    <3> QED BY <1>2, <2>1, <3>2, <3>3, StoredKept
  <2> QED BY <2>1 DEF AllKept
<1>11. LineStored(i)'
  <2>1. len = Place[i]
    BY <1>1 DEF Meant
  <2>2. ASSUME NEW m \in 1..n PROVE Stored(len + m - 1, label, w)'
    <3> DEFINE a == len + m - 1
    <3>1. a \in Nat /\ a < Len(Binary') /\ a + 1 = len + m /\ a >= len
      BY <1>4, <1>5, <1>6
    <3>2. Binary'[a + 1] = w
      BY <1>6, <3>1
    <3>3. \A r \in relTab : r[2] # a
      BY <1>5, <1>7, <3>1
    <3>4. label # NoLabel => <<label, a>> \in relTab' /\ \A r \in relTab' : r[2] = a => r[1] = label
      BY <1>3, <1>9, <3>3
    <3>5. label = NoLabel => \A r \in relTab' : r[2] # a
      BY <1>3, <3>3
    <3> HIDE DEF a
    <3>6. Stored(a, label, w)'
      BY <1>2, <3>1, <3>2, <3>4, <3>5, Zenon DEF Stored
    <3> QED BY <3>6 DEF a
  <2>3. Place' = Place
    BY <1>2, PlaceFixed
  <2>4. \A m \in 1..src'[i].reps : Stored(Place[i] + m - 1, src[i].label, src[i].value % WORDS)'
    BY <1>1, <1>2, <1>4, <2>1, <2>2, <2>3
  <2>5. src'[i].kind = "directive"
    BY <1>2, <1>4
  <2> QED BY <2>4, <2>5 DEF LineStored
<1>12. LineSize(i) = n
  BY <1>1, <1>2, <1>4 DEF LineSize
<1> QED BY <1>1, <1>2, <1>4, <1>6, <1>10, <1>11, <1>12, NextLineMeant

(* The pieces of a source are what SourcesAssumption says. *)
LEMMA PiecesOK ==
  ASSUME FasmTypeOK, NEW k \in Lines, src[k].kind = "code", NEW n \in DOMAIN src[k].pieces
  PROVE  PieceAssumption(src[k].pieces[n])
<1>1. src \in Sources
  BY DEF FasmTypeOK
<1> QED BY <1>1, SourcesAssumption DEF Lines

(* The modes of operands are two bits. *)
LEMMA ModeIs == \A kind \in OperandKinds : Mode[kind] \in 0..3 /\ (kind = "imm" => Mode[kind] = 0)
  BY DEF Mode, OperandKinds

(* The mnemonic starts an instruction word of no operands yet. *)
LEMMA MnemonicMeant ==
  ASSUME IInv, SoFarLegal, Meant, Reading, ReadMnemonic
  PROVE  Meant'
<1>1. PICK i, a : i = ln /\ a = at
  OBVIOUS
<1>2. /\ src' = src /\ ln' = ln /\ at' = at + 1 /\ status' = status
      /\ sawOpc' = TRUE /\ curOpnd' = curOpnd /\ relTab' = relTab /\ symbTab' = symbTab /\ cs' = cs
      /\ imms' = imms /\ inst' = 256 * Piece.opcode /\ imms = <<>>
      /\ AtPiece /\ Piece.kind = "mnemonic" /\ ~sawOpc /\ curOpnd = 0 /\ noerrors
  BY DEF ReadMnemonic, IInv, LineInv, SoFarLegal
<1>3. /\ FasmTypeOK /\ i \in Lines /\ src[i].kind = "code" /\ Piece = src[i].pieces[a]
      /\ a \in Nat \ {0} /\ a \in DOMAIN src[i].pieces
      /\ \A k \in Lines : \A m \in Labels(k) : WasRead(k, m)' <=> WasRead(k, m) \/ (k = i /\ m = a)
      /\ a \notin Labels(i)
  BY <1>1, <1>2, PieceRead DEF IInv
<1>4. Binary = cs /\ Len(cs) \in Nat /\ IsSeq(cs)
  BY <1>2, <1>3, BinaryIs
<1>5. /\ Len(Binary') = Len(cs) + 1 /\ \A k \in 1..Len(cs) : Binary'[k] = cs[k]
  <2>1. IsSeq(<<>>) /\ Len(<<>>) = 0
    BY DEF IsSeq
  <2>2. PICK o : o = inst'
    OBVIOUS
  <2>3. Binary' = cs \o (<<o>> \o <<>>)
    BY <1>2, <2>2 DEF Binary
  <2>4. cs \o (<<o>> \o <<>>) = cs \o <<o>> \o <<>>
    BY <1>4 DEF IsSeq
  <2> QED BY <1>4, <2>1, <2>3, <2>4, Assembled
<1>6. \A r \in relTab : r[2] \in Nat /\ r[2] < Len(cs)
  BY <1>2, <1>3, <1>4 DEF IInv, FasmTypeOK, ReferencesInside
<1>7. AllKept
  <2>1. ASSUME NEW x, NEW l, NEW v, Stored(x, l, v) PROVE Stored(x, l, v)'
    <3>1. x \in Nat /\ x < Len(cs)
      BY <1>4, <2>1 DEF Stored
    <3>2. x < Len(Binary') /\ Binary'[x + 1] = Binary[x + 1] /\ x # Len(cs')
      BY <1>2, <1>4, <1>5, <3>1
    <3> QED BY <1>2, <2>1, <3>2, StoredKept
  <2> QED BY <2>1 DEF AllKept
<1>8. AddressesMeant'
  BY <1>2, <1>3, AddressesKept DEF SoFarLegal, Meant
<1>9. InstructionMeant'
  <2>1. at' - 2 - curOpnd' = a - 1 /\ curOpnd' = 0
    BY <1>1, <1>2, <1>3
  <2>2. InstUpTo(i, a - 1, 0)' = 256 * Piece.opcode
    <3>1. a - 1 + 1 = a
      BY <1>3
    <3>2. Piece.opcode \in 0..44
      <4>1. PieceAssumption(Piece)
        BY <1>3, PiecesOK
      <4> QED BY <1>2, <4>1 DEF PieceAssumption, OperandKinds
    <3>3. InstUpTo(i, a - 1, 0)' = 256 * Piece.opcode + 0 + 0 + 0
      BY <1>2, <1>3, <3>1 DEF InstUpTo
    <3> QED BY <3>2, <3>3
  <2>3. SizeUpTo(i, a - 1, 0)' = 0
    BY DEF SizeUpTo
  <2>4. \A q : OperandsStored(i, a - 1, 0, q)'
    BY DEF OperandsStored
  <2>5. Len(imms') = 0 /\ \A r \in relTab' : r[2] # Len(cs')
    BY <1>2, <1>4, <1>6
  <2> QED BY <1>1, <1>2, <2>1, <2>2, <2>3, <2>4, <2>5 DEF InstructionMeant
<1> QED BY <1>1, <1>2, <1>7, <1>8, <1>9, SameLine

(* An operand adds its mode to the instruction word. *)
LEMMA ModeBitsAre ==
  ASSUME NEW p, p.kind \in OperandKinds, curOpnd \in 0..2, ~(p.kind = "imm" /\ curOpnd = 0)
  PROVE  /\ curOpnd = 0 => ModeBits(p) = First(p)
         /\ curOpnd = 1 => ModeBits(p) = Second(p)
         /\ curOpnd = 2 => ModeBits(p) = Third(p)
<1>1. Mode[p.kind] \in 0..3
  BY ModeIs
<1>2. CASE curOpnd = 0
  <2>1. ModeBits(p) = Mode[p.kind] * 4^2
    BY <1>2 DEF ModeBits
  <2> QED BY <1>1, <1>2, <2>1 DEF First
<1>3. CASE curOpnd = 1
  <2>1. ModeBits(p) = IF p.kind = "imm" THEN 2^7 ELSE Mode[p.kind] * 4^1
    BY <1>3 DEF ModeBits
  <2> QED BY <1>1, <1>3, <2>1 DEF Second
<1>4. CASE curOpnd = 2
  <2>1. ModeBits(p) = IF p.kind = "imm" THEN 2^6 ELSE Mode[p.kind] * 4^0
    BY <1>4 DEF ModeBits
  <2> QED BY <1>1, <1>4, <2>1 DEF Third
<1> QED BY <1>2, <1>3, <1>4

(* One operand more. *)
LEMMA UpToNext ==
  ASSUME NEW k, NEW c, NEW n \in 0..2, src[k].pieces[c + 1].opcode \in 0..44,
         \A m \in 1..(n + 1) : Opnd(k, c, m).kind \in OperandKinds
  PROVE  /\ SizeUpTo(k, c, n) \in Nat
         /\ SizeUpTo(k, c, n + 1) = SizeUpTo(k, c, n) + Size(Opnd(k, c, n + 1))
         /\ InstUpTo(k, c, n + 1) = InstUpTo(k, c, n) +
              (IF n = 0 THEN First(Opnd(k, c, 1)) ELSE IF n = 1 THEN Second(Opnd(k, c, 2))
               ELSE Third(Opnd(k, c, 3)))
<1>1. ASSUME NEW p, p.kind \in OperandKinds
      PROVE  First(p) \in Nat /\ Second(p) \in Nat /\ Third(p) \in Nat /\ Size(p) \in 1..3
  BY <1>1, ModeIs DEF First, Second, Third, Size
<1> DEFINE f(m) == First(Opnd(k, c, m))
           s(m) == Second(Opnd(k, c, m))
           t(m) == Third(Opnd(k, c, m))
           z(m) == Size(Opnd(k, c, m))
           op == 256 * src[k].pieces[c + 1].opcode
<1>2. \A m \in 1..(n + 1) : f(m) \in Nat /\ s(m) \in Nat /\ t(m) \in Nat /\ z(m) \in 1..3
  BY <1>1
<1>3. op \in Nat
  OBVIOUS
<1>4. \A m : SizeUpTo(k, c, m) = (IF m > 0 THEN z(1) ELSE 0) + (IF m > 1 THEN z(2) ELSE 0)
                                 + (IF m > 2 THEN z(3) ELSE 0)
  BY DEF SizeUpTo
<1>5. \A m : InstUpTo(k, c, m) = op + (IF m > 0 THEN f(1) ELSE 0) + (IF m > 1 THEN s(2) ELSE 0)
                                 + (IF m > 2 THEN t(3) ELSE 0)
  BY DEF InstUpTo
<1>6. SizeUpTo(k, c, n) \in Nat /\ SizeUpTo(k, c, n + 1) = SizeUpTo(k, c, n) + z(n + 1)
  <2> HIDE DEF z
  <2>1. CASE n = 0
    BY <1>2, <1>4, <2>1
  <2>2. CASE n = 1
    BY <1>2, <1>4, <2>2
  <2>3. CASE n = 2
    BY <1>2, <1>4, <2>3
  <2> QED BY <2>1, <2>2, <2>3
<1>7. InstUpTo(k, c, n + 1) = InstUpTo(k, c, n) + (IF n = 0 THEN f(1) ELSE IF n = 1 THEN s(2)
                                                   ELSE t(3))
  <2> HIDE DEF f, s, t, op
  <2>1. CASE n = 0
    BY <1>2, <1>3, <1>5, <2>1
  <2>2. CASE n = 1
    BY <1>2, <1>3, <1>5, <2>2
  <2>3. CASE n = 2
    BY <1>2, <1>3, <1>5, <2>3
  <2> QED BY <2>1, <2>2, <2>3
<1> QED BY <1>6, <1>7

(* Operand o + 1 of the line. *)
LEMMA OperandIs ==
  ASSUME IInv, SoFarLegal, Reading, ReadOperand, NEW i, i = ln, NEW c, c = at - 2 - curOpnd
  PROVE  /\ i \in Lines /\ src[i].kind = "code" /\ c \in Nat /\ curOpnd \in 0..2
         /\ src[i].pieces[c + 1].opcode \in 0..44
         /\ \A m \in 1..(curOpnd + 1) : Opnd(i, c, m).kind \in OperandKinds
         /\ Opnd(i, c, curOpnd + 1) = Piece /\ PieceAssumption(Piece)
         /\ ~(Piece.kind = "imm" /\ curOpnd = 0)
<1>1. PICK a : a = at
  OBVIOUS
<1>2. AtPiece /\ AtOperand /\ Line.kind = "code" /\ sawOpc /\ curOpnd \in Nat /\ LegalOperand
  BY DEF ReadOperand, AtOperand, AtPiece, IInv, FasmTypeOK
<1>3. /\ i \in Lines /\ Line = src[i] /\ Piece = src[i].pieces[a] /\ a \in DOMAIN src[i].pieces
      /\ FasmTypeOK
  BY <1>1, <1>2, LinesOK DEF IInv, Line, Piece, AtPiece
<1>4. DOMAIN src[i].pieces = 1..Len(src[i].pieces) /\ Len(src[i].pieces) \in Nat
  BY <1>2, <1>3, SourceOK
<1>5. a \in Nat \ {0} /\ curOpnd + 2 <= a /\ LegalPieces(i, c, a - 1)
  BY <1>1, <1>2, <1>3, <1>4 DEF SoFarLegal, LinesClean
<1>6. c \in Nat /\ c + 1 \in 1..(a - 1) /\ c + 1 + curOpnd + 1 = a
  BY <1>1, <1>2, <1>5
<1>7. curOpnd \in 0..2
  BY <1>2, OperandFits DEF OperandsFit
<1>8. src[i].pieces[c + 1].opcode \in 0..44
  <2>1. src[i].pieces[c + 1].kind = "mnemonic"
    BY <1>5, <1>6 DEF LegalPieces
  <2>2. c + 1 \in DOMAIN src[i].pieces
    BY <1>3, <1>4, <1>5, <1>6
  <2>3. PieceAssumption(src[i].pieces[c + 1])
    BY <1>2, <1>3, <2>2, PiecesOK
  <2> QED BY <2>1, <2>3 DEF PieceAssumption, OperandKinds
<1>9. Opnd(i, c, curOpnd + 1) = Piece
  <2>1. c + 1 + (curOpnd + 1) = a
    BY <1>1, <1>2, <1>6
  <2> QED BY <1>3, <2>1 DEF Opnd
<1>10. Piece.kind \in OperandKinds
  BY <1>2, OperandPiece
<1>11. ASSUME NEW m \in 1..(curOpnd + 1) PROVE Opnd(i, c, m).kind \in OperandKinds
  <2>1. CASE m = curOpnd + 1
    BY <1>9, <1>10, <2>1
  <2>2. CASE m # curOpnd + 1
    <3>1. PICK j : j = c + 1 + m
      OBVIOUS
    <3>2. j \in 1..(a - 1) /\ j > c + 1
      <4>1. m \in Nat \ {0} /\ m < curOpnd + 1
        BY <1>7, <2>2
      <4> QED BY <1>5, <1>6, <1>7, <3>1, <4>1
    <3>4. j \in DOMAIN src[i].pieces
      BY <1>3, <1>4, <1>5, <3>2
    <3>3. IsOperand(src[i].pieces[j]) /\ PieceAssumption(src[i].pieces[j])
      BY <1>2, <1>3, <1>5, <3>2, <3>4, PiecesOK DEF LegalPieces
    <3> QED BY <3>1, <3>3 DEF PieceAssumption, IsOperand, Opnd
  <2> QED BY <2>1, <2>2
<1>12. PieceAssumption(Piece)
  BY <1>2, <1>3, PiecesOK
<1>13. ~(Piece.kind = "imm" /\ curOpnd = 0)
  BY <1>2 DEF LegalOperand
<1> QED BY <1>2, <1>3, <1>6, <1>7, <1>8, <1>9, <1>11, <1>12, <1>13

(* An operand's words are stored after those before it, and its label is to
   be written in the last of them.                                          *)
LEMMA OperandMeant ==
  ASSUME IInv, SoFarLegal, Meant, Reading, ReadOperand
  PROVE  Meant'
<1>1. PICK i, a, c, o, p, len, w : /\ i = ln /\ a = at /\ c = at - 2 - curOpnd /\ o = curOpnd
                                   /\ p = Piece /\ len = Len(cs) /\ w = Len(imms)
  OBVIOUS
<1>2. /\ src' = src /\ ln' = ln /\ at' = a + 1 /\ status' = status /\ status = "reading"
      /\ sawOpc' = sawOpc /\ sawOpc /\ curOpnd' = o + 1 /\ symbTab' = symbTab /\ cs' = cs
      /\ imms' = imms \o WordsOf(p) /\ inst' = inst + ModeBits(p)
      /\ relTab' = relTab \cup Reference(p) /\ AtPiece /\ noerrors /\ AtOperand
  BY <1>1 DEF ReadOperand, AtOperand, SoFarLegal, Reading
<1>3. /\ i \in Lines /\ src[i].kind = "code" /\ c \in Nat /\ o \in 0..2
      /\ src[i].pieces[c + 1].opcode \in 0..44
      /\ \A m \in 1..(o + 1) : Opnd(i, c, m).kind \in OperandKinds
      /\ Opnd(i, c, o + 1) = p /\ PieceAssumption(p) /\ ~(p.kind = "imm" /\ o = 0)
  BY <1>1, OperandIs
<1>4. p.kind \in OperandKinds /\ FasmTypeOK
  BY <1>3 DEF IInv
<1>5. /\ IsSeq(cs) /\ IsSeq(imms) /\ len \in Nat /\ w \in Nat /\ Len(Binary) = len + 1 + w
      /\ (\A k \in 1..len : Binary[k] = cs[k]) /\ \A k \in 1..w : Binary[len + 1 + k] = imms[k]
  BY <1>1, <1>2, <1>4, BinaryIs
<1>6. PICK z : z = Size(p)
  OBVIOUS
<1>7. IsSeq(WordsOf(p)) /\ Len(WordsOf(p)) = z /\ z \in 1..3
  BY <1>4, <1>6, OperandWords
<1>8. /\ IsSeq(imms') /\ Len(imms') = w + z /\ (\A k \in 1..w : imms'[k] = imms[k])
      /\ \A k \in 1..z : imms'[w + k] = WordsOf(p)[k]
  BY <1>1, <1>2, <1>5, <1>7, ConcatIsSeq, ConcatAt, SMTT(30)
<1>9. /\ Len(Binary') = len + 1 + w + z
      /\ (\A k \in 1..len : Binary'[k] = Binary[k])
      /\ (\A k \in 1..w : Binary'[len + 1 + k] = Binary[len + 1 + k])
      /\ \A k \in 1..z : Binary'[len + 1 + w + k] = WordsOf(p)[k]
  <2>1. PICK t, s, v : t = imms' /\ s = cs /\ v = inst'
    OBVIOUS
  <2>2. Binary' = s \o (<<v>> \o t)
    BY <1>2, <2>1 DEF Binary
  <2>3. s \o (<<v>> \o t) = s \o <<v>> \o t
    BY <1>5, <1>8, <2>1, Associates
  <2>4. /\ Len(Binary') = len + 1 + Len(t) /\ \A k \in 1..len : Binary'[k] = s[k]
        /\ \A k \in 1..Len(t) : Binary'[len + 1 + k] = t[k]
    BY <1>1, <1>5, <1>8, <2>1, <2>2, <2>3, Assembled
  <2>5. \A k \in 1..w : Binary'[len + 1 + k] = Binary[len + 1 + k]
    BY <1>5, <1>7, <1>8, <2>1, <2>4
  <2>6. ASSUME NEW k \in 1..z PROVE Binary'[len + 1 + w + k] = WordsOf(p)[k]
    <3>1. w + k \in 1..Len(t) /\ len + 1 + (w + k) = len + 1 + w + k
      BY <1>5, <1>7, <1>8, <2>1
    <3> QED BY <1>8, <2>1, <2>4, <3>1
  <2> QED BY <1>5, <1>7, <1>8, <2>1, <2>4, <2>5, <2>6
<1>10. Reference(p) = IF p.label = NoLabel THEN {} ELSE {<<p.label, len + w + z>>}
  <2> DEFINE d == IF p.kind = "disp" THEN 2 ELSE 0
  <2>1. Reference(p) = IF p.label = NoLabel THEN {} ELSE {<<p.label, len + 1 + w + d>>}
    BY <1>1, Zenon DEF Reference, NoLabel
  <2>2. p.kind \in {"rel", "reg", "scaled"} => p.label = NoLabel
    BY <1>3, <1>4, Zenon DEF PieceAssumption, NoLabel, OperandKinds
  <2>3. p.label # NoLabel => 1 + d = z
    BY <1>4, <1>6, <2>2 DEF Size, OperandKinds
  <2>4. p.label # NoLabel => len + 1 + w + d = len + w + z
    BY <1>5, <1>7, <2>3
  <2> QED BY <2>1, <2>4
<1>11. \A r \in Reference(p) : p.label # NoLabel /\ r[1] = p.label /\ r[2] = len + w + z
  BY <1>10
<1>12. \A r \in relTab : r[2] \in Nat /\ r[2] < len + 1 + w
  BY <1>1, <1>2, <1>4 DEF IInv, FasmTypeOK, ReferencesInside
<1>13. AllKept
  <2>1. ASSUME NEW x, NEW l, NEW v, Stored(x, l, v) PROVE Stored(x, l, v)'
    <3>1. x \in Nat /\ x < len + 1 + w /\ x # len
      BY <1>1, <1>2, <1>5, <2>1 DEF Stored
    <3>2. x + 1 \in 1..len \/ (x - len \in 1..w /\ len + 1 + (x - len) = x + 1)
      BY <1>5, <3>1
    <3>3. x < Len(Binary') /\ Binary'[x + 1] = Binary[x + 1] /\ x # Len(cs')
      <4>1. Binary'[x + 1] = Binary[x + 1]
        BY <1>9, <3>2
      <4> QED BY <1>1, <1>2, <1>5, <1>7, <1>9, <3>1, <4>1
    <3>4. relTab \subseteq relTab' /\ \A r \in relTab' \ relTab : r[2] # x
      BY <1>2, <1>5, <1>7, <1>11, <3>1
    <3> QED BY <1>2, <2>1, <3>3, <3>4, StoredKept
  <2> QED BY <2>1 DEF AllKept
<1>14. OperandStored(p, len + 1 + w)'
  <2>1. ASSUME NEW n \in 1..z
        PROVE  Stored(len + 1 + w + n - 1, IF n = z THEN p.label ELSE NoLabel, WordsOf(p)[n])'
    <3> DEFINE x == len + 1 + w + n - 1
               l == IF n = z THEN p.label ELSE NoLabel
               v == WordsOf(p)[n]
    <3>1. x \in Nat /\ x < Len(Binary') /\ x # len /\ x + 1 = len + 1 + w + n /\ x >= len + 1 + w
      BY <1>5, <1>7, <1>9
    <3>2. Binary'[x + 1] = v
      BY <1>9, <3>1
    <3>3. \A r \in relTab : r[2] # x
      BY <1>5, <1>12, <3>1
    <3>4. n = z => x = len + w + z
      BY <1>5, <1>7
    <3>5. n # z => x # len + w + z
      BY <1>5, <1>7
    <3>6. CASE l = NoLabel
      <4>1. \A r \in relTab' : r[2] # x
        BY <1>2, <1>11, <3>3, <3>5, <3>6
      <4>2. PICK l0, v0 : l0 = l /\ v0 = v
        OBVIOUS
      <4> HIDE DEF x, l, v
      <4>3. Stored(x, l0, v0)'
        BY <1>1, <1>2, <3>1, <3>2, <3>6, <4>1, <4>2, Zenon DEF Stored
      <4> QED BY <4>2, <4>3 DEF x, l, v
    <3>7. CASE l # NoLabel
      <4>1. n = z /\ l = p.label
        BY <3>7
      <4>2. <<l, x>> \in relTab'
        BY <1>2, <1>10, <3>4, <3>7, <4>1
      <4>3. \A r \in relTab' : r[2] = x => r[1] = l
        BY <1>2, <1>11, <3>3, <4>1
      <4>4. PICK l0, v0 : l0 = l /\ v0 = v
        OBVIOUS
      <4> HIDE DEF x, l, v
      <4>5. Stored(x, l0, v0)'
        BY <1>1, <1>2, <3>1, <3>7, <4>2, <4>3, <4>4, Zenon DEF Stored
      <4> QED BY <4>4, <4>5 DEF x, l, v
    <3> QED BY <3>6, <3>7
  <2>2. \A n \in 1..Size(p) : Stored(len + 1 + w + n - 1, IF n = Size(p) THEN p.label ELSE NoLabel,
                                      WordsOf(p)[n])'
    BY <1>6, <2>1
  <2> QED BY <2>2 DEF OperandStored
<1>15. AddressesMeant'
  <2>1. \A k \in Lines : \A m \in Labels(k) : WasRead(k, m)' => WasRead(k, m)
    <3>1. /\ \A k \in Lines : \A m \in Labels(k) : WasRead(k, m)' <=>
                    WasRead(k, m) \/ (k = i /\ m = a)
          /\ a \in Labels(i) <=> Piece.kind = "label"
      BY <1>1, <1>2, <1>4, PieceRead
    <3>2. Piece.kind # "label"
      BY <1>1, <1>4 DEF OperandKinds
    <3> QED BY <3>1, <3>2
  <2> QED BY <1>2, <2>1, AddressesKept DEF SoFarLegal, Meant
<1>16. InstructionMeant'
  <2>1. /\ inst = InstUpTo(i, c, o) /\ w = SizeUpTo(i, c, o) /\ OperandsStored(i, c, o, len)
        /\ \A r \in relTab : r[2] # len
    BY <1>1, <1>2 DEF Meant, InstructionMeant
  <2>2. at' - 2 - curOpnd' = c
    <3>1. a \in Nat /\ o \in Nat
      BY <1>1, <1>3, <1>4, LinesOK
    <3>2. c = a - 2 - o /\ at' - 2 - curOpnd' = a + 1 - 2 - (o + 1)
      BY <1>1, <1>2, <3>1
    <3> QED BY <3>1, <3>2
  <2>3. /\ SizeUpTo(i, c, o + 1) = SizeUpTo(i, c, o) + Size(Opnd(i, c, o + 1))
        /\ InstUpTo(i, c, o + 1) = InstUpTo(i, c, o) +
             (IF o = 0 THEN First(Opnd(i, c, 1)) ELSE IF o = 1 THEN Second(Opnd(i, c, 2))
              ELSE Third(Opnd(i, c, 3)))
    BY <1>3, UpToNext
  <2>4. ModeBits(p) = IF o = 0 THEN First(p) ELSE IF o = 1 THEN Second(p) ELSE Third(p)
    BY <1>1, <1>3, <1>4, ModeBitsAre
  <2>5. inst' = InstUpTo(i, c, o + 1) /\ Len(imms') = SizeUpTo(i, c, o + 1)
    <3>1. o = 0 \/ o = 1 \/ o = 2
      BY <1>3
    <3>2. CASE o = 0
      BY <1>2, <1>3, <1>6, <1>8, <2>1, <2>3, <2>4, <3>2
    <3>3. CASE o = 1
      BY <1>2, <1>3, <1>6, <1>8, <2>1, <2>3, <2>4, <3>3
    <3>4. CASE o = 2
      BY <1>2, <1>3, <1>6, <1>8, <2>1, <2>3, <2>4, <3>4
    <3> QED BY <3>1, <3>2, <3>3, <3>4
  <2>6. /\ \A k, x, n : Opnd(k, x, n)' = Opnd(k, x, n)
        /\ \A k, x, n : SizeUpTo(k, x, n)' = SizeUpTo(k, x, n)
                              /\ InstUpTo(k, x, n)' = InstUpTo(k, x, n)
    BY <1>2 DEF Opnd, SizeUpTo, InstUpTo
  <2>7. OperandsStored(i, c, o + 1, len)'
    <3>1. OperandsStored(i, c, o, len)'
      BY <1>2, <1>13, <2>1, LinesKept
    <3>2. \A m \in 1..o : OperandStored(Opnd(i, c, m), len + 1 + SizeUpTo(i, c, m - 1))'
      BY <2>6, <3>1 DEF OperandsStored
    <3>3. o + 1 - 1 = o
      BY <1>3
    <3>4. OperandStored(Opnd(i, c, o + 1), len + 1 + SizeUpTo(i, c, o))'
      BY <1>3, <1>14, <2>1, <2>6
    <3>5. \A m \in 1..(o + 1) : m \in 1..o \/ m = o + 1
      BY <1>3
    <3>6. ASSUME NEW m \in 1..(o + 1)
          PROVE  OperandStored(Opnd(i, c, m), len + 1 + SizeUpTo(i, c, m - 1))'
      <4>1. CASE m \in 1..o
        BY <3>2, <4>1
      <4>2. CASE m = o + 1
        <5>1. m - 1 = o
          BY <1>3, <4>2
        <5> QED BY <3>4, <4>2, <5>1
      <4> QED BY <3>5, <4>1, <4>2
    <3> QED BY <2>6, <3>6 DEF OperandsStored
  <2>8. \A r \in relTab' : r[2] # len
    <3>1. len + w + z # len
      BY <1>5, <1>7
    <3>2. \A r \in Reference(p) : r[2] # len
      BY <1>11, <3>1
    <3> QED BY <1>2, <2>1, <3>2
  <2>9. /\ inst' = InstUpTo(ln, at - 2 - curOpnd, curOpnd)'
        /\ Len(imms') = SizeUpTo(ln, at - 2 - curOpnd, curOpnd)'
        /\ OperandsStored(ln, at - 2 - curOpnd, curOpnd, Len(cs))'
    BY <1>1, <1>2, <2>2, <2>5, <2>6, <2>7
  <2> QED BY <1>1, <1>2, <2>8, <2>9 DEF InstructionMeant
<1> QED BY <1>1, <1>2, <1>13, <1>15, <1>16, SameLine

(* Line k has c labels, and n operands behind its mnemonic; -1 if it has none. *)
Shaped(k, c, n) == c = Cardinality(Labels(k)) /\ n = Len(src[k].pieces) - c - 1

(* A part of a sequence. *)
LEMMA SubSeqIs ==
  ASSUME NEW s, IsSeq(s), NEW d \in Nat \ {0}, NEW z \in 0..Len(s)
  PROVE  /\ Len(SubSeq(s, d, z)) = IF d <= z THEN z - d + 1 ELSE 0
         /\ \A m \in 1..(z - d + 1) : SubSeq(s, d, z)[m] = s[d + m - 1]
<1>1. PICK S : s \in Seq(S)
  BY DEF IsSeq
<1>2. Len(s) \in Nat /\ d \in Int /\ z \in Int /\ \A i \in d..z : s[i] \in S
  BY <1>1
<1>3. /\ SubSeq(s, d, z) \in Seq(S)
      /\ Len(SubSeq(s, d, z)) = IF d <= z THEN z - d + 1 ELSE 0
      /\ \A i \in 1..z - d + 1 : SubSeq(s, d, z)[i] = s[d + i - 1]
  BY <1>2, SubSeqProperties, SMT
<1> QED BY <1>3

(* A legal line of code: its labels, its mnemonic and its operands. *)
LEMMA LineShape ==
  ASSUME FasmTypeOK, NEW k \in Lines, src[k].kind = "code", LegalLine(k),
         NEW c, NEW n, Shaped(k, c, n)
  PROVE  /\ c \in Nat /\ n + 1 \in 0..4 /\ n \in Int /\ (k \in Instructions <=> n >= 0)
         /\ Len(src[k].pieces) = c + 1 + n
         /\ n >= 0 => /\ src[k].pieces[c + 1].kind = "mnemonic"
                      /\ src[k].pieces[c + 1].opcode \in 0..44
                      /\ Opcode(k) = src[k].pieces[c + 1].opcode
                      /\ Len(Written(k)) = n
         /\ \A m \in 1..n : /\ n >= 0 /\ Written(k)[m] = Opnd(k, c, m)
                            /\ Opnd(k, c, m).kind \in OperandKinds
                            /\ PieceAssumption(Opnd(k, c, m)) /\ ~TermsFail(Opnd(k, c, m).terms)
                            /\ m = 1 => Opnd(k, c, m).kind # "imm"
         /\ LineSize(k) = IF n >= 0 THEN 1 + SizeUpTo(k, c, n) ELSE 0
<1>0. PICK z : z = Len(src[k].pieces) /\ n = z - c - 1
  BY DEF Shaped
<1>1. z \in Nat /\ DOMAIN src[k].pieces = 1..z /\ Labels(k) \subseteq 1..z
  BY <1>0, SourceOK
<1>2. c \in Nat /\ LegalPieces(k, c, z) /\ z <= c + 4
  BY <1>0, LegalCode DEF Shaped
<1>3. c <= z
  <2>1. IsFiniteSet(1..z) /\ Cardinality(1..z) = z
    <3>1. 1 \in Int /\ z \in Int
      BY <1>1
    <3>2. IsFiniteSet(1..z) /\ Cardinality(1..z) = IF 1 > z THEN 0 ELSE z - 1 + 1
      BY <3>1, FS_Interval, Zenon
    <3> QED BY <1>1, <3>2
  <2> QED BY <1>1, <2>1, FS_Subset DEF Shaped
<1>4. /\ n \in Int /\ n + 1 \in 0..4 /\ z = c + 1 + n
      /\ n >= 0 => n \in 0..3 /\ c + 1 \in 1..z /\ z - (c + 2) + 1 = n
      /\ n < 0 => n + 1 = 0 /\ z = c
      /\ \A m \in 1..n : /\ c + 1 + m \in 1..z /\ c + 1 + m > c + 1 /\ n >= 0
                         /\ m = 1 => c + 1 + m = c + 2
  <2>1. z \in Nat /\ c \in Nat /\ c <= z /\ z <= c + 4 /\ n = z - c - 1
    BY <1>0, <1>1, <1>2, <1>3
  <2> QED BY <2>1
<1>5. n >= 0 => c + 1 \in 1..z /\ src[k].pieces[c + 1].kind = "mnemonic"
  BY <1>2, <1>4 DEF LegalPieces
<1>6. \A m \in 1..z : PieceAssumption(src[k].pieces[m])
  BY <1>1, PiecesOK
<1>7. n >= 0 => src[k].pieces[c + 1].opcode \in 0..44
  <2>1. ASSUME NEW j \in 1..z, src[k].pieces[j].kind = "mnemonic"
        PROVE  src[k].pieces[j].opcode \in 0..44
    <3>1. PICK p : p = src[k].pieces[j]
      OBVIOUS
    <3>2. PieceAssumption(p) /\ p.kind = "mnemonic"
      BY <1>6, <2>1, <3>1
    <3>3. p.opcode \in 0..44
      BY <3>2 DEF PieceAssumption, OperandKinds
    <3> QED BY <3>1, <3>3
  <2> QED BY <1>5, <2>1
<1>8. k \in Instructions <=> n >= 0
  <2>1. n < 0 => \A m \in 1..z : src[k].pieces[m].kind = "label"
    <3>1. n < 0 => z = c
      BY <1>4
    <3> QED BY <1>1, <1>2, <3>1 DEF LegalPieces
  <2>2. n >= 0 \/ n < 0
    BY <1>4
  <2>3. k \in Instructions <=> \E m \in 1..z : src[k].pieces[m].kind = "mnemonic"
    BY <1>1 DEF Instructions, Has
  <2>4. CASE n >= 0
    BY <1>5, <2>3, <2>4
  <2>5. CASE n < 0
    <3>1. ~(n >= 0)
      BY <1>4, <2>5
    <3> QED BY <2>1, <2>3, <2>5, <3>1
  <2> QED BY <2>2, <2>4, <2>5
<1>9. n >= 0 => Opcode(k) = src[k].pieces[c + 1].opcode
  <2> DEFINE P == {src[k].pieces[m] : m \in DOMAIN src[k].pieces}
             p == src[k].pieces[c + 1]
  <2>1. ASSUME NEW m \in 1..z, src[k].pieces[m].kind = "mnemonic" PROVE m = c + 1
    BY <1>1, <1>2, <2>1 DEF LegalPieces, IsOperand
  <2>2. ASSUME n >= 0
        PROVE p \in P /\ p.kind = "mnemonic" /\ \A q \in P : q.kind = "mnemonic" => q = p
    BY <1>1, <1>5, <2>1, <2>2
  <2>3. n >= 0 => (CHOOSE q \in P : q.kind = "mnemonic") = p
    <3> HIDE DEF P, p
    <3> QED BY <2>2
  <2> QED BY <2>3, Zenon DEF Opcode
<1>10. ASSUME NEW m \in 1..n
       PROVE  /\ Opnd(k, c, m).kind \in OperandKinds /\ PieceAssumption(Opnd(k, c, m))
              /\ ~TermsFail(Opnd(k, c, m).terms) /\ (m = 1 => Opnd(k, c, m).kind # "imm")
  <2>1. PICK j : j = c + 1 + m
    OBVIOUS
  <2>2. j \in 1..z /\ j > c + 1 /\ (m = 1 => j = c + 2)
    BY <1>4, <2>1
  <2>3. /\ IsOperand(src[k].pieces[j]) /\ PieceAssumption(src[k].pieces[j])
        /\ ~TermsFail(src[k].pieces[j].terms) /\ (m = 1 => src[k].pieces[j].kind # "imm")
    BY <1>2, <1>6, <2>2 DEF LegalPieces
  <2>4. Opnd(k, c, m) = src[k].pieces[j]
    BY <2>1 DEF Opnd
  <2>5. src[k].pieces[j].kind \in OperandKinds
    BY <2>3 DEF IsOperand, PieceAssumption
  <2> QED BY <2>3, <2>4, <2>5
<1>11. n >= 0 => Len(Written(k)) = n /\ \A m \in 1..n : Written(k)[m] = Opnd(k, c, m)
  <2>1. PICK s : s = src[k].pieces
    OBVIOUS
  <2>2. IsSeq(s)
    BY <2>1, SourcesAssumption DEF FasmTypeOK, Lines
  <2>3. ASSUME n >= 0 PROVE /\ Len(SubSeq(s, c + 2, z)) = n
                            /\ \A m \in 1..n : SubSeq(s, c + 2, z)[m] = s[c + 1 + m]
    <3>1. PICK d : d = c + 2
      OBVIOUS
    <3>2. n \in 0..3 /\ z - d + 1 = n /\ c \in Nat /\ z \in Nat /\ d \in Int /\ z = c + 1 + n
      BY <1>1, <1>2, <1>4, <2>3, <3>1
    <3>3. d \in Nat \ {0} /\ z \in 0..Len(s)
      BY <1>0, <1>1, <1>2, <2>1, <3>1
    <3>4. /\ Len(SubSeq(s, d, z)) = IF d <= z THEN z - d + 1 ELSE 0
          /\ \A m \in 1..(z - d + 1) : SubSeq(s, d, z)[m] = s[d + m - 1]
      BY <2>2, <3>3, SubSeqIs
    <3>5. \A m \in 1..n : d + m - 1 = c + 1 + m
      BY <3>1, <3>2
    <3>6. ~(d <= z) => n = 0
      BY <3>1, <3>2
    <3> QED BY <3>1, <3>2, <3>4, <3>5, <3>6
  <2>4. Written(k) = SubSeq(s, c + 2, z)
    BY <1>0, <2>1 DEF Written, Shaped
  <2> QED BY <2>1, <2>3, <2>4 DEF Opnd
<1>12. LineSize(k) = IF n >= 0 THEN 1 + SizeUpTo(k, c, n) ELSE 0
  <2>1. CASE n < 0
    BY <1>4, <1>8, <2>1 DEF LineSize
  <2>2. CASE n >= 0
    <3>1. LineSize(k) = 1 + SizeOf(Written(k), 1) + SizeOf(Written(k), 2) + SizeOf(Written(k), 3)
      BY <1>8, <2>2 DEF LineSize
    <3>2. \A m \in 1..3 : SizeOf(Written(k), m) = IF n > m - 1 THEN Size(Opnd(k, c, m)) ELSE 0
      BY <1>4, <1>11, <2>2 DEF SizeOf
    <3>3. \A m \in 1..3 : SizeOf(Written(k), m) \in Nat
      BY <3>2 DEF Size
    <3>4. /\ SizeOf(Written(k), 1) = IF n > 0 THEN Size(Opnd(k, c, 1)) ELSE 0
          /\ SizeOf(Written(k), 2) = IF n > 1 THEN Size(Opnd(k, c, 2)) ELSE 0
          /\ SizeOf(Written(k), 3) = IF n > 2 THEN Size(Opnd(k, c, 3)) ELSE 0
      BY <1>4, <3>2
    <3>5. 1 + SizeOf(Written(k), 1) + SizeOf(Written(k), 2) + SizeOf(Written(k), 3)
            = 1 + (SizeOf(Written(k), 1) + SizeOf(Written(k), 2) + SizeOf(Written(k), 3))
      BY <3>3
    <3> QED BY <2>2, <3>1, <3>4, <3>5 DEF SizeUpTo
  <2> QED BY <1>4, <2>1, <2>2
<1>13. Len(src[k].pieces) = c + 1 + n /\ \A m \in 1..n : n >= 0
  BY <1>0, <1>4
<1>14. c \in Nat /\ n + 1 \in 0..4 /\ n \in Int
  BY <1>2, <1>4
<1> QED BY <1>5, <1>7, <1>8, <1>9, <1>10, <1>11, <1>12, <1>13, <1>14

(* A line that is closed has been stored. *)
LEMMA CloseMeant ==
  ASSUME IInv, SoFarLegal, Meant, Reading, CloseLine
  PROVE  Meant'
<1>1. PICK i, len, c, o, n : i = ln /\ len = Len(cs) /\ o = curOpnd /\ Shaped(i, c, n)
  BY DEF Shaped
<1>2. /\ NextLine /\ symbTab' = symbTab /\ relTab' = relTab /\ src' = src /\ sawOpc' = FALSE
      /\ status' = status /\ FasmTypeOK /\ cs' = IF sawOpc THEN cs \o <<inst>> \o imms ELSE cs
  BY DEF CloseLine, NextLine, IInv
<1>3. /\ LegalLine(i) /\ \A m \in DOMAIN src[i].pieces : m < at
      /\ i \in Lines /\ src[i].kind = "code" /\ o \in Nat
      /\ c = Len(src[i].pieces) - (IF sawOpc THEN o + 1 ELSE 0)
      /\ at - 2 - o = Len(src[i].pieces) - o - 1
  BY <1>1, CloseLegal DEF Shaped
<1>4. /\ c \in Nat /\ n + 1 \in 0..4 /\ n \in Int /\ Len(src[i].pieces) = c + 1 + n
      /\ LineSize(i) = IF n >= 0 THEN 1 + SizeUpTo(i, c, n) ELSE 0
  <2>1. FasmTypeOK /\ i \in Lines /\ src[i].kind = "code" /\ LegalLine(i) /\ Shaped(i, c, n)
    BY <1>1, <1>2, <1>3
  <2> QED BY <2>1, LineShape, Zenon
<1>5. (sawOpc => n = o /\ at - 2 - curOpnd = c) /\ (~sawOpc => n + 1 = 0)
  <2>1. PICK z : z = Len(src[i].pieces) /\ z \in Int
    BY <1>4
  <2>2. z = c + 1 + n /\ at - 2 - o = z - o - 1 /\ c = z - (IF sawOpc THEN o + 1 ELSE 0)
    BY <1>3, <1>4, <2>1
  <2>3. CASE sawOpc
    <3>1. c = z - (o + 1)
      BY <2>2, <2>3
    <3> QED BY <1>1, <1>3, <1>4, <2>1, <2>2, <2>3, <3>1
  <2>4. CASE ~sawOpc
    <3>1. c = z - 0
      BY <2>2, <2>4
    <3> QED BY <1>4, <2>1, <2>2, <2>4, <3>1
  <2> QED BY <2>3, <2>4
<1>6. /\ IsSeq(cs) /\ IsSeq(imms) /\ len \in Nat /\ Len(imms) \in Nat
      /\ Len(Binary) = len + (IF sawOpc THEN 1 + Len(imms) ELSE 0) /\ IsSeq(Binary)
      /\ ~sawOpc => Binary = cs
  BY <1>1, <1>2, BinaryIs
<1>7. Binary' = Binary /\ cs' = Binary
  <2>1. cs' = Binary
    <3>1. CASE sawOpc
      <4>1. cs \o (<<inst>> \o imms) = cs \o <<inst>> \o imms
        BY <1>6, Associates
      <4> QED BY <1>2, <3>1, <4>1 DEF Binary
    <3>2. CASE ~sawOpc
      BY <1>2, <1>6, <3>2
    <3> QED BY <3>1, <3>2
  <2>2. PICK b : b = cs'
    OBVIOUS
  <2>3. b \o <<>> = b
    BY <1>6, <2>1, <2>2 DEF IsSeq
  <2>4. Binary' = b \o <<>>
    BY <1>2, <2>2 DEF Binary
  <2> QED BY <2>1, <2>2, <2>3, <2>4
<1>8. AllKept
  <2>1. ASSUME NEW x, NEW l, NEW v, Stored(x, l, v) PROVE Stored(x, l, v)'
    <3>1. x < Len(Binary') /\ Binary'[x + 1] = Binary[x + 1]
      BY <1>7, <2>1 DEF Stored
    <3> QED BY <1>2, <2>1, <3>1, StoredKept
  <2> QED BY <2>1 DEF AllKept
<1>9. sawOpc => /\ inst = InstUpTo(i, c, n) /\ Len(imms) = SizeUpTo(i, c, n)
                /\ OperandsStored(i, c, n, len) /\ \A r \in relTab : r[2] # len
  BY <1>1, <1>5 DEF Meant, InstructionMeant
<1>10. LineSize(i) \in Nat /\ Len(cs') = Len(cs) + LineSize(i)
  <2>1. CASE sawOpc
    <3>1. n >= 0 /\ LineSize(i) = 1 + Len(imms)
      BY <1>3, <1>4, <1>5, <1>9, <2>1
    <3> QED BY <1>1, <1>6, <1>7, <2>1, <3>1
  <2>2. CASE ~sawOpc
    <3>1. ~(n >= 0)
      BY <1>4, <1>5, <2>2
    <3>2. LineSize(i) = 0
      BY <1>4, <3>1
    <3> QED BY <1>1, <1>6, <1>7, <2>2, <3>2
  <2> QED BY <2>1, <2>2
<1>11. LineStored(i)'
  <2>1. Place' = Place /\ Place[i] = len /\ Labels(i)' = Labels(i)
    BY <1>1, <1>2, PlaceFixed, SrcFixed DEF Meant
  <2>2. PICK v : v = inst
    OBVIOUS
  <2>3. ASSUME n >= 0 PROVE Stored(len, NoLabel, v)'
    <3>1. sawOpc
      BY <1>4, <1>5, <2>3
    <3>2. Binary[len + 1] = inst
      <4>1. cs \o <<inst>> \o imms = Binary
        BY <1>2, <1>7, <3>1
      <4> QED BY <1>1, <1>6, <4>1, Assembled
    <3>3. len < Len(Binary')
      BY <1>6, <1>7, <3>1
    <3>4. len < Len(Binary') /\ Binary'[len + 1] = v /\ \A r \in relTab' : r[2] # len
      BY <1>2, <1>7, <1>9, <2>2, <3>1, <3>2, <3>3
    <3> QED BY <1>2, <1>6, <3>4 DEF Stored
  <2>4. n >= 0 => OperandsStored(i, c, n, len)'
    <3>1. n >= 0 => OperandsStored(i, c, n, len)
      BY <1>4, <1>5, <1>9
    <3> QED BY <1>2, <1>8, <3>1, LinesKept
  <2>5. \A k, m : Opnd(k, c, m)' = Opnd(k, c, m)
    BY <1>2 DEF Opnd
  <2>6. InstUpTo(i, c, n)' = InstUpTo(i, c, n)
    BY <1>2, <2>5 DEF InstUpTo
  <2>7. n >= 0 => v = InstUpTo(i, c, n)
    BY <1>4, <1>5, <1>9, <2>2
  <2>8. PICK d, e : d = Cardinality(Labels(i)) /\ e = Len(src[i].pieces) - d - 1
    OBVIOUS
  <2>9. d = c /\ e = n
    BY <1>1, <2>8 DEF Shaped
  <2>10. e >= 0 => Stored(Place[i], NoLabel, InstUpTo(i, d, e))'
                   /\ OperandsStored(i, d, e, Place[i])'
    BY <2>1, <2>3, <2>4, <2>6, <2>7, <2>9
  <2>11. Cardinality(Labels(i))' = d /\ (Len(src[i].pieces) - d - 1)' = e /\ src'[i].kind = "code"
    BY <1>2, <1>3, <2>1, <2>8
  <2> QED BY <2>10, <2>11 DEF LineStored
<1>12. \A m \in Labels(i) : m < at
  BY <1>3 DEF Labels
<1> QED BY <1>1, <1>2, <1>8, <1>10, <1>11, <1>12, NextLineMeant

(* A label stands for the place of its line. *)
LEMMA DeclareMeant ==
  ASSUME IInv, SoFarLegal, Meant, Reading, DeclareLabel
  PROVE  Meant'
<1>1. PICK i, a, len, label : i = ln /\ a = at /\ len = Len(cs) /\ label = Piece.label
  OBVIOUS
<1>2. /\ src' = src /\ ln' = ln /\ at' = at + 1 /\ status' = status /\ cs' = cs /\ relTab' = relTab
      /\ sawOpc' = sawOpc /\ inst' = inst /\ imms' = imms /\ AtPiece /\ ~sawOpc
      /\ label \notin DOMAIN symbTab /\ FasmTypeOK
      /\ symbTab' = [l \in DOMAIN symbTab \cup {label} |-> IF l = label THEN len ELSE symbTab[l]]
  BY <1>1 DEF DeclareLabel, LegalLabel, lineVars, IInv
<1>3. /\ i \in Lines /\ Piece = src[i].pieces[a]
      /\ \A k \in Lines : \A m \in Labels(k) : WasRead(k, m)' <=> WasRead(k, m) \/ (k = i /\ m = a)
  BY <1>1, <1>2, PieceRead
<1>4. \A l \in DOMAIN symbTab : l \in DOMAIN symbTab' /\ symbTab'[l] = symbTab[l]
  BY <1>2
<1>5. AllKept
  BY <1>2, <1>4, QuietKept
<1>6. AddressesMeant'
  <2>1. Lines' = Lines /\ Place' = Place /\ \A k : Labels(k)' = Labels(k)
    BY <1>2, PlaceFixed, SrcFixed
  <2>2. \A k, m : Name(k, m)' = Name(k, m)
    BY <1>2, SrcFixed
  <2>3. ASSUME NEW k \in Lines, NEW m \in Labels(k), WasRead(k, m)'
        PROVE  symbTab'[Name(k, m)] = Place[k]
    <3>1. CASE WasRead(k, m)
      <4>1. Name(k, m) \in DOMAIN symbTab /\ symbTab[Name(k, m)] = Place[k]
        BY <3>1 DEF SoFarLegal, LabelsClean, Meant, AddressesMeant
      <4> QED BY <1>4, <4>1
    <3>2. CASE k = i /\ m = a
      <4>1. Name(k, m) = label /\ Place[i] = len
        BY <1>1, <1>3, <3>2 DEF Name, Meant
      <4> QED BY <1>2, <3>2, <4>1
    <3> QED BY <1>3, <2>3, <3>1, <3>2
  <2> QED BY <2>1, <2>2, <2>3 DEF AddressesMeant
<1>7. InstructionMeant'
  BY <1>2 DEF InstructionMeant
<1> QED BY <1>2, <1>5, <1>6, <1>7, SameLine

(* Relocating a label turns the references to it into its address, and leaves
   everything else alone.                                                    *)
LEMMA RelocateMeant ==
  ASSUME IInv, SoFarLegal, Meant, ~sawOpc, status # "reading",
         NEW label, label \in DOMAIN symbTab, Relocate(label)
  PROVE  Meant'
<1>1. PICK len : len = Len(cs)
  OBVIOUS
<1> DEFINE refs == {r \in relTab : r[1] = label}
<1>2. /\ src' = src /\ ln' = ln /\ at' = at /\ symbTab' = symbTab /\ sawOpc' = sawOpc
      /\ relTab' = relTab \ refs /\ FasmTypeOK /\ status' # "reading"
      /\ cs' = [k \in DOMAIN cs |-> IF <<label, k - 1>> \in refs
                                    THEN symbTab[label] % WORDS ELSE cs[k]]
  BY DEF Relocate, lineVars, IInv
<1>3. len \in Nat /\ IsSeq(cs) /\ Binary = cs /\ DOMAIN cs = 1..len
  BY <1>1, <1>2, BinaryIs DEF IsSeq
<1>4. Len(cs') = len /\ Binary' = cs'
  <2>1. PICK b : b = cs'
    OBVIOUS
  <2>2. IsSeq(b) /\ Len(b) = len
    <3>1. b = [k \in 1..len |-> b[k]]
      BY <1>2, <1>3, <2>1
    <3> QED BY <1>3, <3>1, FunctionIsSeq
  <2>3. b \o <<>> = b
    BY <2>2 DEF IsSeq
  <2>4. Binary' = b \o <<>>
    BY <1>2, <2>1 DEF Binary
  <2> QED BY <2>1, <2>2, <2>3, <2>4
<1>5. ASSUME NEW x \in Nat, x < len
      PROVE  Binary'[x + 1] = IF <<label, x>> \in relTab THEN symbTab[label] % WORDS
                                  ELSE Binary[x + 1]
  <2>1. x + 1 \in DOMAIN cs /\ x + 1 - 1 = x
    BY <1>3, <1>5
  <2>2. <<label, x>> \in refs <=> <<label, x>> \in relTab
    OBVIOUS
  <2> HIDE DEF refs
  <2>3. Binary'[x + 1] = IF <<label, x + 1 - 1>> \in refs THEN symbTab[label] % WORDS ELSE cs[x + 1]
    BY <1>2, <1>4, <2>1
  <2> QED BY <1>3, <2>1, <2>2, <2>3
<1>6. AllKept
  <2>1. ASSUME NEW x, NEW l, NEW v, Stored(x, l, v) PROVE Stored(x, l, v)'
    <3>1. x \in Nat /\ x < len /\ x < Len(Binary')
      BY <1>1, <1>3, <1>4, <2>1 DEF Stored
    <3>2. <<label, x>>[1] = label /\ <<label, x>>[2] = x
      OBVIOUS
    <3>3. CASE \A r \in relTab : r[2] # x
      <4>1. <<label, x>> \notin relTab
        BY <3>2, <3>3
      <4>2. Binary'[x + 1] = Binary[x + 1]
        BY <1>5, <3>1, <4>1
      <4>3. \A r \in relTab' : r[2] # x
        BY <1>2, <3>3
      <4>4. <<l, x>> \notin relTab
        <5>1. <<l, x>>[2] = x
          OBVIOUS
        <5> QED BY <3>3, <5>1
      <4> QED BY <1>2, <2>1, <3>1, <4>2, <4>3, <4>4 DEF Stored
    <3>4. CASE l # NoLabel /\ <<l, x>> \in relTab /\ \A r \in relTab : r[2] = x => r[1] = l
      <4>1. CASE l = label
        <5>1. Binary'[x + 1] = symbTab[label] % WORDS
          BY <1>5, <3>1, <3>4, <4>1
        <5>2. \A r \in relTab' : r[2] # x
          BY <1>2, <3>4, <4>1
        <5> QED BY <1>2, <3>1, <3>4, <4>1, <5>1, <5>2 DEF Stored
      <4>2. CASE l # label
        <5>1. <<l, x>> \in relTab' /\ \A r \in relTab' : r[2] = x => r[1] = l
          <6>1. <<l, x>>[1] = l
            OBVIOUS
          <6> QED BY <1>2, <3>4, <4>2, <6>1
        <5> QED BY <1>2, <3>1, <3>4, <5>1 DEF Stored
      <4> QED BY <4>1, <4>2
    <3> QED BY <2>1, <3>3, <3>4 DEF Stored
  <2> QED BY <2>1 DEF AllKept
<1>7. AddressesMeant'
  <2>1. \A k, m : WasRead(k, m)' => WasRead(k, m)
    BY <1>2 DEF WasRead
  <2> QED BY <1>2, <2>1, AddressesKept DEF SoFarLegal, Meant
<1>8. InstructionMeant'
  BY <1>2 DEF InstructionMeant
<1> QED BY <1>1, <1>2, <1>4, <1>6, <1>7, <1>8, SameLine

(* Steps that read and assemble nothing. *)
LEMMA QuietMeant ==
  ASSUME FasmTypeOK, SoFarLegal, Meant, src' = src, ln' = ln, cs' = cs, sawOpc' = sawOpc,
         inst' = inst, imms' = imms, relTab' = relTab, symbTab' = symbTab,
         status # "reading" => status' # "reading", at' = at \/ (at = 0 /\ at' = 1),
         InstructionMeant'
  PROVE  Meant'
<1>1. AllKept
  BY QuietKept
<1>2. \A k \in Lines : \A m \in Labels(k) : WasRead(k, m)' => WasRead(k, m)
  BY LinesOK DEF WasRead
<1>3. AddressesMeant'
  BY <1>2, AddressesKept DEF SoFarLegal, Meant
<1> QED BY <1>1, <1>3, SameLine

(* Each step that prints no error assembles what was written. *)
LEMMA MeantStep ==
  ASSUME BInv, [Next]_vars, ~reported'
  PROVE  Meant'
<1>1. IInv /\ FasmTypeOK /\ LineInv /\ StatusInv /\ (~reported => SoFarLegal /\ Meant)
  BY DEF BInv, AInv, IInv
<1>2. ~GiveUp
  BY DEF GiveUp
<1>3. ASSUME Reading, ReadLine PROVE Meant'
  <2>1. CASE RejectDirective \/ TooManyOperands \/ RejectPiece
    BY <1>2, <2>1 DEF RejectDirective, TooManyOperands, RejectPiece
  <2>2. CASE SkipDirective
    BY <1>1, <2>2 DEF SkipDirective, SoFarLegal
  <2>3. CASE WordDirective
    <3>1. ~reported
      BY <2>3 DEF WordDirective
    <3> QED BY <1>1, <1>3, <2>3, <3>1, WordMeant
  <2>4. CASE OpenLine
    <3>1. /\ ~reported /\ at = 0 /\ at' = 1 /\ src' = src /\ ln' = ln /\ status' = status
          /\ sawOpc' = sawOpc /\ inst' = inst /\ imms' = imms /\ cs' = cs
          /\ relTab' = relTab /\ symbTab' = symbTab
      BY <2>4 DEF OpenLine, lineVars
    <3>2. InstructionMeant'
      BY <1>1, <3>1 DEF LineInv, InstructionMeant
    <3> QED BY <1>1, <3>1, <3>2, QuietMeant
  <2>5. CASE DeclareLabel
    <3>1. ~reported
      BY <2>5 DEF DeclareLabel
    <3> QED BY <1>1, <1>3, <2>5, <3>1, DeclareMeant
  <2>6. CASE ReadMnemonic
    <3>1. ~reported
      BY <2>6 DEF ReadMnemonic
    <3> QED BY <1>1, <1>3, <2>6, <3>1, MnemonicMeant
  <2>7. CASE ReadOperand
    <3>1. ~reported
      BY <2>7 DEF ReadOperand
    <3> QED BY <1>1, <1>3, <2>7, <3>1, OperandMeant
  <2>8. CASE CloseLine
    <3>1. ~reported
      BY <2>8 DEF CloseLine
    <3> QED BY <1>1, <1>3, <2>8, <3>1, CloseMeant
  <2> QED BY <1>3, <2>1, <2>2, <2>3, <2>4, <2>5, <2>6, <2>7, <2>8 DEF ReadLine
<1>4. CASE EndOfSource \/ Finish
  <2>1. /\ ~reported /\ src' = src /\ ln' = ln /\ at' = at /\ status' # "reading"
        /\ sawOpc' = sawOpc /\ inst' = inst /\ imms' = imms /\ cs' = cs
        /\ relTab' = relTab /\ symbTab' = symbTab
    BY <1>4 DEF EndOfSource, Finish, lineVars
  <2>2. InstructionMeant'
    BY <2>1 DEF Reading, InstructionMeant
  <2> QED BY <1>1, <2>1, <2>2, QuietMeant
<1>5. CASE Relocations
  <2>1. PICK label : Relocate(label) /\ status = "relocating"
    BY <1>5 DEF Relocations
  <2>2. label \in DOMAIN symbTab /\ ~reported
    BY <2>1 DEF Relocate
  <2>3. ~sawOpc /\ status # "reading"
    BY <1>1, <2>1 DEF StatusInv, LineInv
  <2> QED BY <1>1, <2>1, <2>2, <2>3, RelocateMeant
<1>6. CASE UNCHANGED vars
  <2>1. /\ ~reported /\ src' = src /\ ln' = ln /\ at' = at /\ status' = status
        /\ sawOpc' = sawOpc /\ inst' = inst /\ imms' = imms /\ cs' = cs /\ curOpnd' = curOpnd
        /\ relTab' = relTab /\ symbTab' = symbTab
    BY <1>6 DEF vars, lineVars
  <2>2. AllKept
    BY <2>1, QuietKept
  <2>3. InstructionMeant'
    <3>1. Reading' <=> Reading
      BY <2>1 DEF Reading
    <3>2. \A k, c, n : Opnd(k, c, n)' = Opnd(k, c, n)
      BY <2>1 DEF Opnd
    <3>3. \A k, c, n : SizeUpTo(k, c, n)' = SizeUpTo(k, c, n)
                      /\ InstUpTo(k, c, n)' = InstUpTo(k, c, n)
      BY <2>1, <3>2 DEF SizeUpTo, InstUpTo
    <3>4. PICK i, c, o, len : i = ln /\ c = at - 2 - curOpnd /\ o = curOpnd /\ len = Len(cs)
      OBVIOUS
    <3>5. OperandsStored(i, c, o, len) => OperandsStored(i, c, o, len)'
      BY <2>1, <2>2, LinesKept
    <3> QED BY <1>1, <2>1, <3>1, <3>3, <3>4, <3>5 DEF InstructionMeant, Meant
  <2> QED BY <1>1, <2>1, <2>3, QuietMeant
<1> QED BY <1>3, <1>4, <1>5, <1>6 DEF Next, Ended

(* Nothing was assembled yet. *)
LEMMA InitBInv == Init => BInv
<1> SUFFICES ASSUME Init PROVE BInv
  OBVIOUS
<1>1. AInv /\ FasmTypeOK
  BY InitAInv DEF AInv, IInv
<1>2. Lines = 1..Len(src) /\ Len(src) \in Nat /\ \A k \in Lines : \A m \in Labels(k) : m \in Nat
  BY <1>1, LinesOK
<1>3. ln = 1 /\ at = 0 /\ cs = <<>> /\ ~sawOpc /\ 1..1 = {1}
  BY DEF Init
<1>4. Place[1] = 0
  <2>1. 1 \in 1..(Len(src) + 1)
    BY <1>2
  <2>2. \A i \in 1..(Len(src) + 1) : Place[i] = IF i = 1 THEN 0 ELSE Place[i - 1] + LineSize(i - 1)
    BY <1>1, PlaceIs, Zenon
  <2> QED BY <2>1, <2>2
<1>5. AddressesMeant
  BY <1>2, <1>3 DEF AddressesMeant, WasRead
<1>6. InstructionMeant
  BY <1>3 DEF InstructionMeant
<1>7. Len(cs) = 0 /\ ln <= Len(src) + 1 /\ \A k \in Lines : ~(k < ln)
  BY <1>2, <1>3
<1> QED BY <1>1, <1>3, <1>4, <1>5, <1>6, <1>7 DEF BInv, Meant

(* No step breaks the invariant. *)
LEMMA StepBInv == BInv /\ [Next]_vars => BInv'
<1> SUFFICES ASSUME BInv, [Next]_vars PROVE BInv'
  OBVIOUS
<1>1. AInv'
  BY StepAInv DEF BInv
<1> QED BY <1>1, MeantStep DEF BInv

(* So it always holds. *)
LEMMA BInvAlways == Spec => []BInv
  BY InitBInv, StepBInv, PTL DEF Spec

-----------------------------------------------------------------------------
(* The decoder, on the binary: the fields of a secondary word and what they mean. *)

(* The decoder's words are these, and it reads the binary. *)
LEMMA DecoderWords ==
  ASSUME NEW a
  PROVE  /\ \A x, y : FabComp(a)!Add(x, y) = Add(x, y) /\ FabComp(a)!Sub(x, y) = Sub(x, y)
         /\ \A x, y : FabComp(a)!ShiftLeft(x, y) = ShiftLeft(x, y)
         /\ \A w, h, l : FabComp(a)!Field(w, h, l) = Field(w, h, l)
         /\ \A w, b : FabComp(a)!Bit(w, b) = Bit(w, b)
         /\ \A w : FabComp(a)!Reg0(w) = Reg0(w) /\ FabComp(a)!Reg1(w) = Reg1(w)
                   /\ FabComp(a)!Reg2(w) = Reg2(w)
         /\ \A x : FabComp(a)!Read(x) = At(x)
<1>0. FabComp(a)!WORDS = WORDS
  BY SMT DEF FabComp!WORDS, WORDS
<1>1. \A x, y : FabComp(a)!Add(x, y) = Add(x, y) /\ FabComp(a)!Sub(x, y) = Sub(x, y)
  BY <1>0, Zenon DEF FabComp!Add, Add, FabComp!Sub, Sub
<1>2. \A x, y : FabComp(a)!ShiftLeft(x, y) = ShiftLeft(x, y)
  BY <1>0, Zenon DEF FabComp!ShiftLeft, ShiftLeft
<1>3. \A w, h, l : FabComp(a)!Field(w, h, l) = Field(w, h, l)
  BY Zenon DEF FabComp!Field, Field
<1>4. \A w, b : FabComp(a)!Bit(w, b) = Bit(w, b)
  BY <1>3, Zenon DEF FabComp!Bit, Bit
<1>5. \A w : FabComp(a)!Reg0(w) = Reg0(w) /\ FabComp(a)!Reg1(w) = Reg1(w)
                   /\ FabComp(a)!Reg2(w) = Reg2(w)
  BY <1>3, Zenon DEF FabComp!Reg0, Reg0, FabComp!Reg1, Reg1, FabComp!Reg2, Reg2
<1>6. \A x : FabComp(a)!Read(x) = At(x)
  BY Zenon DEF FabComp!Read, At
<1> QED BY <1>1, <1>2, <1>3, <1>4, <1>5, <1>6

(* The fields of a secondary word. *)
FieldsAre(w) == /\ Field(w, 15, 12) = (w \div 4096) % 16 /\ Reg0(w) = (w \div 256) % 16
                /\ Reg1(w) = (w \div 16) % 16 /\ Reg2(w) = w % 16

(* They are what these divisions say. *)
LEMMA SecondaryFields == ASSUME NEW w \in Nat PROVE FieldsAre(w)
<1>1. Field(w, 15, 12) = (w \div 4096) % 16
  BY DEF Field
<1>2. Reg0(w) = (w \div 256) % 16
  BY DEF Field, Reg0
<1>3. Reg1(w) = (w \div 16) % 16
  BY DEF Field, Reg1
<1>4. Reg2(w) = w % 16
  BY DEF Field, Reg2
<1> QED BY <1>1, <1>2, <1>3, <1>4 DEF FieldsAre

(* What the decoder makes of an operand with a secondary mode. *)
SecondaryMeans(s, a, x, r, mode, r0, r1, r2, s1, s2, b) ==
  /\ mode = 0 => s = FabComp(a)!Opnd("reg", r0, Add(x, 1), r)
  /\ mode = 1 => s = FabComp(a)!Opnd("mem", r[r0], Add(x, 1), r)
  /\ mode = 2 => s = FabComp(a)!Opnd("mem", Add(r[r0], ShiftLeft(r[r1], s1)), Add(x, 2), r)
  /\ mode = 3 => s = FabComp(a)!Opnd("mem", Add(At(Add(r[r0], ShiftLeft(r[r1], s1))),
                                                ShiftLeft(r[r2], s2)), Add(x, 2), r)
  /\ mode = 4 => s = FabComp(a)!Opnd("mem", r[r0], Add(x, 1), [r EXCEPT ![r0] = Add(@, 1)])
  /\ mode = 5 => s = FabComp(a)!Opnd("mem", r[r0], Add(x, 1), [r EXCEPT ![r0] = Sub(@, 1)])
  /\ mode = 6 => s = FabComp(a)!Opnd("mem", Add(b, ShiftLeft(r[r0], s1)), Add(x, 3), r)
  /\ mode = 7 => s = FabComp(a)!Opnd("mem", Add(At(Add(b, ShiftLeft(r[r0], s1))),
                                                ShiftLeft(r[r1], s2)), Add(x, 3), r)

(* SecondaryOpnd of FabComp is that. *)
LEMMA SecondaryIs ==
  ASSUME NEW a, NEW x, NEW r, Field(At(x), 15, 12) \in 0..7
  PROVE  SecondaryMeans(FabComp(a)!SecondaryOpnd(x, r), a, x, r,
                        Field(At(x), 15, 12), Reg0(At(x)), Reg1(At(x)), Reg2(At(x)),
                        At(Add(x, 1)) \div 256, At(Add(x, 1)) % 256, At(Add(x, 2)))
<1>0. PICK w, h, b, mode, r0, r1, r2, s1, s2, s :
        /\ w = At(x) /\ h = At(Add(x, 1)) /\ b = At(Add(x, 2)) /\ mode = Field(w, 15, 12)
        /\ r0 = Reg0(w) /\ r1 = Reg1(w) /\ r2 = Reg2(w) /\ s1 = h \div 256 /\ s2 = h % 256
        /\ s = FabComp(a)!SecondaryOpnd(x, r)
  OBVIOUS
<1> SUFFICES SecondaryMeans(s, a, x, r, mode, r0, r1, r2, s1, s2, b)
  BY <1>0
<1> USE DEF SecondaryMeans
<1>1. /\ FabComp(a)!Read(x) = w
      /\ FabComp(a)!Add(x, 1) = Add(x, 1) /\ FabComp(a)!Add(x, 2) = Add(x, 2)
      /\ FabComp(a)!Add(x, 3) = Add(x, 3)
      /\ FabComp(a)!Read(Add(x, 1)) = h /\ FabComp(a)!Read(Add(x, 2)) = b
      /\ FabComp(a)!Field(w, 15, 12) = mode
      /\ FabComp(a)!Reg0(w) = r0 /\ FabComp(a)!Reg1(w) = r1 /\ FabComp(a)!Reg2(w) = r2
  BY <1>0, DecoderWords
<1>2. CASE mode = 0
  BY <1>0, <1>1, <1>2, SMT DEF FabComp!SecondaryOpnd
<1>3. CASE mode = 1
  BY <1>0, <1>1, <1>3, SMT DEF FabComp!SecondaryOpnd
<1>4. CASE mode = 2
  BY <1>0, <1>1, <1>4, DecoderWords, SMT DEF FabComp!SecondaryOpnd
<1>5. CASE mode = 3
  BY <1>0, <1>1, <1>5, DecoderWords, SMT DEF FabComp!SecondaryOpnd
<1>6. CASE mode = 4
  <2>1. s = FabComp(a)!Opnd("mem", r[r0], Add(x, 1), [r EXCEPT ![r0] = FabComp(a)!Add(@, 1)])
    BY <1>0, <1>1, <1>6, SMT DEF FabComp!SecondaryOpnd
  <2>2. FabComp(a)!Add(r[r0], 1) = Add(r[r0], 1)
    BY DecoderWords
  <2>3. s = FabComp(a)!Opnd("mem", r[r0], Add(x, 1), [r EXCEPT ![r0] = Add(@, 1)])
    BY <2>1, <2>2, Zenon
  <2> QED BY <1>6, <2>3
<1>7. CASE mode = 5
  <2>1. s = FabComp(a)!Opnd("mem", r[r0], Add(x, 1), [r EXCEPT ![r0] = FabComp(a)!Sub(@, 1)])
    BY <1>0, <1>1, <1>7, SMT DEF FabComp!SecondaryOpnd
  <2>2. FabComp(a)!Sub(r[r0], 1) = Sub(r[r0], 1)
    BY DecoderWords
  <2>3. s = FabComp(a)!Opnd("mem", r[r0], Add(x, 1), [r EXCEPT ![r0] = Sub(@, 1)])
    BY <2>1, <2>2, Zenon
  <2> QED BY <1>7, <2>3
<1>8. CASE mode = 6
  BY <1>0, <1>1, <1>8, DecoderWords, SMT DEF FabComp!SecondaryOpnd
<1>9. CASE mode = 7
  BY <1>0, <1>1, <1>9, DecoderWords, SMT DEF FabComp!SecondaryOpnd
<1>10. mode \in 0..7
  BY <1>0
<1> QED BY <1>10, <1>2, <1>3, <1>4, <1>5, <1>6, <1>7, <1>8, <1>9

(* The words of terms without a fault. *)
GoodTerms(terms) ==
  /\ IsSeq(terms) /\ terms # <<>> /\ ~TermsFail(terms)
  /\ \A k \in DOMAIN terms : terms[k].reg \in 0..15 /\ terms[k].shift \in 0..255

TermsMean(terms) ==
  /\ Len(terms) \in 1..2 /\ terms[1].reg \in 0..15 /\ terms[1].shift \in 0..255
  /\ Len(terms) = 2 => terms[2].reg \in 0..15 /\ terms[2].shift \in 0..255
  /\ Len(terms) = 1 => /\ RImm(terms, 0) = 8192 + 256 * terms[1].reg
                       /\ RImm(terms, 1) = 8192 + 16 * terms[1].reg
                       /\ SImm(terms) = 256 * terms[1].shift
  /\ Len(terms) = 2 => /\ RImm(terms, 0) = 12288 + 256 * terms[1].reg + 16 * terms[2].reg
                       /\ RImm(terms, 1) = 12288 + 16 * terms[1].reg + terms[2].reg
                       /\ SImm(terms) = 256 * terms[1].shift + terms[2].shift

(* They are those of the one or two terms, in their fields. *)
LEMMA TermWords ==
  ASSUME NEW terms, GoodTerms(terms)
  PROVE  TermsMean(terms)
<1>0. /\ IsSeq(terms) /\ terms # <<>> /\ ~TermsFail(terms)
      /\ \A k \in DOMAIN terms : terms[k].reg \in 0..15 /\ terms[k].shift \in 0..255
  BY DEF GoodTerms
<1>1. Len(terms) \in 1..2 /\ DOMAIN terms = 1..Len(terms)
  <2>1. Len(terms) \in Nat /\ DOMAIN terms = 1..Len(terms) /\ Len(terms) # 0
    BY <1>0 DEF IsSeq
  <2> QED BY <1>0, <2>1 DEF TermsFail
<1>2. \A k \in 1..Len(terms) : terms[k].fault = "none"
  BY <1>0, <1>1 DEF TermsFail
<1>3. \A k \in 1..2 : Reached(terms, k) <=> k <= Len(terms)
  BY <1>1, <1>2 DEF Reached
<1>4. RegField[1] = 256 /\ RegField[2] = 16 /\ RegField[3] = 1
      /\ ShiftField[1] = 256 /\ ShiftField[2] = 1
  BY DEF RegField, ShiftField
<1>5. /\ TermReg(terms, 1, 0) = 256 * terms[1].reg /\ TermReg(terms, 1, 1) = 16 * terms[1].reg
      /\ TermShift(terms, 1) = 256 * terms[1].shift
  BY <1>1, <1>2, <1>3, <1>4 DEF TermReg, TermShift
<1>6. Len(terms) = 2 => /\ TermReg(terms, 2, 0) = 16 * terms[2].reg
                        /\ TermReg(terms, 2, 1) = 1 * terms[2].reg
                        /\ TermShift(terms, 2) = 1 * terms[2].shift
  BY <1>1, <1>2, <1>3, <1>4 DEF TermReg, TermShift
<1>7. Len(terms) = 1 => /\ TermReg(terms, 2, 0) = 0 /\ TermReg(terms, 2, 1) = 0
                        /\ TermShift(terms, 2) = 0
  BY <1>1, <1>3 DEF TermReg, TermShift
<1>8. \A o : RImm(terms, o) = (IF Len(terms) > 2 THEN 0 ELSE 4096 * (Len(terms) + 1))
                                + TermReg(terms, 1, o) + TermReg(terms, 2, o)
  BY DEF RImm
<1>9. terms[1].reg \in 0..15 /\ terms[1].shift \in 0..255
  BY <1>0, <1>1
<1>10. Len(terms) = 2 => terms[2].reg \in 0..15 /\ terms[2].shift \in 0..255
  BY <1>0, <1>1
<1>13. SImm(terms) = TermShift(terms, 1) + TermShift(terms, 2)
  BY DEF SImm
<1>11. ASSUME Len(terms) = 1
       PROVE  /\ RImm(terms, 0) = 8192 + 256 * terms[1].reg
              /\ RImm(terms, 1) = 8192 + 16 * terms[1].reg
              /\ SImm(terms) = 256 * terms[1].shift
  <2>1. \A o : RImm(terms, o) = 8192 + TermReg(terms, 1, o) + TermReg(terms, 2, o)
    BY <1>8, <1>11
  <2>2. RImm(terms, 0) = 8192 + TermReg(terms, 1, 0) + TermReg(terms, 2, 0)
    BY <2>1
  <2>3. RImm(terms, 1) = 8192 + TermReg(terms, 1, 1) + TermReg(terms, 2, 1)
    BY <2>1
  <2>4. PICK r, s : r = terms[1].reg /\ s = terms[1].shift /\ r \in 0..15 /\ s \in 0..255
    BY <1>9
  <2>5. RImm(terms, 0) = 8192 + 256 * r
    BY <1>5, <1>7, <1>11, <2>2, <2>4
  <2>6. RImm(terms, 1) = 8192 + 16 * r
    BY <1>5, <1>7, <1>11, <2>3, <2>4
  <2>7. SImm(terms) = 256 * s
    BY <1>5, <1>7, <1>11, <1>13, <2>4
  <2> QED BY <2>4, <2>5, <2>6, <2>7
<1>12. ASSUME Len(terms) = 2
       PROVE  /\ RImm(terms, 0) = 12288 + 256 * terms[1].reg + 16 * terms[2].reg
              /\ RImm(terms, 1) = 12288 + 16 * terms[1].reg + terms[2].reg
              /\ SImm(terms) = 256 * terms[1].shift + terms[2].shift
  <2>1. \A o : RImm(terms, o) = 12288 + TermReg(terms, 1, o) + TermReg(terms, 2, o)
    BY <1>8, <1>12
  <2>2. RImm(terms, 0) = 12288 + TermReg(terms, 1, 0) + TermReg(terms, 2, 0)
    BY <2>1
  <2>3. RImm(terms, 1) = 12288 + TermReg(terms, 1, 1) + TermReg(terms, 2, 1)
    BY <2>1
  <2>8. PICK r, s, q, t : /\ r = terms[1].reg /\ s = terms[1].shift
                          /\ q = terms[2].reg /\ t = terms[2].shift
    OBVIOUS
  <2>4. /\ r = terms[1].reg /\ s = terms[1].shift /\ r \in 0..15 /\ s \in 0..255
        /\ q = terms[2].reg /\ t = terms[2].shift /\ q \in 0..15 /\ t \in 0..255
    BY <1>9, <1>10, <1>12, <2>8
  <2>5. RImm(terms, 0) = 12288 + 256 * r + 16 * q
    BY <1>5, <1>6, <1>12, <2>2, <2>4
  <2>6. RImm(terms, 1) = 12288 + 16 * r + q
    BY <1>5, <1>6, <1>12, <2>3, <2>4
  <2>7. SImm(terms) = 256 * s + t
    BY <1>5, <1>6, <1>12, <1>13, <2>4
  <2> QED BY <2>4, <2>5, <2>6, <2>7
<1> QED BY <1>1, <1>9, <1>10, <1>11, <1>12, SMT DEF TermsMean

(* What the suffix of a register says. *)
LEMMA GranularIs ==
  /\ Granular(NoLabel) = 0 /\ Granular("%") = 1 /\ Granular("+") = 4 /\ Granular("-") = 5
  /\ NoLabel # "%" /\ NoLabel # "+" /\ NoLabel # "-"
<1>1. Granular(NoLabel) = 0
  BY Zenon DEF Granular, NoLabel
<1>2. Granular("%") = 1
  BY Zenon DEF Granular
<1>3. Granular("+") = 4
  BY Zenon DEF Granular
<1>4. Granular("-") = 5
  BY Zenon DEF Granular
<1>5. NoLabel # "%" /\ NoLabel # "+" /\ NoLabel # "-"
  BY Zenon DEF NoLabel
<1> QED BY <1>1, <1>2, <1>3, <1>4, <1>5

(* What an operand stands for, by its kind. *)
LEMMA StandsIs ==
  ASSUME NEW p, NEW r, NEW next
  PROVE  /\ p.kind = "imm" => Stands(p, r, next) = <<"imm", ValueOf(p)>>
         /\ p.kind = "reg" /\ p.suffix = NoLabel => Stands(p, r, next) = <<"reg", p.reg>>
         /\ p.kind = "reg" /\ p.suffix # NoLabel => Stands(p, r, next) = <<"mem", r[p.reg]>>
         /\ p.kind = "abs" => Stands(p, r, next) = <<"mem", ValueOf(p)>>
         /\ p.kind = "rel" => Stands(p, r, next) = <<"mem", Add(p.value % WORDS, next)>>
         /\ p.kind = "scaled" => Stands(p, r, next) = <<"mem", Indexed(r[p.reg], p.terms, r)>>
         /\ p.kind = "disp" => Stands(p, r, next) = <<"mem", Indexed(ValueOf(p), p.terms, r)>>
<1>1. p.kind = "imm" => Stands(p, r, next) = <<"imm", ValueOf(p)>>
  BY Zenon DEF Stands
<1>2. p.kind = "reg" /\ p.suffix = NoLabel => Stands(p, r, next) = <<"reg", p.reg>>
  BY Zenon DEF Stands, NoLabel
<1>3. p.kind = "reg" /\ p.suffix # NoLabel => Stands(p, r, next) = <<"mem", r[p.reg]>>
  BY Zenon DEF Stands, NoLabel
<1>4. p.kind = "abs" => Stands(p, r, next) = <<"mem", ValueOf(p)>>
  BY Zenon DEF Stands
<1>5. p.kind = "rel" => Stands(p, r, next) = <<"mem", Add(p.value % WORDS, next)>>
  BY Zenon DEF Stands
<1>6. p.kind = "scaled" => Stands(p, r, next) = <<"mem", Indexed(r[p.reg], p.terms, r)>>
  BY Zenon DEF Stands
<1>7. p.kind = "disp" => Stands(p, r, next) = <<"mem", Indexed(ValueOf(p), p.terms, r)>>
  BY Zenon DEF Stands
<1> QED BY <1>1, <1>2, <1>3, <1>4, <1>5, <1>6, <1>7

(* Addresses below 2^16 do not wrap around. *)
LEMMA AddIs ==
  ASSUME NEW x \in Nat, NEW d \in Nat
  PROVE  (x + d < WORDS => Add(x, d) = x + d) /\ Add(x, d) = (x + d) % WORDS
  BY DEF Add, WORDS

(* Operand p's words are at x. *)
Placed(p, x) ==
  /\ x \in Nat /\ x + Size(p) <= WORDS
  /\ \A m \in 1..Size(p) :
       At(x + m - 1) = IF m = Size(p) /\ p.kind \notin {"reg", "scaled"} THEN ValueOf(p)
                       ELSE WordsOf(p)[m]

(* What the decoder makes of p, before a relative address is completed. *)
Reads(p, r) == IF p.kind = "rel" THEN <<"mem", ValueOf(p)>> ELSE Stands(p, r, 0)
SteppedBy(p, r) ==
  IF p.kind = "reg" /\ p.suffix = "+" THEN [r EXCEPT ![p.reg] = Add(@, 1)]
  ELSE IF p.kind = "reg" /\ p.suffix = "-" THEN [r EXCEPT ![p.reg] = Sub(@, 1)]
  ELSE r

(* The words at x are those of the operand placed there. *)
LEMMA PlacedAt ==
  ASSUME NEW p, NEW x, Placed(p, x), p.kind \in OperandKinds
  PROVE  /\ x \in Nat
         /\ p.kind \in {"imm", "abs", "rel"} => Size(p) = 1 /\ At(x) = ValueOf(p)
         /\ p.kind = "reg" => Size(p) = 1 /\ At(x) = WordsOf(p)[1]
         /\ p.kind = "scaled" => /\ Size(p) = 2 /\ At(x) = WordsOf(p)[1]
                                 /\ At(Add(x, 1)) = WordsOf(p)[2]
         /\ p.kind = "disp" => /\ Size(p) = 3 /\ At(x) = WordsOf(p)[1]
                               /\ At(Add(x, 1)) = WordsOf(p)[2]
                               /\ At(Add(x, 2)) = ValueOf(p)
         /\ Add(x, Size(p)) = (x + Size(p)) % WORDS
<1>1. x \in Nat /\ x + Size(p) <= WORDS
  BY DEF Placed
<1>2. \A m \in 1..Size(p) :
       At(x + m - 1) = IF m = Size(p) /\ p.kind \notin {"reg", "scaled"} THEN ValueOf(p)
                       ELSE WordsOf(p)[m]
  BY DEF Placed
<1>3. Size(p) \in 1..3 /\ (p.kind \in {"imm", "abs", "rel", "reg"} <=> Size(p) = 1)
      /\ (p.kind = "scaled" <=> Size(p) = 2) /\ (p.kind = "disp" <=> Size(p) = 3)
  BY DEF Size, OperandKinds
<1>4. Add(x, Size(p)) = (x + Size(p)) % WORDS
  <2>1. Size(p) \in Nat
    BY <1>3
  <2> QED BY <1>1, <2>1, AddIs
<1>5. (Size(p) > 1 => Add(x, 1) = x + 1) /\ (Size(p) > 2 => Add(x, 2) = x + 2)
  <2>1. Size(p) \in Nat /\ WORDS \in Nat
    BY <1>3 DEF WORDS
  <2>2. (x + 1 < WORDS => Add(x, 1) = x + 1) /\ (x + 2 < WORDS => Add(x, 2) = x + 2)
    BY <1>1, AddIs
  <2>3. (Size(p) > 1 => x + 1 < WORDS) /\ (Size(p) > 2 => x + 2 < WORDS)
    BY <1>1, <2>1
  <2> QED BY <2>2, <2>3
<1>6. x + 1 - 1 = x /\ x + 2 - 1 = x + 1 /\ x + 3 - 1 = x + 2
  BY <1>1
<1>7. CASE Size(p) = 1
  <2>1. At(x + 1 - 1) = IF p.kind \notin {"reg", "scaled"} THEN ValueOf(p) ELSE WordsOf(p)[1]
    BY <1>2, <1>7
  <2> QED BY <1>1, <1>3, <1>4, <1>6, <1>7, <2>1
<1>8. CASE Size(p) = 2
  <2>1. At(x + 1 - 1) = WordsOf(p)[1]
    BY <1>2, <1>8
  <2>2. At(x + 2 - 1) = WordsOf(p)[2]
    BY <1>2, <1>3, <1>8
  <2> QED BY <1>1, <1>3, <1>4, <1>5, <1>6, <1>8, <2>1, <2>2
<1>9. CASE Size(p) = 3
  <2>1. At(x + 1 - 1) = WordsOf(p)[1] /\ At(x + 2 - 1) = WordsOf(p)[2]
    BY <1>2, <1>9
  <2>2. At(x + 3 - 1) = ValueOf(p)
    BY <1>2, <1>3, <1>9
  <2> QED BY <1>1, <1>3, <1>4, <1>5, <1>6, <1>9, <2>1, <2>2
<1> QED BY <1>3, <1>7, <1>8, <1>9

-----------------------------------------------------------------------------
(* The decoder reads an operand of each kind as it was written. *)

(* The decoder looks at the mode in the instruction word first. *)
LEMMA DecodeIs ==
  ASSUME NEW a, NEW n, NEW x, NEW r
  PROVE  /\ FabComp(a)!IsImm(n) =>
              FabComp(a)!Decode(n, x, r) = FabComp(a)!Opnd("imm", At(x), Add(x, 1), r)
         /\ ~FabComp(a)!IsImm(n) /\ FabComp(a)!Mode(n) = 0 =>
              FabComp(a)!Decode(n, x, r) = FabComp(a)!Opnd("none", 0, x, r)
         /\ ~FabComp(a)!IsImm(n) /\ FabComp(a)!Mode(n) \in 1..2 =>
              FabComp(a)!Decode(n, x, r) = FabComp(a)!Opnd("mem", At(x), Add(x, 1), r)
         /\ ~FabComp(a)!IsImm(n) /\ FabComp(a)!Mode(n) = 3 =>
              FabComp(a)!Decode(n, x, r) = FabComp(a)!SecondaryOpnd(x, r)
<1>1. FabComp(a)!Read(x) = At(x) /\ FabComp(a)!Add(x, 1) = Add(x, 1)
  BY DecoderWords
<1>2. CASE FabComp(a)!IsImm(n)
  BY <1>1, <1>2, SMT DEF FabComp!Decode
<1>3. CASE ~FabComp(a)!IsImm(n) /\ FabComp(a)!Mode(n) = 0
  BY <1>1, <1>3, SMT DEF FabComp!Decode
<1>4. CASE ~FabComp(a)!IsImm(n) /\ FabComp(a)!Mode(n) \in 1..2
  BY <1>1, <1>4, SMT DEF FabComp!Decode
<1>5. CASE ~FabComp(a)!IsImm(n) /\ FabComp(a)!Mode(n) = 3
  BY <1>1, <1>5, SMT DEF FabComp!Decode
<1> QED BY <1>2, <1>3, <1>4, <1>5

(* What is read as p, and where the next word is. *)
DecodesAs(d, a, p, x, r) ==
  d = FabComp(a)!Opnd(Reads(p, r)[1], Reads(p, r)[2], (x + Size(p)) % WORDS, SteppedBy(p, r))

(* An operand that is a single value. *)
LEMMA PlainDecodes ==
  ASSUME NEW a, NEW n, NEW x, NEW r, NEW p, p.kind \in {"imm", "abs", "rel"}, Placed(p, x),
         FabComp(a)!IsImm(n) <=> p.kind = "imm", FabComp(a)!Mode(n) = Mode[p.kind]
  PROVE  DecodesAs(FabComp(a)!Decode(n, x, r), a, p, x, r)
<1>1. /\ At(x) = ValueOf(p) /\ Add(x, 1) = (x + Size(p)) % WORDS
  BY PlacedAt DEF OperandKinds
<1>2. SteppedBy(p, r) = r
  BY DEF SteppedBy
<1>3. CASE p.kind = "imm"
  <2>1. Reads(p, r) = <<"imm", ValueOf(p)>>
    BY <1>3, StandsIs DEF Reads
  <2>2. FabComp(a)!Decode(n, x, r) = FabComp(a)!Opnd("imm", ValueOf(p), (x + Size(p)) % WORDS, r)
    BY <1>1, <1>3, DecodeIs
  <2> QED BY <1>2, <2>1, <2>2 DEF DecodesAs
<1>4. CASE p.kind \in {"abs", "rel"}
  <2>1. Reads(p, r) = <<"mem", ValueOf(p)>>
    BY <1>4, StandsIs DEF Reads
  <2>2. FabComp(a)!Mode(n) \in 1..2
    BY <1>4 DEF Mode
  <2>3. FabComp(a)!Decode(n, x, r) = FabComp(a)!Opnd("mem", ValueOf(p), (x + Size(p)) % WORDS, r)
    BY <1>1, <1>4, <2>2, DecodeIs
  <2> QED BY <1>2, <2>1, <2>3 DEF DecodesAs
<1> QED BY <1>3, <1>4

(* A register, with its suffix. *)
LEMMA RegisterDecodes ==
  ASSUME NEW a, NEW n, NEW x, NEW r, NEW p, p.kind = "reg", Placed(p, x), PieceAssumption(p),
         ~FabComp(a)!IsImm(n), FabComp(a)!Mode(n) = 3
  PROVE  DecodesAs(FabComp(a)!Decode(n, x, r), a, p, x, r)
<1>1. /\ At(x) = WordsOf(p)[1] /\ Add(x, 1) = (x + Size(p)) % WORDS
  BY PlacedAt DEF OperandKinds
<1>2. PICK mode, r0, s, next : /\ mode = Granular(p.suffix) /\ r0 = p.reg
                               /\ next = (x + Size(p)) % WORDS
                               /\ s = FabComp(a)!SecondaryOpnd(x, r)
  OBVIOUS
<1>3. r0 \in 0..15 /\ p.suffix \in {NoLabel, "%", "+", "-"}
  <2>1. r0 \in 0..15
    BY <1>2 DEF PieceAssumption, OperandKinds
  <2>2. p.suffix \in {NoLabel, "%", "+", "-"}
    BY Zenon DEF PieceAssumption, OperandKinds, NoLabel
  <2> QED BY <2>1, <2>2
<1>4. mode \in 0..7
  BY <1>2, <1>3, GranularIs
<1>5. Field(At(x), 15, 12) = mode /\ Reg0(At(x)) = r0
  <2>1. WordsOf(p) = <<4096 * Granular(p.suffix) + 256 * p.reg>>
    BY Zenon DEF WordsOf
  <2>2. PICK w : w = At(x) /\ w = 4096 * mode + 256 * r0
    BY <1>1, <1>2, <2>1
  <2>0. w \in Nat
    BY <1>3, <1>4, <2>2
  <2>3. (w \div 4096) % 16 = mode /\ (w \div 256) % 16 = r0
    BY <1>3, <1>4, <2>2
  <2>4. Field(w, 15, 12) = (w \div 4096) % 16 /\ Reg0(w) = (w \div 256) % 16
    BY <2>0, SecondaryFields DEF FieldsAre
  <2> QED BY <2>2, <2>3, <2>4
<1>7. s = FabComp(a)!Decode(n, x, r)
  BY <1>2, DecodeIs
<1>8. /\ mode = 0 => s = FabComp(a)!Opnd("reg", r0, next, r)
      /\ mode = 1 => s = FabComp(a)!Opnd("mem", r[r0], next, r)
      /\ mode = 4 => s = FabComp(a)!Opnd("mem", r[r0], next, [r EXCEPT ![r0] = Add(@, 1)])
      /\ mode = 5 => s = FabComp(a)!Opnd("mem", r[r0], next, [r EXCEPT ![r0] = Sub(@, 1)])
  <2>1. PICK r1, r2, s1, s2, b : SecondaryMeans(s, a, x, r, mode, r0, r1, r2, s1, s2, b)
    BY <1>2, <1>4, <1>5, SecondaryIs
  <2>2. Add(x, 1) = next
    BY <1>1, <1>2
  <2> QED BY <2>1, <2>2 DEF SecondaryMeans
<1>9. CASE p.suffix = NoLabel
  <2>1. mode = 0
    BY <1>2, <1>9, GranularIs
  <2>2. Reads(p, r) = <<"reg", r0>>
    BY <1>2, <1>9, StandsIs DEF Reads
  <2>3. SteppedBy(p, r) = r
    BY <1>9, GranularIs DEF SteppedBy
  <2> QED BY <1>2, <1>7, <1>8, <2>1, <2>2, <2>3 DEF DecodesAs
<1>10. CASE p.suffix # NoLabel
  <2>1. Reads(p, r) = <<"mem", r[r0]>>
    BY <1>2, <1>10, StandsIs DEF Reads
  <2>2. CASE p.suffix = "%"
    <3>1. mode = 1
      BY <1>2, <2>2, GranularIs
    <3>2. SteppedBy(p, r) = r
      BY <2>2 DEF SteppedBy
    <3> QED BY <1>2, <1>7, <1>8, <2>1, <3>1, <3>2 DEF DecodesAs
  <2>3. CASE p.suffix = "+"
    <3>1. mode = 4
      BY <1>2, <2>3, GranularIs
    <3>2. SteppedBy(p, r) = [r EXCEPT ![r0] = Add(@, 1)]
      BY <1>2, <2>3 DEF SteppedBy
    <3> QED BY <1>2, <1>7, <1>8, <2>1, <3>1, <3>2 DEF DecodesAs
  <2>4. CASE p.suffix = "-"
    <3>1. mode = 5
      BY <1>2, <2>4, GranularIs
    <3>2. SteppedBy(p, r) = [r EXCEPT ![r0] = Sub(@, 1)]
      BY <1>2, <2>4 DEF SteppedBy
    <3> QED BY <1>2, <1>7, <1>8, <2>1, <3>1, <3>2 DEF DecodesAs
  <2> QED BY <1>3, <1>10, <2>2, <2>3, <2>4
<1> QED BY <1>9, <1>10

(* An address with one or two offsets. *)
LEMMA IndexedIs ==
  ASSUME NEW terms, NEW b, NEW r
  PROVE  /\ Len(terms) = 1 =>
              Indexed(b, terms, r) = Add(b, ShiftLeft(r[terms[1].reg], terms[1].shift))
         /\ Len(terms) = 2 =>
              Indexed(b, terms, r) = Add(At(Add(b, ShiftLeft(r[terms[1].reg], terms[1].shift))),
                                         ShiftLeft(r[terms[2].reg], terms[2].shift))
  BY DEF Indexed, Offset

(* The words of an operand, by its kind. *)
LEMMA WordsAre ==
  ASSUME NEW p
  PROVE  /\ p.kind = "reg" => WordsOf(p)[1] = 4096 * Granular(p.suffix) + 256 * p.reg
         /\ p.kind = "scaled" => /\ WordsOf(p)[1] = 256 * p.reg + RImm(p.terms, 1)
                                 /\ WordsOf(p)[2] = SImm(p.terms)
         /\ p.kind = "disp" => /\ WordsOf(p)[1] = 4096 * 4 + RImm(p.terms, 0)
                               /\ WordsOf(p)[2] = SImm(p.terms)
<1> DEFINE a == 4096 * Granular(p.suffix) + 256 * p.reg
           b == 256 * p.reg + RImm(p.terms, 1)
           c == 4096 * 4 + RImm(p.terms, 0)
           d == SImm(p.terms)
           e == p.value % WORDS
<1>1. WordsOf(p) = IF p.kind = "reg" THEN <<a>> ELSE IF p.kind = "scaled" THEN <<b, d>>
                   ELSE IF p.kind = "disp" THEN <<c, d, e>> ELSE <<e>>
  BY Zenon DEF WordsOf
<1> HIDE DEF a, b, c, d, e
<1>2. /\ p.kind = "reg" => WordsOf(p)[1] = a
      /\ p.kind = "scaled" => WordsOf(p)[1] = b /\ WordsOf(p)[2] = d
      /\ p.kind = "disp" => WordsOf(p)[1] = c /\ WordsOf(p)[2] = d
  BY <1>1
<1>3. p.kind = "reg" => WordsOf(p)[1] = 4096 * Granular(p.suffix) + 256 * p.reg
  BY <1>2, Zenon DEF a
<1>4. p.kind = "scaled" => /\ WordsOf(p)[1] = 256 * p.reg + RImm(p.terms, 1)
                           /\ WordsOf(p)[2] = SImm(p.terms)
  BY <1>2, Zenon DEF b, d
<1>5. p.kind = "disp" => /\ WordsOf(p)[1] = 4096 * 4 + RImm(p.terms, 0)
                         /\ WordsOf(p)[2] = SImm(p.terms)
  BY <1>2, Zenon DEF c, d
<1> QED BY <1>3, <1>4, <1>5

(* A register and one or two scaled ones. *)
LEMMA ScaledDecodes ==
  ASSUME NEW a, NEW n, NEW x, NEW r, NEW p, p.kind = "scaled", Placed(p, x), PieceAssumption(p),
         ~TermsFail(p.terms), ~FabComp(a)!IsImm(n), FabComp(a)!Mode(n) = 3
  PROVE  DecodesAs(FabComp(a)!Decode(n, x, r), a, p, x, r)
<1>1. /\ At(x) = WordsOf(p)[1] /\ At(Add(x, 1)) = WordsOf(p)[2]
      /\ Add(x, 2) = (x + Size(p)) % WORDS
  BY PlacedAt DEF OperandKinds
<1>2. PICK q, terms, len, r1, s1, r2, s2, s, next :
        /\ q = p.reg /\ terms = p.terms /\ len = Len(terms)
        /\ r1 = terms[1].reg /\ s1 = terms[1].shift /\ r2 = terms[2].reg /\ s2 = terms[2].shift
        /\ next = (x + Size(p)) % WORDS /\ s = FabComp(a)!SecondaryOpnd(x, r)
  OBVIOUS
<1>3. q \in 0..15 /\ GoodTerms(terms)
  <2>1. /\ p.reg \in 0..15 /\ IsSeq(p.terms) /\ p.terms # <<>>
        /\ \A k \in DOMAIN p.terms : p.terms[k].reg \in 0..15 /\ p.terms[k].shift \in 0..255
    BY DEF PieceAssumption, OperandKinds
  <2>2. GoodTerms(p.terms)
    BY <2>1, Zenon DEF GoodTerms
  <2> QED BY <1>2, <2>1, <2>2, Zenon
<1>4. /\ len \in 1..2 /\ r1 \in 0..15 /\ s1 \in 0..255
      /\ len = 2 => r2 \in 0..15 /\ s2 \in 0..255
      /\ len = 1 => RImm(terms, 1) = 8192 + 16 * r1 /\ SImm(terms) = 256 * s1
      /\ len = 2 => RImm(terms, 1) = 12288 + 16 * r1 + r2 /\ SImm(terms) = 256 * s1 + s2
  <2>1. TermsMean(terms)
    BY <1>3, TermWords
  <2>5. len \in 1..2 /\ r1 \in 0..15 /\ s1 \in 0..255
    <3>1. Len(terms) \in 1..2 /\ terms[1].reg \in 0..15 /\ terms[1].shift \in 0..255
      BY <2>1 DEF TermsMean
    <3> QED BY <1>2, <3>1, Zenon
  <2>6. len = 2 => r2 \in 0..15 /\ s2 \in 0..255
    <3>1. Len(terms) = 2 => terms[2].reg \in 0..15 /\ terms[2].shift \in 0..255
      BY <2>1 DEF TermsMean
    <3> QED BY <1>2, <3>1, Zenon
  <2>2. /\ len \in 1..2 /\ r1 \in 0..15 /\ s1 \in 0..255
        /\ len = 2 => r2 \in 0..15 /\ s2 \in 0..255
    BY <2>5, <2>6
  <2>3. len = 1 => RImm(terms, 1) = 8192 + 16 * r1 /\ SImm(terms) = 256 * s1
    BY <1>2, <2>1, SMT DEF TermsMean
  <2>4. len = 2 => RImm(terms, 1) = 12288 + 16 * r1 + r2 /\ SImm(terms) = 256 * s1 + s2
    BY <1>2, <2>1, SMT DEF TermsMean
  <2> QED BY <2>2, <2>3, <2>4
<1>5. PICK w, h : w = At(x) /\ h = At(Add(x, 1)) /\ w = 256 * q + RImm(terms, 1) /\ h = SImm(terms)
  <2>1. WordsOf(p)[1] = 256 * p.reg + RImm(p.terms, 1) /\ WordsOf(p)[2] = SImm(p.terms)
    BY WordsAre
  <2> QED BY <1>1, <1>2, <2>1
<1>6. s = FabComp(a)!Decode(n, x, r) /\ SteppedBy(p, r) = r
  BY <1>2, DecodeIs DEF SteppedBy
<1>7. Reads(p, r) = <<"mem", Indexed(r[q], terms, r)>>
  BY <1>2, StandsIs DEF Reads
<1>8. CASE len = 1
  <2>1. w = 8192 + 256 * q + 16 * r1 /\ h = 256 * s1
    <3>1. q \in 0..15 /\ r1 \in 0..15 /\ s1 \in 0..255
      BY <1>3, <1>4
    <3>2. w = 256 * q + (8192 + 16 * r1) /\ h = 256 * s1
      BY <1>4, <1>5, <1>8
    <3> QED BY <3>1, <3>2
  <2>2. w \in Nat
    BY <1>3, <1>4, <2>1
  <2>3. (w \div 4096) % 16 = 2 /\ (w \div 256) % 16 = q /\ (w \div 16) % 16 = r1 /\ h \div 256 = s1
    BY <1>3, <1>4, <2>1
  <2>4. /\ Field(w, 15, 12) = (w \div 4096) % 16 /\ Reg0(w) = (w \div 256) % 16
        /\ Reg1(w) = (w \div 16) % 16
    <3>1. FieldsAre(w)
      BY <2>2, SecondaryFields
    <3> QED BY <3>1 DEF FieldsAre
  <2>5. Field(At(x), 15, 12) = 2 /\ Reg0(At(x)) = q /\ Reg1(At(x)) = r1
        /\ At(Add(x, 1)) \div 256 = s1
    BY <1>5, <2>3, <2>4
  <2>6. PICK t2, u2, b : SecondaryMeans(s, a, x, r, 2, q, r1, t2, s1, u2, b)
    BY <1>2, <2>5, SecondaryIs
  <2>7. s = FabComp(a)!Opnd("mem", Add(r[q], ShiftLeft(r[r1], s1)), Add(x, 2), r)
    BY <2>6 DEF SecondaryMeans
  <2>8. Indexed(r[q], terms, r) = Add(r[q], ShiftLeft(r[r1], s1))
    BY <1>2, <1>8, IndexedIs, Zenon
  <2>9. s = FabComp(a)!Opnd("mem", Indexed(r[q], terms, r), (x + Size(p)) % WORDS, r)
    BY <1>1, <2>7, <2>8, Zenon
  <2>10. Reads(p, r)[1] = "mem" /\ Reads(p, r)[2] = Indexed(r[q], terms, r)
    BY <1>7
  <2> QED BY <1>6, <2>9, <2>10, Zenon DEF DecodesAs
<1>9. CASE len = 2
  <2>0. q \in 0..15 /\ r1 \in 0..15 /\ r2 \in 0..15 /\ s1 \in 0..255 /\ s2 \in 0..255
    BY <1>3, <1>4, <1>9
  <2>1. w = 12288 + 256 * q + 16 * r1 + r2 /\ h = 256 * s1 + s2
    <3>1. RImm(terms, 1) = 12288 + 16 * r1 + r2 /\ SImm(terms) = 256 * s1 + s2
      BY <1>4, <1>9
    <3> QED BY <1>5, <2>0, <3>1
  <2>2. w \in Nat
    BY <2>0, <2>1
  <2>3. /\ (w \div 4096) % 16 = 3 /\ (w \div 256) % 16 = q /\ (w \div 16) % 16 = r1 /\ w % 16 = r2
        /\ h \div 256 = s1 /\ h % 256 = s2
    BY <2>0, <2>1
  <2>4. /\ Field(w, 15, 12) = (w \div 4096) % 16 /\ Reg0(w) = (w \div 256) % 16
        /\ Reg1(w) = (w \div 16) % 16 /\ Reg2(w) = w % 16
    <3>1. FieldsAre(w)
      BY <2>2, SecondaryFields
    <3> QED BY <3>1 DEF FieldsAre
  <2>5. Field(At(x), 15, 12) = 3 /\ Reg0(At(x)) = q /\ Reg1(At(x)) = r1 /\ Reg2(At(x)) = r2
        /\ At(Add(x, 1)) \div 256 = s1 /\ At(Add(x, 1)) % 256 = s2
    BY <1>5, <2>3, <2>4
  <2>6. PICK b : SecondaryMeans(s, a, x, r, 3, q, r1, r2, s1, s2, b)
    BY <1>2, <2>5, SecondaryIs
  <2>7. s = FabComp(a)!Opnd("mem", Add(At(Add(r[q], ShiftLeft(r[r1], s1))), ShiftLeft(r[r2], s2)),
                            Add(x, 2), r)
    BY <2>6 DEF SecondaryMeans
  <2>8. Indexed(r[q], terms, r) = Add(At(Add(r[q], ShiftLeft(r[r1], s1))), ShiftLeft(r[r2], s2))
    BY <1>2, <1>9, IndexedIs, Zenon
  <2>9. s = FabComp(a)!Opnd("mem", Indexed(r[q], terms, r), (x + Size(p)) % WORDS, r)
    BY <1>1, <2>7, <2>8, Zenon
  <2>10. Reads(p, r)[1] = "mem" /\ Reads(p, r)[2] = Indexed(r[q], terms, r)
    BY <1>7
  <2> QED BY <1>6, <2>9, <2>10, Zenon DEF DecodesAs
<1> QED BY <1>4, <1>8, <1>9

(* A value and one or two scaled registers. *)
LEMMA DisplacedDecodes ==
  ASSUME NEW a, NEW n, NEW x, NEW r, NEW p, p.kind = "disp", Placed(p, x), PieceAssumption(p),
         ~TermsFail(p.terms), ~FabComp(a)!IsImm(n), FabComp(a)!Mode(n) = 3
  PROVE  DecodesAs(FabComp(a)!Decode(n, x, r), a, p, x, r)
<1>1. /\ At(x) = WordsOf(p)[1] /\ At(Add(x, 1)) = WordsOf(p)[2]
      /\ At(Add(x, 2)) = ValueOf(p) /\ Add(x, 3) = (x + Size(p)) % WORDS
  BY PlacedAt DEF OperandKinds
<1>2. PICK q, terms, len, r1, s1, r2, s2, s, next :
        /\ q = ValueOf(p) /\ terms = p.terms /\ len = Len(terms)
        /\ r1 = terms[1].reg /\ s1 = terms[1].shift /\ r2 = terms[2].reg /\ s2 = terms[2].shift
        /\ next = (x + Size(p)) % WORDS /\ s = FabComp(a)!SecondaryOpnd(x, r)
  OBVIOUS
<1>3. GoodTerms(terms)
  <2>1. /\ IsSeq(p.terms) /\ p.terms # <<>>
        /\ \A k \in DOMAIN p.terms : p.terms[k].reg \in 0..15 /\ p.terms[k].shift \in 0..255
    BY DEF PieceAssumption, OperandKinds
  <2>2. GoodTerms(p.terms)
    BY <2>1, Zenon DEF GoodTerms
  <2> QED BY <1>2, <2>1, <2>2, Zenon
<1>4. /\ len \in 1..2 /\ r1 \in 0..15 /\ s1 \in 0..255
      /\ len = 2 => r2 \in 0..15 /\ s2 \in 0..255
      /\ len = 1 => RImm(terms, 0) = 8192 + 256 * r1 /\ SImm(terms) = 256 * s1
      /\ len = 2 => RImm(terms, 0) = 12288 + 256 * r1 + 16 * r2 /\ SImm(terms) = 256 * s1 + s2
  <2>1. TermsMean(terms)
    BY <1>3, TermWords
  <2>5. len \in 1..2 /\ r1 \in 0..15 /\ s1 \in 0..255
    <3>1. Len(terms) \in 1..2 /\ terms[1].reg \in 0..15 /\ terms[1].shift \in 0..255
      BY <2>1 DEF TermsMean
    <3> QED BY <1>2, <3>1, Zenon
  <2>6. len = 2 => r2 \in 0..15 /\ s2 \in 0..255
    <3>1. Len(terms) = 2 => terms[2].reg \in 0..15 /\ terms[2].shift \in 0..255
      BY <2>1 DEF TermsMean
    <3> QED BY <1>2, <3>1, Zenon
  <2>2. /\ len \in 1..2 /\ r1 \in 0..15 /\ s1 \in 0..255
        /\ len = 2 => r2 \in 0..15 /\ s2 \in 0..255
    BY <2>5, <2>6
  <2>3. len = 1 => RImm(terms, 0) = 8192 + 256 * r1 /\ SImm(terms) = 256 * s1
    BY <1>2, <2>1, SMT DEF TermsMean
  <2>4. len = 2 => RImm(terms, 0) = 12288 + 256 * r1 + 16 * r2 /\ SImm(terms) = 256 * s1 + s2
    BY <1>2, <2>1, SMT DEF TermsMean
  <2> QED BY <2>2, <2>3, <2>4
<1>5. PICK w, h : w = At(x) /\ h = At(Add(x, 1)) /\ w = 4096 * 4 + RImm(terms, 0) /\ h = SImm(terms)
  <2>1. WordsOf(p)[1] = 4096 * 4 + RImm(p.terms, 0) /\ WordsOf(p)[2] = SImm(p.terms)
    BY WordsAre
  <2> QED BY <1>1, <1>2, <2>1
<1>6. s = FabComp(a)!Decode(n, x, r) /\ SteppedBy(p, r) = r
  BY <1>2, DecodeIs DEF SteppedBy
<1>7. Reads(p, r) = <<"mem", Indexed(q, terms, r)>>
  BY <1>2, StandsIs DEF Reads
<1>8. CASE len = 1
  <2>1. w = 24576 + 256 * r1 /\ h = 256 * s1
    BY <1>3, <1>4, <1>5, <1>8
  <2>2. w \in Nat
    BY <1>3, <1>4, <2>1
  <2>3. (w \div 4096) % 16 = 6 /\ (w \div 256) % 16 = r1 /\ h \div 256 = s1
    BY <1>3, <1>4, <2>1
  <2>4. /\ Field(w, 15, 12) = (w \div 4096) % 16 /\ Reg0(w) = (w \div 256) % 16
        /\ Reg1(w) = (w \div 16) % 16
    <3>1. FieldsAre(w)
      BY <2>2, SecondaryFields
    <3> QED BY <3>1 DEF FieldsAre
  <2>5. Field(At(x), 15, 12) = 6 /\ Reg0(At(x)) = r1
        /\ At(Add(x, 1)) \div 256 = s1
    BY <1>5, <2>3, <2>4
  <2>6. PICK t1, t2, u2 : SecondaryMeans(s, a, x, r, 6, r1, t1, t2, s1, u2, q)
    BY <1>1, <1>2, <2>5, SecondaryIs
  <2>7. s = FabComp(a)!Opnd("mem", Add(q, ShiftLeft(r[r1], s1)), Add(x, 3), r)
    BY <2>6 DEF SecondaryMeans
  <2>8. Indexed(q, terms, r) = Add(q, ShiftLeft(r[r1], s1))
    BY <1>2, <1>8, IndexedIs, Zenon
  <2>9. s = FabComp(a)!Opnd("mem", Indexed(q, terms, r), (x + Size(p)) % WORDS, r)
    BY <1>1, <2>7, <2>8, Zenon
  <2>10. Reads(p, r)[1] = "mem" /\ Reads(p, r)[2] = Indexed(q, terms, r)
    BY <1>7
  <2> QED BY <1>6, <2>9, <2>10, Zenon DEF DecodesAs
<1>9. CASE len = 2
  <2>0. r1 \in 0..15 /\ r2 \in 0..15 /\ s1 \in 0..255 /\ s2 \in 0..255
    BY <1>3, <1>4, <1>9
  <2>1. w = 28672 + 256 * r1 + 16 * r2 /\ h = 256 * s1 + s2
    <3>1. RImm(terms, 0) = 12288 + 256 * r1 + 16 * r2 /\ SImm(terms) = 256 * s1 + s2
      BY <1>4, <1>9
    <3> QED BY <1>5, <2>0, <3>1
  <2>2. w \in Nat
    BY <2>0, <2>1
  <2>3. /\ (w \div 4096) % 16 = 7 /\ (w \div 256) % 16 = r1 /\ (w \div 16) % 16 = r2
        /\ h \div 256 = s1 /\ h % 256 = s2
    BY <2>0, <2>1
  <2>4. /\ Field(w, 15, 12) = (w \div 4096) % 16 /\ Reg0(w) = (w \div 256) % 16
        /\ Reg1(w) = (w \div 16) % 16 /\ Reg2(w) = w % 16
    <3>1. FieldsAre(w)
      BY <2>2, SecondaryFields
    <3> QED BY <3>1 DEF FieldsAre
  <2>5. Field(At(x), 15, 12) = 7 /\ Reg0(At(x)) = r1 /\ Reg1(At(x)) = r2
        /\ At(Add(x, 1)) \div 256 = s1 /\ At(Add(x, 1)) % 256 = s2
    BY <1>5, <2>3, <2>4
  <2>6. PICK t2 : SecondaryMeans(s, a, x, r, 7, r1, r2, t2, s1, s2, q)
    BY <1>1, <1>2, <2>5, SecondaryIs
  <2>7. s = FabComp(a)!Opnd("mem", Add(At(Add(q, ShiftLeft(r[r1], s1))), ShiftLeft(r[r2], s2)),
                            Add(x, 3), r)
    BY <2>6 DEF SecondaryMeans
  <2>8. Indexed(q, terms, r) = Add(At(Add(q, ShiftLeft(r[r1], s1))), ShiftLeft(r[r2], s2))
    <3>1. Indexed(q, terms, r) = Add(At(Add(q, ShiftLeft(r[terms[1].reg], terms[1].shift))),
                                     ShiftLeft(r[terms[2].reg], terms[2].shift))
      BY <1>2, <1>9 DEF Indexed, Offset
    <3> QED BY <1>2, <3>1, Zenon
  <2>9. s = FabComp(a)!Opnd("mem", Indexed(q, terms, r), (x + Size(p)) % WORDS, r)
    BY <1>1, <2>7, <2>8, Zenon
  <2>10. Reads(p, r)[1] = "mem" /\ Reads(p, r)[2] = Indexed(q, terms, r)
    BY <1>7
  <2> QED BY <1>6, <2>9, <2>10, Zenon DEF DecodesAs
<1> QED BY <1>4, <1>8, <1>9

(* An operand the decoder finds is the one that was written. *)
LEMMA OperandDecodes ==
  ASSUME NEW a, NEW n, NEW x, NEW r, NEW p, p.kind \in OperandKinds, PieceAssumption(p),
         ~TermsFail(p.terms), Placed(p, x),
         FabComp(a)!IsImm(n) <=> p.kind = "imm", FabComp(a)!Mode(n) = Mode[p.kind]
  PROVE  DecodesAs(FabComp(a)!Decode(n, x, r), a, p, x, r)
<1>1. CASE p.kind \in {"imm", "abs", "rel"}
  BY <1>1, PlainDecodes
<1>2. CASE p.kind \in {"reg", "scaled", "disp"}
  <2>1. ~FabComp(a)!IsImm(n) /\ FabComp(a)!Mode(n) = 3
    BY <1>2 DEF Mode
  <2> QED BY <1>2, <2>1, RegisterDecodes, ScaledDecodes, DisplacedDecodes
<1> QED BY <1>1, <1>2 DEF OperandKinds

-----------------------------------------------------------------------------
(* What was written to the end without a complaint. *)

Final == BInv /\ status = "written" /\ ~reported /\ Len(cs) <= WORDS

(* Every line has been read, is legal and is stored. *)
LEMMA FinalIs ==
  ASSUME Final
  PROVE  /\ FasmTypeOK /\ SoFarLegal /\ Meant /\ relTab = {} /\ ~sawOpc /\ Binary = cs
         /\ IsSeq(cs) /\ Len(cs) \in Nat /\ Len(cs) = Place[Len(src) + 1] /\ Len(cs) <= WORDS
         /\ \A k \in Lines : /\ LegalLine(k) /\ LineStored(k)
                             /\ Place[k] \in Nat /\ Place[k + 1] \in Nat
                             /\ Place[k + 1] = Place[k] + LineSize(k)
         /\ \A k \in Lines : \A m \in Labels(k) : WasRead(k, m)
<1>1. /\ FasmTypeOK /\ SoFarLegal /\ Meant /\ relTab = {} /\ Len(cs) <= WORDS
      /\ ln > Len(src) /\ at = 0 /\ ~sawOpc
  BY DEF Final, BInv, AInv, IInv, StatusInv, LineInv
<1>2. Lines = 1..Len(src) /\ Len(src) \in Nat /\ ln \in Nat
  BY <1>1, LinesOK
<1>3. ln = Len(src) + 1
  BY <1>1, <1>2 DEF Meant
<1>4. Binary = cs /\ IsSeq(cs) /\ Len(cs) \in Nat
  BY <1>1, BinaryIs
<1>5. \A k \in Lines : k < ln /\ k \in 1..ln /\ k + 1 \in 1..ln
  BY <1>2, <1>3
<1>6. \A k \in Lines : LegalLine(k) /\ LineStored(k) /\ Place[k] \in Nat /\ Place[k + 1] \in Nat
  BY <1>1, <1>5 DEF SoFarLegal, LinesClean, Meant
<1>7. \A k \in Lines : Place[k + 1] = Place[k] + LineSize(k)
  BY <1>1, PlaceNext
<1>8. \A k \in Lines : \A m \in Labels(k) : WasRead(k, m)
  BY <1>5 DEF WasRead
<1>9. Len(cs) = Place[Len(src) + 1]
  BY <1>1, <1>3 DEF Meant
<1> QED BY <1>1, <1>4, <1>6, <1>7, <1>8, <1>9

(* The symbol table has the places of the lines that declare the labels. *)
LEMMA SymbTabIs ==
  ASSUME Final
  PROVE  DOMAIN symbTab = Declared /\ \A l \in Declared : symbTab[l] = Address(l)
<1>1. LabelsClean /\ AddressesMeant /\ \A k \in Lines : \A m \in Labels(k) : WasRead(k, m)
  BY FinalIs DEF SoFarLegal, Meant
<1>2. DOMAIN symbTab = Declared
  <2>1. DOMAIN symbTab \subseteq Declared
    BY <1>1 DEF LabelsClean, Declared, Name
  <2>2. ASSUME NEW l \in Declared PROVE l \in DOMAIN symbTab
    <3>1. PICK k \in Lines : Declares(k, l)
      BY DEF Declared, Declares
    <3>2. PICK m \in Labels(k) : Name(k, m) = l
      BY <3>1 DEF Declares, Name
    <3> QED BY <1>1, <3>2 DEF LabelsClean
  <2> QED BY <2>1, <2>2
<1>3. ASSUME NEW l \in Declared PROVE symbTab[l] = Address(l)
  <2>1. \E k \in Lines : Declares(k, l)
    BY DEF Declared, Declares
  <2>2. PICK k \in Lines : k = CHOOSE j \in Lines : Declares(j, l)
    BY <2>1
  <2>3. Declares(k, l)
    BY <2>1, <2>2
  <2>4. PICK m \in Labels(k) : Name(k, m) = l
    BY <2>3 DEF Declares, Name
  <2>5. symbTab[l] = Place[k]
    BY <1>1, <2>4 DEF AddressesMeant
  <2> QED BY <2>2, <2>5 DEF Address
<1> QED BY <1>2, <1>3

(* What is stored can be read. *)
LEMMA WordRead ==
  ASSUME Final, NEW a, NEW l, NEW v, Stored(a, l, v)
  PROVE  /\ a \in Nat /\ a < Len(cs) /\ Image[a] = At(a)
         /\ At(a) = IF l = NoLabel THEN v ELSE Address(l) % WORDS
<1>1. Binary = cs /\ relTab = {} /\ Len(cs) \in Nat
  BY FinalIs
<1>2. /\ a \in Nat /\ a < Len(cs)
      /\ \/ l = NoLabel /\ cs[a + 1] = v
         \/ l # NoLabel /\ l \in DOMAIN symbTab /\ cs[a + 1] = symbTab[l] % WORDS
  BY <1>1 DEF Stored
<1>3. a \in 0..(Len(cs) - 1)
  BY <1>1, <1>2
<1>4. At(a) = cs[a + 1] /\ Image[a] = cs[a + 1]
  BY <1>3 DEF At, Image
<1> QED BY <1>2, <1>4, SymbTabIs

(* A word that was written is its number, or the address of its label. *)
LEMMA ValueIs ==
  ASSUME NEW p
  PROVE  ValueOf(p) = IF p.label = NoLabel THEN p.value % WORDS ELSE Address(p.label) % WORDS
  BY Zenon DEF ValueOf, NoLabel

(* The words of a directive are there. *)
LEMMA DirectiveHolds ==
  ASSUME Final, NEW k \in Lines, src[k].kind = "directive"
  PROVE  Holds(k)
<1>1. /\ LineStored(k) /\ Place[k] \in Nat /\ Place[k + 1] = Place[k] + LineSize(k)
      /\ src[k].reps \in Nat /\ LineSize(k) = src[k].reps
  BY FinalIs, SourceOK DEF LineSize
<1>2. ASSUME NEW x \in Place[k]..(Place[k + 1] - 1) PROVE Image[x] = ValueOf(src[k])
  <2>1. PICK m : m = x - Place[k] + 1
    OBVIOUS
  <2>2. m \in 1..src[k].reps /\ Place[k] + m - 1 = x
    BY <1>1, <2>1
  <2>3. Stored(Place[k] + m - 1, src[k].label, src[k].value % WORDS)
    BY <1>1, <2>2 DEF LineStored
  <2>4. Stored(x, src[k].label, src[k].value % WORDS)
    BY <2>2, <2>3
  <2> QED BY <2>4, WordRead, ValueIs
<1> QED BY <1>2 DEF Holds

(* So are the words of an operand. *)
LEMMA OperandPlaced ==
  ASSUME Final, NEW p, p.kind \in OperandKinds, PieceAssumption(p), NEW x \in Nat,
         OperandStored(p, x)
  PROVE  Placed(p, x)
<1>1. Size(p) \in 1..3
  BY DEF Size
<1>2. \A m \in 1..Size(p) :
        Stored(x + m - 1, IF m = Size(p) THEN p.label ELSE NoLabel, WordsOf(p)[m])
  BY DEF OperandStored
<1>3. x + Size(p) <= WORDS
  <2>1. x + Size(p) - 1 < Len(cs)
    BY <1>1, <1>2, WordRead
  <2>2. Len(cs) \in Nat /\ Len(cs) <= WORDS /\ WORDS \in Nat
    BY FinalIs DEF WORDS
  <2> QED BY <1>1, <2>1, <2>2
<1>4. \A m \in 1..Size(p) : m # Size(p) => At(x + m - 1) = WordsOf(p)[m]
  BY <1>2, WordRead
<1>5. At(x + Size(p) - 1) = IF p.label = NoLabel THEN WordsOf(p)[Size(p)]
                            ELSE Address(p.label) % WORDS
  BY <1>1, <1>2, WordRead
<1>6. p.kind \in {"reg", "scaled"} => p.label = NoLabel
  BY Zenon DEF PieceAssumption, NoLabel, OperandKinds
<1>7. p.kind \notin {"reg", "scaled"} => WordsOf(p)[Size(p)] = p.value % WORDS
  <2> DEFINE c == 4096 * 4 + RImm(p.terms, 0)
             d == SImm(p.terms)
             e == p.value % WORDS
             f == 4096 * Granular(p.suffix) + 256 * p.reg
             g == 256 * p.reg + RImm(p.terms, 1)
  <2>1. WordsOf(p) = IF p.kind = "reg" THEN <<f>> ELSE IF p.kind = "scaled" THEN <<g, d>>
                     ELSE IF p.kind = "disp" THEN <<c, d, e>> ELSE <<e>>
    BY Zenon DEF WordsOf
  <2> HIDE DEF c, d, e, f, g
  <2>2. p.kind \notin {"reg", "scaled"} => WordsOf(p)[Size(p)] = e
    BY <2>1 DEF Size
  <2> QED BY <2>2 DEF e
<1>8. p.kind \notin {"reg", "scaled"} => At(x + Size(p) - 1) = ValueOf(p)
  BY <1>5, <1>7, ValueIs
<1>9. p.kind \in {"reg", "scaled"} => At(x + Size(p) - 1) = WordsOf(p)[Size(p)]
  BY <1>5, <1>6
<1> QED BY <1>1, <1>3, <1>4, <1>8, <1>9 DEF Placed

-----------------------------------------------------------------------------
(* The instruction word. *)

(* The fields of an instruction word. *)
HeaderIs(w) == /\ Field(w, 15, 8) = (w \div 256) % 256
               /\ Field(w, 5, 4) = (w \div 16) % 4 /\ Field(w, 3, 2) = (w \div 4) % 4
               /\ Field(w, 1, 0) = w % 4
               /\ Field(w, 7, 7) = (w \div 128) % 2 /\ Field(w, 6, 6) = (w \div 64) % 2

(* They are what these divisions say. *)
LEMMA HeaderFields == ASSUME NEW w \in Nat PROVE HeaderIs(w)
<1>1. Field(w, 15, 8) = (w \div 256) % 256
  BY DEF Field
<1>2. Field(w, 5, 4) = (w \div 16) % 4
  BY DEF Field
<1>3. Field(w, 3, 2) = (w \div 4) % 4
  BY DEF Field
<1>4. Field(w, 1, 0) = w % 4
  BY DEF Field
<1>5. Field(w, 7, 7) = (w \div 128) % 2
  BY DEF Field
<1>6. Field(w, 6, 6) = (w \div 64) % 2
  BY DEF Field
<1> QED BY <1>1, <1>2, <1>3, <1>4, <1>5, <1>6 DEF HeaderIs

(* The decoder takes opcode, modes and immediate bits from them. *)
LEMMA HeaderRead ==
  ASSUME NEW a, NEW w, w = At(a)
  PROVE  /\ FabComp(a)!Opcode = Field(w, 15, 8)
         /\ FabComp(a)!Mode(0) = Field(w, 5, 4) /\ FabComp(a)!Mode(1) = Field(w, 3, 2)
         /\ FabComp(a)!Mode(2) = Field(w, 1, 0)
         /\ ~FabComp(a)!IsImm(0) /\ (FabComp(a)!IsImm(1) <=> Field(w, 7, 7) = 1)
         /\ (FabComp(a)!IsImm(2) <=> Field(w, 6, 6) = 1)
<1>1. FabComp(a)!OpWord = w
  <2>1. FabComp(a)!OpWord = FabComp(a)!Read(a)
    BY Zenon DEF FabComp!OpWord
  <2> QED BY <2>1, DecoderWords
<1>2. FabComp(a)!Opcode = Field(w, 15, 8)
  <2>1. FabComp(a)!Opcode = FabComp(a)!Field(w, 15, 8)
    BY <1>1, Zenon DEF FabComp!Opcode
  <2> QED BY <2>1, DecoderWords
<1>3. FabComp(a)!Mode(0) = Field(w, 5, 4)
  <2>1. FabComp(a)!Mode(0) = FabComp(a)!Field(w, 5, 4)
    BY <1>1, SMT DEF FabComp!Mode
  <2> QED BY <2>1, DecoderWords
<1>4. FabComp(a)!Mode(1) = Field(w, 3, 2)
  <2>1. FabComp(a)!Mode(1) = FabComp(a)!Field(w, 3, 2)
    BY <1>1, SMT DEF FabComp!Mode
  <2> QED BY <2>1, DecoderWords
<1>5. FabComp(a)!Mode(2) = Field(w, 1, 0)
  <2>1. FabComp(a)!Mode(2) = FabComp(a)!Field(w, 1, 0)
    BY <1>1, SMT DEF FabComp!Mode
  <2> QED BY <2>1, DecoderWords
<1>6. ~FabComp(a)!IsImm(0)
  BY SMT DEF FabComp!IsImm
<1>7. FabComp(a)!IsImm(1) <=> Field(w, 7, 7) = 1
  <2>1. FabComp(a)!IsImm(1) <=> FabComp(a)!Bit(w, 7) = 1
    BY <1>1, SMT DEF FabComp!IsImm
  <2> QED BY <2>1, DecoderWords DEF Bit
<1>8. FabComp(a)!IsImm(2) <=> Field(w, 6, 6) = 1
  <2>1. FabComp(a)!IsImm(2) <=> FabComp(a)!Bit(w, 6) = 1
    BY <1>1, SMT DEF FabComp!IsImm
  <2> QED BY <2>1, DecoderWords DEF Bit
<1> QED BY <1>2, <1>3, <1>4, <1>5, <1>6, <1>7, <1>8

(* A legal instruction's word says how each operand was written. *)
HasWord(k, c, n, a) ==
  /\ At(a) = InstUpTo(k, c, n) /\ src[k].pieces[c + 1].opcode \in 0..44
  /\ \A m \in 1..n : Opnd(k, c, m).kind \in OperandKinds /\ (m = 1 => Opnd(k, c, m).kind # "imm")

WordDecodes(k, c, n, a) ==
  /\ FabComp(a)!Opcode = src[k].pieces[c + 1].opcode
  /\ \A m \in 0..2 :
       /\ m < n => /\ FabComp(a)!IsImm(m) <=> Opnd(k, c, m + 1).kind = "imm"
                   /\ FabComp(a)!Mode(m) = Mode[Opnd(k, c, m + 1).kind]
       /\ m >= n => ~FabComp(a)!IsImm(m) /\ FabComp(a)!Mode(m) = 0

(* The decoder finds them. *)
LEMMA InstructionWord ==
  ASSUME NEW k, NEW c, NEW n \in 0..3, NEW a, HasWord(k, c, n, a)
  PROVE  WordDecodes(k, c, n, a)
<1>0. /\ At(a) = InstUpTo(k, c, n) /\ src[k].pieces[c + 1].opcode \in 0..44
      /\ \A m \in 1..n : Opnd(k, c, m).kind \in OperandKinds
                      /\ (m = 1 => Opnd(k, c, m).kind # "imm")
  BY DEF HasWord
<1>1. PICK op, w, m0, m1, m2, i1, i2 :
        /\ op = src[k].pieces[c + 1].opcode /\ w = At(a)
        /\ m0 = IF n > 0 THEN Mode[Opnd(k, c, 1).kind] ELSE 0
        /\ m1 = IF n > 1 THEN Mode[Opnd(k, c, 2).kind] ELSE 0
        /\ m2 = IF n > 2 THEN Mode[Opnd(k, c, 3).kind] ELSE 0
        /\ i1 = IF n > 1 /\ Opnd(k, c, 2).kind = "imm" THEN 1 ELSE 0
        /\ i2 = IF n > 2 /\ Opnd(k, c, 3).kind = "imm" THEN 1 ELSE 0
  OBVIOUS
<1>2. /\ op \in 0..44 /\ m0 \in 0..3 /\ m1 \in 0..3 /\ m2 \in 0..3 /\ i1 \in 0..1 /\ i2 \in 0..1
      /\ i1 = 1 => m1 = 0
      /\ i2 = 1 => m2 = 0
  BY <1>0, <1>1, ModeIs
<1>3. w = 256 * op + 128 * i1 + 64 * i2 + 16 * m0 + 4 * m1 + m2
  <2>1. (IF n > 0 THEN First(Opnd(k, c, 1)) ELSE 0) = 16 * m0
    BY <1>0, <1>1 DEF First
  <2>2. (IF n > 1 THEN Second(Opnd(k, c, 2)) ELSE 0) = 128 * i1 + 4 * m1
    BY <1>0, <1>1, <1>2, ModeIs DEF Second
  <2>3. (IF n > 2 THEN Third(Opnd(k, c, 3)) ELSE 0) = 64 * i2 + m2
    BY <1>0, <1>1, <1>2, ModeIs DEF Third
  <2>4. w = 256 * op + 16 * m0 + (128 * i1 + 4 * m1) + (64 * i2 + m2)
    BY <1>0, <1>1, <2>1, <2>2, <2>3 DEF InstUpTo
  <2> QED BY <1>2, <2>4
<1>4. w \in Nat
  BY <1>2, <1>3
<1>5. /\ (w \div 256) % 256 = op /\ (w \div 16) % 4 = m0 /\ (w \div 4) % 4 = m1 /\ w % 4 = m2
      /\ (w \div 128) % 2 = i1 /\ (w \div 64) % 2 = i2
  <2>1. (w \div 256) % 256 = op
    BY <1>2, <1>3
  <2>2. (w \div 16) % 4 = m0
    <3>1. PICK q, r : q = 16 * op + 8 * i1 + 4 * i2 + m0 /\ r = 4 * m1 + m2
      OBVIOUS
    <3>2. q \in Nat /\ r \in 0..15 /\ w = 16 * q + r
      BY <1>2, <1>3, <3>1
    <3>3. w \div 16 = q
      BY <3>2
    <3>4. q % 4 = m0
      BY <1>2, <3>1
    <3> QED BY <3>3, <3>4
  <2>3. (w \div 4) % 4 = m1
    <3>1. PICK q : q = 64 * op + 32 * i1 + 16 * i2 + 4 * m0 + m1
      OBVIOUS
    <3>2. q \in Nat /\ w = 4 * q + m2
      BY <1>2, <1>3, <3>1
    <3>3. w \div 4 = q
      BY <1>2, <3>2
    <3>4. q % 4 = m1
      BY <1>2, <3>1
    <3> QED BY <3>3, <3>4
  <2>4. w % 4 = m2
    BY <1>2, <1>3
  <2>5. (w \div 128) % 2 = i1
    <3>1. PICK q, r : q = 2 * op + i1 /\ r = 64 * i2 + 16 * m0 + 4 * m1 + m2
      OBVIOUS
    <3>2. q \in Nat /\ r \in 0..127 /\ w = 128 * q + r
      BY <1>2, <1>3, <3>1
    <3>3. w \div 128 = q
      BY <3>2
    <3>4. q % 2 = i1
      BY <1>2, <3>1
    <3> QED BY <3>3, <3>4
  <2>6. (w \div 64) % 2 = i2
    <3>1. PICK q, r : q = 4 * op + 2 * i1 + i2 /\ r = 16 * m0 + 4 * m1 + m2
      OBVIOUS
    <3>2. q \in Nat /\ r \in 0..63 /\ w = 64 * q + r
      BY <1>2, <1>3, <3>1
    <3>3. w \div 64 = q
      BY <3>2
    <3>4. q % 2 = i2
      BY <1>2, <3>1
    <3> QED BY <3>3, <3>4
  <2> QED BY <2>1, <2>2, <2>3, <2>4, <2>5, <2>6
<1>6. HeaderIs(w)
  BY <1>4, HeaderFields
<1>7. /\ Field(w, 15, 8) = op /\ Field(w, 5, 4) = m0 /\ Field(w, 3, 2) = m1 /\ Field(w, 1, 0) = m2
      /\ Field(w, 7, 7) = i1 /\ Field(w, 6, 6) = i2
  BY <1>5, <1>6 DEF HeaderIs
<1>8. /\ FabComp(a)!Opcode = op
      /\ FabComp(a)!Mode(0) = m0 /\ FabComp(a)!Mode(1) = m1 /\ FabComp(a)!Mode(2) = m2
      /\ ~FabComp(a)!IsImm(0) /\ (FabComp(a)!IsImm(1) <=> i1 = 1)
      /\ (FabComp(a)!IsImm(2) <=> i2 = 1)
  BY <1>1, <1>7, HeaderRead
<1>9. /\ 0 < n => /\ FabComp(a)!IsImm(0) <=> Opnd(k, c, 0 + 1).kind = "imm"
                  /\ FabComp(a)!Mode(0) = Mode[Opnd(k, c, 0 + 1).kind]
      /\ 0 >= n => ~FabComp(a)!IsImm(0) /\ FabComp(a)!Mode(0) = 0
  BY <1>0, <1>1, <1>8
<1>10. /\ 1 < n => /\ FabComp(a)!IsImm(1) <=> Opnd(k, c, 1 + 1).kind = "imm"
                   /\ FabComp(a)!Mode(1) = Mode[Opnd(k, c, 1 + 1).kind]
       /\ 1 >= n => ~FabComp(a)!IsImm(1) /\ FabComp(a)!Mode(1) = 0
  BY <1>1, <1>8
<1>11. /\ 2 < n => /\ FabComp(a)!IsImm(2) <=> Opnd(k, c, 2 + 1).kind = "imm"
                   /\ FabComp(a)!Mode(2) = Mode[Opnd(k, c, 2 + 1).kind]
       /\ 2 >= n => ~FabComp(a)!IsImm(2) /\ FabComp(a)!Mode(2) = 0
  BY <1>1, <1>8
<1> QED BY <1>1, <1>8, <1>9, <1>10, <1>11 DEF WordDecodes

(* Operand m of an instruction is after those before it. *)
PlaceOf(k, c, m) == Place[k] + 1 + SizeUpTo(k, c, m - 1)

(* Operand m is legal, written in its place and stored there. *)
OperandGood(k, c, m) ==
  LET p == Opnd(k, c, m)
  IN  /\ Written(k)[m] = p /\ p.kind \in OperandKinds /\ PieceAssumption(p) /\ ~TermsFail(p.terms)
      /\ m = 1 => p.kind # "imm"
      /\ Placed(p, PlaceOf(k, c, m))

(* Line k is an instruction of n operands, after c labels. *)
Instruction(k, c, n) ==
  /\ c \in Nat /\ n \in 0..3 /\ Len(Written(k)) = n
  /\ src[k].pieces[c + 1].opcode \in 0..44 /\ Opcode(k) = src[k].pieces[c + 1].opcode
  /\ Place[k] \in Nat /\ Place[k] + 1 <= WORDS /\ Place[k + 1] = Place[k] + 1 + SizeUpTo(k, c, n)
  /\ At(Place[k]) = InstUpTo(k, c, n)
  /\ \A m \in 1..n : OperandGood(k, c, m)

(* Every line with an instruction is one. *)
LEMMA InstructionIs ==
  ASSUME Final, NEW k \in Instructions
  PROVE  \E c, n : Instruction(k, c, n)
<1>1. PICK c, n : Shaped(k, c, n)
  BY DEF Shaped
<1>2. /\ FasmTypeOK /\ k \in Lines /\ src[k].kind = "code" /\ LegalLine(k) /\ LineStored(k)
      /\ Place[k] \in Nat /\ Place[k + 1] = Place[k] + LineSize(k)
      /\ Len(cs) \in Nat /\ Len(cs) <= WORDS
  BY FinalIs DEF Instructions, Has
<1>3. /\ c \in Nat /\ n + 1 \in 0..4 /\ n \in Int /\ n >= 0
      /\ src[k].pieces[c + 1].opcode \in 0..44 /\ Opcode(k) = src[k].pieces[c + 1].opcode
      /\ Len(Written(k)) = n /\ LineSize(k) = 1 + SizeUpTo(k, c, n)
  <2>1. c \in Nat /\ n + 1 \in 0..4 /\ n \in Int /\ n >= 0
    BY <1>1, <1>2, LineShape
  <2>2. src[k].pieces[c + 1].opcode \in 0..44 /\ Opcode(k) = src[k].pieces[c + 1].opcode
    BY <1>1, <1>2, <2>1, LineShape
  <2>3. Len(Written(k)) = n /\ LineSize(k) = 1 + SizeUpTo(k, c, n)
    BY <1>1, <1>2, <2>1, LineShape
  <2> QED BY <2>1, <2>2, <2>3
<1>4. n \in 0..3
  BY <1>3
<1>5. \A m \in 1..n : /\ Written(k)[m] = Opnd(k, c, m) /\ Opnd(k, c, m).kind \in OperandKinds
                      /\ PieceAssumption(Opnd(k, c, m)) /\ ~TermsFail(Opnd(k, c, m).terms)
                      /\ m = 1 => Opnd(k, c, m).kind # "imm"
  BY <1>1, <1>2, LineShape
<1>6. Stored(Place[k], NoLabel, InstUpTo(k, c, n)) /\ OperandsStored(k, c, n, Place[k])
  <2>1. PICK d, e : d = Cardinality(Labels(k)) /\ e = Len(src[k].pieces) - d - 1
    OBVIOUS
  <2>2. d = c /\ e = n
    BY <1>1, <2>1 DEF Shaped
  <2>3. e >= 0 => Stored(Place[k], NoLabel, InstUpTo(k, d, e)) /\ OperandsStored(k, d, e, Place[k])
    BY <1>2, <2>1 DEF LineStored
  <2> QED BY <1>3, <2>2, <2>3
<1>7. At(Place[k]) = InstUpTo(k, c, n) /\ Place[k] + 1 <= WORDS
  <2>1. At(Place[k]) = InstUpTo(k, c, n) /\ Place[k] < Len(cs)
    BY <1>6, WordRead
  <2> QED BY <1>2, <2>1 DEF WORDS
<1>8. ASSUME NEW m \in 1..n PROVE OperandGood(k, c, m)
  <2>1. PICK p, x : p = Opnd(k, c, m) /\ x = PlaceOf(k, c, m)
    OBVIOUS
  <2>2. m - 1 \in 0..2 /\ m - 1 + 1 = m
    BY <1>4
  <2>3. SizeUpTo(k, c, m - 1) \in Nat
    <3>1. PICK j : j = m - 1
      OBVIOUS
    <3>2. j \in 0..2 /\ \A l \in 1..(j + 1) : Opnd(k, c, l).kind \in OperandKinds
      BY <1>4, <1>5, <2>2, <3>1
    <3>3. SizeUpTo(k, c, j) \in Nat
      BY <1>3, <3>2, UpToNext
    <3> QED BY <3>1, <3>3
  <2>4. x \in Nat
    BY <1>2, <2>1, <2>3 DEF PlaceOf
  <2>5. OperandStored(p, x)
    BY <1>6, <2>1 DEF OperandsStored, PlaceOf
  <2>6. Placed(p, x)
    BY <1>5, <2>1, <2>4, <2>5, OperandPlaced
  <2> QED BY <1>5, <2>1, <2>6 DEF OperandGood
<1>9. Place[k + 1] = Place[k] + 1 + SizeUpTo(k, c, n)
  <2>1. SizeUpTo(k, c, n) \in Nat
    <3>1. CASE n = 0
      BY <3>1 DEF SizeUpTo
    <3>2. CASE n \in 1..3
      <4>1. PICK m : m = n - 1
        OBVIOUS
      <4>2. m \in 0..2 /\ m + 1 = n
        BY <3>2, <4>1
      <4>3. SizeUpTo(k, c, m) \in Nat /\ SizeUpTo(k, c, n) = SizeUpTo(k, c, m) + Size(Opnd(k, c, n))
        <5>1. \A l \in 1..(m + 1) : Opnd(k, c, l).kind \in OperandKinds
          BY <1>5, <4>2
        <5>2. SizeUpTo(k, c, m) \in Nat
              /\ SizeUpTo(k, c, m + 1) = SizeUpTo(k, c, m) + Size(Opnd(k, c, m + 1))
          BY <1>3, <4>2, <5>1, UpToNext
        <5> QED BY <4>2, <5>2
      <4> QED BY <4>3 DEF Size
    <3> QED BY <1>4, <3>1, <3>2
  <2> QED BY <1>2, <1>3, <2>1
<1> QED BY <1>2, <1>3, <1>4, <1>7, <1>8, <1>9 DEF Instruction

(* Where the decoder looks for operand m + 1, missing ones included. *)
Position(k, c, n, m) == Place[k] + 1 + SizeUpTo(k, c, IF m < n THEN m ELSE n)

(* One operand of an instruction is decoded to what was written, and the next
   is looked for after it.                                                  *)
StepMeant(d, k, c, n, m, r) ==
  /\ d = [kind |-> d.kind, at |-> d.at, pc |-> d.pc, reg |-> d.reg]
  /\ d.pc = Position(k, c, n, m + 1) % WORDS
  /\ d.reg = Stepped(Written(k), m + 1, r)
  /\ m < n => <<d.kind, d.at>> = Reads(Opnd(k, c, m + 1), r)
  /\ m >= n => d.kind = "none"

(* Reading an operand may step a register. *)
LEMMA SteppedIs ==
  ASSUME NEW s, NEW n \in Nat, NEW r, Len(s) \in Nat, n <= Len(s)
  PROVE  Stepped(s, n, r) = SteppedBy(s[n], r)
<1>1. ~(n > Len(s))
  OBVIOUS
<1> QED BY <1>1 DEF Stepped, SteppedBy

(* The decoder reads operand m + 1 at its place, or nothing if there is none. *)
LEMMA StepDecodes ==
  ASSUME NEW k, NEW c, NEW n, Instruction(k, c, n), NEW m \in 0..2, NEW r
  PROVE  StepMeant(FabComp(Place[k])!Decode(m, Position(k, c, n, m) % WORDS, r), k, c, n, m, r)
<1>1. PICK a, d, x : /\ a = Place[k] /\ x = Position(k, c, n, m) % WORDS
                     /\ d = FabComp(Place[k])!Decode(m, x, r)
  OBVIOUS
<1>2. /\ n \in 0..3 /\ a \in Nat /\ Len(Written(k)) = n
      /\ \A j \in 1..n : OperandGood(k, c, j)
  BY <1>1 DEF Instruction
<1>3. /\ m < n => /\ FabComp(a)!IsImm(m) <=> Opnd(k, c, m + 1).kind = "imm"
                  /\ FabComp(a)!Mode(m) = Mode[Opnd(k, c, m + 1).kind]
      /\ m >= n => ~FabComp(a)!IsImm(m) /\ FabComp(a)!Mode(m) = 0
  <2>1. /\ At(a) = InstUpTo(k, c, n) /\ src[k].pieces[c + 1].opcode \in 0..44
        /\ \A j \in 1..n : Opnd(k, c, j).kind \in OperandKinds
                        /\ (j = 1 => Opnd(k, c, j).kind # "imm")
    BY <1>1 DEF Instruction, OperandGood
  <2>2. WordDecodes(k, c, n, a)
    BY <1>2, <2>1, InstructionWord DEF HasWord
  <2> QED BY <2>2 DEF WordDecodes
<1>4. CASE m < n
  <2>1. PICK p, q : p = Opnd(k, c, m + 1) /\ q = PlaceOf(k, c, m + 1)
    OBVIOUS
  <2>2. m + 1 \in 1..n /\ m + 1 - 1 = m
    BY <1>2, <1>4
  <2>3. /\ Written(k)[m + 1] = p /\ p.kind \in OperandKinds /\ PieceAssumption(p)
        /\ ~TermsFail(p.terms) /\ Placed(p, q)
    BY <1>2, <2>1, <2>2 DEF OperandGood
  <2>4. q \in Nat /\ q + Size(p) <= WORDS /\ Size(p) \in 1..3 /\ WORDS \in Nat
    BY <2>3 DEF Placed, Size, WORDS
  <2>5. Position(k, c, n, m) = q
    BY <1>4, <2>1, <2>2 DEF Position, PlaceOf
  <2>6. x = q
    BY <1>1, <2>4, <2>5
  <2>7. DecodesAs(d, a, p, q, r)
    BY <1>1, <1>3, <1>4, <2>1, <2>3, <2>6, OperandDecodes
  <2>8. d = [kind |-> Reads(p, r)[1], at |-> Reads(p, r)[2], pc |-> (q + Size(p)) % WORDS,
             reg |-> SteppedBy(p, r)]
    BY <2>7 DEF DecodesAs, FabComp!Opnd
  <2>9. Position(k, c, n, m + 1) = q + Size(p)
    <3>1. SizeUpTo(k, c, m + 1) = SizeUpTo(k, c, m) + Size(p) /\ SizeUpTo(k, c, m) \in Nat
      <4>1. src[k].pieces[c + 1].opcode \in 0..44
        BY DEF Instruction
      <4>2. \A j \in 1..(m + 1) : Opnd(k, c, j).kind \in OperandKinds
        BY <1>2, <2>2 DEF OperandGood
      <4> QED BY <2>1, <4>1, <4>2, UpToNext
    <3>2. (IF m + 1 < n THEN m + 1 ELSE n) = m + 1
      BY <1>2, <2>2
    <3>3. Position(k, c, n, m + 1) = a + 1 + SizeUpTo(k, c, m + 1)
      BY <1>1, <3>2 DEF Position
    <3>4. q = a + 1 + SizeUpTo(k, c, m)
      BY <1>1, <2>1, <2>2 DEF PlaceOf
    <3> QED BY <1>2, <2>4, <3>1, <3>3, <3>4, SMTT(30)
  <2>10. Stepped(Written(k), m + 1, r) = SteppedBy(p, r)
    BY <1>2, <2>2, <2>3, SteppedIs
  <2>11. <<Reads(p, r)[1], Reads(p, r)[2]>> = Reads(p, r)
    <3>1. \E u, v : Reads(p, r) = <<u, v>>
      BY <2>3, StandsIs DEF Reads, OperandKinds
    <3> QED BY <3>1
  <2>12. /\ d = [kind |-> d.kind, at |-> d.at, pc |-> d.pc, reg |-> d.reg]
         /\ d.pc = (q + Size(p)) % WORDS /\ d.reg = SteppedBy(p, r)
         /\ d.kind = Reads(p, r)[1] /\ d.at = Reads(p, r)[2]
    BY <2>8
  <2>13. <<d.kind, d.at>> = Reads(p, r)
    BY <2>11, <2>12
  <2>14. ~(m >= n)
    BY <1>2, <1>4
  <2> QED BY <1>1, <2>1, <2>9, <2>10, <2>12, <2>13, <2>14 DEF StepMeant
<1>5. CASE m >= n
  <2>1. d = FabComp(a)!Opnd("none", 0, x, r)
    BY <1>1, <1>3, <1>5, DecodeIs
  <2>2. d = [kind |-> "none", at |-> 0, pc |-> x, reg |-> r]
    BY <2>1 DEF FabComp!Opnd
  <2>3. Position(k, c, n, m + 1) = Position(k, c, n, m)
    BY <1>2, <1>5 DEF Position
  <2>4. Stepped(Written(k), m + 1, r) = r
    BY <1>2, <1>5 DEF Stepped
  <2> QED BY <1>1, <1>2, <1>5, <2>2, <2>3, <2>4 DEF StepMeant
<1> QED BY <1>2, <1>4, <1>5

-----------------------------------------------------------------------------
(* The whole instruction. *)

(* An operand relative to the instruction after it is completed last. *)
Completed(d, a, n, next) ==
  IF d.kind = "mem" /\ FabComp(a)!Mode(n) = 2 THEN [d EXCEPT !.at = Add(@, next)] ELSE d

(* The decoder reads one operand after the other. *)
LEMMA OperandsAre ==
  ASSUME NEW a, NEW d0, NEW d1, NEW d2,
         d0 = FabComp(a)!Decode(0, Add(a, 1), Regs),
         d1 = FabComp(a)!Decode(1, d0.pc, d0.reg), d2 = FabComp(a)!Decode(2, d1.pc, d1.reg)
  PROVE  /\ FabComp(a)!Operands[0] = Completed(d0, a, 0, d2.pc)
         /\ FabComp(a)!Operands[1] = Completed(d1, a, 1, d2.pc)
         /\ FabComp(a)!Operands[2] = Completed(d2, a, 2, d2.pc)
<1>1. FabComp(a)!Decode(0, FabComp(a)!Add(a, 1), Regs) = d0
  BY DecoderWords
<1> DEFINE d(n) == IF n = 0 THEN d0 ELSE IF n = 1 THEN d1 ELSE d2
<1>2. ASSUME NEW n \in 0..2
      PROVE  FabComp(a)!Operands[n] =
               IF d(n).kind = "mem" /\ FabComp(a)!Mode(n) = 2
               THEN [d(n) EXCEPT !.at = FabComp(a)!Add(@, d2.pc)] ELSE d(n)
  <2> DEFINE first == FabComp(a)!Decode(0, FabComp(a)!Add(a, 1), Regs)
             second == FabComp(a)!Decode(1, first.pc, first.reg)
             third == FabComp(a)!Decode(2, second.pc, second.reg)
             ops == [m \in 0..2 |-> CASE m = 0 -> first [] m = 1 -> second [] OTHER -> third]
  <2>1. FabComp(a)!Operands = [m \in 0..2 |-> IF ops[m].kind = "mem" /\ FabComp(a)!Mode(m) = 2
                                 THEN [ops[m] EXCEPT !.at = FabComp(a)!Add(@, third.pc)]
                                 ELSE ops[m]]
    BY Zenon DEF FabComp!Operands
  <2>2. first = d0 /\ second = d1 /\ third = d2
    BY <1>1
  <2> HIDE DEF first, second, third
  <2>3. ops[n] = d(n)
    BY <2>2
  <2> HIDE DEF ops, d
  <2>4. FabComp(a)!Operands[n] = IF ops[n].kind = "mem" /\ FabComp(a)!Mode(n) = 2
                                 THEN [ops[n] EXCEPT !.at = FabComp(a)!Add(@, third.pc)]
                                 ELSE ops[n]
    BY <2>1, Zenon
  <2> QED BY <2>2, <2>3, <2>4, Zenon
<1>3. ASSUME NEW n \in 0..2 PROVE FabComp(a)!Operands[n] = Completed(d(n), a, n, d2.pc)
  <2>1. PICK e : e = d(n)
    OBVIOUS
  <2>2. FabComp(a)!Add(e.at, d2.pc) = Add(e.at, d2.pc)
    BY DecoderWords
  <2> HIDE DEF d
  <2>3. FabComp(a)!Operands[n] =
               IF e.kind = "mem" /\ FabComp(a)!Mode(n) = 2
               THEN [e EXCEPT !.at = FabComp(a)!Add(@, d2.pc)] ELSE e
    BY <1>2, <2>1
  <2>4. FabComp(a)!Operands[n] =
               IF e.kind = "mem" /\ FabComp(a)!Mode(n) = 2
               THEN [e EXCEPT !.at = Add(@, d2.pc)] ELSE e
    BY <2>2, <2>3, Zenon
  <2> QED BY <2>1, <2>4 DEF Completed
<1> QED BY <1>3

(* A relative address is completed; the others are left as they are. *)
LEMMA CompletedMeans ==
  ASSUME NEW d, NEW a, NEW n, NEW next, NEW p, NEW r,
         d = [kind |-> d.kind, at |-> d.at, pc |-> d.pc, reg |-> d.reg],
         <<d.kind, d.at>> = Reads(p, r), p.kind \in OperandKinds, PieceAssumption(p),
         FabComp(a)!Mode(n) = Mode[p.kind]
  PROVE  LET e == Completed(d, a, n, next) IN <<e.kind, e.at>> = Stands(p, r, next)
<1>1. CASE p.kind = "rel"
  <2>1. p.label = NoLabel
    BY <1>1, Zenon DEF PieceAssumption, NoLabel, OperandKinds
  <2>2. d.kind = "mem" /\ d.at = p.value % WORDS
    BY <1>1, <2>1, ValueIs DEF Reads
  <2>3. FabComp(a)!Mode(n) = 2
    BY <1>1 DEF Mode
  <2>4. Completed(d, a, n, next) = [d EXCEPT !.at = Add(@, next)]
    BY <2>2, <2>3 DEF Completed
  <2>5. PICK v : v = Add(p.value % WORDS, next)
    OBVIOUS
  <2>6. [d EXCEPT !.at = Add(@, next)] = [d EXCEPT !.at = v]
    BY <2>2, <2>5, Zenon
  <2>7. PICK e : e = [d EXCEPT !.at = v]
    OBVIOUS
  <2>8. e.kind = "mem" /\ e.at = v
    BY <2>2, <2>7
  <2> QED BY <1>1, <2>4, <2>5, <2>6, <2>7, <2>8, StandsIs
<1>2. CASE p.kind # "rel"
  <2>1. FabComp(a)!Mode(n) # 2
    BY <1>2 DEF Mode, OperandKinds
  <2>2. Completed(d, a, n, next) = d
    BY <2>1 DEF Completed
  <2>3. Stands(p, r, next) = Stands(p, r, 0)
    BY <1>2, StandsIs DEF OperandKinds
  <2> QED BY <1>2, <2>2, <2>3 DEF Reads
<1> QED BY <1>1, <1>2

(* What follows completes only the address. *)
LEMMA CompletedKeeps ==
  ASSUME NEW d, NEW a, NEW n, NEW next,
         d = [kind |-> d.kind, at |-> d.at, pc |-> d.pc, reg |-> d.reg]
  PROVE  LET e == Completed(d, a, n, next)
         IN  e.kind = d.kind /\ e.pc = d.pc /\ e.reg = d.reg
<1>1. PICK v : v = Add(d.at, next)
  OBVIOUS
<1>2. CASE d.kind = "mem" /\ FabComp(a)!Mode(n) = 2
  <2>1. Completed(d, a, n, next) = [d EXCEPT !.at = v]
    BY <1>1, <1>2, Zenon DEF Completed
  <2> QED BY <2>1
<1>3. CASE ~(d.kind = "mem" /\ FabComp(a)!Mode(n) = 2)
  BY <1>3 DEF Completed
<1> QED BY <1>2, <1>3

(* Every instruction decodes to what was written. *)
LEMMA InstructionDecodes ==
  ASSUME Final, NEW k \in Instructions
  PROVE  Decodes(k)
<1>1. PICK c, n : Instruction(k, c, n)
  BY InstructionIs
<1>2. PICK a, next, s : a = Place[k] /\ next = Place[k + 1] % WORDS /\ s = Written(k)
  OBVIOUS
<1>3. PICK d0 : d0 = FabComp(a)!Decode(0, Add(a, 1), Regs)
  OBVIOUS
<1>4. PICK d1 : d1 = FabComp(a)!Decode(1, d0.pc, d0.reg)
  OBVIOUS
<1>5. PICK d2 : d2 = FabComp(a)!Decode(2, d1.pc, d1.reg)
  OBVIOUS
<1>6. /\ n \in 0..3 /\ Len(s) = n /\ a \in Nat /\ a + 1 <= WORDS
      /\ next = Position(k, c, n, 3) % WORDS /\ Add(a, 1) = Position(k, c, n, 0) % WORDS
      /\ \A m \in 1..n : OperandGood(k, c, m)
  <2>1. /\ n \in 0..3 /\ Len(s) = n /\ a \in Nat /\ a + 1 <= WORDS
        /\ Place[k + 1] = a + 1 + SizeUpTo(k, c, n) /\ \A m \in 1..n : OperandGood(k, c, m)
    BY <1>1, <1>2 DEF Instruction
  <2>2. Position(k, c, n, 3) = a + 1 + SizeUpTo(k, c, n)
    <3>1. (IF 3 < n THEN 3 ELSE n) = n
      BY <2>1
    <3> QED BY <1>2, <3>1 DEF Position
  <2>3. Position(k, c, n, 0) = a + 1
    <3>1. (IF 0 < n THEN 0 ELSE n) = 0
      BY <2>1
    <3>2. Position(k, c, n, 0) = a + 1 + SizeUpTo(k, c, 0)
      BY <1>2, <3>1 DEF Position
    <3>3. SizeUpTo(k, c, 0) = 0
      BY DEF SizeUpTo
    <3> QED BY <2>1, <3>2, <3>3
  <2>4. Add(a, 1) = (a + 1) % WORDS
    BY DEF Add
  <2> QED BY <1>2, <2>1, <2>2, <2>3, <2>4
<1>7. StepMeant(d0, k, c, n, 0, Regs)
  <2>1. 0 \in 0..2
    OBVIOUS
  <2> QED BY <1>1, <1>2, <1>3, <1>6, <2>1, StepDecodes
<1>8. d0.pc = Position(k, c, n, 1) % WORDS /\ d0.reg = RegsAfter(s, 1) /\ RegsAfter(s, 0) = Regs
  <2>1. 0 + 1 = 1
    OBVIOUS
  <2> QED BY <1>2, <1>7, <2>1 DEF StepMeant, RegsAfter
<1>9. StepMeant(d1, k, c, n, 1, d0.reg)
  <2>1. 1 \in 0..2
    OBVIOUS
  <2> QED BY <1>1, <1>2, <1>4, <1>8, <2>1, StepDecodes
<1>10. d1.pc = Position(k, c, n, 2) % WORDS /\ d1.reg = RegsAfter(s, 2)
  <2>1. 1 + 1 = 2
    OBVIOUS
  <2> QED BY <1>2, <1>8, <1>9, <2>1 DEF StepMeant, RegsAfter
<1>11. StepMeant(d2, k, c, n, 2, d1.reg)
  <2>1. 2 \in 0..2
    OBVIOUS
  <2> QED BY <1>1, <1>2, <1>5, <1>10, <2>1, StepDecodes
<1>12. d2.pc = next /\ d2.reg = RegsAfter(s, 3)
  <2>1. 2 + 1 = 3
    OBVIOUS
  <2> QED BY <1>2, <1>6, <1>8, <1>10, <1>11, <2>1 DEF StepMeant, RegsAfter
<1>13. PICK read : read = FabComp(a)!Operands
  OBVIOUS
<1>14. /\ read[0] = Completed(d0, a, 0, next) /\ read[1] = Completed(d1, a, 1, next)
       /\ read[2] = Completed(d2, a, 2, next)
  BY <1>3, <1>4, <1>5, <1>12, <1>13, OperandsAre
<1>15. /\ FabComp(a)!Opcode = Opcode(k)
       /\ \A m \in 0..2 : m < n => FabComp(a)!Mode(m) = Mode[Opnd(k, c, m + 1).kind]
  <2>1. /\ At(a) = InstUpTo(k, c, n) /\ src[k].pieces[c + 1].opcode \in 0..44
        /\ Opcode(k) = src[k].pieces[c + 1].opcode
        /\ \A j \in 1..n : Opnd(k, c, j).kind \in OperandKinds
                        /\ (j = 1 => Opnd(k, c, j).kind # "imm")
    BY <1>1, <1>2 DEF Instruction, OperandGood
  <2>2. WordDecodes(k, c, n, a)
    BY <1>6, <2>1, InstructionWord DEF HasWord
  <2> QED BY <2>1, <2>2 DEF WordDecodes
<1>16. read[2].pc = next /\ read[2].reg = RegsAfter(s, 3)
  <2>1. d2 = [kind |-> d2.kind, at |-> d2.at, pc |-> d2.pc, reg |-> d2.reg]
    BY <1>11 DEF StepMeant
  <2> QED BY <1>12, <1>14, <2>1, CompletedKeeps
<1>17. ASSUME NEW m \in 0..2, NEW d, NEW r, StepMeant(d, k, c, n, m, r),
              read[m] = Completed(d, a, m, next), r = RegsAfter(s, m)
       PROVE  IF m < Len(s)
                 THEN <<read[m].kind, read[m].at>> = Stands(s[m + 1], RegsAfter(s, m), next)
              ELSE read[m].kind = "none"
  <2>1. d = [kind |-> d.kind, at |-> d.at, pc |-> d.pc, reg |-> d.reg]
    BY <1>17 DEF StepMeant
  <2>2. CASE m < n
    <3>1. m + 1 \in 1..n
      BY <1>6, <2>2
    <3>2. PICK p : p = Opnd(k, c, m + 1)
      OBVIOUS
    <3>3. s[m + 1] = p /\ p.kind \in OperandKinds /\ PieceAssumption(p)
      BY <1>2, <1>6, <3>1, <3>2 DEF OperandGood
    <3>4. <<d.kind, d.at>> = Reads(p, r) /\ FabComp(a)!Mode(m) = Mode[p.kind]
      BY <1>15, <1>17, <2>2, <3>2 DEF StepMeant
    <3>5. PICK e : e = Completed(d, a, m, next)
      OBVIOUS
    <3>6. <<e.kind, e.at>> = Stands(p, r, next)
      BY <2>1, <3>3, <3>4, <3>5, CompletedMeans
    <3> QED BY <1>6, <1>17, <2>2, <3>3, <3>5, <3>6
  <2>3. CASE ~(m < n)
    <3>1. m >= n
      BY <1>6, <2>3
    <3>2. d.kind = "none"
      BY <1>17, <3>1 DEF StepMeant
    <3>3. read[m].kind = "none"
      BY <1>17, <2>1, <3>2, CompletedKeeps
    <3> QED BY <1>6, <2>3, <3>3
  <2> QED BY <2>2, <2>3
<1>18. \A m \in 0..2 :
         IF m < Len(s) THEN <<read[m].kind, read[m].at>> = Stands(s[m + 1], RegsAfter(s, m), next)
         ELSE read[m].kind = "none"
  <2>1. ASSUME NEW m \in 0..2
        PROVE  \E d, r : /\ StepMeant(d, k, c, n, m, r) /\ read[m] = Completed(d, a, m, next)
                         /\ r = RegsAfter(s, m)
    <3>1. CASE m = 0
      BY <1>7, <1>8, <1>14, <3>1
    <3>2. CASE m = 1
      BY <1>8, <1>9, <1>14, <3>2
    <3>3. CASE m = 2
      BY <1>10, <1>11, <1>14, <3>3
    <3> QED BY <3>1, <3>2, <3>3
  <2> QED BY <1>17, <2>1
<1> QED BY <1>2, <1>13, <1>15, <1>16, <1>18, Zenon DEF Decodes

\* For every source: what is written without a complaint, and fits in memory,
\* is what the source says (fasm.cpp:231-262, 277-521).
THEOREM AlwaysAssemblesMeaning == Spec => []AssemblesMeaning
<1>1. ASSUME BInv PROVE AssemblesMeaning
  <2> SUFFICES ASSUME status = "written" /\ ~reported /\ Len(cs) <= WORDS
               PROVE  /\ Len(cs) = Place[Len(src) + 1]
                      /\ \A k \in Lines : CASE src[k].kind = "directive" -> Holds(k)
                                            [] k \in Instructions -> Decodes(k)
                                            [] OTHER -> TRUE
                      /\ Entry = IF "main" \in Declared THEN Address("main") ELSE 0
    BY DEF AssemblesMeaning
  <2>1. Final
    BY <1>1 DEF Final
  <2>2. Len(cs) = Place[Len(src) + 1]
    BY <2>1, FinalIs
  <2>3. ASSUME NEW k \in Lines
        PROVE  CASE src[k].kind = "directive" -> Holds(k)
                 [] k \in Instructions -> Decodes(k)
                 [] OTHER -> TRUE
    <3>1. k \in Instructions => src[k].kind # "directive"
      BY DEF Instructions, Has
    <3>2. k \in Instructions => Decodes(k)
      BY <2>1, InstructionDecodes
    <3>3. src[k].kind = "directive" => Holds(k)
      BY <2>1, DirectiveHolds
    <3> QED BY <3>1, <3>2, <3>3
  <2>4. Entry = IF "main" \in Declared THEN Address("main") ELSE 0
    BY <2>1, SymbTabIs DEF Entry
  <2> QED BY <2>2, <2>3, <2>4
<1> QED BY <1>1, BInvAlways, PTL
=============================================================================
