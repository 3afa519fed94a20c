--------------------------- MODULE RtlParserProofs ---------------------------
(***************************************************************************)
(* For every set of listings that are well nested and well named: the      *)
(* address the script counts is the number of lines it has written, a line *)
(* refers to a shell variable only while its construct is open, and the    *)
(* two files are the images that the structure of the listing calls for.   *)
(*                                                                         *)
(* The images need an inductive invariant about what is not finished yet:  *)
(* LinesOK says of each line read what has been written of it, which for a *)
(* jump of an open construct is a reference to a shell variable, and what  *)
(* that variable holds; SlotsOK, TableOK and PlacesOK say what the         *)
(* variables and the two columns of the jump table hold, and CountsOK what *)
(* the counters count.                                                     *)
(***************************************************************************)
EXTENDS RtlParser, FiniteSetTheorems, WellFoundedInduction, TLAPS

-----------------------------------------------------------------------------
(* What the script has done with the lines it has read. *)

(* How many microinstructions line t is. *)
Size(L, t) == IF L[t].kind \in NoCodeKinds THEN 0 ELSE IF L[t].kind = "elif" THEN 2 ELSE 1

(* The label that the script makes for line m. *)
LabelOf(L, m) ==
  CASE L[m].kind = "loop" -> <<"loop", Before(L, m, {"loop"})>>
    [] L[m].kind = "fi"   -> <<"fi", Before(L, m, {"fi"})>>
    [] OTHER              -> <<"else", Before(L, m, ElseKinds)>>

(* Where the row of line m points. *)
Landing(L, m) == Address(L, m) + (IF L[m].kind \in ElseKinds THEN 1 ELSE 0)

(* Line k is of the construct of line t, and of the given kinds. *)
Fellow(L, t, k, kinds) == L[k].kind \in kinds /\ Nesting(L, k) = Nesting(L, t)

(* No such line is between t and j, and c is the first after t. *)
NoneYet(L, t, j, kinds) == \A k \in (t + 1)..(j - 1) : ~Fellow(L, t, k, kinds)
IsNext(L, t, c, kinds)  == t < c /\ Fellow(L, t, c, kinds) /\ NoneYet(L, t, c, kinds)

(* The loop that the until of line t closes. *)
IsLoopOf(L, t, m) == m < t /\ Fellow(L, t, m, {"loop"}) /\ NoneYet(L, m, t, {"loop"})

(* A jump of line t to the next of the given kinds is resolved. *)
Resolved(L, t, j, e, kinds) ==
  e.lvl = 0 /\ \E c \in 1..(j - 1) : IsNext(L, t, c, kinds) /\ e.dest = LabelOf(L, c)

(* The line e written for the test of an if or an elif, the leave of an elif or
   an else, an until, and any other line, when the script is at line j.       *)
TestOK(L, t, j, e, sv, ar) ==
  LET lvl == Nesting(L, t)
  IN  /\ e.kind = L[t].kind /\ e.text = L[t].text
      /\ StaysOpen(L, t, j) =>
           /\ e.lvl = lvl /\ e.k \in 1..sv[lvl]
           /\ e.k = sv[lvl] => NoneYet(L, t, j, ClauseKinds)
           /\ e.k # sv[lvl] => \E c \in 1..(j - 1) : /\ IsNext(L, t, c, ClauseKinds)
                                                     /\ Lookup(ar, lvl, e.k) = LabelOf(L, c)
      /\ ~StaysOpen(L, t, j) => Resolved(L, t, j, e, ClauseKinds)

LeaveOK(L, t, j, e) ==
  /\ e.kind = "else"
  /\ StaysOpen(L, t, j) => e.lvl = Nesting(L, t) /\ e.k = 0
  /\ ~StaysOpen(L, t, j) => Resolved(L, t, j, e, {"fi"})

UntilOK(L, t, e) ==
  /\ e.kind = "until" /\ e.text = L[t].text /\ e.lvl = 0
  /\ \E m \in 1..(t - 1) : IsLoopOf(L, t, m) /\ e.dest = LabelOf(L, m)

PlainOK(L, t, e) == e.kind = L[t].kind /\ e.text = L[t].text /\ e.lvl = 0

JumpKinds == {"if", "elif", "else", "until"}

(* What is written of line t. *)
LineOK(L, t, j, file, sv, ar) ==
  LET p == Address(L, t) + 1
  IN  /\ L[t].kind = "if"    => TestOK(L, t, j, file[p], sv, ar)
      /\ L[t].kind = "elif"  => LeaveOK(L, t, j, file[p]) /\ TestOK(L, t, j, file[p + 1], sv, ar)
      /\ L[t].kind = "else"  => LeaveOK(L, t, j, file[p])
      /\ L[t].kind = "until" => UntilOK(L, t, file[p])
      /\ L[t].kind \notin NoCodeKinds \cup JumpKinds => PlainOK(L, t, file[p])

LinesOK == \A t \in 1..(n - 1) : LineOK(listing, t, n, microtemp, saved, arr)

CountsOK == /\ loops = Before(listing, n, {"loop"})
            /\ elses = Before(listing, n, ElseKinds)
            /\ fis = Before(listing, n, {"fi"})
            /\ address = Address(listing, n)

SlotsOK == /\ \A lvl \in 1..level : lvl \in DOMAIN saved /\ saved[lvl] \in Nat \ {0}
           /\ \A m \in 1..(n - 1) : listing[m].kind = "loop" /\ StaysOpen(listing, m, n) =>
                Lookup(arr, Nesting(listing, m), 1) = LabelOf(listing, m)

RowsOK == /\ Len(jumptable) = Before(listing, Len(listing) + 1, NameKinds) + Before(listing, n, MarkKinds)
          /\ \A m \in DOMAIN listing : listing[m].kind \in NameKinds =>
               jumptable[Row(listing, m) + 1] = Named(listing[m].text)
          /\ \A m \in 1..(n - 1) : listing[m].kind \in MarkKinds =>
               jumptable[Row(listing, m) + 1] = LabelOf(listing, m)

PlacesOK == \A m \in 1..(n - 1) :
  /\ listing[m].kind \in MarkKinds => /\ LabelOf(listing, m) \in DOMAIN at
                                      /\ at[LabelOf(listing, m)] = Landing(listing, m)
  /\ listing[m].kind = "label" => /\ Named(listing[m].text) \in DOMAIN at
                                  /\ at[Named(listing[m].text)] = Address(listing, m)

(* Induction, for a set of numbers (that of the library takes a predicate). *)
LEMMA NatSetInduction ==
  ASSUME NEW S, 0 \in S, \A k \in Nat : k \in S => k + 1 \in S
  PROVE  Nat \subseteq S
<1> DEFINE T == Nat \ S
           R == {ss \in Nat \X Nat : ss[1] < ss[2]}
<1> SUFFICES ASSUME T # {} PROVE FALSE
  OBVIOUS
<1>1. IsWellFoundedOn(R, Nat)
  BY NatLessThanWellFounded, Zenon DEF OpToRel
<1>2. PICK x \in T : \A y \in T : ~(<<y, x>> \in R)
  <2>1. T \subseteq Nat
    OBVIOUS
  <2> HIDE DEF T, R
  <2> QED BY <1>1, <2>1, WFMin
<1>3. x \in Nat \ {0} /\ x - 1 \in Nat /\ x - 1 < x
  OBVIOUS
<1>4. x - 1 \in T
  BY <1>3
<1>5. <<x - 1, x>> \in R
  BY <1>3
<1> QED BY <1>2, <1>4, <1>5

(* Counting constructs. *)

(* The lines counted are finitely many. *)
LEMMA BeforeFinite ==
  ASSUME NEW L, NEW k \in Nat, NEW kinds
  PROVE  IsFiniteSet({m \in 1..(k - 1) : L[m].kind \in kinds})
<1> DEFINE lines == {m \in 1..(k - 1) : L[m].kind \in kinds}
<1>1. IsFiniteSet(1..(k - 1))
  BY FS_Interval
<1>2. lines \in SUBSET (1..(k - 1))
  OBVIOUS
<1> HIDE DEF lines
<1>3. IsFiniteSet(lines)
  BY <1>1, <1>2, FS_Subset
<1> QED BY <1>3 DEF lines

(* No line is before the first, and line k is one more before line k + 1. *)
LEMMA BeforeSteps ==
  ASSUME NEW L, NEW k \in Nat \ {0}, NEW kinds
  PROVE  /\ Before(L, 1, kinds) = 0
         /\ Before(L, k, kinds) \in Nat
         /\ Before(L, k + 1, kinds) = Before(L, k, kinds) + (IF L[k].kind \in kinds THEN 1 ELSE 0)
<1> DEFINE upto(j) == {m \in 1..(j - 1) : L[m].kind \in kinds}
<1>1. upto(1) = {}
  OBVIOUS
<1>2. upto(k + 1) = IF L[k].kind \in kinds THEN upto(k) \cup {k} ELSE upto(k)
  OBVIOUS
<1>3. IsFiniteSet(upto(k)) /\ k \notin upto(k)
  BY BeforeFinite
<1>4. \A j : Before(L, j, kinds) = Cardinality(upto(j))
  BY DEF Before
<1> HIDE DEF upto
<1>5. Cardinality(upto(k)) \in Nat
  BY <1>3, FS_CardinalityType
<1>6. Cardinality(upto(k) \cup {k}) = Cardinality(upto(k)) + 1
  BY <1>3, FS_AddElement
<1>7. Cardinality(upto(1)) = 0
  BY <1>1, FS_EmptySet
<1> QED BY <1>2, <1>4, <1>5, <1>6, <1>7

(* More lines are before a later line. *)
LEMMA BeforeGrows ==
  ASSUME NEW L, NEW j \in Nat \ {0}, NEW k \in Nat \ {0}, j < k, NEW kinds
  PROVE  /\ Before(L, j, kinds) \in Nat /\ Before(L, k, kinds) \in Nat
         /\ Before(L, j, kinds) <= Before(L, k, kinds)
         /\ L[j].kind \in kinds => Before(L, j, kinds) < Before(L, k, kinds)
<1> DEFINE upto(i) == {m \in 1..(i - 1) : L[m].kind \in kinds}
<1>1. upto(j + 1) \subseteq upto(k)
  OBVIOUS
<1>2. IsFiniteSet(upto(k))
  BY BeforeFinite
<1>3. \A i : Before(L, i, kinds) = Cardinality(upto(i))
  BY DEF Before
<1> HIDE DEF upto
<1>4. Cardinality(upto(j + 1)) <= Cardinality(upto(k))
  BY <1>1, <1>2, FS_Subset
<1>5. Before(L, j + 1, kinds) = Before(L, j, kinds) + (IF L[j].kind \in kinds THEN 1 ELSE 0)
      /\ Before(L, j, kinds) \in Nat
  BY BeforeSteps
<1>6. Before(L, k, kinds) \in Nat
  BY BeforeSteps
<1> QED BY <1>3, <1>4, <1>5, <1>6

(* So that lines of the same kinds are told apart by their number. *)
LEMMA BeforeInjective ==
  ASSUME NEW L, NEW j \in Nat \ {0}, NEW k \in Nat \ {0}, NEW kinds,
         L[j].kind \in kinds, L[k].kind \in kinds, Before(L, j, kinds) = Before(L, k, kinds)
  PROVE  j = k
<1>1. ASSUME j < k PROVE FALSE
  BY <1>1, BeforeGrows
<1>2. ASSUME k < j PROVE FALSE
  BY <1>2, BeforeGrows
<1> QED BY <1>1, <1>2

(* How many constructs are open changes where one opens or closes. *)
LEMMA OpenedSteps ==
  ASSUME NEW L, NEW k \in Nat \ {0}
  PROVE  /\ Opened(L, 1) = 0
         /\ Opened(L, k) \in Int
         /\ Opened(L, k + 1) = Opened(L, k) + (IF L[k].kind \in OpenKinds THEN 1 ELSE 0)
                                            - (IF L[k].kind \in CloseKinds THEN 1 ELSE 0)
  BY BeforeSteps DEF Opened

(* A line that opens a construct is one deeper than the constructs around it. *)
LEMMA NestingIs ==
  ASSUME NEW L, NEW k \in Nat \ {0}
  PROVE  /\ Nesting(L, k) \in Int /\ Opened(L, k) \in Int
         /\ Nesting(L, k) = Opened(L, k) + (IF L[k].kind \in OpenKinds THEN 1 ELSE 0)
  BY BeforeSteps DEF Opened, Nesting

(* The kinds of lines are what they are. *)
LEMMA Closers == \A x \in CloseKinds : x \notin OpenKinds
  BY Zenon DEF OpenKinds, CloseKinds

LEMMA ClausesDoNotOpen == \A x \in ClauseKinds : x \notin OpenKinds
  BY Zenon DEF ClauseKinds, ElseKinds, OpenKinds

(* A listing is a sequence. *)
LEMMA ListingShape ==
  ASSUME NEW L, WellNested(L)
  PROVE  Len(L) \in Nat /\ DOMAIN L = 1..Len(L)
<1>1. L \in Seq({L[k] : k \in DOMAIN L})
  BY Zenon DEF WellNested
<1> QED BY <1>1

(* Every line that closes a construct is in one. *)
LEMMA CloserHasOpener ==
  ASSUME NEW L, WellNested(L), NEW k \in DOMAIN L, L[k].kind \in CloseKinds
  PROVE  \E m \in 1..(k - 1) : L[m].kind \in OpenKinds /\ Nesting(L, m) = Nesting(L, k)
<1>1. CASE L[k].kind = "fi"
  <2>1. L[k].kind \in ClauseKinds
    BY <1>1, Zenon DEF ClauseKinds
  <2>2. Encloses(L, "if", k)
    BY <2>1, Zenon DEF WellNested
  <2> QED BY <2>2, Zenon DEF Encloses, OpenKinds
<1>2. CASE L[k].kind = "until"
  <2>1. Encloses(L, "loop", k)
    BY <1>2, Zenon DEF WellNested
  <2> QED BY <2>1, Zenon DEF Encloses, OpenKinds
<1> QED BY <1>1, <1>2, Zenon DEF CloseKinds

(* No more constructs are closed than opened. *)
LEMMA OpenedNatural ==
  ASSUME NEW L, WellNested(L)
  PROVE  \A k \in 1..(Len(L) + 1) : Opened(L, k) \in Nat
<1> DEFINE S == {k \in Nat : \A j \in 1..(k + 1) : j <= Len(L) + 1 => Opened(L, j) \in Nat}
<1>0. Len(L) \in Nat /\ DOMAIN L = 1..Len(L)
  BY ListingShape
<1>1. 0 \in S
  <2>1. Opened(L, 1) = 0
    BY OpenedSteps
  <2> QED BY <2>1
<1>2. ASSUME NEW k \in Nat, k \in S PROVE k + 1 \in S
  <2> SUFFICES ASSUME k + 2 <= Len(L) + 1 PROVE Opened(L, k + 2) \in Nat
    BY <1>2, <1>0
  <2>1. k + 1 \in DOMAIN L /\ k + 1 \in Nat \ {0} /\ (k + 1) + 1 = k + 2
    BY <1>0
  <2>2. Opened(L, k + 2) = Opened(L, k + 1) + (IF L[k + 1].kind \in OpenKinds THEN 1 ELSE 0)
                                            - (IF L[k + 1].kind \in CloseKinds THEN 1 ELSE 0)
    BY <2>1, OpenedSteps
  <2>3. \A j \in 1..(k + 1) : Opened(L, j) \in Nat
    BY <1>2, <1>0
  <2>4. ASSUME L[k + 1].kind \in CloseKinds PROVE Opened(L, k + 1) > 0
    <3>1. PICK m \in 1..k : L[m].kind \in OpenKinds /\ Nesting(L, m) = Nesting(L, k + 1)
      BY <2>1, <2>4, CloserHasOpener
    <3>2. Nesting(L, m) = Opened(L, m) + 1
      BY <3>1, NestingIs
    <3>3. Nesting(L, k + 1) = Opened(L, k + 1)
      <4>1. L[k + 1].kind \notin OpenKinds
        BY <2>4, Closers, Zenon
      <4> QED BY <2>1, <4>1, NestingIs
    <3> QED BY <2>3, <3>1, <3>2, <3>3
  <2> QED BY <2>2, <2>3, <2>4
<1>3. Nat \subseteq S
  <2> HIDE DEF S
  <2> QED BY <1>1, <1>2, NatSetInduction
<1> QED BY <1>0, <1>3

(* A line that closes a construct is in the innermost one. *)
LEMMA CloserInside ==
  ASSUME NEW L, WellNested(L), NEW k \in DOMAIN L, L[k].kind \in CloseKinds
  PROVE  Opened(L, k) > 0 /\ Nesting(L, k) = Opened(L, k)
<1>1. k \in Nat \ {0} /\ k \in 1..(Len(L) + 1) /\ k - 1 \in Nat /\ k + 1 \in 1..(Len(L) + 1)
  BY ListingShape
<1>k. L[k].kind \notin OpenKinds
  BY Closers, Zenon
<1>2. Nesting(L, k) = Opened(L, k)
  BY <1>1, <1>k, NestingIs
<1>3. Opened(L, k + 1) = Opened(L, k) - 1 /\ Opened(L, k) \in Int
  <2>1. Opened(L, k + 1) = Opened(L, k) + (IF L[k].kind \in OpenKinds THEN 1 ELSE 0)
                                        - (IF L[k].kind \in CloseKinds THEN 1 ELSE 0)
        /\ Opened(L, k) \in Int
    BY <1>1, OpenedSteps
  <2> QED BY <1>k, <2>1
<1> QED BY <1>1, <1>2, <1>3, OpenedNatural

-----------------------------------------------------------------------------
(* Addresses. *)

(* Line k takes as many addresses as it is microinstructions. *)
LEMMA AddressSteps ==
  ASSUME NEW L, NEW k \in Nat \ {0}
  PROVE  /\ Address(L, 1) = 0 /\ Address(L, k) \in Int /\ Size(L, k) \in 0..2
         /\ Address(L, k + 1) = Address(L, k) + Size(L, k)
<1>1. "elif" \notin NoCodeKinds
  BY Zenon DEF NoCodeKinds, NameKinds
<1>2. /\ Before(L, 1, NoCodeKinds) = 0 /\ Before(L, 1, {"elif"}) = 0
      /\ Before(L, k, NoCodeKinds) \in Nat /\ Before(L, k, {"elif"}) \in Nat
      /\ Before(L, k + 1, NoCodeKinds) = Before(L, k, NoCodeKinds) + (IF L[k].kind \in NoCodeKinds THEN 1 ELSE 0)
      /\ Before(L, k + 1, {"elif"}) = Before(L, k, {"elif"}) + (IF L[k].kind \in {"elif"} THEN 1 ELSE 0)
  BY BeforeSteps
<1> QED BY <1>1, <1>2 DEF Address, Size

LEMMA AddressNatural ==
  ASSUME NEW L, NEW k \in Nat \ {0}
  PROVE  Address(L, k) \in Nat
<1> DEFINE S == {i \in Nat : Address(L, i + 1) \in Nat}
<1>1. 0 \in S
  BY AddressSteps
<1>2. ASSUME NEW i \in Nat, i \in S PROVE i + 1 \in S
  <2>1. i + 1 \in Nat \ {0}
    OBVIOUS
  <2>2. Address(L, (i + 1) + 1) = Address(L, i + 1) + Size(L, i + 1) /\ Size(L, i + 1) \in 0..2
    BY <2>1, AddressSteps
  <2> QED BY <1>2, <2>2
<1>3. Nat \subseteq S
  <2> HIDE DEF S
  <2> QED BY <1>1, <1>2, NatSetInduction
<1>4. k - 1 \in S /\ (k - 1) + 1 = k
  <2> HIDE DEF S
  <2> QED BY <1>3
<1> QED BY <1>4

(* Later lines come later. *)
LEMMA AddressGrows ==
  ASSUME NEW L, NEW j \in Nat \ {0}, NEW k \in Nat \ {0}, j < k
  PROVE  Address(L, j) + Size(L, j) <= Address(L, k)
<1> DEFINE S == {i \in Nat : Address(L, j) + Size(L, j) <= Address(L, j + 1 + i)}
<1>1. 0 \in S
  BY AddressSteps
<1>2. ASSUME NEW i \in Nat, i \in S PROVE i + 1 \in S
  <2>1. j + 1 + i \in Nat \ {0} /\ j + 1 + (i + 1) = (j + 1 + i) + 1
    OBVIOUS
  <2>2. /\ Address(L, j + 1 + (i + 1)) = Address(L, j + 1 + i) + Size(L, j + 1 + i)
        /\ Size(L, j + 1 + i) \in 0..2 /\ Address(L, j + 1 + i) \in Int
    BY <2>1, AddressSteps
  <2>3. Address(L, j) \in Int /\ Size(L, j) \in 0..2
    BY AddressSteps
  <2> QED BY <1>2, <2>2, <2>3
<1>3. Nat \subseteq S
  <2> HIDE DEF S
  <2> QED BY <1>1, <1>2, NatSetInduction
<1>4. k - j - 1 \in Nat /\ j + 1 + (k - j - 1) = k
  OBVIOUS
<1>5. k - j - 1 \in S
  <2> HIDE DEF S
  <2> QED BY <1>3, <1>4
<1>6. Address(L, j) + Size(L, j) <= Address(L, j + 1 + (k - j - 1))
  BY <1>5
<1> QED BY <1>4, <1>6

(* Every address below that of line k is of a line before it. *)
LEMMA AddressCovered ==
  ASSUME NEW L, NEW k \in Nat \ {0}, NEW a \in Nat, a < Address(L, k)
  PROVE  \E t \in 1..(k - 1) : Address(L, t) <= a /\ a < Address(L, t) + Size(L, t)
<1> DEFINE S == {i \in Nat : a < Address(L, i + 1) =>
                   \E t \in 1..i : Address(L, t) <= a /\ a < Address(L, t) + Size(L, t)}
<1>1. 0 \in S
  BY AddressSteps
<1>2. ASSUME NEW i \in Nat, i \in S PROVE i + 1 \in S
  <2>1. i + 1 \in Nat \ {0} /\ i + 1 \in 1..(i + 1) /\ 1..i \subseteq 1..(i + 1)
    OBVIOUS
  <2>2. Address(L, (i + 1) + 1) = Address(L, i + 1) + Size(L, i + 1) /\ Address(L, i + 1) \in Int
    BY <2>1, AddressSteps
  <2>3. CASE a < Address(L, i + 1)
    BY <1>2, <2>1, <2>3
  <2>4. CASE ~(a < Address(L, i + 1))
    BY <2>1, <2>2, <2>4
  <2> QED BY <2>3, <2>4
<1>3. Nat \subseteq S
  <2> HIDE DEF S
  <2> QED BY <1>1, <1>2, NatSetInduction
<1>4. k - 1 \in S /\ (k - 1) + 1 = k
  BY <1>3
<1> QED BY <1>4

-----------------------------------------------------------------------------
(* Open constructs. *)

(* A construct stays open over line j when it is still open after it. *)
LEMMA StaysOpenSteps ==
  ASSUME NEW L, NEW t \in Nat \ {0}, NEW j \in Nat \ {0}, t < j
  PROVE  /\ StaysOpen(L, t, j) => Opened(L, j) >= Nesting(L, t)
         /\ StaysOpen(L, t, j + 1) <=> StaysOpen(L, t, j) /\ Opened(L, j + 1) >= Nesting(L, t)
  BY DEF StaysOpen

(* A construct is open after its first line, and after its other clauses. *)
LEMMA OpenAtOnce ==
  ASSUME NEW L, NEW t \in Nat \ {0}, L[t].kind \notin CloseKinds
  PROVE  StaysOpen(L, t, t + 1)
<1>1. Opened(L, t + 1) = Opened(L, t) + (IF L[t].kind \in OpenKinds THEN 1 ELSE 0)
                                      - (IF L[t].kind \in CloseKinds THEN 1 ELSE 0)
  BY OpenedSteps
<1>2. Nesting(L, t) = Opened(L, t) + (IF L[t].kind \in OpenKinds THEN 1 ELSE 0)
      /\ Opened(L, t) \in Int
  BY NestingIs
<1>3. Opened(L, t + 1) >= Nesting(L, t)
  BY <1>1, <1>2
<1> QED BY <1>3 DEF StaysOpen

(* A level is of one construct at a time. *)
LEMMA OneOpener ==
  ASSUME NEW L, NEW j \in Nat \ {0}, NEW m1 \in 1..(j - 1), NEW m2 \in 1..(j - 1),
         L[m1].kind \in OpenKinds, L[m2].kind \in OpenKinds,
         Nesting(L, m1) = Nesting(L, m2), StaysOpen(L, m1, j), StaysOpen(L, m2, j)
  PROVE  m1 = m2
<1>1. /\ Nesting(L, m1) = Opened(L, m1) + 1 /\ Opened(L, m1) \in Int
      /\ Nesting(L, m2) = Opened(L, m2) + 1 /\ Opened(L, m2) \in Int
  BY NestingIs
<1>2. ASSUME m1 < m2 PROVE FALSE
  <2>1. m2 \in (m1 + 1)..j
    BY <1>2
  <2>2. Opened(L, m2) >= Nesting(L, m1)
    BY <2>1 DEF StaysOpen
  <2>3. Nesting(L, m1) = Opened(L, m2) + 1 /\ Opened(L, m2) \in Int
    BY <1>1
  <2> QED BY <2>2, <2>3
<1>3. ASSUME m2 < m1 PROVE FALSE
  <2>1. m1 \in (m2 + 1)..j
    BY <1>3
  <2>2. Opened(L, m1) >= Nesting(L, m2)
    BY <2>1 DEF StaysOpen
  <2>3. Nesting(L, m2) = Opened(L, m1) + 1 /\ Opened(L, m1) \in Int
    BY <1>1
  <2> QED BY <2>2, <2>3
<1> QED BY <1>2, <1>3

(* The if of a clause that is still open. *)
IsIfOf(L, j, m, lvl) == /\ m \in 1..(j - 1) /\ L[m].kind = "if"
                        /\ Nesting(L, m) = lvl /\ StaysOpen(L, m, j)

(* The if of a clause, and of a line that is still open. *)
LEMMA IfOfClause ==
  ASSUME NEW L, WellNested(L), NEW t \in DOMAIN L, L[t].kind \in ClauseKinds
  PROVE  \E m : IsIfOf(L, t, m, Nesting(L, t))
<1>1. Encloses(L, "if", t)
  BY Zenon DEF WellNested
<1> QED BY <1>1, Zenon DEF Encloses, IsIfOf

LEMMA IfOfOpen ==
  ASSUME NEW L, WellNested(L), NEW t \in DOMAIN L, L[t].kind \in {"if", "elif", "else"},
         NEW j \in Nat, t < j, StaysOpen(L, t, j)
  PROVE  \E m : IsIfOf(L, j, m, Nesting(L, t))
<1>0. t \in Nat \ {0}
  BY ListingShape
<1>1. CASE L[t].kind = "if"
  <2>1. t \in 1..(j - 1)
    BY <1>0
  <2> QED BY <1>1, <2>1, Zenon DEF IsIfOf
<1>2. CASE L[t].kind \in ClauseKinds
  <2>1. PICK m : IsIfOf(L, t, m, Nesting(L, t))
    BY <1>2, IfOfClause
  <2>2. m \in 1..(t - 1) /\ L[m].kind = "if" /\ Nesting(L, m) = Nesting(L, t) /\ StaysOpen(L, m, t)
    BY <2>1, Zenon DEF IsIfOf
  <2>3. StaysOpen(L, m, j)
    BY <1>0, <2>2 DEF StaysOpen
  <2>4. m \in 1..(j - 1)
    BY <1>0, <2>2
  <2> QED BY <2>2, <2>3, <2>4, Zenon DEF IsIfOf
<1> QED BY <1>1, <1>2, Zenon DEF ClauseKinds, ElseKinds

(* Nothing of an if is open when an until comes, at its level, *)
LEMMA NoIfAtUntil ==
  ASSUME NEW L, WellNested(L), NEW t \in DOMAIN L, L[t].kind \in {"if", "elif", "else"},
         NEW j \in DOMAIN L, t < j, StaysOpen(L, t, j), L[j].kind = "until"
  PROVE  Nesting(L, t) # Opened(L, j)
<1> SUFFICES ASSUME Nesting(L, t) = Opened(L, j) PROVE FALSE
  OBVIOUS
<1>0. j \in Nat \ {0}
  BY ListingShape
<1>1. PICK m1 : IsIfOf(L, j, m1, Nesting(L, t))
  BY <1>0, IfOfOpen
<1>2. Encloses(L, "loop", j)
  BY Zenon DEF WellNested
<1>3. PICK m2 \in 1..(j - 1) : L[m2].kind = "loop" /\ Nesting(L, m2) = Nesting(L, j) /\ StaysOpen(L, m2, j)
  BY <1>2, Zenon DEF Encloses
<1>4. "until" \in CloseKinds /\ "if" \in OpenKinds /\ "loop" \in OpenKinds /\ "if" # "loop"
  BY Zenon DEF CloseKinds, OpenKinds
<1>5. Nesting(L, j) = Opened(L, j)
  BY <1>4, CloserInside
<1>6. m1 = m2
  <2>1. m1 \in 1..(j - 1) /\ L[m1].kind \in OpenKinds /\ Nesting(L, m1) = Nesting(L, t) /\ StaysOpen(L, m1, j)
    BY <1>1, <1>4, Zenon DEF IsIfOf
  <2>2. L[m2].kind \in OpenKinds /\ Nesting(L, m1) = Nesting(L, m2)
    BY <1>3, <1>4, <1>5, <2>1
  <2> QED BY <1>0, <1>3, <2>1, <2>2, OneOpener
<1> QED BY <1>1, <1>3, <1>4, <1>6, Zenon DEF IsIfOf

(* and no loop is open at the level of a clause. *)
LEMMA NoLoopAtClause ==
  ASSUME NEW L, WellNested(L), NEW j \in DOMAIN L, L[j].kind \in ClauseKinds,
         NEW m \in 1..(j - 1), L[m].kind = "loop", StaysOpen(L, m, j)
  PROVE  Nesting(L, m) # Opened(L, j)
<1> SUFFICES ASSUME Nesting(L, m) = Opened(L, j) PROVE FALSE
  OBVIOUS
<1>0. j \in Nat \ {0}
  BY ListingShape
<1>1. PICK m1 : IsIfOf(L, j, m1, Nesting(L, j))
  BY IfOfClause
<1>2. "if" \in OpenKinds /\ "loop" \in OpenKinds /\ "if" # "loop"
  BY Zenon DEF OpenKinds
<1>3. Nesting(L, j) = Opened(L, j)
  <2>1. L[j].kind \notin OpenKinds
    BY ClausesDoNotOpen, Zenon
  <2> QED BY <1>0, <2>1, NestingIs
<1>4. m1 \in 1..(j - 1) /\ L[m1].kind \in OpenKinds /\ Nesting(L, m1) = Nesting(L, j) /\ StaysOpen(L, m1, j)
      /\ L[m].kind \in OpenKinds
  BY <1>1, <1>2, Zenon DEF IsIfOf
<1>5. m1 = m
  BY <1>0, <1>3, <1>4, OneOpener
<1> QED BY <1>1, <1>2, <1>5, Zenon DEF IsIfOf

(* The level of a clause is open, and is that of its if. *)
LEMMA ClauseInside ==
  ASSUME NEW L, WellNested(L), NEW j \in DOMAIN L, L[j].kind \in ClauseKinds
  PROVE  Nesting(L, j) = Opened(L, j) /\ Opened(L, j) \in Nat \ {0}
<1>0. j \in Nat \ {0} /\ j \in 1..(Len(L) + 1)
  BY ListingShape
<1>1. L[j].kind \notin OpenKinds
  BY ClausesDoNotOpen, Zenon
<1>2. Nesting(L, j) = Opened(L, j) /\ Opened(L, j) \in Int
  BY <1>0, <1>1, NestingIs
<1>3. PICK m : IsIfOf(L, j, m, Nesting(L, j))
  BY IfOfClause
<1>4. m \in 1..(j - 1) /\ L[m].kind \in OpenKinds /\ Nesting(L, m) = Nesting(L, j)
  BY <1>3, Zenon DEF IsIfOf, OpenKinds
<1>5. Nesting(L, m) = Opened(L, m) + 1 /\ m \in 1..(Len(L) + 1)
  BY <1>0, <1>4, NestingIs, ListingShape
<1>6. Opened(L, m) \in Nat
  BY <1>5, OpenedNatural
<1> QED BY <1>2, <1>4, <1>5, <1>6

(* Between a clause and the fi of its if there is no other fi of that level. *)
LEMMA NoFiYet ==
  ASSUME NEW L, WellNested(L), NEW t \in DOMAIN L, NEW j \in DOMAIN L, t < j, StaysOpen(L, t, j)
  PROVE  NoneYet(L, t, j, {"fi"})
<1>0. DOMAIN L = 1..Len(L) /\ Len(L) \in Nat
  BY ListingShape
<1> SUFFICES ASSUME NEW k \in (t + 1)..(j - 1), L[k].kind = "fi", Nesting(L, k) = Nesting(L, t)
             PROVE  FALSE
  BY Zenon DEF NoneYet, Fellow
<1>1. k \in DOMAIN L /\ k \in Nat \ {0} /\ k + 1 \in (t + 1)..j
  BY <1>0
<1>2. L[k].kind \in CloseKinds
  BY Zenon DEF CloseKinds
<1>3. Opened(L, k) > 0 /\ Nesting(L, k) = Opened(L, k)
  BY <1>1, <1>2, CloserInside
<1>k. L[k].kind \notin OpenKinds
  BY <1>2, Closers, Zenon
<1>4. Opened(L, k + 1) = Opened(L, k) - 1 /\ Opened(L, k) \in Int
  <2>1. Opened(L, k + 1) = Opened(L, k) + (IF L[k].kind \in OpenKinds THEN 1 ELSE 0)
                                        - (IF L[k].kind \in CloseKinds THEN 1 ELSE 0)
        /\ Opened(L, k) \in Int
    BY <1>1, OpenedSteps
  <2> QED BY <1>2, <1>k, <2>1
<1>5. Opened(L, k + 1) >= Nesting(L, t)
  BY <1>1 DEF StaysOpen
<1> QED BY <1>3, <1>4, <1>5

-----------------------------------------------------------------------------
(* What becomes of a written line when the script reads line j. *)

(* Reading line j finds the line looked for, or keeps it to be found. *)
LEMMA NoneYetSteps ==
  ASSUME NEW L, NEW t \in Nat \ {0}, NEW j \in Nat \ {0}, t < j, NEW kinds
  PROVE  NoneYet(L, t, j + 1, kinds) <=> NoneYet(L, t, j, kinds) /\ ~Fellow(L, t, j, kinds)
<1>1. (t + 1)..((j + 1) - 1) = ((t + 1)..(j - 1)) \cup {j}
  OBVIOUS
<1> QED BY <1>1, Zenon DEF NoneYet

LEMMA NoneYetAtFirst ==
  ASSUME NEW L, NEW t \in Nat \ {0}, NEW kinds
  PROVE  NoneYet(L, t, t + 1, kinds)
  BY DEF NoneYet

(* It stays resolved. *)
LEMMA ResolvedKept ==
  ASSUME NEW L, NEW t, NEW j \in Nat \ {0}, NEW e, NEW kinds, Resolved(L, t, j, e, kinds)
  PROVE  Resolved(L, t, j + 1, e, kinds)
<1>1. 1..(j - 1) \subseteq 1..((j + 1) - 1)
  OBVIOUS
<1> QED BY <1>1, Zenon DEF Resolved

(* The slots of a level. *)
SameSlots(lvl, sv, ar, sv2, ar2) ==
  sv2[lvl] = sv[lvl] /\ \A k : Lookup(ar2, lvl, k) = Lookup(ar, lvl, k)

(* A line that is no clause of its construct, and does not end it, is nothing
   to a test.                                                              *)
LEMMA TestKept ==
  ASSUME NEW L, NEW t \in Nat \ {0}, NEW j \in Nat \ {0}, t < j, NEW e,
         NEW sv, NEW ar, NEW sv2, NEW ar2,
         TestOK(L, t, j, e, sv, ar),
         StaysOpen(L, t, j) => /\ Opened(L, j + 1) >= Nesting(L, t)
                               /\ ~Fellow(L, t, j, ClauseKinds)
                               /\ SameSlots(Nesting(L, t), sv, ar, sv2, ar2)
  PROVE  TestOK(L, t, j + 1, e, sv2, ar2)
<1> DEFINE lvl == Nesting(L, t)
<1>1. e.kind = L[t].kind /\ e.text = L[t].text
  BY Zenon DEF TestOK
<1>2. CASE StaysOpen(L, t, j)
  <2>1. StaysOpen(L, t, j + 1)
    BY <1>2, StaysOpenSteps
  <2>2. e.lvl = lvl /\ e.k \in 1..sv[lvl] /\ sv2[lvl] = sv[lvl]
    BY <1>2, Zenon DEF TestOK, SameSlots
  <2>3. e.k = sv[lvl] => NoneYet(L, t, j + 1, ClauseKinds)
    <3>1. e.k = sv[lvl] => NoneYet(L, t, j, ClauseKinds)
      BY <1>2, Zenon DEF TestOK
    <3> QED BY <1>2, <3>1, NoneYetSteps
  <2>4. e.k # sv[lvl] => \E c \in 1..((j + 1) - 1) :
          IsNext(L, t, c, ClauseKinds) /\ Lookup(ar2, lvl, e.k) = LabelOf(L, c)
    <3>1. e.k # sv[lvl] => \E c \in 1..(j - 1) :
            IsNext(L, t, c, ClauseKinds) /\ Lookup(ar, lvl, e.k) = LabelOf(L, c)
      BY <1>2, Zenon DEF TestOK
    <3>2. 1..(j - 1) \subseteq 1..((j + 1) - 1)
      OBVIOUS
    <3>3. Lookup(ar2, lvl, e.k) = Lookup(ar, lvl, e.k)
      BY <1>2, Zenon DEF SameSlots
    <3> QED BY <3>1, <3>2, <3>3, Zenon
  <2> QED BY <1>1, <2>1, <2>2, <2>3, <2>4, Zenon DEF TestOK
<1>3. CASE ~StaysOpen(L, t, j)
  <2>1. ~StaysOpen(L, t, j + 1)
    BY <1>3, StaysOpenSteps
  <2>2. Resolved(L, t, j + 1, e, ClauseKinds)
    <3>1. Resolved(L, t, j, e, ClauseKinds)
      BY <1>3, Zenon DEF TestOK
    <3> QED BY <3>1, ResolvedKept
  <2> QED BY <1>1, <2>1, <2>2, Zenon DEF TestOK
<1> QED BY <1>2, <1>3

(* The next clause takes the last slot of its level, and leaves one for the
   test after it.                                                          *)
LEMMA TestPassed ==
  ASSUME NEW L, NEW t \in Nat \ {0}, NEW j \in Nat \ {0}, t < j, NEW e,
         NEW sv, NEW ar, NEW sv2, NEW ar2,
         TestOK(L, t, j, e, sv, ar), StaysOpen(L, t, j),
         Opened(L, j + 1) >= Nesting(L, t), Fellow(L, t, j, ClauseKinds),
         sv[Nesting(L, t)] \in Nat, sv2[Nesting(L, t)] = sv[Nesting(L, t)] + 1,
         \A k : Lookup(ar2, Nesting(L, t), k) =
                  IF k = sv[Nesting(L, t)] THEN LabelOf(L, j) ELSE Lookup(ar, Nesting(L, t), k)
  PROVE  TestOK(L, t, j + 1, e, sv2, ar2)
<1> DEFINE lvl == Nesting(L, t)
<1>1. e.kind = L[t].kind /\ e.text = L[t].text
  BY Zenon DEF TestOK
<1>2. StaysOpen(L, t, j + 1)
  BY StaysOpenSteps
<1>3. e.lvl = lvl /\ e.k \in 1..sv[lvl]
  BY Zenon DEF TestOK
<1>4. e.k \in 1..sv2[lvl] /\ e.k # sv2[lvl]
  BY <1>3
<1>5. \E c \in 1..((j + 1) - 1) : IsNext(L, t, c, ClauseKinds) /\ Lookup(ar2, lvl, e.k) = LabelOf(L, c)
  <2>1. CASE e.k = sv[lvl]
    <3>1. NoneYet(L, t, j, ClauseKinds)
      BY <2>1, Zenon DEF TestOK
    <3>2. IsNext(L, t, j, ClauseKinds)
      BY <3>1, Zenon DEF IsNext
    <3>3. j \in 1..((j + 1) - 1)
      OBVIOUS
    <3> QED BY <2>1, <3>2, <3>3, Zenon
  <2>2. CASE e.k # sv[lvl]
    <3>1. \E c \in 1..(j - 1) : IsNext(L, t, c, ClauseKinds) /\ Lookup(ar, lvl, e.k) = LabelOf(L, c)
      BY <2>2, Zenon DEF TestOK
    <3>2. 1..(j - 1) \subseteq 1..((j + 1) - 1)
      OBVIOUS
    <3> QED BY <2>2, <3>1, <3>2, Zenon
  <2> QED BY <2>1, <2>2
<1> QED BY <1>1, <1>2, <1>3, <1>4, <1>5, Zenon DEF TestOK

(* The fi of line j resolves the references to its level. *)
Filled(e, slots, top) == Emitted(e, 0, e.k, Lookup(slots, e.lvl, IF e.k = 0 THEN top ELSE e.k))

LEMMA FilledIs ==
  ASSUME NEW e, NEW slots, NEW top
  PROVE  LET f == Filled(e, slots, top)
         IN  /\ f.kind = e.kind /\ f.text = e.text /\ f.lvl = 0
             /\ f.dest = Lookup(slots, e.lvl, IF e.k = 0 THEN top ELSE e.k)
  BY DEF Filled, Emitted

(* A test whose construct is closed goes to its label. *)
LEMMA TestClosed ==
  ASSUME NEW L, NEW t \in Nat \ {0}, NEW j \in Nat \ {0}, t < j, NEW e, NEW slots,
         NEW sv, NEW ar, NEW sv2, NEW ar2,
         TestOK(L, t, j, e, sv, ar), StaysOpen(L, t, j),
         ~(Opened(L, j + 1) >= Nesting(L, t)), Fellow(L, t, j, ClauseKinds),
         \A k : Lookup(slots, Nesting(L, t), k) =
                  IF k = sv[Nesting(L, t)] THEN LabelOf(L, j) ELSE Lookup(ar, Nesting(L, t), k)
  PROVE  TestOK(L, t, j + 1, Filled(e, slots, sv[Nesting(L, t)]), sv2, ar2)
<1> DEFINE lvl == Nesting(L, t)
           f == Filled(e, slots, sv[lvl])
<1>1. e.kind = L[t].kind /\ e.text = L[t].text
  BY Zenon DEF TestOK
<1>2. ~StaysOpen(L, t, j + 1)
  BY StaysOpenSteps
<1>3. e.lvl = lvl /\ e.k \in 1..sv[lvl]
  BY Zenon DEF TestOK
<1>4. e.k # 0
  BY <1>3
<1>5. f.kind = e.kind /\ f.text = e.text /\ f.lvl = 0 /\ f.dest = Lookup(slots, lvl, e.k)
  <2>1. /\ f.kind = e.kind /\ f.text = e.text /\ f.lvl = 0
        /\ f.dest = Lookup(slots, e.lvl, IF e.k = 0 THEN sv[lvl] ELSE e.k)
    BY FilledIs
  <2> HIDE DEF f
  <2> QED BY <1>3, <1>4, <2>1
<1> HIDE DEF f
<1>6. \E c \in 1..((j + 1) - 1) : IsNext(L, t, c, ClauseKinds) /\ f.dest = LabelOf(L, c)
  <2>1. CASE e.k = sv[lvl]
    <3>1. NoneYet(L, t, j, ClauseKinds)
      BY <2>1, Zenon DEF TestOK
    <3>2. IsNext(L, t, j, ClauseKinds)
      BY <3>1, Zenon DEF IsNext
    <3>3. j \in 1..((j + 1) - 1)
      OBVIOUS
    <3> QED BY <1>5, <2>1, <3>2, <3>3, Zenon
  <2>2. CASE e.k # sv[lvl]
    <3>1. \E c \in 1..(j - 1) : IsNext(L, t, c, ClauseKinds) /\ Lookup(ar, lvl, e.k) = LabelOf(L, c)
      BY <2>2, Zenon DEF TestOK
    <3>2. 1..(j - 1) \subseteq 1..((j + 1) - 1)
      OBVIOUS
    <3> QED BY <1>5, <2>2, <3>1, <3>2, Zenon
  <2> QED BY <2>1, <2>2
<1>7. Resolved(L, t, j + 1, f, ClauseKinds)
  BY <1>5, <1>6, Zenon DEF Resolved
<1>8. TestOK(L, t, j + 1, f, sv2, ar2)
  BY <1>1, <1>2, <1>5, <1>7, Zenon DEF TestOK
<1> QED BY <1>8 DEF f

(* The same of the jump that leaves a clause. *)
LEMMA LeaveKept ==
  ASSUME NEW L, NEW t \in Nat \ {0}, NEW j \in Nat \ {0}, t < j, NEW e, LeaveOK(L, t, j, e),
         StaysOpen(L, t, j) => Opened(L, j + 1) >= Nesting(L, t)
  PROVE  LeaveOK(L, t, j + 1, e)
<1>1. CASE StaysOpen(L, t, j)
  <2>1. StaysOpen(L, t, j + 1)
    BY <1>1, StaysOpenSteps
  <2> QED BY <1>1, <2>1, Zenon DEF LeaveOK
<1>2. CASE ~StaysOpen(L, t, j)
  <2>1. ~StaysOpen(L, t, j + 1)
    BY <1>2, StaysOpenSteps
  <2>2. Resolved(L, t, j + 1, e, {"fi"})
    <3>1. Resolved(L, t, j, e, {"fi"})
      BY <1>2, Zenon DEF LeaveOK
    <3> QED BY <3>1, ResolvedKept
  <2>3. e.kind = "else"
    BY Zenon DEF LeaveOK
  <2> QED BY <2>1, <2>2, <2>3, Zenon DEF LeaveOK
<1> QED BY <1>1, <1>2

(* So does the jump that ends a clause. *)
LEMMA LeaveClosed ==
  ASSUME NEW L, WellNested(L), NEW t \in DOMAIN L, NEW j \in DOMAIN L, t < j, NEW e, NEW slots,
         NEW top, LeaveOK(L, t, j, e), StaysOpen(L, t, j),
         ~(Opened(L, j + 1) >= Nesting(L, t)), Fellow(L, t, j, {"fi"}),
         Lookup(slots, Nesting(L, t), top) = LabelOf(L, j)
  PROVE  LeaveOK(L, t, j + 1, Filled(e, slots, top))
<1> DEFINE f == Filled(e, slots, top)
<1>0. t \in Nat \ {0} /\ j \in Nat \ {0} /\ j \in 1..((j + 1) - 1)
  BY ListingShape
<1>1. ~StaysOpen(L, t, j + 1)
  BY <1>0, StaysOpenSteps
<1>2. e.kind = "else" /\ e.lvl = Nesting(L, t) /\ e.k = 0
  BY Zenon DEF LeaveOK
<1>3. f.kind = e.kind /\ f.lvl = 0 /\ f.dest = LabelOf(L, j)
  <2>1. f.kind = e.kind /\ f.lvl = 0 /\ f.dest = Lookup(slots, e.lvl, IF e.k = 0 THEN top ELSE e.k)
    BY FilledIs
  <2> HIDE DEF f
  <2> QED BY <1>2, <2>1, Zenon
<1> HIDE DEF f
<1>4. IsNext(L, t, j, {"fi"})
  <2>1. NoneYet(L, t, j, {"fi"})
    BY NoFiYet
  <2> QED BY <2>1, Zenon DEF IsNext
<1>5. Resolved(L, t, j + 1, f, {"fi"})
  BY <1>0, <1>3, <1>4, Zenon DEF Resolved
<1>6. LeaveOK(L, t, j + 1, f)
  BY <1>1, <1>2, <1>3, <1>5, Zenon DEF LeaveOK
<1> QED BY <1>6 DEF f

-----------------------------------------------------------------------------
(* Files of lines. *)

(* A file is a sequence of written lines. *)
IsFile(f) == f \in Seq({f[l] : l \in DOMAIN f})

LEMMA SeqIsFile == ASSUME NEW S, NEW f \in Seq(S) PROVE IsFile(f)
  BY DEF IsFile

(* Appending a line keeps the others. *)
LEMMA AppendLine ==
  ASSUME NEW f, IsFile(f), NEW x
  PROVE  /\ IsFile(Append(f, x)) /\ Len(Append(f, x)) = Len(f) + 1 /\ Len(f) \in Nat
         /\ \A l \in DOMAIN Append(f, x) :
              \/ l \in DOMAIN f /\ Append(f, x)[l] = f[l]
              \/ l = Len(f) + 1 /\ Append(f, x)[l] = x
<1> DEFINE S == {f[l] : l \in DOMAIN f} \cup {x}
<1>1. f \in Seq(S)
  BY DEF IsFile
<1>2. Append(f, x) \in Seq(S) /\ Len(Append(f, x)) = Len(f) + 1 /\ Len(f) \in Nat
  BY <1>1
<1>3. \A l \in DOMAIN Append(f, x) :
              \/ l \in DOMAIN f /\ Append(f, x)[l] = f[l]
              \/ l = Len(f) + 1 /\ Append(f, x)[l] = x
  BY <1>1
<1>4. IsFile(Append(f, x))
  BY <1>2, SeqIsFile
<1> QED BY <1>2, <1>3, <1>4

(* The two ways of writing lines at the end. *)
LEMMA AppendIsConcat ==
  ASSUME NEW f, IsFile(f), NEW x
  PROVE  f \o <<x>> = Append(f, x) /\ f \o <<>> = f
<1> DEFINE S == {f[l] : l \in DOMAIN f} \cup {x}
<1>1. f \in Seq(S) /\ x \in S
  BY DEF IsFile
<1> HIDE DEF S
<1> QED BY <1>1

(* Resolving references changes lines in place. *)
LEMMA WritebackLines ==
  ASSUME NEW f, IsFile(f), NEW slots
  PROVE  /\ IsFile(Writeback(f, slots)) /\ Len(Writeback(f, slots)) = Len(f)
         /\ DOMAIN Writeback(f, slots) = DOMAIN f
         /\ \A l \in DOMAIN f :
              IF f[l].lvl = level /\ f[l].lvl # 0 THEN Writeback(f, slots)[l].lvl = 0
                                                  ELSE Writeback(f, slots)[l] = f[l]
<1> DEFINE w == Writeback(f, slots)
<1>1. DOMAIN w = DOMAIN f
  BY DEF Writeback
<1>2. \A l \in DOMAIN f : IF f[l].lvl = level /\ f[l].lvl # 0 THEN w[l].lvl = 0 ELSE w[l] = f[l]
  BY DEF Writeback, Emitted
<1>3. w = [l \in DOMAIN f |-> w[l]]
  BY DEF Writeback
<1> HIDE DEF w
<1>4. Len(f) \in Nat /\ DOMAIN f = 1..Len(f)
  BY DEF IsFile
<1>5. w \in Seq({w[l] : l \in DOMAIN w}) /\ Len(w) = Len(f)
  BY <1>1, <1>3, <1>4
<1> QED BY <1>1, <1>2, <1>5 DEF IsFile, w

-----------------------------------------------------------------------------
(* The inductive invariant: where the parser is in its listing. *)

ParserTypeOK ==
  /\ listing \in Listings
  /\ n \in 1..(Len(listing) + 1)
  /\ IsFile(microtemp)
  /\ \A l \in DOMAIN microtemp : microtemp[l].lvl \in Nat
  /\ level \in Nat

IInv == /\ ParserTypeOK
        /\ level = Opened(listing, n)
        /\ AddressCounts
        /\ \A l \in DOMAIN microtemp : microtemp[l].lvl <= level

(* It holds in the beginning. *)
LEMMA InitIInv == Init => IInv
<1> SUFFICES ASSUME Init PROVE IInv
  OBVIOUS
<1>1. Len(listing) \in Nat
  BY ListingsAssumption, ListingShape DEF Init
<1>2. Opened(listing, 1) = 0
  BY OpenedSteps
<1>3. <<>> \in Seq({}) /\ DOMAIN <<>> = {} /\ Len(<<>>) = 0
  OBVIOUS
<1>4. IsFile(<<>>)
  BY <1>3, SeqIsFile
<1> QED BY <1>1, <1>2, <1>3, <1>4 DEF Init, IInv, ParserTypeOK, AddressCounts

(* The nesting of the line that is read. *)
LEMMA ReadLevel ==
  ASSUME IInv, Read
  PROVE  /\ n \in DOMAIN listing /\ n' \in 1..(Len(listing) + 1) /\ n' = n + 1
         /\ Current.kind \in OpenKinds => Opened(listing, n') = level + 1
         /\ Current.kind \in CloseKinds => level > 0 /\ Opened(listing, n') = level - 1
         /\ Current.kind \notin OpenKinds \cup CloseKinds => Opened(listing, n') = level
<1>1. WellNested(listing) /\ Len(listing) \in Nat /\ DOMAIN listing = 1..Len(listing)
  <2>1. WellNested(listing)
    BY ListingsAssumption DEF IInv, ParserTypeOK
  <2> QED BY <2>1, ListingShape
<1>2. n \in DOMAIN listing /\ n' \in 1..(Len(listing) + 1) /\ n' = n + 1
  BY <1>1 DEF IInv, ParserTypeOK, Read, AtEnd
<1>3. level = Opened(listing, n) /\ level \in Nat /\ n \in Nat \ {0}
  BY <1>1, <1>2 DEF IInv, ParserTypeOK
<1>4. Opened(listing, n + 1) = level + (IF Current.kind \in OpenKinds THEN 1 ELSE 0)
                                     - (IF Current.kind \in CloseKinds THEN 1 ELSE 0)
  BY <1>3, OpenedSteps DEF Current
<1>5. Current.kind \in CloseKinds => level > 0 /\ Current.kind \notin OpenKinds
  <2>1. Current.kind \in CloseKinds => level > 0
    BY <1>1, <1>2, <1>3, CloserInside DEF Current
  <2> QED BY <2>1, Closers, Zenon
<1> HIDE DEF Current
<1> QED BY <1>2, <1>3, <1>4, <1>5

-----------------------------------------------------------------------------
(* The lines of a file refer to levels up to open. *)
Within(file, open) == /\ IsFile(file) /\ Len(file) \in Nat
                      /\ \A l \in DOMAIN file : file[l].lvl \in 0..open

(* A line written for an open level. *)
LEMMA AppendedWithin ==
  ASSUME NEW file, NEW open \in Nat, Within(file, open), NEW line, NEW lvl \in 0..open, NEW k
  PROVE  LET longer == Append(file, Written(line, lvl, k))
         IN  Within(longer, open) /\ Len(longer) = Len(file) + 1
<1> DEFINE x == Written(line, lvl, k)
           longer == Append(file, x)
<1>1. x.lvl = lvl
  BY DEF Written, Emitted
<1> HIDE DEF x
<1>2. /\ IsFile(longer) /\ Len(longer) = Len(file) + 1 /\ Len(file) \in Nat
      /\ \A l \in DOMAIN longer : \/ l \in DOMAIN file /\ longer[l] = file[l]
                                  \/ l = Len(file) + 1 /\ longer[l] = x
  BY AppendLine DEF Within
<1> HIDE DEF longer
<1>3. \A l \in DOMAIN longer : longer[l].lvl \in 0..open
  BY <1>1, <1>2 DEF Within
<1>4. Within(longer, open) /\ Len(longer) = Len(file) + 1
  BY <1>2, <1>3 DEF Within
<1> QED BY <1>4 DEF longer, x

(* Closing a construct leaves no reference to its level. *)
LEMMA ClosedWithin ==
  ASSUME NEW file, level \in Nat \ {0}, Within(file, level), NEW slots
  PROVE  Within(Writeback(file, slots), level - 1) /\ Len(Writeback(file, slots)) = Len(file)
<1> DEFINE closed == Writeback(file, slots)
<1>1. /\ IsFile(closed) /\ Len(closed) = Len(file) /\ DOMAIN closed = DOMAIN file
      /\ \A l \in DOMAIN file :
           IF file[l].lvl = level /\ file[l].lvl # 0 THEN closed[l].lvl = 0
                                                    ELSE closed[l] = file[l]
  BY WritebackLines DEF Within
<1> HIDE DEF closed
<1>2. ASSUME NEW l \in DOMAIN closed PROVE closed[l].lvl \in 0..(level - 1)
  BY <1>1, <1>2 DEF Within
<1>3. Within(closed, level - 1) /\ Len(closed) = Len(file)
  BY <1>1, <1>2 DEF Within
<1> QED BY <1>3 DEF closed

(* Every turn of the loop keeps it. *)
LEMMA StepIInv == IInv /\ [Next]_vars => IInv'
<1> SUFFICES ASSUME IInv, [Next]_vars PROVE IInv'
  OBVIOUS
<1>0. /\ Within(microtemp, level) /\ address = Len(microtemp)
      /\ level \in Nat /\ level \in 0..level /\ 0 \in 0..level
  <2>1. Len(microtemp) \in Nat
    BY DEF IInv, ParserTypeOK, IsFile
  <2> QED BY <2>1 DEF IInv, ParserTypeOK, AddressCounts, Within
<1>1. CASE Read
  <2>1. /\ n' \in 1..(Len(listing) + 1)
        /\ Current.kind \in OpenKinds => Opened(listing, n') = level + 1
        /\ Current.kind \in CloseKinds => level > 0 /\ Opened(listing, n') = level - 1
        /\ Current.kind \notin OpenKinds \cup CloseKinds => Opened(listing, n') = level
    BY <1>1, ReadLevel
  <2>2. listing' = listing
    BY <1>1 DEF Read
  <2>3. SUFFICES /\ level' \in Nat /\ level' = Opened(listing, n')
                 /\ Within(microtemp', level') /\ address' = Len(microtemp')
    BY <2>1, <2>2 DEF IInv, ParserTypeOK, AddressCounts, Within, IsFile
  <2>4. CASE ReadLoop
    <3>1. level' = level + 1 /\ microtemp' = microtemp /\ address' = address
          /\ Current.kind \in OpenKinds
      BY <2>4, Zenon DEF ReadLoop, OpenKinds
    <3>2. Within(microtemp, level + 1)
      BY <1>0 DEF Within
    <3> QED BY <1>0, <2>1, <3>1, <3>2
  <2>5. CASE ReadElse
    <3> DEFINE gone == Append(microtemp, Written(Else, level, 0))
               both == Append(gone, Written(Current, level, saved[level] + 1))
    <3>1. /\ level' = level /\ Current.kind \in ElseKinds
          /\ \/ microtemp' = both /\ address' = address + 2
             \/ microtemp' = gone /\ address' = address + 1
      <4> DEFINE a == Written(Else, level, 0)
                 b == Written(Current, level, saved[level] + 1)
                 test == IF Current.kind = "elif" THEN <<b>> ELSE <<>>
      <4>1. /\ level' = level /\ Current.kind \in ElseKinds
            /\ microtemp' = microtemp \o <<a>> \o test /\ address' = address + 1 + Len(test)
        BY <2>5, Zenon DEF ReadElse
      <4> HIDE DEF a, b
      <4>2. microtemp \o <<a>> = Append(microtemp, a)
        BY <1>0, AppendIsConcat DEF Within
      <4>3. IsFile(Append(microtemp, a)) /\ address \in Nat
        BY <1>0, AppendLine DEF Within
      <4>4. /\ Append(microtemp, a) \o <<b>> = Append(Append(microtemp, a), b)
            /\ Append(microtemp, a) \o <<>> = Append(microtemp, a)
        BY <4>3, AppendIsConcat
      <4>5. CASE Current.kind = "elif"
        <5>1. test = <<b>> /\ Len(<<b>>) = 1
          BY <4>5
        <5> HIDE DEF test
        <5> QED BY <4>1, <4>2, <4>3, <4>4, <5>1 DEF a, b
      <4>6. CASE Current.kind # "elif"
        <5>1. test = <<>> /\ Len(<<>>) = 0
          BY <4>6
        <5> HIDE DEF test
        <5> QED BY <4>1, <4>2, <4>3, <4>4, <5>1 DEF a
      <4> QED BY <4>5, <4>6
    <3>k. Current.kind \notin OpenKinds \cup CloseKinds
      BY <3>1, Zenon DEF ElseKinds, OpenKinds, CloseKinds
    <3>2. Within(gone, level) /\ Len(gone) = Len(microtemp) + 1
      BY <1>0, AppendedWithin
    <3>3. Within(both, level) /\ Len(both) = Len(gone) + 1
      <4> HIDE DEF gone
      <4> QED BY <1>0, <3>2, AppendedWithin
    <3> HIDE DEF gone, both
    <3>4. Len(microtemp) \in Nat
      BY <1>0 DEF Within
    <3> QED BY <1>0, <2>1, <3>k, <3>1, <3>2, <3>3, <3>4
  <2>6. CASE ReadFi
    <3> DEFINE slots == Assign(arr, <<level, saved[level]>>, <<"fi", fis>>)
    <3>1. level' = level - 1 /\ microtemp' = Writeback(microtemp, slots) /\ address' = address
          /\ Current.kind \in CloseKinds
      BY <2>6, Zenon DEF ReadFi, CloseKinds
    <3> HIDE DEF slots
    <3>2. level \in Nat \ {0}
      BY <1>0, <2>1, <3>1
    <3>3. Within(microtemp', level - 1) /\ Len(microtemp') = Len(microtemp)
      BY <1>0, <3>1, <3>2, ClosedWithin
    <3> QED BY <1>0, <2>1, <3>1, <3>2, <3>3
  <2>7. CASE ReadName
    <3>1. level' = level /\ microtemp' = microtemp /\ address' = address
          /\ Current.kind \notin OpenKinds \cup CloseKinds
      BY <2>7, Zenon DEF ReadName, NameKinds, OpenKinds, CloseKinds
    <3> QED BY <1>0, <2>1, <3>1
  <2>8. CASE ReadUntil
    <3> DEFINE longer == Append(microtemp, Written(Current, level, 1))
    <3>1. level' = level - 1 /\ microtemp' = Writeback(longer, arr) /\ address' = address + 1
          /\ Current.kind \in CloseKinds
      BY <2>8, Zenon DEF ReadUntil, CloseKinds
    <3>2. level \in Nat \ {0}
      BY <1>0, <2>1, <3>1
    <3>3. Within(longer, level) /\ Len(longer) = Len(microtemp) + 1
      BY <1>0, AppendedWithin
    <3> HIDE DEF longer
    <3>4. Within(microtemp', level - 1) /\ Len(microtemp') = Len(longer)
      BY <3>1, <3>2, <3>3, ClosedWithin
    <3> QED BY <1>0, <2>1, <3>1, <3>2, <3>3, <3>4
  <2>9. CASE ReadIf
    <3> DEFINE longer == Append(microtemp, Written(Current, level + 1, 1))
    <3>1. level' = level + 1 /\ microtemp' = longer /\ address' = address + 1
          /\ Current.kind \in OpenKinds
      BY <2>9, Zenon DEF ReadIf, OpenKinds
    <3>2. level + 1 \in Nat /\ level + 1 \in 0..(level + 1) /\ Within(microtemp, level + 1)
      BY <1>0 DEF Within
    <3>3. Within(longer, level + 1) /\ Len(longer) = Len(microtemp) + 1
      BY <3>2, AppendedWithin
    <3> HIDE DEF longer
    <3> QED BY <1>0, <2>1, <3>1, <3>2, <3>3
  <2>10. CASE ReadPlain
    <3> DEFINE longer == Append(microtemp, Written(Current, 0, 0))
    <3>1. level' = level /\ microtemp' = longer /\ address' = address + 1
          /\ Current.kind \notin OpenKinds \cup CloseKinds
      BY <2>10, Zenon DEF ReadPlain, MarkKinds, ClauseKinds, OpenKinds, CloseKinds
    <3>2. Within(longer, level) /\ Len(longer) = Len(microtemp) + 1
      BY <1>0, AppendedWithin
    <3> HIDE DEF longer
    <3> QED BY <1>0, <2>1, <3>1, <3>2
  <2> QED BY <1>1, <2>4, <2>5, <2>6, <2>7, <2>8, <2>9, <2>10 DEF Read
<1>2. CASE UNCHANGED vars
  BY <1>2 DEF vars, IInv, ParserTypeOK, AddressCounts, IsFile
<1> QED BY <1>1, <1>2 DEF Next, Done

LEMMA IInvAlways == Spec => []IInv
  BY InitIInv, StepIInv, PTL DEF Spec

-----------------------------------------------------------------------------
(* What has been read, at each line. *)

(* What a turn starts from. *)
LEMMA ReadFacts ==
  ASSUME IInv, Read
  PROVE  /\ WellNested(listing) /\ WellNamed(listing)
         /\ Len(listing) \in Nat /\ DOMAIN listing = 1..Len(listing)
         /\ n \in DOMAIN listing /\ n \in Nat \ {0} /\ n + 1 \in Nat \ {0}
         /\ n' = n + 1 /\ listing' = listing
         /\ level = Opened(listing, n) /\ level \in Nat
         /\ level' = Opened(listing, n + 1) /\ level' \in Nat
         /\ Current = listing[n]
<1>1. WellNested(listing) /\ WellNamed(listing)
  BY ListingsAssumption DEF IInv, ParserTypeOK
<1>2. Len(listing) \in Nat /\ DOMAIN listing = 1..Len(listing)
  BY <1>1, ListingShape
<1>3. n \in DOMAIN listing /\ n' = n + 1
  BY ReadLevel
<1>4. IInv'
  BY StepIInv DEF Next
<1>5. listing' = listing
  BY DEF Read
<1>6. level = Opened(listing, n) /\ level \in Nat /\ level' \in Nat
  BY <1>4 DEF IInv, ParserTypeOK
<1>7. level' = Opened(listing, n + 1)
  BY <1>3, <1>4, <1>5 DEF IInv
<1>8. Current = listing[n]
  BY DEF Current
<1>9. n \in Nat \ {0} /\ n + 1 \in Nat \ {0}
  BY <1>2, <1>3
<1> QED BY <1>1, <1>2, <1>3, <1>5, <1>6, <1>7, <1>8, <1>9

(* The value of a shell variable after an assignment. *)
LEMMA LookupAssign ==
  ASSUME NEW f, NEW lvl, NEW k, NEW v, NEW l2, NEW k2
  PROVE  Lookup(Assign(f, <<lvl, k>>, v), l2, k2) =
           IF l2 = lvl /\ k2 = k THEN v ELSE Lookup(f, l2, k2)
<1>1. <<l2, k2>> = <<lvl, k>> <=> l2 = lvl /\ k2 = k
  OBVIOUS
<1>2. /\ DOMAIN Assign(f, <<lvl, k>>, v) = DOMAIN f \cup {<<lvl, k>>}
      /\ Assign(f, <<lvl, k>>, v)[<<lvl, k>>] = v
      /\ \A y \in DOMAIN f : y # <<lvl, k>> => Assign(f, <<lvl, k>>, v)[y] = f[y]
  <2> DEFINE slot == <<lvl, k>>
  <2> HIDE DEF slot
  <2>1. /\ DOMAIN Assign(f, slot, v) = DOMAIN f \cup {slot}
        /\ Assign(f, slot, v)[slot] = v
        /\ \A y \in DOMAIN f : y # slot => Assign(f, slot, v)[y] = f[y]
    BY DEF Assign
  <2> QED BY <2>1 DEF slot
<1> QED BY <1>1, <1>2 DEF Lookup

(* The counters of a line, by its kind. *)
OneIf(b) == IF b THEN 1 ELSE 0

(* What a turn counts. *)
LEMMA Counters ==
  ASSUME IInv, Read, address \in Nat
  PROVE  /\ loops' = IF Current.kind = "loop" THEN loops + 1 ELSE loops
         /\ elses' = IF Current.kind \in ElseKinds THEN elses + 1 ELSE elses
         /\ fis' = IF Current.kind = "fi" THEN fis + 1 ELSE fis
         /\ address' = IF Current.kind \in NoCodeKinds THEN address
                       ELSE IF Current.kind = "elif" THEN address + 2 ELSE address + 1
<1>1. CASE ReadLoop
  <2>1. /\ loops' = loops + 1 /\ elses' = elses /\ fis' = fis /\ address' = address
        /\ Current.kind = "loop"
    BY <1>1, Zenon DEF ReadLoop
  <2> QED BY <2>1, Zenon DEF ElseKinds, NoCodeKinds
<1>2. CASE ReadElse
  <2> DEFINE test == IF Current.kind = "elif"
                     THEN <<Written(Current, level, saved[level] + 1)>> ELSE <<>>
  <2>1. /\ loops' = loops /\ elses' = elses + 1 /\ fis' = fis /\ address' = address + 1 + Len(test)
        /\ Current.kind \in ElseKinds
    BY <1>2, Zenon DEF ReadElse
  <2>2. Current.kind # "loop" /\ Current.kind # "fi" /\ Current.kind \notin NoCodeKinds
    BY <2>1, Zenon DEF ElseKinds, NoCodeKinds, NameKinds
  <2>3. CASE Current.kind = "elif"
    <3>1. Len(test) = 1
      <4> DEFINE x == Written(Current, level, saved[level] + 1)
      <4>1. test = <<x>>
        BY <2>3
      <4> HIDE DEF x, test
      <4> QED BY <4>1
    <3> HIDE DEF test
    <3> QED BY <2>1, <2>2, <2>3, <3>1
  <2>4. CASE Current.kind # "elif"
    <3>1. Len(test) = 0
      BY <2>4
    <3> HIDE DEF test
    <3> QED BY <2>1, <2>2, <2>4, <3>1
  <2> QED BY <2>3, <2>4
<1>3. CASE ReadFi
  <2>1. /\ loops' = loops /\ elses' = elses /\ fis' = fis + 1 /\ address' = address
        /\ Current.kind = "fi"
    BY <1>3, Zenon DEF ReadFi
  <2> QED BY <2>1, Zenon DEF ElseKinds, NoCodeKinds
<1>4. CASE ReadName
  <2>1. /\ loops' = loops /\ elses' = elses /\ fis' = fis /\ address' = address
        /\ Current.kind \in NameKinds
    BY <1>4, Zenon DEF ReadName
  <2>2. Current.kind # "loop" /\ Current.kind # "fi" /\ Current.kind \notin ElseKinds
        /\ Current.kind \in NoCodeKinds
    BY <2>1, Zenon DEF ElseKinds, NameKinds, NoCodeKinds
  <2> QED BY <2>1, <2>2, Zenon
<1>5. CASE ReadUntil
  <2>1. /\ loops' = loops /\ elses' = elses /\ fis' = fis /\ address' = address + 1
        /\ Current.kind = "until"
    BY <1>5, Zenon DEF ReadUntil
  <2> QED BY <2>1, Zenon DEF ElseKinds, NoCodeKinds, NameKinds
<1>6. CASE ReadIf
  <2>1. /\ loops' = loops /\ elses' = elses /\ fis' = fis /\ address' = address + 1
        /\ Current.kind = "if"
    BY <1>6, Zenon DEF ReadIf
  <2> QED BY <2>1, Zenon DEF ElseKinds, NoCodeKinds, NameKinds
<1>7. CASE ReadPlain
  <2>1. /\ loops' = loops /\ elses' = elses /\ fis' = fis /\ address' = address + 1
        /\ Current.kind \notin NameKinds \cup MarkKinds
    BY <1>7, Zenon DEF ReadPlain
  <2>2. Current.kind # "loop" /\ Current.kind # "fi" /\ Current.kind \notin ElseKinds
        /\ Current.kind \notin NoCodeKinds /\ Current.kind # "elif"
    BY <2>1, Zenon DEF ElseKinds, NoCodeKinds, MarkKinds, ClauseKinds
  <2> QED BY <2>1, <2>2, Zenon
<1> QED BY <1>1, <1>2, <1>3, <1>4, <1>5, <1>6, <1>7 DEF Read

(* The counters count the lines of their kinds. *)
LEMMA CountsStep ==
  ASSUME IInv, Read, CountsOK
  PROVE  CountsOK'
<1>1. n \in Nat \ {0} /\ n' = n + 1 /\ listing' = listing /\ Current = listing[n]
  BY ReadFacts
<1>2. address \in Nat
  BY <1>1, AddressNatural DEF CountsOK
<1>3. /\ loops' = IF listing[n].kind = "loop" THEN loops + 1 ELSE loops
      /\ elses' = IF listing[n].kind \in ElseKinds THEN elses + 1 ELSE elses
      /\ fis' = IF listing[n].kind = "fi" THEN fis + 1 ELSE fis
      /\ address' = IF listing[n].kind \in NoCodeKinds THEN address
                    ELSE IF listing[n].kind = "elif" THEN address + 2 ELSE address + 1
  BY <1>1, <1>2, Counters
<1>4. loops' = Before(listing, n + 1, {"loop"})
  <2>1. Before(listing, n + 1, {"loop"}) = Before(listing, n, {"loop"}) + (IF listing[n].kind \in {"loop"} THEN 1 ELSE 0)
        /\ Before(listing, n, {"loop"}) \in Nat
    BY <1>1, BeforeSteps
  <2> QED BY <1>3, <2>1 DEF CountsOK
<1>5. elses' = Before(listing, n + 1, ElseKinds)
  <2>1. Before(listing, n + 1, ElseKinds) = Before(listing, n, ElseKinds) + (IF listing[n].kind \in ElseKinds THEN 1 ELSE 0)
        /\ Before(listing, n, ElseKinds) \in Nat
    BY <1>1, BeforeSteps
  <2> QED BY <1>3, <2>1 DEF CountsOK
<1>6. fis' = Before(listing, n + 1, {"fi"})
  <2>1. Before(listing, n + 1, {"fi"}) = Before(listing, n, {"fi"}) + (IF listing[n].kind \in {"fi"} THEN 1 ELSE 0)
        /\ Before(listing, n, {"fi"}) \in Nat
    BY <1>1, BeforeSteps
  <2> QED BY <1>3, <2>1 DEF CountsOK
<1>7. address' = Address(listing, n + 1)
  <2>1. Address(listing, n + 1) = Address(listing, n) + Size(listing, n)
    BY <1>1, AddressSteps
  <2> QED BY <1>2, <1>3, <2>1 DEF CountsOK, Size
<1> QED BY <1>1, <1>4, <1>5, <1>6, <1>7, Zenon DEF CountsOK

-----------------------------------------------------------------------------
(* The labels that the script makes are its own. *)

(* The label of a line, by its kind. *)
LEMMA LabelIs ==
  ASSUME NEW L, NEW m
  PROVE  /\ L[m].kind = "loop" => LabelOf(L, m) = <<"loop", Before(L, m, {"loop"})>>
         /\ L[m].kind = "fi" => LabelOf(L, m) = <<"fi", Before(L, m, {"fi"})>>
         /\ L[m].kind \in ElseKinds => LabelOf(L, m) = <<"else", Before(L, m, ElseKinds)>>
<1>1. CASE L[m].kind = "loop"
  BY <1>1, Zenon DEF LabelOf, ElseKinds
<1>2. CASE L[m].kind = "fi"
  BY <1>2, Zenon DEF LabelOf, ElseKinds
<1>3. CASE L[m].kind # "loop" /\ L[m].kind # "fi"
  BY <1>3, Zenon DEF LabelOf
<1> QED BY <1>1, <1>2, <1>3, Zenon

LEMMA PairsEqual ==
  ASSUME NEW a, NEW b, NEW c, NEW d, <<a, b>> = <<c, d>>
  PROVE  a = c /\ b = d
  OBVIOUS

(* No two lines get the same label. *)
LEMMA LabelInjective ==
  ASSUME NEW L, NEW j \in Nat \ {0}, NEW k \in Nat \ {0}, L[j].kind \in MarkKinds,
         L[k].kind \in MarkKinds, LabelOf(L, j) = LabelOf(L, k)
  PROVE  j = k
<1> DEFINE family(m) == IF L[m].kind = "loop" THEN "loop" ELSE IF L[m].kind = "fi" THEN "fi" ELSE "else"
           group(m)  == IF L[m].kind = "loop" THEN {"loop"} ELSE IF L[m].kind = "fi" THEN {"fi"} ELSE ElseKinds
<1>1. ASSUME NEW m, L[m].kind \in MarkKinds
      PROVE  LabelOf(L, m) = <<family(m), Before(L, m, group(m))>> /\ L[m].kind \in group(m)
  <2>1. CASE L[m].kind = "loop"
    BY <2>1, LabelIs, Zenon
  <2>2. CASE L[m].kind = "fi"
    <3>1. "fi" # "loop"
      BY Zenon
    <3> QED BY <2>2, <3>1, LabelIs, Zenon
  <2>3. CASE L[m].kind # "loop" /\ L[m].kind # "fi"
    <3>1. L[m].kind \in ElseKinds
      BY <1>1, <2>3, Zenon DEF MarkKinds, ClauseKinds
    <3> QED BY <2>3, <3>1, LabelIs, Zenon
  <2> QED BY <2>1, <2>2, <2>3, Zenon
<1>2. ASSUME family(j) = family(k) PROVE group(j) = group(k)
  BY <1>2, Zenon
<1> HIDE DEF family, group
<1>3. <<family(j), Before(L, j, group(j))>> = <<family(k), Before(L, k, group(k))>>
  BY <1>1, Zenon
<1>4. family(j) = family(k) /\ Before(L, j, group(j)) = Before(L, k, group(k))
  BY <1>3, PairsEqual
<1>5. group(j) = group(k)
  BY <1>2, <1>4
<1> DEFINE g == group(j)
<1>6. L[j].kind \in g /\ L[k].kind \in g /\ Before(L, j, g) = Before(L, k, g)
  BY <1>1, <1>4, <1>5
<1> HIDE DEF g
<1> QED BY <1>6, BeforeInjective

(* They are nobody's names. *)
LEMMA LabelNotNamed ==
  ASSUME NEW L, WellNamed(L), NEW j, NEW k \in DOMAIN L, L[k].kind \in NameKinds
  PROVE  LabelOf(L, j) # Named(L[k].text)
<1> DEFINE x == L[k].text
<1>1. x \notin {"loop", "else", "fi"}
  BY Zenon DEF WellNamed
<1>2. x # "loop" /\ x # "fi" /\ x # "else"
  BY <1>1, Zenon
<1> HIDE DEF x
<1> SUFFICES ASSUME LabelOf(L, j) = <<x, 0>> PROVE FALSE
  BY Zenon DEF Named, x
<1>3. \A b : <<"loop", b>> # <<x, 0>> /\ <<"fi", b>> # <<x, 0>> /\ <<"else", b>> # <<x, 0>>
  BY <1>2, PairsEqual
<1> QED BY <1>3, Zenon DEF LabelOf

(* The label that is made of line n. *)
LEMMA LabelMade ==
  ASSUME IInv, Read, CountsOK
  PROVE  /\ Current.kind = "loop" => <<"loop", loops>> = LabelOf(listing, n)
         /\ Current.kind = "fi" => <<"fi", fis>> = LabelOf(listing, n)
         /\ Current.kind \in ElseKinds => <<"else", elses>> = LabelOf(listing, n)
<1>1. Current = listing[n]
  BY DEF Current
<1> QED BY <1>1, LabelIs, Zenon DEF CountsOK

-----------------------------------------------------------------------------
(* The jump table. *)

(* A line that only names a place gets no label. *)
LEMMA NoNameIsMark == \A x \in MarkKinds : x \notin NameKinds
  BY Zenon DEF MarkKinds, NameKinds, ClauseKinds, ElseKinds

(* The row of a line, by its kind. *)
LEMMA RowIs ==
  ASSUME NEW L, NEW m
  PROVE  /\ L[m].kind \in NameKinds => Row(L, m) = Before(L, m, NameKinds)
         /\ L[m].kind \in MarkKinds =>
              Row(L, m) = Before(L, Len(L) + 1, NameKinds) + Before(L, m, MarkKinds)
  BY NoNameIsMark, Zenon DEF Row

(* Where the rows of the names are, and those of the marks before line j. *)
LEMMA NameRow ==
  ASSUME NEW L, Len(L) \in Nat, NEW m \in 1..Len(L), L[m].kind \in NameKinds
  PROVE  Row(L, m) \in 0..(Before(L, Len(L) + 1, NameKinds) - 1)
<1>1. Row(L, m) = Before(L, m, NameKinds)
  BY RowIs
<1>2. /\ Before(L, m, NameKinds) \in Nat /\ Before(L, Len(L) + 1, NameKinds) \in Nat
      /\ Before(L, m, NameKinds) < Before(L, Len(L) + 1, NameKinds)
  <2>1. m \in Nat \ {0} /\ Len(L) + 1 \in Nat \ {0} /\ m < Len(L) + 1
    OBVIOUS
  <2> QED BY <2>1, BeforeGrows
<1> QED BY <1>1, <1>2

(* The rows of the marked lines come after those of the names. *)
LEMMA MarkRow ==
  ASSUME NEW L, Len(L) \in Nat, NEW j \in Nat \ {0}, NEW m \in 1..(j - 1), L[m].kind \in MarkKinds
  PROVE  LET names == Before(L, Len(L) + 1, NameKinds)
         IN  Row(L, m) \in names..(names + Before(L, j, MarkKinds) - 1)
<1> DEFINE names == Before(L, Len(L) + 1, NameKinds)
<1>1. Row(L, m) = names + Before(L, m, MarkKinds)
  BY RowIs
<1>2. names \in Nat
  BY BeforeSteps
<1>3. /\ Before(L, m, MarkKinds) \in Nat /\ Before(L, j, MarkKinds) \in Nat
      /\ Before(L, m, MarkKinds) < Before(L, j, MarkKinds)
  BY BeforeGrows
<1> HIDE DEF names
<1>4. Row(L, m) \in names..(names + Before(L, j, MarkKinds) - 1)
  BY <1>1, <1>2, <1>3
<1> QED BY <1>4 DEF names

(* A turn adds a row for a marked line, and notes where a label is. *)
LEMMA TableGrows ==
  ASSUME IInv, Read, CountsOK
  PROVE  IF Current.kind \in MarkKinds
         THEN /\ jumptable' = Append(jumptable, LabelOf(listing, n))
              /\ at' = Assign(at, LabelOf(listing, n), IF Current.kind \in ElseKinds THEN address + 1 ELSE address)
         ELSE /\ jumptable' = jumptable
              /\ at' = IF Current.kind = "label" THEN Assign(at, Named(Current.text), address) ELSE at
<1>0. /\ Current.kind = "loop" => <<"loop", loops>> = LabelOf(listing, n)
      /\ Current.kind = "fi" => <<"fi", fis>> = LabelOf(listing, n)
      /\ Current.kind \in ElseKinds => <<"else", elses>> = LabelOf(listing, n)
  BY LabelMade
<1>1. CASE ReadLoop
  <2>1. Current.kind = "loop" /\ NewRow(<<"loop", loops>>, address)
    BY <1>1, Zenon DEF ReadLoop
  <2>2. Current.kind \in MarkKinds /\ Current.kind \notin ElseKinds
    BY <2>1, Zenon DEF MarkKinds, ElseKinds
  <2> QED BY <1>0, <2>1, <2>2, Zenon DEF NewRow
<1>2. CASE ReadElse
  <2>1. Current.kind \in ElseKinds /\ NewRow(<<"else", elses>>, address + 1)
    BY <1>2, Zenon DEF ReadElse
  <2>2. Current.kind \in MarkKinds
    BY <2>1, Zenon DEF MarkKinds, ClauseKinds
  <2> QED BY <1>0, <2>1, <2>2, Zenon DEF NewRow
<1>3. CASE ReadFi
  <2>1. Current.kind = "fi" /\ NewRow(<<"fi", fis>>, address)
    BY <1>3, Zenon DEF ReadFi
  <2>2. Current.kind \in MarkKinds /\ Current.kind \notin ElseKinds
    BY <2>1, Zenon DEF MarkKinds, ClauseKinds, ElseKinds
  <2> QED BY <1>0, <2>1, <2>2, Zenon DEF NewRow
<1>4. CASE ReadName
  <2>1. /\ Current.kind \in NameKinds /\ jumptable' = jumptable
        /\ at' = IF Current.kind = "label" THEN Assign(at, Named(Current.text), address) ELSE at
    BY <1>4, Zenon DEF ReadName
  <2>2. Current.kind \notin MarkKinds
    BY <2>1, NoNameIsMark, Zenon
  <2> QED BY <2>1, <2>2, Zenon
<1>5. CASE ReadUntil
  <2>1. Current.kind = "until" /\ jumptable' = jumptable /\ at' = at
    BY <1>5, Zenon DEF ReadUntil
  <2>2. Current.kind \notin MarkKinds /\ Current.kind # "label"
    BY <2>1, Zenon DEF MarkKinds, ClauseKinds, ElseKinds
  <2> QED BY <2>1, <2>2, Zenon
<1>6. CASE ReadIf
  <2>1. Current.kind = "if" /\ jumptable' = jumptable /\ at' = at
    BY <1>6, Zenon DEF ReadIf
  <2>2. Current.kind \notin MarkKinds /\ Current.kind # "label"
    BY <2>1, Zenon DEF MarkKinds, ClauseKinds, ElseKinds
  <2> QED BY <2>1, <2>2, Zenon
<1>7. CASE ReadPlain
  <2>1. /\ Current.kind \notin NameKinds \cup MarkKinds /\ jumptable' = jumptable /\ at' = at
    BY <1>7, Zenon DEF ReadPlain
  <2>2. Current.kind \notin MarkKinds /\ Current.kind # "label"
    BY <2>1, Zenon DEF NameKinds
  <2> QED BY <2>1, <2>2, Zenon
<1> QED BY <1>1, <1>2, <1>3, <1>4, <1>5, <1>6, <1>7 DEF Read

TableOK == IsFile(jumptable) /\ RowsOK

(* The rows stay where the listing puts them. *)
LEMMA TableStep ==
  ASSUME IInv, Read, CountsOK, TableOK
  PROVE  TableOK'
<1> DEFINE L == listing
           names == Before(L, Len(L) + 1, NameKinds)
           marks == Before(L, n, MarkKinds)
<1>1. /\ n \in Nat \ {0} /\ n' = n + 1 /\ listing' = listing /\ Current = listing[n]
      /\ Len(L) \in Nat /\ DOMAIN L = 1..Len(L) /\ n \in 1..Len(L)
  BY ReadFacts
<1>2. /\ Before(L, n + 1, MarkKinds) = marks + (IF L[n].kind \in MarkKinds THEN 1 ELSE 0)
      /\ marks \in Nat
  BY <1>1, BeforeSteps
<1>3. names \in Nat
  BY <1>1, BeforeSteps
<1>4. /\ IsFile(jumptable) /\ Len(jumptable) = names + marks
      /\ \A m \in DOMAIN L : L[m].kind \in NameKinds => jumptable[Row(L, m) + 1] = Named(L[m].text)
      /\ \A m \in 1..(n - 1) : L[m].kind \in MarkKinds => jumptable[Row(L, m) + 1] = LabelOf(L, m)
  BY Zenon DEF TableOK, RowsOK
<1>5. /\ \A m \in DOMAIN L : L[m].kind \in NameKinds => Row(L, m) \in 0..(names - 1)
      /\ \A m \in 1..(n - 1) : L[m].kind \in MarkKinds => Row(L, m) \in names..(names + marks - 1)
      /\ L[n].kind \in MarkKinds => Row(L, n) = names + marks
  BY <1>1, NameRow, MarkRow, RowIs
<1>6. SUFFICES /\ IsFile(jumptable') /\ Len(jumptable') = names + Before(L, n + 1, MarkKinds)
               /\ \A m \in DOMAIN L : L[m].kind \in NameKinds => jumptable'[Row(L, m) + 1] = Named(L[m].text)
               /\ \A m \in 1..((n + 1) - 1) : L[m].kind \in MarkKinds => jumptable'[Row(L, m) + 1] = LabelOf(L, m)
  BY <1>1, Zenon DEF TableOK, RowsOK, IsFile
<1>7. CASE L[n].kind \in MarkKinds
  <2>1. jumptable' = Append(jumptable, LabelOf(L, n))
    BY <1>1, <1>7, TableGrows
  <2>2. /\ IsFile(jumptable') /\ Len(jumptable') = Len(jumptable) + 1
        /\ \A l \in 1..Len(jumptable) : jumptable'[l] = jumptable[l]
        /\ jumptable'[Len(jumptable) + 1] = LabelOf(L, n)
    <3> DEFINE x == LabelOf(L, n)
               longer == Append(jumptable, x)
    <3> HIDE DEF x
    <3>1. IsFile(longer) /\ Len(longer) = Len(jumptable) + 1
      BY <1>4, AppendLine
    <3>2. \A l \in 1..Len(jumptable) : longer[l] = jumptable[l]
      <4> DEFINE S == {jumptable[l] : l \in DOMAIN jumptable} \cup {x}
      <4>1. jumptable \in Seq(S) /\ x \in S
        BY <1>4 DEF IsFile
      <4> HIDE DEF S
      <4> QED BY <4>1
    <3>3. longer[Len(jumptable) + 1] = x
      <4> DEFINE S == {jumptable[l] : l \in DOMAIN jumptable} \cup {x}
      <4>1. jumptable \in Seq(S) /\ x \in S
        BY <1>4 DEF IsFile
      <4> HIDE DEF S
      <4> QED BY <4>1
    <3> HIDE DEF longer
    <3>4. jumptable' = longer
      BY <2>1 DEF longer, x
    <3> QED BY <3>1, <3>2, <3>3, <3>4 DEF x
  <2> HIDE DEF L, names, marks
  <2>3. ASSUME NEW m \in DOMAIN L, L[m].kind \in NameKinds
        PROVE  jumptable'[Row(L, m) + 1] = Named(L[m].text)
    <3>1. Row(L, m) + 1 \in 1..Len(jumptable)
      BY <1>2, <1>3, <1>4, <1>5, <2>3
    <3> QED BY <1>4, <2>2, <2>3, <3>1
  <2>4. ASSUME NEW m \in 1..((n + 1) - 1), L[m].kind \in MarkKinds
        PROVE  jumptable'[Row(L, m) + 1] = LabelOf(L, m)
    <3>1. CASE m = n
      BY <1>4, <1>5, <2>2, <2>4, <3>1
    <3>2. CASE m # n
      <4>1. m \in 1..(n - 1)
        BY <1>1, <3>2
      <4>2. Row(L, m) + 1 \in 1..Len(jumptable)
        BY <1>2, <1>3, <1>4, <1>5, <2>4, <4>1
      <4> QED BY <1>4, <2>2, <2>4, <4>1, <4>2
    <3> QED BY <3>1, <3>2
  <2>5. Len(jumptable') = names + Before(L, n + 1, MarkKinds)
    BY <1>2, <1>3, <1>4, <1>7, <2>2
  <2> QED BY <2>2, <2>3, <2>4, <2>5
<1>8. CASE L[n].kind \notin MarkKinds
  <2>1. jumptable' = jumptable
    BY <1>1, <1>8, TableGrows
  <2> HIDE DEF L, names, marks
  <2>2. ASSUME NEW m \in 1..((n + 1) - 1), L[m].kind \in MarkKinds
        PROVE  jumptable'[Row(L, m) + 1] = LabelOf(L, m)
    <3>1. m \in 1..(n - 1)
      <4>1. m # n
        BY <1>8, <2>2
      <4> QED BY <1>1, <4>1
    <3> QED BY <1>4, <2>1, <2>2, <3>1
  <2>3. Len(jumptable') = names + Before(L, n + 1, MarkKinds)
    BY <1>2, <1>3, <1>4, <1>8, <2>1
  <2> QED BY <1>4, <2>1, <2>2, <2>3
<1> QED BY <1>7, <1>8

(* Where the labels of the lines read point. *)
PlaceOK(L, m, places) ==
  /\ L[m].kind \in MarkKinds => /\ LabelOf(L, m) \in DOMAIN places
                                /\ places[LabelOf(L, m)] = Landing(L, m)
  /\ L[m].kind = "label" => /\ Named(L[m].text) \in DOMAIN places
                            /\ places[Named(L[m].text)] = Address(L, m)

(* A new place leaves those of other labels alone. *)
LEMMA PlaceKept ==
  ASSUME NEW L, NEW m, NEW places, PlaceOK(L, m, places), NEW x, NEW v,
         L[m].kind \in MarkKinds => x # LabelOf(L, m),
         L[m].kind = "label" => x # Named(L[m].text)
  PROVE  PlaceOK(L, m, Assign(places, x, v))
<1>1. /\ DOMAIN Assign(places, x, v) = DOMAIN places \cup {x}
      /\ \A y \in DOMAIN places : y # x => Assign(places, x, v)[y] = places[y]
  BY DEF Assign
<1> DEFINE more == Assign(places, x, v)
<1> HIDE DEF more
<1>2. PlaceOK(L, m, more)
  BY <1>1, Zenon DEF PlaceOK, more
<1> QED BY <1>2 DEF more

(* The places stay where the lines are. *)
LEMMA PlacesStep ==
  ASSUME IInv, Read, CountsOK, PlacesOK
  PROVE  PlacesOK'
<1> DEFINE L == listing
<1>1. /\ n \in Nat \ {0} /\ n' = n + 1 /\ listing' = listing /\ Current = L[n]
      /\ WellNamed(L) /\ DOMAIN L = 1..Len(L) /\ n \in 1..Len(L) /\ Len(L) \in Nat
  BY ReadFacts
<1>2. \A m \in 1..(n - 1) : PlaceOK(L, m, at)
  BY Zenon DEF PlacesOK, PlaceOK
<1>3. address = Address(L, n)
  BY Zenon DEF CountsOK
<1> SUFFICES \A m \in 1..((n + 1) - 1) : PlaceOK(L, m, at')
  BY <1>1, Zenon DEF PlacesOK, PlaceOK
<1>l. "label" \in NameKinds
  BY Zenon DEF NameKinds
<1>4. CASE L[n].kind \in MarkKinds
  <2> DEFINE x == LabelOf(L, n)
             v == IF L[n].kind \in ElseKinds THEN address + 1 ELSE address
  <2>1. at' = Assign(at, x, v)
    BY <1>1, <1>4, TableGrows, Zenon
  <2>2. v = Landing(L, n)
    <3>1. Address(L, n) \in Int
      BY <1>1, AddressSteps
    <3> QED BY <1>3, <3>1 DEF Landing
  <2>3. PlaceOK(L, n, Assign(at, x, v))
    <3>1. /\ x \in DOMAIN Assign(at, x, v)
          /\ Assign(at, x, v)[x] = v
      <4> HIDE DEF x, v
      <4> QED BY DEF Assign
    <3>2. L[n].kind # "label"
      BY <1>4, <1>l, NoNameIsMark, Zenon
    <3> HIDE DEF v
    <3> QED BY <2>2, <3>1, <3>2, Zenon DEF PlaceOK
  <2>4. ASSUME NEW m \in 1..(n - 1) PROVE PlaceOK(L, m, Assign(at, x, v))
    <3>1. L[m].kind \in MarkKinds => x # LabelOf(L, m)
      BY <1>1, <1>4, LabelInjective
    <3>2. L[m].kind = "label" => x # Named(L[m].text)
      <4>1. m \in DOMAIN L
        BY <1>1
      <4> QED BY <1>1, <1>l, <4>1, LabelNotNamed, Zenon
    <3> HIDE DEF x, v
    <3> QED BY <1>2, <3>1, <3>2, PlaceKept
  <2> HIDE DEF x, v
  <2> QED BY <1>1, <2>1, <2>3, <2>4
<1>5. CASE L[n].kind = "label"
  <2> DEFINE x == Named(L[n].text)
  <2>0. L[n].kind \notin MarkKinds
    BY <1>5, <1>l, NoNameIsMark, Zenon
  <2>1. at' = Assign(at, x, address)
    BY <1>1, <1>5, <2>0, TableGrows, Zenon
  <2>3. PlaceOK(L, n, Assign(at, x, address))
    <3>1. /\ x \in DOMAIN Assign(at, x, address)
          /\ Assign(at, x, address)[x] = address
      <4> HIDE DEF x
      <4> QED BY DEF Assign
    <3> QED BY <1>3, <2>0, <3>1, Zenon DEF PlaceOK
  <2>4. ASSUME NEW m \in 1..(n - 1) PROVE PlaceOK(L, m, Assign(at, x, address))
    <3>1. L[m].kind \in MarkKinds => x # LabelOf(L, m)
      <4>1. n \in DOMAIN L /\ L[n].kind \in NameKinds
        BY <1>1, <1>5, <1>l
      <4> QED BY <1>1, <4>1, LabelNotNamed
    <3>2. L[m].kind = "label" => x # Named(L[m].text)
      <4>1. ASSUME L[m].kind = "label", Named(L[n].text) = Named(L[m].text) PROVE FALSE
        <5>1. L[n].text = L[m].text
          BY <4>1, PairsEqual, Zenon DEF Named
        <5>2. m \in DOMAIN L /\ n \in DOMAIN L /\ m # n
          BY <1>1
        <5> QED BY <1>1, <1>5, <4>1, <5>1, <5>2, Zenon DEF WellNamed
      <4> QED BY <4>1, Zenon
    <3> HIDE DEF x
    <3> QED BY <1>2, <3>1, <3>2, PlaceKept
  <2> HIDE DEF x
  <2> QED BY <1>1, <2>1, <2>3, <2>4
<1>6. CASE L[n].kind \notin MarkKinds /\ L[n].kind # "label"
  <2>1. at' = at
    BY <1>1, <1>6, TableGrows, Zenon
  <2>2. PlaceOK(L, n, at)
    BY <1>6, Zenon DEF PlaceOK
  <2> QED BY <1>1, <1>2, <2>1, <2>2
<1> QED BY <1>4, <1>5, <1>6, Zenon

-----------------------------------------------------------------------------
(* The shell variables of the open constructs. *)

(* Which alternative a turn takes is decided by the kind of the line. *)
LEMMA WhichRead ==
  ASSUME Read
  PROVE  /\ Current.kind = "loop"      => ReadLoop
         /\ Current.kind \in ElseKinds => ReadElse
         /\ Current.kind = "fi"        => ReadFi
         /\ Current.kind \in NameKinds => ReadName
         /\ Current.kind = "until"     => ReadUntil
         /\ Current.kind = "if"        => ReadIf
         /\ Current.kind \notin NameKinds \cup MarkKinds \cup {"until", "if"} => ReadPlain
<1> DEFINE k == Current.kind
<1>1. CASE ReadLoop
  <2>1. k = "loop"
    BY <1>1, Zenon DEF ReadLoop
  <2> HIDE DEF k
  <2>2. k \notin ElseKinds /\ k # "fi" /\ k \notin NameKinds /\ k # "until" /\ k # "if" /\ k \in MarkKinds
    BY <2>1, Zenon DEF ElseKinds, NameKinds, MarkKinds
  <2> QED BY <1>1, <2>2, Zenon DEF k
<1>2. CASE ReadElse
  <2>1. k \in ElseKinds
    BY <1>2, Zenon DEF ReadElse
  <2> HIDE DEF k
  <2>2. k # "loop" /\ k # "fi" /\ k \notin NameKinds /\ k # "until" /\ k # "if" /\ k \in MarkKinds
    BY <2>1, Zenon DEF ElseKinds, NameKinds, MarkKinds, ClauseKinds
  <2> QED BY <1>2, <2>2, Zenon DEF k
<1>3. CASE ReadFi
  <2>1. k = "fi"
    BY <1>3, Zenon DEF ReadFi
  <2> HIDE DEF k
  <2>2. k # "loop" /\ k \notin ElseKinds /\ k \notin NameKinds /\ k # "until" /\ k # "if" /\ k \in MarkKinds
    BY <2>1, Zenon DEF ElseKinds, NameKinds, MarkKinds, ClauseKinds
  <2> QED BY <1>3, <2>2, Zenon DEF k
<1>4. CASE ReadName
  <2>1. k \in NameKinds
    BY <1>4, Zenon DEF ReadName
  <2> HIDE DEF k
  <2>2. k # "loop" /\ k \notin ElseKinds /\ k # "fi" /\ k # "until" /\ k # "if"
    BY <2>1, Zenon DEF ElseKinds, NameKinds
  <2> QED BY <1>4, <2>1, <2>2, Zenon DEF k
<1>5. CASE ReadUntil
  <2>1. k = "until"
    BY <1>5, Zenon DEF ReadUntil
  <2> HIDE DEF k
  <2>2. k # "loop" /\ k \notin ElseKinds /\ k # "fi" /\ k \notin NameKinds /\ k # "if"
    BY <2>1, Zenon DEF ElseKinds, NameKinds
  <2> QED BY <1>5, <2>1, <2>2, Zenon DEF k
<1>6. CASE ReadIf
  <2>1. k = "if"
    BY <1>6, Zenon DEF ReadIf
  <2> HIDE DEF k
  <2>2. k # "loop" /\ k \notin ElseKinds /\ k # "fi" /\ k \notin NameKinds /\ k # "until"
    BY <2>1, Zenon DEF ElseKinds, NameKinds
  <2> QED BY <1>6, <2>1, <2>2, Zenon DEF k
<1>7. CASE ReadPlain
  <2>1. k \notin NameKinds \cup MarkKinds \cup {"until", "if"}
    BY <1>7, Zenon DEF ReadPlain
  <2> HIDE DEF k
  <2>2. k # "loop" /\ k \notin ElseKinds /\ k # "fi" /\ k \notin NameKinds /\ k # "until" /\ k # "if"
    BY <2>1, Zenon DEF MarkKinds, ClauseKinds
  <2> QED BY <1>7, <2>2, Zenon DEF k
<1> QED BY <1>1, <1>2, <1>3, <1>4, <1>5, <1>6, <1>7 DEF Read

(* A line that is no clause leaves the variables of the open levels alone, *)
LEMMA OtherSlots ==
  ASSUME IInv, Read, SlotsOK, Current.kind \notin ClauseKinds, NEW lvl \in 1..level
  PROVE  SameSlots(lvl, saved, arr, saved', arr') /\ lvl \in DOMAIN saved'
<1>0. level \in Nat /\ lvl # level + 1 /\ lvl \in DOMAIN saved
  BY ReadFacts DEF SlotsOK
<1>1. ASSUME NEW label, arr' = Assign(arr, <<level + 1, 1>>, label)
      PROVE  \A k : Lookup(arr', lvl, k) = Lookup(arr, lvl, k)
  BY <1>0, <1>1, LookupAssign
<1>2. ASSUME saved' = Assign(saved, level + 1, 1)
      PROVE  saved'[lvl] = saved[lvl] /\ lvl \in DOMAIN saved'
  BY <1>0, <1>2 DEF Assign
<1>3. CASE arr' = arr /\ saved' = saved
  BY <1>0, <1>3, Zenon DEF SameSlots
<1>4. CASE ReadLoop
  <2>1. arr' = Assign(arr, <<level + 1, 1>>, <<"loop", loops>>) /\ saved' = Assign(saved, level + 1, 1)
    BY <1>4, Zenon DEF ReadLoop
  <2> QED BY <1>1, <1>2, <2>1, Zenon DEF SameSlots
<1>5. CASE ReadIf
  <2>1. arr' = arr /\ saved' = Assign(saved, level + 1, 1)
    BY <1>5, Zenon DEF ReadIf
  <2> QED BY <1>2, <2>1, Zenon DEF SameSlots
<1>6. CASE ReadName
  BY <1>3, <1>6, Zenon DEF ReadName
<1>7. CASE ReadUntil
  BY <1>3, <1>7, Zenon DEF ReadUntil
<1>8. CASE ReadPlain
  BY <1>3, <1>8, Zenon DEF ReadPlain
<1>9. ~ReadElse /\ ~ReadFi
  BY Zenon DEF ReadElse, ReadFi, ClauseKinds
<1> QED BY <1>4, <1>5, <1>6, <1>7, <1>8, <1>9, Zenon DEF Read

(* and a clause puts its label in the last slot of its level; an else opens
   another slot.                                                           *)
LEMMA ClauseSlots ==
  ASSUME IInv, Read, CountsOK, SlotsOK, Current.kind \in ClauseKinds
  PROVE  /\ level \in Nat \ {0} /\ level \in DOMAIN saved /\ saved[level] \in Nat \ {0}
         /\ arr' = Assign(arr, <<level, saved[level]>>, LabelOf(listing, n))
         /\ saved' = IF Current.kind \in ElseKinds THEN [saved EXCEPT ![level] = @ + 1] ELSE saved
<1>1. WellNested(listing) /\ n \in DOMAIN listing /\ Current = listing[n] /\ level = Opened(listing, n)
  BY ReadFacts
<1>2. level \in Nat \ {0}
  BY <1>1, ClauseInside
<1>3. level \in 1..level
  BY <1>2
<1>4. level \in DOMAIN saved /\ saved[level] \in Nat \ {0}
  BY <1>3 DEF SlotsOK
<1>5. CASE Current.kind \in ElseKinds
  <2>1. ReadElse
    BY <1>5, WhichRead, Zenon
  <2> QED BY <1>2, <1>4, <1>5, <2>1, LabelMade, Zenon DEF ReadElse
<1>6. CASE Current.kind \notin ElseKinds
  <2>1. Current.kind = "fi"
    BY <1>6, Zenon DEF ClauseKinds
  <2>2. ReadFi
    BY <2>1, WhichRead, Zenon
  <2> QED BY <1>2, <1>4, <1>6, <2>1, <2>2, LabelMade, Zenon DEF ReadFi
<1> QED BY <1>5, <1>6

(* The variables of the level of a clause after it is read. *)
LEMMA ClauseLookup ==
  ASSUME IInv, Read, CountsOK, SlotsOK, Current.kind \in ClauseKinds
  PROVE  /\ \A k : Lookup(arr', level, k) =
                     IF k = saved[level] THEN LabelOf(listing, n) ELSE Lookup(arr, level, k)
         /\ \A lvl : lvl # level => SameSlots(lvl, saved, arr, saved', arr')
         /\ DOMAIN saved' = DOMAIN saved
         /\ Current.kind \in ElseKinds => saved'[level] = saved[level] + 1
         /\ Current.kind \notin ElseKinds => saved' = saved
<1> DEFINE label == LabelOf(listing, n)
<1>1. /\ level \in DOMAIN saved
      /\ arr' = Assign(arr, <<level, saved[level]>>, label)
      /\ saved' = IF Current.kind \in ElseKinds THEN [saved EXCEPT ![level] = @ + 1] ELSE saved
  BY ClauseSlots
<1> HIDE DEF label
<1>2. \A l2, k2 : Lookup(arr', l2, k2) =
        IF l2 = level /\ k2 = saved[level] THEN label ELSE Lookup(arr, l2, k2)
  BY <1>1, LookupAssign
<1>3. CASE Current.kind \in ElseKinds
  <2>1. saved' = [saved EXCEPT ![level] = @ + 1]
    BY <1>1, <1>3
  <2>2. saved'[level] = saved[level] + 1 /\ DOMAIN saved' = DOMAIN saved
    BY <1>1, <2>1
  <2>3. \A lvl : lvl # level => saved'[lvl] = saved[lvl]
    BY <2>1
  <2> QED BY <1>2, <1>3, <2>2, <2>3, Zenon DEF SameSlots, label
<1>4. CASE Current.kind \notin ElseKinds
  <2>1. saved' = saved
    BY <1>1, <1>4
  <2> QED BY <1>2, <1>4, <2>1, Zenon DEF SameSlots, label
<1> QED BY <1>3, <1>4

-----------------------------------------------------------------------------

(* The variables of the open loops keep their labels. *)
LEMMA SlotsStep ==
  ASSUME IInv, Read, CountsOK, SlotsOK
  PROVE  SlotsOK'
<1> DEFINE L == listing
<1>1. /\ WellNested(L) /\ n \in DOMAIN L /\ n \in Nat \ {0} /\ n' = n + 1 /\ listing' = listing
      /\ level = Opened(L, n) /\ level \in Nat /\ level' = Opened(L, n + 1) /\ level' \in Nat
      /\ Current = L[n]
  BY ReadFacts
<1>2. Opened(L, n + 1) = Opened(L, n) + (IF L[n].kind \in OpenKinds THEN 1 ELSE 0)
                                      - (IF L[n].kind \in CloseKinds THEN 1 ELSE 0)
  BY <1>1, OpenedSteps
<1>3. ASSUME NEW lvl \in 1..level' PROVE lvl \in DOMAIN saved' /\ saved'[lvl] \in Nat \ {0}
  <2>1. CASE lvl \in 1..level /\ Current.kind \notin ClauseKinds
    <3>1. SameSlots(lvl, saved, arr, saved', arr') /\ lvl \in DOMAIN saved'
      BY <2>1, OtherSlots
    <3>2. saved[lvl] \in Nat \ {0}
      BY <2>1 DEF SlotsOK
    <3> QED BY <3>1, <3>2 DEF SameSlots
  <2>2. CASE lvl \in 1..level /\ Current.kind \in ClauseKinds
    <3>1. lvl \in DOMAIN saved /\ saved[lvl] \in Nat \ {0}
      BY <2>2 DEF SlotsOK
    <3>2. /\ lvl # level => saved'[lvl] = saved[lvl]
          /\ DOMAIN saved' = DOMAIN saved
          /\ Current.kind \in ElseKinds => saved'[level] = saved[level] + 1
          /\ Current.kind \notin ElseKinds => saved' = saved
      BY <2>2, ClauseLookup, Zenon DEF SameSlots
    <3> QED BY <3>1, <3>2
  <2>3. CASE lvl \notin 1..level
    <3>1. lvl = level + 1 /\ Current.kind \in OpenKinds
      BY <1>1, <1>2, <2>3
    <3>2. saved' = Assign(saved, level + 1, 1)
      <4>1. CASE Current.kind = "loop"
        BY <4>1, WhichRead, Zenon DEF ReadLoop
      <4>2. CASE Current.kind = "if"
        BY <4>2, WhichRead, Zenon DEF ReadIf
      <4> QED BY <3>1, <4>1, <4>2, Zenon DEF OpenKinds
    <3> QED BY <3>1, <3>2 DEF Assign
  <2> QED BY <1>1, <2>1, <2>2, <2>3
<1>4. ASSUME NEW m \in 1..((n + 1) - 1), L[m].kind = "loop", StaysOpen(L, m, n + 1)
      PROVE  Lookup(arr', Nesting(L, m), 1) = LabelOf(L, m)
  <2>1. CASE m = n
    <3>1. Current.kind = "loop" /\ L[n].kind \in OpenKinds
      BY <1>1, <1>4, <2>1, Zenon DEF OpenKinds
    <3>2. Nesting(L, n) = level + 1
      BY <1>1, <3>1, NestingIs
    <3>3. arr' = Assign(arr, <<level + 1, 1>>, <<"loop", loops>>)
      BY <3>1, WhichRead, Zenon DEF ReadLoop
    <3>4. <<"loop", loops>> = LabelOf(L, n)
      BY <3>1, LabelMade
    <3> DEFINE label == LabelOf(L, n)
    <3> HIDE DEF label
    <3>5. arr' = Assign(arr, <<level + 1, 1>>, label)
      BY <3>3, <3>4 DEF label
    <3>6. Lookup(arr', level + 1, 1) = label
      BY <3>5, LookupAssign
    <3> QED BY <2>1, <3>2, <3>6 DEF label
  <2>2. CASE m # n
    <3>1. m \in 1..(n - 1) /\ m \in Nat \ {0} /\ m < n
      BY <1>1, <2>2
    <3>2. StaysOpen(L, m, n) /\ Opened(L, n) >= Nesting(L, m)
      BY <1>1, <1>4, <3>1, StaysOpenSteps
    <3>3. Lookup(arr, Nesting(L, m), 1) = LabelOf(L, m)
      BY <1>4, <3>1, <3>2 DEF SlotsOK
    <3>4. Nesting(L, m) \in 1..level
      <4>1. m \in 1..(Len(L) + 1)
        BY <1>1, <3>1, ListingShape
      <4>2. Opened(L, m) \in Nat
        BY <1>1, <4>1, OpenedNatural
      <4>3. L[m].kind \in OpenKinds
        BY <1>4, Zenon DEF OpenKinds
      <4>4. Nesting(L, m) = Opened(L, m) + 1
        BY <3>1, <4>3, NestingIs
      <4> QED BY <1>1, <3>2, <4>2, <4>4
    <3>5. CASE Current.kind \notin ClauseKinds
      <4>1. SameSlots(Nesting(L, m), saved, arr, saved', arr')
        BY <3>4, <3>5, OtherSlots
      <4> QED BY <3>3, <4>1, Zenon DEF SameSlots
    <3>6. CASE Current.kind \in ClauseKinds
      <4>1. Nesting(L, m) # level
        BY <1>1, <1>4, <3>1, <3>2, <3>6, NoLoopAtClause
      <4>2. SameSlots(Nesting(L, m), saved, arr, saved', arr')
        BY <3>6, <4>1, ClauseLookup
      <4> QED BY <3>3, <4>2, Zenon DEF SameSlots
    <3> QED BY <3>5, <3>6
  <2> QED BY <2>1, <2>2
<1> QED BY <1>1, <1>3, <1>4 DEF SlotsOK

-----------------------------------------------------------------------------
(* The lines written. *)

(* Where the lines written of line t are. *)
LEMMA PlaceOfLine ==
  ASSUME NEW L, NEW t \in Nat \ {0}
  PROVE  /\ Address(L, t) \in Nat
         /\ L[t].kind \in {"if", "else", "until"} => Size(L, t) = 1
         /\ L[t].kind = "elif" => Size(L, t) = 2
         /\ L[t].kind \notin NoCodeKinds \cup JumpKinds => Size(L, t) = 1
<1>1. Address(L, t) \in Nat
  BY AddressNatural
<1>2. ASSUME L[t].kind \in {"if", "else", "until"} PROVE Size(L, t) = 1
  <2>1. L[t].kind \notin NoCodeKinds /\ L[t].kind # "elif"
    BY <1>2, Zenon DEF NoCodeKinds, NameKinds
  <2> QED BY <2>1, Zenon DEF Size
<1>3. ASSUME L[t].kind = "elif" PROVE Size(L, t) = 2
  <2>1. L[t].kind \notin NoCodeKinds
    BY <1>3, Zenon DEF NoCodeKinds, NameKinds
  <2> QED BY <1>3, <2>1, Zenon DEF Size
<1>4. ASSUME L[t].kind \notin NoCodeKinds \cup JumpKinds PROVE Size(L, t) = 1
  BY <1>4, Zenon DEF Size, JumpKinds
<1> QED BY <1>1, <1>2, <1>3, <1>4

(* The lines in which line t may still refer to a level. *)
HasJump(L, t) == L[t].kind \in {"if", "elif", "else"}

(* A line is what it was when nothing of its construct happens. *)
LEMMA LineKept ==
  ASSUME NEW L, NEW t \in Nat \ {0}, NEW j \in Nat \ {0}, t < j,
         NEW file, NEW sv, NEW ar, NEW file2, NEW sv2, NEW ar2,
         LineOK(L, t, j, file, sv, ar),
         \A p \in (Address(L, t) + 1)..(Address(L, t) + Size(L, t)) : file2[p] = file[p],
         HasJump(L, t) /\ StaysOpen(L, t, j) =>
           /\ Opened(L, j + 1) >= Nesting(L, t)
           /\ ~Fellow(L, t, j, ClauseKinds)
           /\ SameSlots(Nesting(L, t), sv, ar, sv2, ar2)
  PROVE  LineOK(L, t, j + 1, file2, sv2, ar2)
<1> DEFINE p == Address(L, t) + 1
<1>1. /\ L[t].kind \in {"if", "else", "until"} => file2[p] = file[p]
      /\ L[t].kind = "elif" => file2[p] = file[p] /\ file2[p + 1] = file[p + 1]
      /\ L[t].kind \notin NoCodeKinds \cup JumpKinds => file2[p] = file[p]
  BY PlaceOfLine
<1> HIDE DEF p
<1>2. CASE L[t].kind = "if"
  <2>1. TestOK(L, t, j, file[p], sv, ar) /\ HasJump(L, t) /\ file2[p] = file[p]
    BY <1>1, <1>2, Zenon DEF LineOK, HasJump, p
  <2>2. TestOK(L, t, j + 1, file2[p], sv2, ar2)
    BY <2>1, TestKept
  <2> QED BY <1>2, <2>2, Zenon DEF LineOK, JumpKinds, p
<1>3. CASE L[t].kind = "elif"
  <2>1. /\ LeaveOK(L, t, j, file[p]) /\ TestOK(L, t, j, file[p + 1], sv, ar) /\ HasJump(L, t)
        /\ file2[p] = file[p] /\ file2[p + 1] = file[p + 1]
    BY <1>1, <1>3, Zenon DEF LineOK, HasJump, p
  <2>2. TestOK(L, t, j + 1, file2[p + 1], sv2, ar2)
    BY <2>1, TestKept
  <2>3. LeaveOK(L, t, j + 1, file2[p])
    BY <2>1, LeaveKept
  <2> QED BY <1>3, <2>2, <2>3, Zenon DEF LineOK, JumpKinds, p
<1>4. CASE L[t].kind = "else"
  <2>1. LeaveOK(L, t, j, file[p]) /\ HasJump(L, t) /\ file2[p] = file[p]
    BY <1>1, <1>4, Zenon DEF LineOK, HasJump, p
  <2>2. LeaveOK(L, t, j + 1, file2[p])
    BY <2>1, LeaveKept
  <2> QED BY <1>4, <2>2, Zenon DEF LineOK, JumpKinds, p
<1>5. CASE L[t].kind \notin {"if", "elif", "else"}
  <2>1. /\ L[t].kind = "until" => UntilOK(L, t, file[p]) /\ file2[p] = file[p]
        /\ L[t].kind \notin NoCodeKinds \cup JumpKinds => PlainOK(L, t, file[p]) /\ file2[p] = file[p]
    BY <1>1, Zenon DEF LineOK, p
  <2> QED BY <1>5, <2>1, Zenon DEF LineOK, p
<1> QED BY <1>2, <1>3, <1>4, <1>5, Zenon

(* The next clause of its construct comes. *)
LEMMA LinePassed ==
  ASSUME NEW L, NEW t \in Nat \ {0}, NEW j \in Nat \ {0}, t < j,
         NEW file, NEW sv, NEW ar, NEW file2, NEW sv2, NEW ar2,
         LineOK(L, t, j, file, sv, ar), HasJump(L, t), StaysOpen(L, t, j),
         \A p \in (Address(L, t) + 1)..(Address(L, t) + Size(L, t)) : file2[p] = file[p],
         Opened(L, j + 1) >= Nesting(L, t), Fellow(L, t, j, ClauseKinds),
         sv[Nesting(L, t)] \in Nat, sv2[Nesting(L, t)] = sv[Nesting(L, t)] + 1,
         \A k : Lookup(ar2, Nesting(L, t), k) =
                  IF k = sv[Nesting(L, t)] THEN LabelOf(L, j) ELSE Lookup(ar, Nesting(L, t), k)
  PROVE  LineOK(L, t, j + 1, file2, sv2, ar2)
<1> DEFINE p == Address(L, t) + 1
<1>1. /\ L[t].kind \in {"if", "else", "until"} => file2[p] = file[p]
      /\ L[t].kind = "elif" => file2[p] = file[p] /\ file2[p + 1] = file[p + 1]
  BY PlaceOfLine
<1> HIDE DEF p
<1>2. CASE L[t].kind = "if"
  <2>1. TestOK(L, t, j, file[p], sv, ar) /\ file2[p] = file[p]
    BY <1>1, <1>2, Zenon DEF LineOK, p
  <2>2. TestOK(L, t, j + 1, file2[p], sv2, ar2)
    BY <2>1, TestPassed
  <2> QED BY <1>2, <2>2, Zenon DEF LineOK, JumpKinds, p
<1>3. CASE L[t].kind = "elif"
  <2>1. /\ LeaveOK(L, t, j, file[p]) /\ TestOK(L, t, j, file[p + 1], sv, ar)
        /\ file2[p] = file[p] /\ file2[p + 1] = file[p + 1]
    BY <1>1, <1>3, Zenon DEF LineOK, p
  <2>2. TestOK(L, t, j + 1, file2[p + 1], sv2, ar2)
    BY <2>1, TestPassed
  <2>3. LeaveOK(L, t, j + 1, file2[p])
    BY <2>1, LeaveKept
  <2> QED BY <1>3, <2>2, <2>3, Zenon DEF LineOK, JumpKinds, p
<1>4. CASE L[t].kind = "else"
  <2>1. LeaveOK(L, t, j, file[p]) /\ file2[p] = file[p]
    BY <1>1, <1>4, Zenon DEF LineOK, p
  <2>2. LeaveOK(L, t, j + 1, file2[p])
    BY <2>1, LeaveKept
  <2> QED BY <1>4, <2>2, Zenon DEF LineOK, JumpKinds, p
<1> QED BY <1>2, <1>3, <1>4, Zenon DEF HasJump

(* Its fi comes, and fills its references in. *)
LEMMA LineClosed ==
  ASSUME NEW L, WellNested(L), NEW t \in DOMAIN L, NEW j \in DOMAIN L, t < j,
         NEW file, NEW sv, NEW ar, NEW file2, NEW sv2, NEW ar2,
         LineOK(L, t, j, file, sv, ar), HasJump(L, t), StaysOpen(L, t, j),
         \A p \in (Address(L, t) + 1)..(Address(L, t) + Size(L, t)) :
            file[p].lvl = Nesting(L, t) => file2[p] = Filled(file[p], ar2, sv[Nesting(L, t)]),
         ~(Opened(L, j + 1) >= Nesting(L, t)), L[j].kind = "fi", Nesting(L, j) = Nesting(L, t),
         \A k : Lookup(ar2, Nesting(L, t), k) =
                  IF k = sv[Nesting(L, t)] THEN LabelOf(L, j) ELSE Lookup(ar, Nesting(L, t), k)
  PROVE  LineOK(L, t, j + 1, file2, sv2, ar2)
<1> DEFINE p == Address(L, t) + 1
           top == sv[Nesting(L, t)]
<1>0. t \in Nat \ {0} /\ j \in Nat \ {0}
  BY ListingShape
<1>f. Fellow(L, t, j, ClauseKinds) /\ Fellow(L, t, j, {"fi"})
  BY Zenon DEF Fellow, ClauseKinds
<1>1. /\ L[t].kind \in {"if", "else", "until"} /\ file[p].lvl = Nesting(L, t) =>
           file2[p] = Filled(file[p], ar2, top)
      /\ L[t].kind = "elif" /\ file[p].lvl = Nesting(L, t) => file2[p] = Filled(file[p], ar2, top)
      /\ L[t].kind = "elif" /\ file[p + 1].lvl = Nesting(L, t) =>
           file2[p + 1] = Filled(file[p + 1], ar2, top)
  BY <1>0, PlaceOfLine
<1>l. \A e : LeaveOK(L, t, j, e) => e.lvl = Nesting(L, t)
  BY Zenon DEF LeaveOK
<1>t. \A e : TestOK(L, t, j, e, sv, ar) => e.lvl = Nesting(L, t)
  BY Zenon DEF TestOK
<1>2. ASSUME NEW e, TestOK(L, t, j, e, sv, ar)
      PROVE  TestOK(L, t, j + 1, Filled(e, ar2, top), sv2, ar2)
  BY <1>0, <1>2, <1>f, TestClosed
<1>3. ASSUME NEW e, LeaveOK(L, t, j, e)
      PROVE  LeaveOK(L, t, j + 1, Filled(e, ar2, top))
  <2>1. Lookup(ar2, Nesting(L, t), top) = LabelOf(L, j)
    OBVIOUS
  <2> HIDE DEF top
  <2> QED BY <1>3, <1>f, <2>1, LeaveClosed
<1> HIDE DEF p, top
<1>4. CASE L[t].kind = "if"
  <2>1. TestOK(L, t, j, file[p], sv, ar)
    BY <1>4, Zenon DEF LineOK, p
  <2>2. TestOK(L, t, j + 1, file2[p], sv2, ar2)
    BY <1>1, <1>2, <1>4, <1>t, <2>1, Zenon
  <2> QED BY <1>4, <2>2, Zenon DEF LineOK, JumpKinds, p
<1>5. CASE L[t].kind = "elif"
  <2>1. LeaveOK(L, t, j, file[p]) /\ TestOK(L, t, j, file[p + 1], sv, ar)
    BY <1>5, Zenon DEF LineOK, p
  <2>2. TestOK(L, t, j + 1, file2[p + 1], sv2, ar2)
    BY <1>1, <1>2, <1>5, <1>t, <2>1, Zenon
  <2>3. LeaveOK(L, t, j + 1, file2[p])
    BY <1>1, <1>3, <1>5, <1>l, <2>1, Zenon
  <2> QED BY <1>5, <2>2, <2>3, Zenon DEF LineOK, JumpKinds, p
<1>6. CASE L[t].kind = "else"
  <2>1. LeaveOK(L, t, j, file[p])
    BY <1>6, Zenon DEF LineOK, p
  <2>2. LeaveOK(L, t, j + 1, file2[p])
    BY <1>1, <1>3, <1>6, <1>l, <2>1, Zenon
  <2> QED BY <1>6, <2>2, Zenon DEF LineOK, JumpKinds, p
<1> QED BY <1>4, <1>5, <1>6, Zenon DEF HasJump

(* A line refers to its own level, or to none. *)
LEMMA LineLevels ==
  ASSUME NEW L, NEW t \in Nat \ {0}, NEW j, NEW file, NEW sv, NEW ar,
         LineOK(L, t, j, file, sv, ar),
         NEW p \in (Address(L, t) + 1)..(Address(L, t) + Size(L, t))
  PROVE  \/ file[p].lvl = 0
         \/ HasJump(L, t) /\ StaysOpen(L, t, j) /\ file[p].lvl = Nesting(L, t)
<1> DEFINE q == Address(L, t) + 1
<1>1. Address(L, t) \in Nat /\ Size(L, t) \in 0..2
  BY AddressNatural, AddressSteps
<1>2. ASSUME NEW e, LeaveOK(L, t, j, e)
      PROVE  e.lvl = 0 \/ (StaysOpen(L, t, j) /\ e.lvl = Nesting(L, t))
  <2>1. StaysOpen(L, t, j) => e.lvl = Nesting(L, t)
    BY <1>2, Zenon DEF LeaveOK
  <2>2. ~StaysOpen(L, t, j) => e.lvl = 0
    BY <1>2, Zenon DEF LeaveOK, Resolved
  <2> QED BY <2>1, <2>2
<1>3. ASSUME NEW e, TestOK(L, t, j, e, sv, ar)
      PROVE  e.lvl = 0 \/ (StaysOpen(L, t, j) /\ e.lvl = Nesting(L, t))
  <2>1. StaysOpen(L, t, j) => e.lvl = Nesting(L, t)
    BY <1>3, Zenon DEF TestOK
  <2>2. ~StaysOpen(L, t, j) => e.lvl = 0
    BY <1>3, Zenon DEF TestOK, Resolved
  <2> QED BY <2>1, <2>2
<1>4. CASE L[t].kind = "elif"
  <2>1. p = q \/ p = q + 1
    BY <1>4, PlaceOfLine
  <2> HIDE DEF q
  <2>2. LeaveOK(L, t, j, file[q]) /\ TestOK(L, t, j, file[q + 1], sv, ar) /\ HasJump(L, t)
    BY <1>4, Zenon DEF LineOK, HasJump, q
  <2> QED BY <1>2, <1>3, <2>1, <2>2, Zenon
<1>5. CASE L[t].kind # "elif"
  <2>1. p = q
    <3>1. Size(L, t) \in 0..1
      BY <1>5 DEF Size
    <3> QED BY <1>1, <3>1
  <2> HIDE DEF q
  <2>2. CASE L[t].kind = "if"
    <3>1. TestOK(L, t, j, file[q], sv, ar) /\ HasJump(L, t)
      BY <2>2, Zenon DEF LineOK, HasJump, q
    <3> QED BY <1>3, <2>1, <3>1, Zenon
  <2>3. CASE L[t].kind = "else"
    <3>1. LeaveOK(L, t, j, file[q]) /\ HasJump(L, t)
      BY <2>3, Zenon DEF LineOK, HasJump, q
    <3> QED BY <1>2, <2>1, <3>1, Zenon
  <2>4. CASE L[t].kind = "until"
    <3>1. UntilOK(L, t, file[q])
      BY <2>4, Zenon DEF LineOK, q
    <3> QED BY <2>1, <3>1, Zenon DEF UntilOK
  <2>5. CASE L[t].kind \notin NoCodeKinds \cup JumpKinds
    <3>1. PlainOK(L, t, file[q])
      BY <2>5, Zenon DEF LineOK, q
    <3> QED BY <2>1, <3>1, Zenon DEF PlainOK
  <2>6. CASE L[t].kind \in NoCodeKinds
    <3>1. Size(L, t) = 0
      BY <2>6, Zenon DEF Size
    <3> QED BY <1>1, <3>1
  <2> QED BY <1>5, <2>2, <2>3, <2>4, <2>5, <2>6, Zenon DEF JumpKinds
<1> QED BY <1>4, <1>5

-----------------------------------------------------------------------------
(* What a turn does to the file. *)

(* The lines of a longer file. *)
LEMMA AppendAt ==
  ASSUME NEW f, IsFile(f), NEW x
  PROVE  /\ \A l \in 1..Len(f) : Append(f, x)[l] = f[l]
         /\ Append(f, x)[Len(f) + 1] = x
<1> DEFINE S == {f[l] : l \in DOMAIN f} \cup {x}
<1>1. f \in Seq(S) /\ x \in S
  BY DEF IsFile
<1> HIDE DEF S
<1>2. \A l \in 1..Len(f) : Append(f, x)[l] = f[l]
  BY <1>1
<1>3. Append(f, x)[Len(f) + 1] = x
  BY <1>1
<1> QED BY <1>2, <1>3

(* The lines of a file after a substitution. *)
LEMMA WritebackAt ==
  ASSUME NEW f, NEW slots, NEW l \in DOMAIN f
  PROVE  Writeback(f, slots)[l] = IF f[l].lvl = level /\ f[l].lvl # 0
                                  THEN Filled(f[l], slots, saved[level]) ELSE f[l]
<1> DEFINE m == f[l]
<1>1. Writeback(f, slots)[l] =
        IF m.lvl = level /\ m.lvl # 0
        THEN Emitted(m, 0, m.k, Lookup(slots, level, IF m.k = 0 THEN saved[level] ELSE m.k))
        ELSE m
  BY DEF Writeback
<1>2. m.lvl = level => Filled(m, slots, saved[level]) =
        Emitted(m, 0, m.k, Lookup(slots, level, IF m.k = 0 THEN saved[level] ELSE m.k))
  BY Zenon DEF Filled
<1> HIDE DEF m
<1>3. Writeback(f, slots)[l] = IF m.lvl = level /\ m.lvl # 0 THEN Filled(m, slots, saved[level]) ELSE m
  BY <1>1, <1>2, Zenon
<1> QED BY <1>3 DEF m

(* Where the next line goes. *)
LEMMA FileFacts ==
  ASSUME IInv
  PROVE  IsFile(microtemp) /\ address = Len(microtemp) /\ Len(microtemp) \in Nat
         /\ DOMAIN microtemp = 1..Len(microtemp)
<1>1. IsFile(microtemp) /\ address = Len(microtemp)
  BY DEF IInv, ParserTypeOK, AddressCounts
<1> QED BY <1>1 DEF IsFile

(* Only a fi or an until changes the lines that are there. *)
LEMMA FileKept ==
  ASSUME IInv, Read, Current.kind \notin CloseKinds, NEW p \in 1..address
  PROVE  microtemp'[p] = microtemp[p]
<1>1. IsFile(microtemp) /\ address = Len(microtemp) /\ Len(microtemp) \in Nat
  BY FileFacts
<1>2. \A x : Append(microtemp, x)[p] = microtemp[p]
  BY <1>1, AppendAt
<1>3. CASE ReadLoop
  BY <1>3, Zenon DEF ReadLoop
<1>4. CASE ReadElse
  <2> DEFINE a == Written(Else, level, 0)
             b == Written(Current, level, saved[level] + 1)
             test == IF Current.kind = "elif" THEN <<b>> ELSE <<>>
             gone == Append(microtemp, a)
  <2>1. microtemp' = microtemp \o <<a>> \o test
    BY <1>4, Zenon DEF ReadElse
  <2> HIDE DEF a, b
  <2>2. microtemp \o <<a>> = gone
    BY <1>1, AppendIsConcat
  <2>3. IsFile(gone) /\ Len(gone) = Len(microtemp) + 1
    BY <1>1, AppendLine
  <2>4. gone[p] = microtemp[p]
    BY <1>2
  <2> HIDE DEF gone
  <2>5. gone \o <<b>> = Append(gone, b) /\ gone \o <<>> = gone
    BY <2>3, AppendIsConcat
  <2>6. Append(gone, b)[p] = gone[p]
    <3>1. p \in 1..Len(gone)
      BY <1>1, <2>3
    <3> QED BY <2>3, <3>1, AppendAt
  <2>7. CASE Current.kind = "elif"
    BY <2>1, <2>2, <2>4, <2>5, <2>6, <2>7, Zenon
  <2>8. CASE Current.kind # "elif"
    BY <2>1, <2>2, <2>4, <2>5, <2>8, Zenon
  <2> QED BY <2>7, <2>8
<1>5. CASE ReadName
  BY <1>5, Zenon DEF ReadName
<1>6. CASE ReadIf
  BY <1>2, <1>6, Zenon DEF ReadIf
<1>7. CASE ReadPlain
  BY <1>2, <1>7, Zenon DEF ReadPlain
<1>8. ~ReadFi /\ ~ReadUntil
  BY Zenon DEF ReadFi, ReadUntil, CloseKinds
<1> QED BY <1>3, <1>4, <1>5, <1>6, <1>7, <1>8, Zenon DEF Read

(* They resolve what refers to the level they close. *)
LEMMA FileClosed ==
  ASSUME IInv, Read, Current.kind \in CloseKinds, NEW p \in 1..address
  PROVE  microtemp'[p] = IF microtemp[p].lvl = level /\ microtemp[p].lvl # 0
                         THEN Filled(microtemp[p], arr', saved[level]) ELSE microtemp[p]
<1>1. IsFile(microtemp) /\ address = Len(microtemp) /\ Len(microtemp) \in Nat
      /\ DOMAIN microtemp = 1..Len(microtemp)
  BY FileFacts
<1>2. CASE Current.kind = "fi"
  <2>1. ReadFi
    BY <1>2, WhichRead, Zenon
  <2>2. microtemp' = Writeback(microtemp, arr')
    BY <2>1, Zenon DEF ReadFi
  <2> QED BY <1>1, <2>2, WritebackAt
<1>3. CASE Current.kind = "until"
  <2>1. ReadUntil
    BY <1>3, WhichRead, Zenon
  <2> DEFINE longer == Append(microtemp, Written(Current, level, 1))
  <2>2. microtemp' = Writeback(longer, arr')
    BY <2>1, Zenon DEF ReadUntil
  <2>3. longer[p] = microtemp[p]
    BY <1>1, AppendAt
  <2>4. IsFile(longer) /\ Len(longer) = Len(microtemp) + 1
    BY <1>1, AppendLine
  <2> HIDE DEF longer
  <2>5. p \in DOMAIN longer
    BY <1>1, <2>4 DEF IsFile
  <2>6. microtemp'[p] = IF longer[p].lvl = level /\ longer[p].lvl # 0
                        THEN Filled(longer[p], arr', saved[level]) ELSE longer[p]
    BY <2>2, <2>5, WritebackAt
  <2> QED BY <2>3, <2>6
<1> QED BY <1>2, <1>3, Zenon DEF CloseKinds

(* The line written of an if, of an else, of an until, and of any other. *)
LEMMA NewIf ==
  ASSUME IInv, Read, Current.kind = "if"
  PROVE  microtemp'[address + 1] = Written(Current, level + 1, 1) /\ saved' = Assign(saved, level + 1, 1)
<1>1. IsFile(microtemp) /\ address = Len(microtemp)
  BY FileFacts
<1>2. ReadIf
  BY WhichRead, Zenon
<1>3. microtemp' = Append(microtemp, Written(Current, level + 1, 1))
      /\ saved' = Assign(saved, level + 1, 1)
  BY <1>2, Zenon DEF ReadIf
<1> QED BY <1>1, <1>3, AppendAt

(* What a turn writes of the line it reads: any other line, an else, an until. *)
LEMMA NewPlain ==
  ASSUME IInv, Read, Current.kind \notin NameKinds \cup MarkKinds \cup {"until", "if"}
  PROVE  microtemp'[address + 1] = Written(Current, 0, 0)
<1>1. IsFile(microtemp) /\ address = Len(microtemp)
  BY FileFacts
<1>2. ReadPlain
  BY WhichRead, Zenon
<1>3. microtemp' = Append(microtemp, Written(Current, 0, 0))
  BY <1>2, Zenon DEF ReadPlain
<1> QED BY <1>1, <1>3, AppendAt

LEMMA NewElse ==
  ASSUME IInv, Read, Current.kind \in ElseKinds
  PROVE  /\ microtemp'[address + 1] = Written(Else, level, 0)
         /\ Current.kind = "elif" =>
              microtemp'[address + 2] = Written(Current, level, saved[level] + 1)
<1> DEFINE a == Written(Else, level, 0)
           b == Written(Current, level, saved[level] + 1)
           test == IF Current.kind = "elif" THEN <<b>> ELSE <<>>
           gone == Append(microtemp, a)
<1>1. IsFile(microtemp) /\ address = Len(microtemp) /\ Len(microtemp) \in Nat
  BY FileFacts
<1>2. ReadElse
  BY WhichRead, Zenon
<1>3. microtemp' = microtemp \o <<a>> \o test
  BY <1>2, Zenon DEF ReadElse
<1> HIDE DEF a, b
<1>4. microtemp \o <<a>> = gone
  BY <1>1, AppendIsConcat
<1>5. IsFile(gone) /\ Len(gone) = Len(microtemp) + 1
  BY <1>1, AppendLine
<1>6. gone[address + 1] = a
  BY <1>1, AppendAt
<1> HIDE DEF gone
<1>7. gone \o <<b>> = Append(gone, b) /\ gone \o <<>> = gone
  BY <1>5, AppendIsConcat
<1>8. Append(gone, b)[address + 1] = gone[address + 1] /\ Append(gone, b)[address + 2] = b
  <2>1. address + 1 \in 1..Len(gone) /\ address + 2 = Len(gone) + 1
    BY <1>1, <1>5
  <2> QED BY <1>5, <2>1, AppendAt
<1>9. CASE Current.kind = "elif"
  BY <1>3, <1>4, <1>6, <1>7, <1>8, <1>9, Zenon DEF a, b
<1>10. CASE Current.kind # "elif"
  BY <1>3, <1>4, <1>6, <1>7, <1>10, Zenon DEF a
<1> QED BY <1>9, <1>10

LEMMA NewUntil ==
  ASSUME IInv, Read, Current.kind = "until"
  PROVE  LET e == microtemp'[address + 1]
         IN  e.kind = Current.kind /\ e.text = Current.text /\ e.lvl = 0 /\ e.dest = Lookup(arr, level, 1)
<1> DEFINE x == Written(Current, level, 1)
           longer == Append(microtemp, x)
           e == microtemp'[address + 1]
<1>1. IsFile(microtemp) /\ address = Len(microtemp) /\ Len(microtemp) \in Nat
  BY FileFacts
<1>2. ReadUntil
  BY WhichRead, Zenon
<1>3. microtemp' = Writeback(longer, arr)
  BY <1>2, Zenon DEF ReadUntil
<1>4. level \in Nat /\ level # 0
  <2>1. Current.kind \in CloseKinds
    BY Zenon DEF CloseKinds
  <2> QED BY <2>1, ReadLevel, ReadFacts
<1>5. x.kind = Current.kind /\ x.text = Current.text /\ x.lvl = level /\ x.k = 1
  BY DEF Written, Emitted
<1> HIDE DEF x
<1>6. longer[address + 1] = x
  BY <1>1, AppendAt
<1>7. IsFile(longer) /\ Len(longer) = Len(microtemp) + 1
  BY <1>1, AppendLine
<1> HIDE DEF longer
<1>8. address + 1 \in DOMAIN longer
  BY <1>1, <1>7 DEF IsFile
<1>9. e = Filled(x, arr, saved[level])
  BY <1>3, <1>4, <1>5, <1>6, <1>8, WritebackAt
<1> HIDE DEF e
<1>10. /\ e.kind = x.kind /\ e.text = x.text /\ e.lvl = 0
       /\ e.dest = Lookup(arr, x.lvl, IF x.k = 0 THEN saved[level] ELSE x.k)
  BY <1>9, FilledIs
<1>11. e.kind = Current.kind /\ e.text = Current.text /\ e.lvl = 0 /\ e.dest = Lookup(arr, level, 1)
  BY <1>5, <1>10
<1> QED BY <1>11 DEF e

-----------------------------------------------------------------------------
(* What becomes of the lines that are there. *)
LEMMA OldLine ==
  ASSUME IInv, Read, CountsOK, SlotsOK, NEW t \in 1..(n - 1),
         LineOK(listing, t, n, microtemp, saved, arr)
  PROVE  LineOK(listing, t, n + 1, microtemp', saved', arr')
<1> DEFINE L == listing
           lvl == Nesting(L, t)
           places == (Address(L, t) + 1)..(Address(L, t) + Size(L, t))
<1>1. /\ WellNested(L) /\ n \in DOMAIN L /\ n \in Nat \ {0}
      /\ level = Opened(L, n) /\ level \in Nat /\ Current = L[n]
      /\ Len(L) \in Nat /\ DOMAIN L = 1..Len(L)
  BY ReadFacts
<1>2. t \in Nat \ {0} /\ t \in DOMAIN L /\ t < n /\ t \in 1..(Len(L) + 1)
  BY <1>1
<1>3. \A p \in places : p \in 1..address
  <2>1. Address(L, t) \in Nat /\ Address(L, t) + Size(L, t) <= Address(L, n) /\ address = Address(L, n)
        /\ Size(L, t) \in 0..2
    BY <1>1, <1>2, AddressNatural, AddressGrows, AddressSteps DEF CountsOK
  <2>2. Address(L, n) \in Nat
    BY <1>1, AddressNatural
  <2> QED BY <2>1, <2>2
<1>4. Opened(L, n + 1) = Opened(L, n) + (IF L[n].kind \in OpenKinds THEN 1 ELSE 0)
                                      - (IF L[n].kind \in CloseKinds THEN 1 ELSE 0)
      /\ Opened(L, n) \in Int
  BY <1>1, OpenedSteps
<1>5. HasJump(L, t) /\ StaysOpen(L, t, n) => lvl \in 1..level
  <2> SUFFICES ASSUME HasJump(L, t), StaysOpen(L, t, n) PROVE lvl \in 1..level
    BY Zenon
  <2>1. Opened(L, n) >= lvl
    BY <1>1, <1>2, StaysOpenSteps
  <2>2. lvl \in Int /\ lvl > 0
    <3>1. CASE L[t].kind \in OpenKinds
      <4>1. lvl = Opened(L, t) + 1
        BY <1>2, <3>1, NestingIs
      <4>2. Opened(L, t) \in Nat
        BY <1>1, <1>2, OpenedNatural
      <4> QED BY <4>1, <4>2
    <3>2. CASE L[t].kind \in ClauseKinds
      BY <1>1, <1>2, <3>2, ClauseInside
    <3> QED BY <3>1, <3>2, Zenon DEF HasJump, OpenKinds, ClauseKinds, ElseKinds
  <2> QED BY <1>1, <2>1, <2>2
<1>6. lvl \in Int
  BY <1>2, NestingIs
<1>7. CASE L[n].kind \notin CloseKinds \cup ClauseKinds
  <2>1. \A p \in places : microtemp'[p] = microtemp[p]
    BY <1>1, <1>3, <1>7, FileKept
  <2>2. ASSUME HasJump(L, t), StaysOpen(L, t, n)
        PROVE  /\ Opened(L, n + 1) >= lvl /\ ~Fellow(L, t, n, ClauseKinds)
               /\ SameSlots(lvl, saved, arr, saved', arr')
    <3>1. lvl \in 1..level
      BY <1>5, <2>2
    <3>2. Opened(L, n + 1) >= lvl
      BY <1>1, <1>4, <1>7, <3>1
    <3>3. ~Fellow(L, t, n, ClauseKinds)
      BY <1>7, Zenon DEF Fellow
    <3>4. SameSlots(lvl, saved, arr, saved', arr')
      BY <1>1, <1>7, <3>1, OtherSlots
    <3> QED BY <3>2, <3>3, <3>4
  <2> QED BY <1>1, <1>2, <2>1, <2>2, LineKept
<1>8. CASE L[n].kind \in ElseKinds
  <2>1. L[n].kind \in ClauseKinds /\ L[n].kind \notin CloseKinds
    BY <1>8, Zenon DEF ClauseKinds, ElseKinds, CloseKinds
  <2>2. \A p \in places : microtemp'[p] = microtemp[p]
    BY <1>1, <1>3, <2>1, FileKept
  <2>3. Nesting(L, n) = level /\ level \in Nat \ {0} /\ Opened(L, n + 1) >= level
    BY <1>1, <1>4, <2>1, ClauseInside
  <2>4. /\ \A k : Lookup(arr', level, k) =
                    IF k = saved[level] THEN LabelOf(L, n) ELSE Lookup(arr, level, k)
        /\ \A i : i # level => SameSlots(i, saved, arr, saved', arr')
        /\ saved'[level] = saved[level] + 1
    BY <1>1, <1>8, <2>1, ClauseLookup
  <2>5. CASE HasJump(L, t) /\ StaysOpen(L, t, n) /\ lvl = level
    <3>1. Fellow(L, t, n, ClauseKinds)
      BY <2>1, <2>3, <2>5, Zenon DEF Fellow
    <3>2. saved[level] \in Nat
      BY <2>3 DEF SlotsOK
    <3> QED BY <1>1, <1>2, <2>2, <2>3, <2>4, <2>5, <3>1, <3>2, LinePassed
  <2>6. CASE ~(HasJump(L, t) /\ StaysOpen(L, t, n) /\ lvl = level)
    <3>1. ASSUME HasJump(L, t), StaysOpen(L, t, n)
          PROVE  /\ Opened(L, n + 1) >= lvl /\ ~Fellow(L, t, n, ClauseKinds)
                 /\ SameSlots(lvl, saved, arr, saved', arr')
      <4>1. lvl \in 1..level /\ lvl # level
        BY <1>5, <2>6, <3>1
      <4>2. Opened(L, n + 1) >= lvl
        BY <1>1, <1>4, <2>3, <4>1
      <4>3. ~Fellow(L, t, n, ClauseKinds)
        BY <2>3, <4>1, Zenon DEF Fellow
      <4> QED BY <2>4, <4>1, <4>2, <4>3
    <3> QED BY <1>1, <1>2, <2>2, <3>1, LineKept
  <2> QED BY <2>5, <2>6
<1>9. CASE L[n].kind \in CloseKinds
  <2>1. level > 0 /\ Nesting(L, n) = level
    BY <1>1, <1>9, CloserInside
  <2>2. Opened(L, n + 1) = level - 1
    <3>1. L[n].kind \notin OpenKinds
      BY <1>9, Closers, Zenon
    <3> QED BY <1>1, <1>4, <1>9, <3>1
  <2>3. \A p \in places :
          microtemp'[p] = IF microtemp[p].lvl = level /\ microtemp[p].lvl # 0
                          THEN Filled(microtemp[p], arr', saved[level]) ELSE microtemp[p]
    BY <1>1, <1>3, <1>9, FileClosed
  <2>4. CASE HasJump(L, t) /\ StaysOpen(L, t, n) /\ lvl = level
    <3>1. L[n].kind = "fi"
      <4>1. L[n].kind # "until"
        BY <1>1, <1>2, <2>4, NoIfAtUntil DEF HasJump
      <4> QED BY <1>9, <4>1, Zenon DEF CloseKinds
    <3>2. L[n].kind \in ClauseKinds
      BY <3>1, Zenon DEF ClauseKinds
    <3>3. \A k : Lookup(arr', level, k) =
                   IF k = saved[level] THEN LabelOf(L, n) ELSE Lookup(arr, level, k)
      BY <1>1, <3>2, ClauseLookup
    <3>4. \A p \in places : microtemp[p].lvl = level => microtemp'[p] = Filled(microtemp[p], arr', saved[level])
      BY <2>1, <2>3
    <3>5. ~(Opened(L, n + 1) >= lvl)
      BY <1>1, <2>2, <2>4
    <3> QED BY <1>1, <1>2, <2>1, <2>4, <3>1, <3>3, <3>4, <3>5, LineClosed
  <2>5. CASE ~(HasJump(L, t) /\ StaysOpen(L, t, n) /\ lvl = level)
    <3>1. \A p \in places : microtemp'[p] = microtemp[p]
      <4> SUFFICES ASSUME NEW p \in places PROVE microtemp'[p] = microtemp[p]
        OBVIOUS
      <4>1. \/ microtemp[p].lvl = 0
            \/ HasJump(L, t) /\ StaysOpen(L, t, n) /\ microtemp[p].lvl = lvl
        BY <1>2, LineLevels
      <4>2. microtemp[p].lvl = 0 \/ microtemp[p].lvl # level
        BY <2>5, <4>1, Zenon
      <4> HIDE DEF places
      <4> QED BY <2>3, <4>2, Zenon
    <3>2. ASSUME HasJump(L, t), StaysOpen(L, t, n)
          PROVE  /\ Opened(L, n + 1) >= lvl /\ ~Fellow(L, t, n, ClauseKinds)
                 /\ SameSlots(lvl, saved, arr, saved', arr')
      <4>1. lvl \in 1..level /\ lvl # level
        BY <1>5, <2>5, <3>2
      <4>2. Opened(L, n + 1) >= lvl
        BY <1>1, <2>2, <4>1
      <4>3. ~Fellow(L, t, n, ClauseKinds)
        BY <2>1, <4>1, Zenon DEF Fellow
      <4>4. SameSlots(lvl, saved, arr, saved', arr')
        <5>1. CASE L[n].kind \in ClauseKinds
          BY <1>1, <4>1, <5>1, ClauseLookup
        <5>2. CASE L[n].kind \notin ClauseKinds
          BY <1>1, <4>1, <5>2, OtherSlots
        <5> QED BY <5>1, <5>2
      <4> QED BY <4>2, <4>3, <4>4
    <3> QED BY <1>1, <1>2, <3>1, <3>2, LineKept
  <2> QED BY <2>4, <2>5
<1> QED BY <1>7, <1>8, <1>9, Zenon DEF ClauseKinds, CloseKinds

(* What is written of the line that is read. *)

(* A test is written with the slot that its next clause will take. *)
LEMMA TestAtFirst ==
  ASSUME NEW L, NEW t \in Nat \ {0}, L[t].kind \notin CloseKinds, NEW e, NEW sv, NEW ar,
         e = Written(L[t], Nesting(L, t), sv[Nesting(L, t)]), sv[Nesting(L, t)] \in Nat \ {0}
  PROVE  TestOK(L, t, t + 1, e, sv, ar)
<1> DEFINE lvl == Nesting(L, t)
           top == sv[lvl]
<1>1. e.kind = L[t].kind /\ e.text = L[t].text /\ e.lvl = lvl /\ e.k = top
  BY DEF Written, Emitted
<1>2. StaysOpen(L, t, t + 1) /\ NoneYet(L, t, t + 1, ClauseKinds)
  BY OpenAtOnce, NoneYetAtFirst
<1>3. e.k \in 1..top
  <2>1. top \in 1..top
    OBVIOUS
  <2> HIDE DEF top
  <2> QED BY <1>1, <2>1
<1> QED BY <1>1, <1>2, <1>3, Zenon DEF TestOK

(* The jump that ends a clause, when it is written. *)
LEMMA LeaveAtFirst ==
  ASSUME NEW L, NEW t \in Nat \ {0}, L[t].kind \notin CloseKinds, NEW e,
         e = Written(Else, Nesting(L, t), 0)
  PROVE  LeaveOK(L, t, t + 1, e)
<1>1. e.kind = "else" /\ e.lvl = Nesting(L, t) /\ e.k = 0
  BY DEF Written, Emitted, Else, Line
<1>2. StaysOpen(L, t, t + 1)
  BY OpenAtOnce
<1> QED BY <1>1, <1>2, Zenon DEF LeaveOK

(* The loop of an until is the one that is open. *)
LEMMA LoopOfUntil ==
  ASSUME NEW L, WellNested(L), NEW t \in DOMAIN L, L[t].kind = "until"
  PROVE  \E m \in 1..(t - 1) : IsLoopOf(L, t, m) /\ StaysOpen(L, m, t) /\ Nesting(L, m) = Opened(L, t)
<1>0. t \in Nat \ {0}
  BY ListingShape
<1>1. Encloses(L, "loop", t)
  BY Zenon DEF WellNested
<1>2. PICK m \in 1..(t - 1) : L[m].kind = "loop" /\ Nesting(L, m) = Nesting(L, t) /\ StaysOpen(L, m, t)
  BY <1>1, Zenon DEF Encloses
<1>3. Nesting(L, t) = Opened(L, t)
  <2>1. L[t].kind \in CloseKinds
    BY Zenon DEF CloseKinds
  <2> QED BY <2>1, CloserInside
<1>4. NoneYet(L, m, t, {"loop"})
  <2> SUFFICES ASSUME NEW k \in (m + 1)..(t - 1), L[k].kind = "loop", Nesting(L, k) = Nesting(L, m)
               PROVE  FALSE
    BY Zenon DEF NoneYet, Fellow
  <2>1. k \in Nat \ {0} /\ k \in (m + 1)..t
    BY <1>0
  <2>2. L[k].kind \in OpenKinds
    BY Zenon DEF OpenKinds
  <2>3. Nesting(L, k) = Opened(L, k) + 1 /\ Opened(L, k) \in Int
    BY <2>1, <2>2, NestingIs
  <2>4. Opened(L, k) >= Nesting(L, m)
    BY <1>2, <2>1 DEF StaysOpen
  <2> QED BY <2>3, <2>4
<1>5. m < t
  BY <1>0
<1>6. IsLoopOf(L, t, m)
  BY <1>2, <1>4, <1>5, Zenon DEF IsLoopOf, Fellow
<1> QED BY <1>2, <1>3, <1>6

(* The line just read. *)
LEMMA NewLine ==
  ASSUME IInv, Read, CountsOK, SlotsOK
  PROVE  LineOK(listing, n, n + 1, microtemp', saved', arr')
<1> DEFINE L == listing
           p == Address(L, n) + 1
<1>1. /\ WellNested(L) /\ n \in DOMAIN L /\ n \in Nat \ {0}
      /\ level = Opened(L, n) /\ level \in Nat /\ Current = L[n]
  BY ReadFacts
<1>2. address = Address(L, n) /\ Address(L, n) \in Nat
  BY <1>1, AddressNatural DEF CountsOK
<1>3. p = address + 1 /\ p + 1 = address + 2
  BY <1>2
<1> HIDE DEF p
<1>4. CASE L[n].kind = "if"
  <2>1. L[n].kind \in OpenKinds /\ L[n].kind \notin CloseKinds
    BY <1>4, Zenon DEF OpenKinds, CloseKinds
  <2>2. Nesting(L, n) = level + 1
    BY <1>1, <2>1, NestingIs
  <2>3. microtemp'[p] = Written(L[n], level + 1, 1) /\ saved' = Assign(saved, level + 1, 1)
    BY <1>1, <1>3, <1>4, NewIf
  <2>4. saved'[level + 1] = 1
    BY <2>3 DEF Assign
  <2>5. TestOK(L, n, n + 1, microtemp'[p], saved', arr')
    <3>1. microtemp'[p] = Written(L[n], Nesting(L, n), saved'[Nesting(L, n)])
          /\ saved'[Nesting(L, n)] \in Nat \ {0}
      BY <2>2, <2>3, <2>4
    <3> QED BY <1>1, <2>1, <3>1, TestAtFirst
  <2> QED BY <1>4, <2>5, Zenon DEF LineOK, JumpKinds, p
<1>5. CASE L[n].kind \in ElseKinds
  <2>1. L[n].kind \in ClauseKinds /\ L[n].kind \notin CloseKinds
    BY <1>5, Zenon DEF ClauseKinds, ElseKinds, CloseKinds
  <2>2. Nesting(L, n) = level /\ level \in Nat \ {0}
    BY <1>1, <2>1, ClauseInside
  <2>3. /\ microtemp'[p] = Written(Else, level, 0)
        /\ L[n].kind = "elif" => microtemp'[p + 1] = Written(L[n], level, saved[level] + 1)
    BY <1>1, <1>3, <1>5, NewElse
  <2>4. LeaveOK(L, n, n + 1, microtemp'[p])
    BY <1>1, <2>1, <2>2, <2>3, LeaveAtFirst
  <2>5. ASSUME L[n].kind = "elif" PROVE TestOK(L, n, n + 1, microtemp'[p + 1], saved', arr')
    <3>1. saved'[level] = saved[level] + 1 /\ saved[level] \in Nat \ {0}
      BY <1>1, <1>5, <2>1, ClauseLookup, ClauseSlots
    <3>2. microtemp'[p + 1] = Written(L[n], Nesting(L, n), saved'[Nesting(L, n)])
          /\ saved'[Nesting(L, n)] \in Nat \ {0}
      BY <2>2, <2>3, <2>5, <3>1
    <3> QED BY <1>1, <2>1, <3>2, TestAtFirst
  <2>6. L[n].kind # "if" /\ L[n].kind # "until" /\ L[n].kind \in JumpKinds
    BY <1>5, Zenon DEF ElseKinds, JumpKinds
  <2> QED BY <2>4, <2>5, <2>6, Zenon DEF LineOK, p
<1>6. CASE L[n].kind = "until"
  <2> DEFINE e == microtemp'[p]
  <2>1. e.kind = L[n].kind /\ e.text = L[n].text /\ e.lvl = 0 /\ e.dest = Lookup(arr, level, 1)
    BY <1>1, <1>3, <1>6, NewUntil
  <2>2. PICK m \in 1..(n - 1) : IsLoopOf(L, n, m) /\ StaysOpen(L, m, n) /\ Nesting(L, m) = Opened(L, n)
    BY <1>1, <1>6, LoopOfUntil
  <2>3. L[m].kind = "loop"
    BY <2>2 DEF IsLoopOf, Fellow
  <2>4. Lookup(arr, level, 1) = LabelOf(L, m)
    BY <1>1, <2>2, <2>3 DEF SlotsOK
  <2> HIDE DEF e
  <2>5. UntilOK(L, n, e)
    BY <1>6, <2>1, <2>2, <2>4, Zenon DEF UntilOK
  <2> QED BY <1>6, <2>5, Zenon DEF LineOK, JumpKinds, e, p
<1>7. CASE L[n].kind \notin NoCodeKinds \cup JumpKinds
  <2>1. Current.kind \notin NameKinds \cup MarkKinds \cup {"until", "if"}
    BY <1>1, <1>7, Zenon DEF NoCodeKinds, JumpKinds, MarkKinds, ClauseKinds, ElseKinds
  <2>2. microtemp'[p] = Written(L[n], 0, 0)
    BY <1>1, <1>3, <2>1, NewPlain
  <2>3. PlainOK(L, n, microtemp'[p])
    BY <2>2 DEF PlainOK, Written, Emitted
  <2> QED BY <1>7, <2>3, Zenon DEF LineOK, JumpKinds, p
<1>8. CASE L[n].kind \in NoCodeKinds
  <2>1. L[n].kind \notin JumpKinds
    BY <1>8, Zenon DEF NoCodeKinds, NameKinds, JumpKinds
  <2> QED BY <1>8, <2>1, Zenon DEF LineOK, JumpKinds
<1> QED BY <1>4, <1>5, <1>6, <1>7, <1>8, Zenon DEF JumpKinds, ElseKinds

(* All the lines read, after one more. *)
LEMMA LinesStep ==
  ASSUME IInv, Read, CountsOK, SlotsOK, LinesOK
  PROVE  LinesOK'
<1>1. n \in Nat \ {0} /\ n' = n + 1 /\ listing' = listing
  BY ReadFacts
<1>2. ASSUME NEW t \in 1..((n + 1) - 1)
      PROVE  LineOK(listing, t, n + 1, microtemp', saved', arr')
  <2>1. CASE t = n
    BY <2>1, NewLine
  <2>2. CASE t # n
    <3>1. t \in 1..(n - 1)
      BY <1>1, <2>2
    <3>2. LineOK(listing, t, n, microtemp, saved, arr)
      BY <3>1 DEF LinesOK
    <3> QED BY <3>1, <3>2, OldLine
  <2> QED BY <2>1, <2>2
<1> QED BY <1>1, <1>2, Zenon DEF LinesOK

-----------------------------------------------------------------------------
(* In the beginning. *)

(* A function on 1..N is a sequence. *)
LEMMA TupleIsFile ==
  ASSUME NEW N \in Nat, NEW f, f = [k \in 1..N |-> f[k]]
  PROVE  IsFile(f) /\ Len(f) = N /\ DOMAIN f = 1..N /\ <<>> \o f = f
<1> DEFINE S == {f[k] : k \in 1..N}
<1>1. f \in Seq(S) /\ Len(f) = N /\ DOMAIN f = 1..N
  BY DEF S
<1>2. IsFile(f)
  BY <1>1, SeqIsFile
<1>3. <<>> \o f = f
  <2> HIDE DEF S
  <2> QED BY <1>1
<1> QED BY <1>1, <1>2, <1>3

(* The names are the first rows. *)
LEMMA InitialTableIs ==
  ASSUME NEW L, Len(L) \in Nat, DOMAIN L = 1..Len(L)
  PROVE  /\ IsFile(InitialTable(L)) /\ Len(InitialTable(L)) = Before(L, Len(L) + 1, NameKinds)
         /\ \A m \in DOMAIN L : L[m].kind \in NameKinds =>
              InitialTable(L)[Row(L, m) + 1] = Named(L[m].text)
<1> DEFINE names == Before(L, Len(L) + 1, NameKinds)
           nth(i) == CHOOSE k \in DOMAIN L : L[k].kind \in NameKinds /\ Before(L, k, NameKinds) = i - 1
           f == [i \in 1..names |-> Named(L[nth(i)].text)]
<1>1. names \in Nat
  <2>1. Len(L) + 1 \in Nat \ {0}
    OBVIOUS
  <2> QED BY <2>1, BeforeSteps
<1>2. InitialTable(L) = <<>> \o f
  BY Zenon DEF InitialTable
<1>3. ASSUME NEW m \in DOMAIN L, L[m].kind \in NameKinds
      PROVE  Row(L, m) + 1 \in 1..names /\ nth(Row(L, m) + 1) = m
  <2>1. Row(L, m) \in 0..(names - 1)
    BY <1>3, NameRow
  <2>2. Row(L, m) = Before(L, m, NameKinds)
    BY <1>3, RowIs
  <2>3. Before(L, m, NameKinds) = (Row(L, m) + 1) - 1
    BY <2>1, <2>2
  <2>4. ASSUME NEW k \in DOMAIN L, L[k].kind \in NameKinds, Before(L, k, NameKinds) = (Row(L, m) + 1) - 1
        PROVE  k = m
    BY <1>3, <2>3, <2>4, BeforeInjective
  <2>5. nth(Row(L, m) + 1) = m
    BY <1>3, <2>3, <2>4, Zenon
  <2> HIDE DEF nth, names
  <2> QED BY <1>1, <2>1, <2>5
<1> HIDE DEF nth, names
<1>4. f = [i \in 1..names |-> f[i]]
  OBVIOUS
<1>5. \A m \in DOMAIN L : L[m].kind \in NameKinds => f[Row(L, m) + 1] = Named(L[m].text)
  BY <1>3
<1> HIDE DEF f
<1>6. IsFile(f) /\ Len(f) = names /\ <<>> \o f = f
  BY <1>1, <1>4, TupleIsFile
<1> QED BY <1>2, <1>5, <1>6 DEF names

ImagesInv == CountsOK /\ SlotsOK /\ TableOK /\ PlacesOK /\ LinesOK

(* The rest of the inductive invariant in the beginning. *)
LEMMA InitImagesInv == Init => ImagesInv
<1> SUFFICES ASSUME Init PROVE ImagesInv
  OBVIOUS
<1> DEFINE L == listing
<1>1. WellNested(L) /\ Len(L) \in Nat /\ DOMAIN L = 1..Len(L)
  BY ListingsAssumption, ListingShape DEF Init
<1>2. n = 1 /\ address = 0 /\ level = 0 /\ loops = 0 /\ elses = 0 /\ fis = 0 /\ jumptable = InitialTable(L)
  BY Zenon DEF Init
<1>3. 1..(n - 1) = {} /\ 1..level = {}
  BY <1>2
<1>4. \A kinds : Before(L, n, kinds) = 0
  BY <1>2, BeforeSteps
<1>5. CountsOK
  <2>1. Address(L, n) = 0
    BY <1>2, AddressSteps
  <2> QED BY <1>2, <1>4, <2>1 DEF CountsOK
<1>6. SlotsOK
  BY <1>3, Zenon DEF SlotsOK
<1>7. TableOK
  <2>1. Before(L, Len(L) + 1, NameKinds) \in Nat
    <3>1. Len(L) + 1 \in Nat \ {0}
      BY <1>1
    <3> QED BY <3>1, BeforeSteps
  <2>2. /\ IsFile(jumptable) /\ Len(jumptable) = Before(L, Len(L) + 1, NameKinds)
        /\ \A m \in DOMAIN L : L[m].kind \in NameKinds => jumptable[Row(L, m) + 1] = Named(L[m].text)
    BY <1>1, <1>2, InitialTableIs
  <2>3. Len(jumptable) = Before(L, Len(L) + 1, NameKinds) + Before(L, n, MarkKinds)
    BY <1>4, <2>1, <2>2
  <2> QED BY <1>3, <2>2, <2>3, Zenon DEF TableOK, RowsOK
<1>8. PlacesOK /\ LinesOK
  BY <1>3, Zenon DEF PlacesOK, LinesOK
<1> QED BY <1>5, <1>6, <1>7, <1>8 DEF ImagesInv

(* Every turn of the loop keeps it. *)
LEMMA StepImagesInv == IInv /\ ImagesInv /\ [Next]_vars => ImagesInv'
<1> SUFFICES ASSUME IInv, ImagesInv, [Next]_vars PROVE ImagesInv'
  OBVIOUS
<1>1. CASE Read
  BY <1>1, CountsStep, SlotsStep, TableStep, PlacesStep, LinesStep DEF ImagesInv
<1>2. CASE UNCHANGED vars
  <2>1. /\ listing' = listing /\ n' = n /\ address' = address /\ loops' = loops /\ elses' = elses
        /\ fis' = fis /\ level' = level /\ saved' = saved /\ arr' = arr
        /\ microtemp' = microtemp /\ jumptable' = jumptable /\ at' = at
    BY <1>2 DEF vars
  <2>2. CountsOK' /\ SlotsOK' /\ PlacesOK' /\ LinesOK'
    BY <2>1, Zenon DEF ImagesInv, CountsOK, SlotsOK, PlacesOK, LinesOK
  <2>3. TableOK'
    BY <2>1, Zenon DEF ImagesInv, TableOK, RowsOK, IsFile
  <2> QED BY <2>2, <2>3 DEF ImagesInv
<1> QED BY <1>1, <1>2 DEF Next, Done

LEMMA ImagesInvAlways == Spec => [](IInv /\ ImagesInv)
  BY InitIInv, StepIInv, InitImagesInv, StepImagesInv, PTL DEF Spec

-----------------------------------------------------------------------------
(* The lines of the jump table, at the end. *)

(* Every number below that of line k is of a line of those kinds before it. *)
LEMMA BeforeCovered ==
  ASSUME NEW L, NEW k \in Nat \ {0}, NEW kinds, NEW i \in Nat, i < Before(L, k, kinds)
  PROVE  \E m \in 1..(k - 1) : L[m].kind \in kinds /\ Before(L, m, kinds) = i
<1> DEFINE S == {j \in Nat : i < Before(L, j + 1, kinds) =>
                   \E m \in 1..j : L[m].kind \in kinds /\ Before(L, m, kinds) = i}
<1>1. 0 \in S
  <2>1. Before(L, 1, kinds) = 0
    <3>1. 1 \in Nat \ {0}
      OBVIOUS
    <3> QED BY <3>1, BeforeSteps, Zenon
  <2>2. ~(i < Before(L, 0 + 1, kinds))
    BY <2>1
  <2> QED BY <2>2
<1>2. ASSUME NEW j \in Nat, j \in S PROVE j + 1 \in S
  <2>1. j + 1 \in Nat \ {0} /\ j + 1 \in 1..(j + 1) /\ 1..j \subseteq 1..(j + 1)
    OBVIOUS
  <2>2. /\ Before(L, (j + 1) + 1, kinds) = Before(L, j + 1, kinds) + (IF L[j + 1].kind \in kinds THEN 1 ELSE 0)
        /\ Before(L, j + 1, kinds) \in Nat
    <3> DEFINE k1 == j + 1
    <3>1. k1 \in Nat \ {0}
      OBVIOUS
    <3> HIDE DEF k1
    <3>2. /\ Before(L, k1 + 1, kinds) = Before(L, k1, kinds) + (IF L[k1].kind \in kinds THEN 1 ELSE 0)
          /\ Before(L, k1, kinds) \in Nat
      BY <3>1, BeforeSteps
    <3> QED BY <3>2 DEF k1
  <2>3. CASE i < Before(L, j + 1, kinds)
    BY <1>2, <2>1, <2>3
  <2>4. CASE ~(i < Before(L, j + 1, kinds))
    BY <2>1, <2>2, <2>4
  <2> QED BY <2>3, <2>4
<1>3. Nat \subseteq S
  <2> HIDE DEF S
  <2> QED BY <1>1, <1>2, NatSetInduction
<1>4. k - 1 \in S /\ (k - 1) + 1 = k
  <2> HIDE DEF S
  <2> QED BY <1>3
<1> QED BY <1>4

HasRow(L, m) == m \in DOMAIN L /\ L[m].kind \in NameKinds \cup MarkKinds

RowCount(L) == Before(L, Len(L) + 1, NameKinds) + Before(L, Len(L) + 1, MarkKinds)

(* No two lines share a row. *)
LEMMA RowInjective ==
  ASSUME NEW L, Len(L) \in Nat, DOMAIN L = 1..Len(L), NEW j, HasRow(L, j), NEW k, HasRow(L, k),
         Row(L, j) = Row(L, k)
  PROVE  j = k
<1> DEFINE names == Before(L, Len(L) + 1, NameKinds)
<1>1. j \in 1..Len(L) /\ k \in 1..Len(L) /\ j \in Nat \ {0} /\ k \in Nat \ {0}
  BY DEF HasRow
<1>n. names \in Nat /\ Len(L) + 1 \in Nat \ {0}
  <2>1. Len(L) + 1 \in Nat \ {0}
    OBVIOUS
  <2> QED BY <2>1, BeforeSteps
<1>2. ASSUME NEW m \in 1..Len(L), L[m].kind \in NameKinds
      PROVE  Row(L, m) \in 0..(names - 1) /\ Row(L, m) = Before(L, m, NameKinds)
  BY <1>2, NameRow, RowIs
<1>3. ASSUME NEW m \in 1..Len(L), L[m].kind \in MarkKinds
      PROVE  Row(L, m) >= names /\ Row(L, m) = names + Before(L, m, MarkKinds)
             /\ Before(L, m, MarkKinds) \in Nat
  <2>1. Row(L, m) = names + Before(L, m, MarkKinds)
    BY <1>3, RowIs
  <2>2. Before(L, m, MarkKinds) \in Nat
    BY BeforeSteps
  <2> HIDE DEF names
  <2> QED BY <1>n, <2>1, <2>2
<1> HIDE DEF names
<1>4. CASE L[j].kind \in NameKinds /\ L[k].kind \in NameKinds
  <2>1. Before(L, j, NameKinds) = Before(L, k, NameKinds)
    BY <1>1, <1>2, <1>4
  <2> QED BY <1>1, <1>4, <2>1, BeforeInjective
<1>5. CASE L[j].kind \in MarkKinds /\ L[k].kind \in MarkKinds
  <2>1. Before(L, j, MarkKinds) = Before(L, k, MarkKinds)
    BY <1>1, <1>3, <1>5, <1>n
  <2> QED BY <1>1, <1>5, <2>1, BeforeInjective
<1>6. CASE L[j].kind \in NameKinds /\ L[k].kind \in MarkKinds
  BY <1>1, <1>2, <1>3, <1>6, <1>n
<1>7. CASE L[j].kind \in MarkKinds /\ L[k].kind \in NameKinds
  BY <1>1, <1>2, <1>3, <1>7, <1>n
<1> QED BY <1>4, <1>5, <1>6, <1>7 DEF HasRow

(* Every row is of some line. *)
LEMMA RowOnto ==
  ASSUME NEW L, Len(L) \in Nat, DOMAIN L = 1..Len(L), NEW r \in Nat, r < RowCount(L)
  PROVE  \E m : HasRow(L, m) /\ Row(L, m) = r
<1> DEFINE names == Before(L, Len(L) + 1, NameKinds)
           marks == Before(L, Len(L) + 1, MarkKinds)
<1>1. Len(L) + 1 \in Nat \ {0} /\ (Len(L) + 1) - 1 = Len(L)
  OBVIOUS
<1>2. names \in Nat /\ marks \in Nat
  BY <1>1, BeforeSteps
<1>3. CASE r < names
  <2>1. \E m \in 1..((Len(L) + 1) - 1) : L[m].kind \in NameKinds /\ Before(L, m, NameKinds) = r
    BY <1>1, <1>3, BeforeCovered
  <2>2. PICK m \in 1..Len(L) : L[m].kind \in NameKinds /\ Before(L, m, NameKinds) = r
    BY <1>1, <2>1
  <2> QED BY <2>2, RowIs DEF HasRow
<1>4. CASE ~(r < names)
  <2> HIDE DEF names, marks
  <2>0. r - names \in Nat /\ r - names < marks /\ names + (r - names) = r
    BY <1>2, <1>4 DEF RowCount, names, marks
  <2>1. \E m \in 1..((Len(L) + 1) - 1) : L[m].kind \in MarkKinds /\ Before(L, m, MarkKinds) = r - names
    BY <1>1, <2>0, BeforeCovered DEF marks
  <2>2. PICK m \in 1..Len(L) : L[m].kind \in MarkKinds /\ Before(L, m, MarkKinds) = r - names
    BY <1>1, <2>1
  <2>3. Row(L, m) = names + Before(L, m, MarkKinds)
    BY <2>2, RowIs DEF names
  <2> QED BY <2>0, <2>2, <2>3 DEF HasRow
<1> QED BY <1>3, <1>4

(* The rows, counted as a set. *)
LEMMA RowCountIs ==
  ASSUME NEW L, Len(L) \in Nat, DOMAIN L = 1..Len(L)
  PROVE  Cardinality({m \in DOMAIN L : L[m].kind \in NameKinds \cup MarkKinds}) = RowCount(L)
         /\ RowCount(L) \in Nat
<1> DEFINE of(kinds) == {m \in 1..((Len(L) + 1) - 1) : L[m].kind \in kinds}
           A == of(NameKinds)
           B == of(MarkKinds)
<1>1. IsFiniteSet(A) /\ IsFiniteSet(B)
  <2>1. Len(L) + 1 \in Nat
    OBVIOUS
  <2> QED BY <2>1, BeforeFinite
<1>2. A \cap B = {}
  BY NoNameIsMark
<1>3. {m \in DOMAIN L : L[m].kind \in NameKinds \cup MarkKinds} = A \cup B
  OBVIOUS
<1>4. Cardinality(A) = Before(L, Len(L) + 1, NameKinds) /\ Cardinality(B) = Before(L, Len(L) + 1, MarkKinds)
  BY DEF Before
<1> HIDE DEF A, B
<1>5. Cardinality(A \cup B) = Cardinality(A) + Cardinality(B) - Cardinality({})
  BY <1>1, <1>2, FS_Union
<1>6. Cardinality({}) = 0 /\ Cardinality(A) \in Nat /\ Cardinality(B) \in Nat
  BY <1>1, FS_EmptySet, FS_CardinalityType
<1> DEFINE both == Cardinality(A \cup B)
<1>7. Cardinality({m \in DOMAIN L : L[m].kind \in NameKinds \cup MarkKinds}) = both
  BY <1>3, Zenon
<1>8. both = Cardinality(A) + Cardinality(B)
  BY <1>5, <1>6
<1> HIDE DEF both
<1> QED BY <1>4, <1>6, <1>7, <1>8 DEF RowCount

-----------------------------------------------------------------------------
(* The placed listing says where its lines are. *)

IsPlaced(L, P) ==
  /\ Len(L) \in Nat /\ DOMAIN L = 1..Len(L) /\ Len(P) = Len(L) /\ DOMAIN P = 1..Len(L)
  /\ \A m \in 1..Len(L) :
       /\ P[m].kind = L[m].kind /\ P[m].text = L[m].text /\ P[m].addr = Address(L, m)
       /\ P[m].nesting = Nesting(L, m) /\ P[m].row = Row(L, m)

LEMMA PlacedIs ==
  ASSUME NEW L, Len(L) \in Nat, DOMAIN L = 1..Len(L)
  PROVE  IsPlaced(L, Placed(L))
<1> DEFINE place(m) == [kind |-> L[m].kind, text |-> L[m].text, addr |-> Address(L, m),
                        nesting |-> Nesting(L, m), row |-> Row(L, m)]
           f == [m \in 1..Len(L) |-> place(m)]
<1>1. Placed(L) = <<>> \o f
  BY Zenon DEF Placed
<1>2. \A m \in 1..Len(L) : /\ f[m].kind = L[m].kind /\ f[m].text = L[m].text
                           /\ f[m].addr = Address(L, m)
                           /\ f[m].nesting = Nesting(L, m) /\ f[m].row = Row(L, m)
  OBVIOUS
<1>3. f = [m \in 1..Len(L) |-> f[m]]
  OBVIOUS
<1> HIDE DEF f
<1>4. Len(f) = Len(L) /\ DOMAIN f = 1..Len(L) /\ <<>> \o f = f
  BY <1>3, TupleIsFile
<1>5. Placed(L) = f
  BY <1>1, <1>4
<1>6. IsPlaced(L, f)
  BY <1>2, <1>4, Zenon DEF IsPlaced
<1> QED BY <1>5, <1>6

(* The line that the structure calls the next clause is the one the script found. *)
LEMMA NextOfIs ==
  ASSUME NEW L, NEW P, IsPlaced(L, P), NEW t \in 1..Len(L), NEW c \in 1..Len(L), NEW kinds,
         IsNext(L, t, c, kinds)
  PROVE  NextOf(P, t, kinds) = c
<1> DEFINE isIt(m) == P[m].kind \in kinds /\ P[m].nesting = P[t].nesting
           first(m) == isIt(m) /\ \A k \in (t + 1)..(m - 1) : ~isIt(k)
<1>1. Len(L) \in Nat /\ Len(P) = Len(L)
  BY DEF IsPlaced
<1>2. \A m \in 1..Len(L) : isIt(m) <=> Fellow(L, t, m, kinds)
  BY DEF IsPlaced, Fellow
<1>3. t < c /\ Fellow(L, t, c, kinds) /\ \A k \in (t + 1)..(c - 1) : ~Fellow(L, t, k, kinds)
  BY DEF IsNext, NoneYet
<1>4. NextOf(P, t, kinds) = CHOOSE m \in (t + 1)..Len(P) : first(m)
  BY Zenon DEF NextOf
<1> HIDE DEF isIt
<1>5. c \in (t + 1)..Len(P) /\ first(c)
  BY <1>1, <1>2, <1>3
<1>6. ASSUME NEW m \in (t + 1)..Len(P), first(m) PROVE m = c
  <2>1. ~(m < c)
    BY <1>1, <1>2, <1>3, <1>6
  <2>2. ~(c < m)
    BY <1>1, <1>5, <1>6
  <2> QED BY <1>1, <2>1, <2>2
<1> HIDE DEF first
<1> QED BY <1>4, <1>5, <1>6, Zenon

(* And so is the loop that an until closes. *)
LEMMA OpeningLoopIs ==
  ASSUME NEW L, NEW P, IsPlaced(L, P), NEW t \in 1..Len(L), NEW c \in 1..(t - 1), IsLoopOf(L, t, c)
  PROVE  OpeningLoop(P, t) = c
<1> DEFINE isIt(m) == P[m].kind = "loop" /\ P[m].nesting = P[t].nesting
           last(m) == isIt(m) /\ \A k \in (m + 1)..(t - 1) : ~isIt(k)
<1>1. Len(L) \in Nat
  BY DEF IsPlaced
<1>2. \A m \in 1..Len(L) : isIt(m) <=> L[m].kind = "loop" /\ Nesting(L, m) = Nesting(L, t)
  BY DEF IsPlaced
<1>3. /\ L[c].kind = "loop" /\ Nesting(L, c) = Nesting(L, t)
      /\ \A k \in (c + 1)..(t - 1) : ~(L[k].kind = "loop" /\ Nesting(L, k) = Nesting(L, t))
  BY DEF IsLoopOf, NoneYet, Fellow
<1>4. OpeningLoop(P, t) = CHOOSE m \in 1..(t - 1) : last(m)
  BY Zenon DEF OpeningLoop
<1> HIDE DEF isIt
<1>5. last(c)
  BY <1>1, <1>2, <1>3
<1>6. ASSUME NEW m \in 1..(t - 1), last(m) PROVE m = c
  <2>1. ~(m < c)
    BY <1>1, <1>5, <1>6
  <2>2. ~(c < m)
    BY <1>1, <1>5, <1>6
  <2> QED BY <1>1, <2>1, <2>2
<1> HIDE DEF last
<1> QED BY <1>4, <1>5, <1>6, Zenon

(* The line of an address. *)
LEMMA LineAtIs ==
  ASSUME NEW L, NEW P, IsPlaced(L, P), NEW t \in 1..Len(L), NEW a \in Nat,
         Address(L, t) <= a, a < Address(L, t) + Size(L, t)
  PROVE  LineAt(P, a) = t
<1> DEFINE isIt(m) == P[m].kind \notin NoCodeKinds /\ P[m].addr <= a
                      /\ a <= P[m].addr + (IF P[m].kind = "elif" THEN 1 ELSE 0)
<1>1. Len(L) \in Nat /\ DOMAIN P = 1..Len(L)
  BY DEF IsPlaced
<1>2. ASSUME NEW m \in 1..Len(L)
      PROVE  isIt(m) <=> Address(L, m) <= a /\ a < Address(L, m) + Size(L, m)
  <2>1. P[m].kind = L[m].kind /\ P[m].addr = Address(L, m)
    BY DEF IsPlaced
  <2>2. Address(L, m) \in Nat
    BY AddressNatural
  <2>3. CASE L[m].kind \in NoCodeKinds
    <3>1. Size(L, m) = 0
      BY <2>3, Zenon DEF Size
    <3> QED BY <2>1, <2>2, <2>3, <3>1
  <2>4. CASE L[m].kind \notin NoCodeKinds /\ L[m].kind = "elif"
    <3>1. Size(L, m) = 2
      BY <2>4, Zenon DEF Size
    <3> QED BY <2>1, <2>2, <2>4, <3>1
  <2>5. CASE L[m].kind \notin NoCodeKinds /\ L[m].kind # "elif"
    <3>1. Size(L, m) = 1
      BY <2>5, Zenon DEF Size
    <3> QED BY <2>1, <2>2, <2>5, <3>1
  <2> QED BY <2>3, <2>4, <2>5, Zenon
<1>3. LineAt(P, a) = CHOOSE m \in 1..Len(L) : isIt(m)
  BY <1>1, Zenon DEF LineAt
<1>4. isIt(t)
  BY <1>2
<1>5. ASSUME NEW m \in 1..Len(L), isIt(m) PROVE m = t
  <2>1. Address(L, m) <= a /\ a < Address(L, m) + Size(L, m)
    BY <1>2, <1>5
  <2> HIDE DEF isIt
  <2>t. m \in Nat \ {0} /\ t \in Nat \ {0}
    BY <1>1
  <2>2. /\ Address(L, m) \in Nat /\ Address(L, t) \in Nat
        /\ Size(L, m) \in 0..2 /\ Size(L, t) \in 0..2
    BY <2>t, AddressNatural, AddressSteps
  <2>3. ASSUME m < t PROVE FALSE
    <3>1. Address(L, m) + Size(L, m) <= Address(L, t)
      BY <2>t, <2>3, AddressGrows
    <3> QED BY <2>1, <2>2, <3>1
  <2>4. ASSUME t < m PROVE FALSE
    <3>1. Address(L, t) + Size(L, t) <= Address(L, m)
      BY <2>t, <2>4, AddressGrows
    <3> QED BY <2>1, <2>2, <3>1
  <2> QED BY <1>1, <2>3, <2>4
<1> HIDE DEF isIt
<1> QED BY <1>3, <1>4, <1>5, Zenon

(* The last line with a name. *)
LEMMA LastExists ==
  ASSUME NEW N \in Nat, NEW S, S \subseteq 1..N, S # {}
  PROVE  \E m \in S : \A k \in S : k <= m
<1>0. \A m \in S : m \in Nat
  OBVIOUS
<1> SUFFICES ASSUME ~\E m \in S : \A k \in S : k <= m PROVE FALSE
  OBVIOUS
<1>s. \A m \in S : \E k \in S : m < k
  <2>1. \A m \in S : \E k \in S : ~(k <= m)
    OBVIOUS
  <2> QED BY <1>0, <2>1
<1> DEFINE T == {i \in Nat : \E k \in S : i <= k}
<1>1. 0 \in T
  <2>1. PICK k \in S : TRUE
    OBVIOUS
  <2>2. 0 <= k
    BY <1>0
  <2> QED BY <2>2
<1>2. ASSUME NEW i \in Nat, i \in T PROVE i + 1 \in T
  <2>1. PICK k \in S : i <= k
    BY <1>2
  <2>2. PICK k2 \in S : k < k2
    BY <1>s, <2>1
  <2>3. k \in Nat /\ k2 \in Nat
    OBVIOUS
  <2>4. i + 1 <= k2
    BY <2>1, <2>2, <2>3
  <2> QED BY <2>4
<1>3. Nat \subseteq T
  <2> HIDE DEF T
  <2> QED BY <1>1, <1>2, NatSetInduction
<1>4. N + 1 \in T
  <2> HIDE DEF T
  <2> QED BY <1>3
<1> QED BY <1>4

IsLastNamed(L, name, m) ==
  /\ m \in 1..Len(L) /\ L[m].kind \in NameKinds /\ L[m].text = name
  /\ \A k \in (m + 1)..Len(L) : ~(L[k].kind \in NameKinds /\ L[k].text = name)

LEMMA LastNamedIs ==
  ASSUME NEW L, NEW P, IsPlaced(L, P), NEW name, NEW j \in 1..Len(L),
         L[j].kind \in NameKinds, L[j].text = name
  PROVE  IsLastNamed(L, name, LastNamed(P, name))
<1> DEFINE isIt(m) == P[m].kind \in NameKinds /\ P[m].text = name
           last(m) == isIt(m) /\ \A k \in (m + 1)..Len(P) : ~isIt(k)
           S == {m \in 1..Len(L) : isIt(m)}
<1>1. Len(L) \in Nat /\ Len(P) = Len(L) /\ DOMAIN P = 1..Len(L)
  BY DEF IsPlaced
<1>2. \A m \in 1..Len(L) : isIt(m) <=> L[m].kind \in NameKinds /\ L[m].text = name
  BY DEF IsPlaced
<1>3. LastNamed(P, name) = CHOOSE m \in 1..Len(L) : last(m)
  BY <1>1, Zenon DEF LastNamed
<1> HIDE DEF isIt
<1>4. \E m \in 1..Len(L) : last(m)
  <2>1. S \subseteq 1..Len(L) /\ S # {}
    BY <1>2
  <2>2. PICK m \in S : \A k \in S : k <= m
    <3> HIDE DEF S
    <3> QED BY <1>1, <2>1, LastExists
  <2>3. m \in 1..Len(L) /\ isIt(m)
    BY <2>2
  <2>4. ASSUME NEW k \in (m + 1)..Len(P), isIt(k) PROVE FALSE
    BY <1>1, <2>2, <2>3, <2>4
  <2> QED BY <2>3, <2>4
<1> DEFINE m == LastNamed(P, name)
<1>5. m \in 1..Len(L) /\ last(m)
  <2> HIDE DEF last
  <2> QED BY <1>3, <1>4, Zenon
<1> HIDE DEF m
<1>6. IsLastNamed(L, name, m)
  BY <1>1, <1>2, <1>5 DEF IsLastNamed
<1> QED BY <1>6 DEF m

-----------------------------------------------------------------------------
(* The parser at the end of its listing. *)

(* No construct is open. *)
LEMMA AllClosed ==
  ASSUME NEW L, WellNested(L), NEW t \in DOMAIN L, HasJump(L, t)
  PROVE  ~StaysOpen(L, t, Len(L) + 1)
<1>1. Len(L) \in Nat /\ t \in 1..Len(L)
  BY ListingShape
<1>2. t \in Nat \ {0} /\ Len(L) + 1 \in Nat \ {0} /\ t < Len(L) + 1
  BY <1>1
<1>3. Nesting(L, t) >= 1
  <2>1. CASE L[t].kind = "if"
    <3>1. L[t].kind \in OpenKinds
      BY <2>1, Zenon DEF OpenKinds
    <3>2. Opened(L, t) \in Nat
      <4>1. t \in 1..(Len(L) + 1)
        BY <1>1
      <4> QED BY <4>1, OpenedNatural
    <3> QED BY <1>2, <3>1, <3>2, NestingIs
  <2>2. CASE L[t].kind \in ElseKinds
    <3>1. L[t].kind \in ClauseKinds
      BY <2>2, Zenon DEF ClauseKinds
    <3> QED BY <3>1, ClauseInside
  <2> QED BY <2>1, <2>2, Zenon DEF HasJump, ElseKinds
<1>4. Opened(L, Len(L) + 1) = 0
  BY Zenon DEF WellNested
<1>5. Nesting(L, t) \in Int
  BY <1>2, NestingIs
<1>6. ASSUME StaysOpen(L, t, Len(L) + 1) PROVE FALSE
  <2>1. Opened(L, Len(L) + 1) >= Nesting(L, t)
    BY <1>2, <1>6, StaysOpenSteps
  <2> QED BY <1>3, <1>4, <1>5, <2>1
<1> QED BY <1>6

Parsed ==
  /\ WellNested(listing) /\ WellNamed(listing)
  /\ Len(listing) \in Nat /\ DOMAIN listing = 1..Len(listing)
  /\ IsFile(microtemp) /\ Len(microtemp) = Address(listing, Len(listing) + 1)
  /\ IsFile(jumptable) /\ Len(jumptable) = RowCount(listing)
  /\ \A m \in DOMAIN listing :
       /\ listing[m].kind \in NameKinds => jumptable[Row(listing, m) + 1] = Named(listing[m].text)
       /\ listing[m].kind \in MarkKinds => jumptable[Row(listing, m) + 1] = LabelOf(listing, m)
       /\ listing[m].kind \in MarkKinds => at[LabelOf(listing, m)] = Landing(listing, m)
       /\ listing[m].kind = "label" => at[Named(listing[m].text)] = Address(listing, m)
       /\ LineOK(listing, m, Len(listing) + 1, microtemp, saved, arr)

(* What the invariant says of the finished files. *)
LEMMA ParsedAtEnd == IInv /\ ImagesInv /\ AtEnd => Parsed
<1> SUFFICES ASSUME IInv, ImagesInv, AtEnd PROVE Parsed
  OBVIOUS
<1>1. WellNested(listing) /\ WellNamed(listing)
  BY ListingsAssumption DEF IInv, ParserTypeOK
<1>2. Len(listing) \in Nat /\ DOMAIN listing = 1..Len(listing)
  BY <1>1, ListingShape
<1>3. n = Len(listing) + 1 /\ 1..(n - 1) = DOMAIN listing
  BY <1>2 DEF IInv, ParserTypeOK, AtEnd
<1>4. IsFile(microtemp) /\ Len(microtemp) = Address(listing, Len(listing) + 1)
  BY <1>3 DEF IInv, ParserTypeOK, AddressCounts, ImagesInv, CountsOK
<1>5. IsFile(jumptable) /\ Len(jumptable) = RowCount(listing)
  BY <1>3 DEF ImagesInv, TableOK, RowsOK, RowCount
<1>6. \A m \in DOMAIN listing :
       /\ listing[m].kind \in NameKinds => jumptable[Row(listing, m) + 1] = Named(listing[m].text)
       /\ listing[m].kind \in MarkKinds => jumptable[Row(listing, m) + 1] = LabelOf(listing, m)
  BY <1>3, Zenon DEF ImagesInv, TableOK, RowsOK
<1>7. \A m \in DOMAIN listing :
       /\ listing[m].kind \in MarkKinds => at[LabelOf(listing, m)] = Landing(listing, m)
       /\ listing[m].kind = "label" => at[Named(listing[m].text)] = Address(listing, m)
  BY <1>3, Zenon DEF ImagesInv, PlacesOK
<1>8. \A m \in DOMAIN listing : LineOK(listing, m, Len(listing) + 1, microtemp, saved, arr)
  BY <1>3, Zenon DEF ImagesInv, LinesOK
<1> QED BY <1>1, <1>2, <1>4, <1>5, <1>6, <1>7, <1>8, Zenon DEF Parsed

-----------------------------------------------------------------------------
(* The row of a label. *)

LEMMA RowRange ==
  ASSUME NEW L, Len(L) \in Nat, DOMAIN L = 1..Len(L), NEW m, HasRow(L, m)
  PROVE  Row(L, m) \in Nat /\ Row(L, m) < RowCount(L) /\ RowCount(L) \in Nat
<1> DEFINE names == Before(L, Len(L) + 1, NameKinds)
           marks == Before(L, Len(L) + 1, MarkKinds)
<1>1. Len(L) + 1 \in Nat \ {0} /\ m \in 1..Len(L) /\ m \in 1..((Len(L) + 1) - 1)
  BY DEF HasRow
<1>2. names \in Nat /\ marks \in Nat /\ RowCount(L) = names + marks
  BY <1>1, BeforeSteps DEF RowCount
<1>3. CASE L[m].kind \in NameKinds
  <2>1. Row(L, m) \in 0..(names - 1)
    BY <1>1, <1>3, NameRow
  <2> HIDE DEF names, marks
  <2> QED BY <1>2, <2>1
<1>4. CASE L[m].kind \in MarkKinds
  <2>1. Row(L, m) \in names..(names + marks - 1)
    BY <1>1, <1>4, MarkRow
  <2> HIDE DEF names, marks
  <2> QED BY <1>2, <2>1
<1> QED BY <1>3, <1>4 DEF HasRow

(* The dictionary finds the last row with a label. *)
LEMMA RowOfIs ==
  ASSUME Parsed, NEW label, NEW m, HasRow(listing, m),
         jumptable[Row(listing, m) + 1] = label,
         \A k \in DOMAIN listing : HasRow(listing, k) /\ Row(listing, m) < Row(listing, k) =>
           jumptable[Row(listing, k) + 1] # label
  PROVE  RowOf(label) = Row(listing, m)
<1> DEFINE r == Row(listing, m)
           last(k) == jumptable[k] = label /\ \A j \in (k + 1)..Len(jumptable) : jumptable[j] # label
<1>1. Len(listing) \in Nat /\ DOMAIN listing = 1..Len(listing) /\ Len(jumptable) = RowCount(listing)
  BY DEF Parsed
<1>2. r \in Nat /\ r < RowCount(listing) /\ RowCount(listing) \in Nat
  BY <1>1, RowRange
<1>3. DOMAIN jumptable = 1..RowCount(listing)
  <2>1. DOMAIN jumptable = 1..Len(jumptable)
    BY DEF Parsed, IsFile
  <2> QED BY <1>1, <2>1
<1>4. ASSUME NEW j \in (r + 2)..Len(jumptable) PROVE jumptable[j] # label
  <2>1. j - 1 \in Nat /\ j - 1 < RowCount(listing) /\ r < j - 1 /\ (j - 1) + 1 = j
    BY <1>1, <1>2
  <2>2. PICK k : HasRow(listing, k) /\ Row(listing, k) = j - 1
    BY <1>1, <2>1, RowOnto
  <2>3. k \in DOMAIN listing
    BY <2>2 DEF HasRow
  <2> QED BY <2>1, <2>2, <2>3
<1>5. RowOf(label) = (CHOOSE k \in DOMAIN jumptable : last(k)) - 1
  BY Zenon DEF RowOf
<1> HIDE DEF r
<1>6. r + 1 \in DOMAIN jumptable /\ last(r + 1)
  <2>1. jumptable[r + 1] = label
    BY DEF r
  <2> QED BY <1>1, <1>2, <1>3, <1>4, <2>1
<1>7. ASSUME NEW k \in DOMAIN jumptable, last(k) PROVE k = r + 1
  <2>1. k \in 1..RowCount(listing)
    BY <1>3
  <2>2. ~(k < r + 1)
    BY <1>1, <1>2, <1>6, <1>7, <2>1
  <2>3. ~(r + 1 < k)
    BY <1>1, <1>2, <1>4, <1>7, <2>1
  <2> QED BY <1>2, <2>1, <2>2, <2>3
<1> HIDE DEF last
<1>8. (CHOOSE k \in DOMAIN jumptable : last(k)) = r + 1
  BY <1>6, <1>7, Zenon
<1>9. RowOf(label) = (r + 1) - 1
  BY <1>5, <1>8, Zenon
<1> QED BY <1>2, <1>9 DEF r

(* A generated label has one row. *)
LEMMA RowOfMark ==
  ASSUME Parsed, NEW c \in DOMAIN listing, listing[c].kind \in MarkKinds
  PROVE  RowOf(LabelOf(listing, c)) = Row(listing, c)
<1>1. HasRow(listing, c) /\ jumptable[Row(listing, c) + 1] = LabelOf(listing, c)
  BY DEF HasRow, Parsed
<1>2. ASSUME NEW k \in DOMAIN listing, HasRow(listing, k), Row(listing, c) < Row(listing, k)
      PROVE  jumptable[Row(listing, k) + 1] # LabelOf(listing, c)
  <2>1. CASE listing[k].kind \in NameKinds
    <3>1. LabelOf(listing, c) # Named(listing[k].text)
      BY <2>1, LabelNotNamed DEF Parsed
    <3>2. jumptable[Row(listing, k) + 1] = Named(listing[k].text)
      BY <2>1 DEF Parsed
    <3> QED BY <3>1, <3>2
  <2>2. CASE listing[k].kind \in MarkKinds
    <3>1. jumptable[Row(listing, k) + 1] = LabelOf(listing, k)
      BY <2>2 DEF Parsed
    <3>2. c \in Nat \ {0} /\ k \in Nat \ {0}
      BY DEF Parsed
    <3>3. ASSUME LabelOf(listing, k) = LabelOf(listing, c) PROVE FALSE
      <4>1. k = c
        BY <2>2, <3>2, <3>3, LabelInjective
      <4>2. Row(listing, c) \in Nat
        BY <1>1, RowRange DEF Parsed
      <4> QED BY <1>2, <4>1, <4>2
    <3> QED BY <3>1, <3>3
  <2> QED BY <1>2, <2>1, <2>2 DEF HasRow
<1> QED BY <1>1, <1>2, RowOfIs

(* A name may have several: the last one counts. *)
LEMMA RowOfName ==
  ASSUME Parsed, NEW name, NEW m, IsLastNamed(listing, name, m)
  PROVE  RowOf(Named(name)) = Row(listing, m)
<1>0. Len(listing) \in Nat /\ DOMAIN listing = 1..Len(listing)
  BY DEF Parsed
<1>1. /\ m \in DOMAIN listing /\ listing[m].kind \in NameKinds /\ listing[m].text = name
      /\ m \in Nat \ {0}
  BY <1>0 DEF IsLastNamed
<1>2. HasRow(listing, m) /\ jumptable[Row(listing, m) + 1] = Named(name)
  BY <1>1 DEF HasRow, Parsed
<1>3. ASSUME NEW k \in DOMAIN listing, HasRow(listing, k), Row(listing, m) < Row(listing, k)
      PROVE  jumptable[Row(listing, k) + 1] # Named(name)
  <2>1. CASE listing[k].kind \in MarkKinds
    <3>1. LabelOf(listing, k) # Named(listing[m].text)
      BY <1>1, LabelNotNamed DEF Parsed
    <3>2. jumptable[Row(listing, k) + 1] = LabelOf(listing, k)
      BY <2>1 DEF Parsed
    <3> QED BY <1>1, <3>1, <3>2
  <2>2. CASE listing[k].kind \in NameKinds
    <3>1. jumptable[Row(listing, k) + 1] = Named(listing[k].text)
      BY <2>2 DEF Parsed
    <3>2. /\ Row(listing, m) = Before(listing, m, NameKinds)
          /\ Row(listing, k) = Before(listing, k, NameKinds)
      BY <1>1, <2>2, RowIs
    <3>3. k \in Nat \ {0}
      BY <1>0
    <3>4. m < k
      <4>1. ASSUME k < m PROVE FALSE
        <5>1. /\ Before(listing, k, NameKinds) <= Before(listing, m, NameKinds)
              /\ Before(listing, k, NameKinds) \in Nat /\ Before(listing, m, NameKinds) \in Nat
          BY <1>1, <3>3, <4>1, BeforeGrows
        <5> QED BY <1>3, <3>2, <5>1
      <4>2. ASSUME k = m PROVE FALSE
        <5>1. Before(listing, m, NameKinds) \in Nat
          BY <1>1, BeforeSteps
        <5> QED BY <1>3, <3>2, <4>2, <5>1
      <4> QED BY <1>1, <3>3, <4>1, <4>2
    <3>5. k \in (m + 1)..Len(listing)
      BY <1>0, <1>1, <3>4
    <3>6. listing[k].text # name
      BY <2>2, <3>5 DEF IsLastNamed
    <3>7. Named(listing[k].text) # Named(name)
      BY <3>6 DEF Named
    <3> QED BY <3>1, <3>7
  <2> QED BY <1>3, <2>1, <2>2 DEF HasRow
<1> QED BY <1>2, <1>3, RowOfIs

-----------------------------------------------------------------------------
(* The words of the micromemory. *)

LEMMA ClausesAreMarks == \A x : x \in ClauseKinds => x \in MarkKinds
  BY Zenon DEF MarkKinds

(* The jump that a test makes. *)
LEMMA TestWord ==
  ASSUME Parsed, NEW t \in DOMAIN listing, HasJump(listing, t), NEW e, NEW sv, NEW ar,
         TestOK(listing, t, Len(listing) + 1, e, sv, ar), listing[t].kind \in {"if", "elif"}
  PROVE  Translate(e) = TestOf(Placed(listing), t)
<1> DEFINE P == Placed(listing)
<1>1. Len(listing) \in Nat /\ DOMAIN listing = 1..Len(listing) /\ WellNested(listing)
  BY DEF Parsed
<1>2. IsPlaced(listing, P)
  BY <1>1, PlacedIs
<1>3. ~StaysOpen(listing, t, Len(listing) + 1)
  BY <1>1, AllClosed
<1>4. /\ e.kind = listing[t].kind /\ e.text = listing[t].text
      /\ Resolved(listing, t, Len(listing) + 1, e, ClauseKinds)
  BY <1>3, Zenon DEF TestOK
<1>5. (Len(listing) + 1) - 1 = Len(listing)
  BY <1>1
<1>6. PICK c \in 1..Len(listing) : IsNext(listing, t, c, ClauseKinds) /\ e.dest = LabelOf(listing, c)
  BY <1>4, <1>5 DEF Resolved
<1> HIDE DEF P
<1>7. NextOf(P, t, ClauseKinds) = c
  BY <1>1, <1>2, <1>6, NextOfIs
<1>8. P[t].text = listing[t].text /\ P[c].row = Row(listing, c)
  BY <1>1, <1>2 DEF IsPlaced
<1>9. RowOf(e.dest) = Row(listing, c)
  <2>1. listing[c].kind \in MarkKinds
    BY <1>6, ClausesAreMarks DEF IsNext, Fellow
  <2> QED BY <1>1, <1>6, <2>1, RowOfMark
<1>10. Translate(e) = Micro("jump", e.text, "", RowOf(e.dest))
  BY <1>4, Zenon DEF Translate
<1>11. TestOf(P, t) = Micro("jump", listing[t].text, "", Row(listing, c))
  BY <1>7, <1>8, Zenon DEF TestOf
<1>12. Translate(e) = TestOf(P, t)
  BY <1>4, <1>9, <1>10, <1>11, Zenon
<1> QED BY <1>12 DEF P

(* The jump that ends a clause. *)
LEMMA LeaveWord ==
  ASSUME Parsed, NEW t \in DOMAIN listing, HasJump(listing, t), NEW e,
         LeaveOK(listing, t, Len(listing) + 1, e)
  PROVE  Translate(e) = LeaveOf(Placed(listing), t)
<1> DEFINE P == Placed(listing)
<1>1. Len(listing) \in Nat /\ DOMAIN listing = 1..Len(listing) /\ WellNested(listing)
  BY DEF Parsed
<1>2. IsPlaced(listing, P)
  BY <1>1, PlacedIs
<1>3. ~StaysOpen(listing, t, Len(listing) + 1)
  BY <1>1, AllClosed
<1>4. e.kind = "else" /\ Resolved(listing, t, Len(listing) + 1, e, {"fi"})
  BY <1>3, Zenon DEF LeaveOK
<1>5. (Len(listing) + 1) - 1 = Len(listing)
  BY <1>1
<1>6. PICK c \in 1..Len(listing) : IsNext(listing, t, c, {"fi"}) /\ e.dest = LabelOf(listing, c)
  BY <1>4, <1>5 DEF Resolved
<1> HIDE DEF P
<1>7. NextOf(P, t, {"fi"}) = c
  BY <1>1, <1>2, <1>6, NextOfIs
<1>8. P[c].row = Row(listing, c)
  BY <1>1, <1>2 DEF IsPlaced
<1>9. RowOf(e.dest) = Row(listing, c)
  <2>1. listing[c].kind \in MarkKinds
    BY <1>6, Zenon DEF IsNext, Fellow, MarkKinds, ClauseKinds
  <2> QED BY <1>1, <1>6, <2>1, RowOfMark
<1>10. Translate(e) = Micro("jump", "always", "", RowOf(e.dest))
  BY <1>4, Zenon DEF Translate
<1>11. LeaveOf(P, t) = Micro("jump", "always", "", Row(listing, c))
  BY <1>7, <1>8, Zenon DEF LeaveOf
<1>12. Translate(e) = LeaveOf(P, t)
  BY <1>9, <1>10, <1>11, Zenon
<1> QED BY <1>12 DEF P

(* The jump back to the loop. *)
LEMMA UntilWord ==
  ASSUME Parsed, NEW t \in DOMAIN listing, NEW e, UntilOK(listing, t, e)
  PROVE  Translate(e) = Micro("jump", listing[t].text, "", Placed(listing)[OpeningLoop(Placed(listing), t)].row)
<1> DEFINE P == Placed(listing)
<1>1. Len(listing) \in Nat /\ DOMAIN listing = 1..Len(listing)
  BY DEF Parsed
<1>2. IsPlaced(listing, P)
  BY <1>1, PlacedIs
<1>3. e.kind = "until" /\ e.text = listing[t].text
  BY Zenon DEF UntilOK
<1>4. PICK c \in 1..(t - 1) : IsLoopOf(listing, t, c) /\ e.dest = LabelOf(listing, c)
  BY Zenon DEF UntilOK
<1>5. c \in DOMAIN listing
  BY <1>1
<1> HIDE DEF P
<1>6. OpeningLoop(P, t) = c
  BY <1>1, <1>2, <1>4, OpeningLoopIs
<1>7. P[c].row = Row(listing, c)
  BY <1>1, <1>2, <1>5 DEF IsPlaced
<1>8. RowOf(e.dest) = Row(listing, c)
  <2>1. listing[c].kind \in MarkKinds
    BY <1>4, Zenon DEF IsLoopOf, Fellow, MarkKinds
  <2> QED BY <1>4, <1>5, <2>1, RowOfMark
<1>9. Translate(e) = Micro("jump", e.text, "", RowOf(e.dest))
  BY <1>3, Zenon DEF Translate
<1>10. Translate(e) = Micro("jump", listing[t].text, "", P[OpeningLoop(P, t)].row)
  BY <1>3, <1>6, <1>7, <1>8, <1>9, Zenon
<1> QED BY <1>10 DEF P

(* The word of a line that is no jump. *)
LEMMA PlainWord ==
  ASSUME Parsed, NEW t \in DOMAIN listing, NEW e, PlainOK(listing, t, e),
         listing[t].kind \notin NoCodeKinds \cup JumpKinds
  PROVE  <<Translate(e)>> = MicroOf(Placed(listing), t)
<1> DEFINE P == Placed(listing)
<1>1. Len(listing) \in Nat /\ DOMAIN listing = 1..Len(listing)
  BY DEF Parsed
<1>2. IsPlaced(listing, P)
  BY <1>1, PlacedIs
<1>3. e.kind = listing[t].kind /\ e.text = listing[t].text
  BY Zenon DEF PlainOK
<1> HIDE DEF P
<1>4. P[t].kind = listing[t].kind /\ P[t].text = listing[t].text
  BY <1>1, <1>2 DEF IsPlaced
<1>5. /\ listing[t].kind \notin NoCodeKinds
      /\ listing[t].kind # "if" /\ listing[t].kind # "elif"
      /\ listing[t].kind # "else" /\ listing[t].kind # "until"
  BY Zenon DEF JumpKinds
<1>6. CASE listing[t].kind = "rtl"
  <2>1. Translate(e) = Micro("ctrl", "always", listing[t].text, 0)
    BY <1>3, <1>6, Zenon DEF Translate
  <2>2. MicroOf(P, t) = <<Micro("ctrl", "always", listing[t].text, 0)>>
    BY <1>4, <1>5, <1>6, Zenon DEF MicroOf
  <2> QED BY <2>1, <2>2 DEF P
<1>7. CASE listing[t].kind = "call"
  <2> DEFINE x == listing[t].text
             m == LastNamed(P, x)
  <2>1. PICK j \in DOMAIN listing : listing[j].kind = "label" /\ listing[j].text = x
    <3>1. WellNamed(listing) /\ listing[t].kind \in {"here", "call"}
      BY <1>7 DEF Parsed
    <3> QED BY <3>1, Zenon DEF WellNamed
  <2>2. listing[j].kind \in NameKinds
    BY <2>1, Zenon DEF NameKinds
  <2>3. IsLastNamed(listing, x, m)
    BY <1>1, <1>2, <2>1, <2>2, LastNamedIs
  <2>4. RowOf(Named(x)) = Row(listing, m)
    BY <2>3, RowOfName
  <2>5. P[m].row = Row(listing, m)
    BY <1>1, <1>2, <2>3 DEF IsPlaced, IsLastNamed
  <2>6. Translate(e) = Micro("call", "always", "", RowOf(Named(x)))
    BY <1>3, <1>7, Zenon DEF Translate
  <2>7. MicroOf(P, t) = <<Micro("call", "always", "", P[m].row)>>
    BY <1>4, <1>5, <1>7, Zenon DEF MicroOf
  <2> QED BY <2>4, <2>5, <2>6, <2>7 DEF P
<1>8. CASE listing[t].kind # "rtl" /\ listing[t].kind # "call"
  <2>1. Translate(e) = Micro(listing[t].kind, "always", "", 0)
    BY <1>3, <1>5, <1>8, Zenon DEF Translate
  <2>2. MicroOf(P, t) = <<Micro(listing[t].kind, "always", "", 0)>>
    BY <1>4, <1>5, <1>8, Zenon DEF MicroOf
  <2> QED BY <2>1, <2>2 DEF P
<1> QED BY <1>6, <1>7, <1>8

(* A word written of a line is the word of that line. *)
LEMMA WordRight ==
  ASSUME Parsed, NEW t \in DOMAIN listing, NEW i \in 1..Size(listing, t)
  PROVE  Translate(microtemp[Address(listing, t) + i]) = MicroOf(Placed(listing), t)[i]
<1> DEFINE P == Placed(listing)
           a == Address(listing, t)
           kind == listing[t].kind
<1>1. Len(listing) \in Nat /\ DOMAIN listing = 1..Len(listing) /\ t \in Nat \ {0}
  BY DEF Parsed
<1>2. IsPlaced(listing, P)
  BY <1>1, PlacedIs
<1>3. P[t].kind = kind /\ P[t].text = listing[t].text
  BY <1>1, <1>2 DEF IsPlaced
<1>4. LineOK(listing, t, Len(listing) + 1, microtemp, saved, arr)
  BY DEF Parsed
<1>5. a \in Nat
  BY <1>1, AddressNatural
<1>6. kind \notin NoCodeKinds
  <2>1. ASSUME kind \in NoCodeKinds PROVE FALSE
    <3>1. Size(listing, t) = 0
      BY <2>1, Zenon DEF Size
    <3> QED BY <3>1
  <2> QED BY <2>1
<1>7. CASE kind = "if"
  <2>1. i = 1
    BY <1>1, <1>7, PlaceOfLine
  <2>2. HasJump(listing, t) /\ kind \in {"if", "elif"}
    BY <1>7, Zenon DEF HasJump
  <2>3. TestOK(listing, t, Len(listing) + 1, microtemp[a + 1], saved, arr)
    BY <1>4, <1>7, Zenon DEF LineOK
  <2> HIDE DEF a
  <2>4. Translate(microtemp[a + 1]) = TestOf(P, t)
    BY <2>2, <2>3, TestWord
  <2>5. MicroOf(P, t) = <<TestOf(P, t)>>
    <3> HIDE DEF P
    <3> QED BY <1>3, <1>6, <1>7, Zenon DEF MicroOf
  <2> HIDE DEF P
  <2>6. Translate(microtemp[a + i]) = MicroOf(P, t)[i]
    BY <2>1, <2>4, <2>5
  <2> QED BY <2>6 DEF a, P
<1>8. CASE kind = "elif"
  <2>1. i = 1 \/ i = 2
    BY <1>1, <1>8, PlaceOfLine
  <2>2. HasJump(listing, t) /\ kind \in {"if", "elif"}
    BY <1>8, Zenon DEF HasJump
  <2>3. /\ LeaveOK(listing, t, Len(listing) + 1, microtemp[a + 1])
        /\ TestOK(listing, t, Len(listing) + 1, microtemp[a + 1 + 1], saved, arr)
    BY <1>4, <1>8, Zenon DEF LineOK
  <2>4. a + 1 + 1 = a + 2
    BY <1>5
  <2> HIDE DEF a
  <2>5. /\ Translate(microtemp[a + 1]) = LeaveOf(P, t)
        /\ Translate(microtemp[a + 2]) = TestOf(P, t)
    BY <2>2, <2>3, <2>4, LeaveWord, TestWord
  <2>6. MicroOf(P, t) = <<LeaveOf(P, t), TestOf(P, t)>>
    <3> HIDE DEF P
    <3> QED BY <1>3, <1>6, <1>8, Zenon DEF MicroOf
  <2> HIDE DEF P
  <2>7. Translate(microtemp[a + i]) = MicroOf(P, t)[i]
    BY <2>1, <2>5, <2>6
  <2> QED BY <2>7 DEF a, P
<1>9. CASE kind = "else"
  <2>1. i = 1
    BY <1>1, <1>9, PlaceOfLine
  <2>2. HasJump(listing, t)
    BY <1>9, Zenon DEF HasJump
  <2>3. LeaveOK(listing, t, Len(listing) + 1, microtemp[a + 1])
    BY <1>4, <1>9, Zenon DEF LineOK
  <2> HIDE DEF a
  <2>4. Translate(microtemp[a + 1]) = LeaveOf(P, t)
    BY <2>2, <2>3, LeaveWord
  <2>5. MicroOf(P, t) = <<LeaveOf(P, t)>>
    <3> HIDE DEF P
    <3> QED BY <1>3, <1>6, <1>9, Zenon DEF MicroOf
  <2> HIDE DEF P
  <2>6. Translate(microtemp[a + i]) = MicroOf(P, t)[i]
    BY <2>1, <2>4, <2>5
  <2> QED BY <2>6 DEF a, P
<1>10. CASE kind = "until"
  <2> DEFINE w == Micro("jump", listing[t].text, "", P[OpeningLoop(P, t)].row)
  <2>1. i = 1
    BY <1>1, <1>10, PlaceOfLine
  <2>2. UntilOK(listing, t, microtemp[a + 1])
    BY <1>4, <1>10, Zenon DEF LineOK
  <2> HIDE DEF a
  <2>3. Translate(microtemp[a + 1]) = w
    BY <2>2, UntilWord
  <2>4. MicroOf(P, t) = <<w>>
    <3> HIDE DEF P
    <3> QED BY <1>3, <1>6, <1>10, Zenon DEF MicroOf
  <2> HIDE DEF P, w
  <2>5. Translate(microtemp[a + i]) = MicroOf(P, t)[i]
    BY <2>1, <2>3, <2>4
  <2> QED BY <2>5 DEF a, P
<1>11. CASE kind \notin JumpKinds
  <2>1. kind \notin NoCodeKinds \cup JumpKinds
    BY <1>6, <1>11
  <2>2. i = 1
    BY <1>1, <2>1, PlaceOfLine
  <2>3. PlainOK(listing, t, microtemp[a + 1])
    BY <1>4, <2>1, Zenon DEF LineOK
  <2> HIDE DEF a
  <2>4. <<Translate(microtemp[a + 1])>> = MicroOf(P, t)
    BY <2>1, <2>3, PlainWord
  <2> HIDE DEF P
  <2>5. Translate(microtemp[a + i]) = MicroOf(P, t)[i]
    BY <2>2, <2>4
  <2> QED BY <2>5 DEF a, P
<1> QED BY <1>7, <1>8, <1>9, <1>10, <1>11, Zenon DEF JumpKinds

-----------------------------------------------------------------------------
(* The images. *)

LEMMA PlacedAddress ==
  ASSUME NEW L, NEW P, IsPlaced(L, P)
  PROVE  Address(P, Len(P) + 1) = Address(L, Len(L) + 1)
<1>1. Len(L) \in Nat /\ Len(P) = Len(L) /\ (Len(L) + 1) - 1 = Len(L)
  BY DEF IsPlaced
<1>2. ASSUME NEW kinds PROVE Before(P, Len(P) + 1, kinds) = Before(L, Len(L) + 1, kinds)
  <2>1. \A m \in 1..Len(L) : P[m].kind = L[m].kind
    BY DEF IsPlaced
  <2>2. {m \in 1..((Len(P) + 1) - 1) : P[m].kind \in kinds}
          = {m \in 1..((Len(L) + 1) - 1) : L[m].kind \in kinds}
    BY <1>1, <2>1
  <2> QED BY <2>2, Zenon DEF Before
<1>3. /\ Before(P, Len(P) + 1, NoCodeKinds) = Before(L, Len(L) + 1, NoCodeKinds)
      /\ Before(P, Len(P) + 1, {"elif"}) = Before(L, Len(L) + 1, {"elif"})
  BY <1>2
<1> QED BY <1>1, <1>3, Zenon DEF Address

(* The image of the micromemory. *)
LEMMA MicroRight == Parsed => MicroFile = MicroImage(Placed(listing))
<1> SUFFICES ASSUME Parsed PROVE MicroFile = MicroImage(Placed(listing))
  OBVIOUS
<1> DEFINE L == listing
           P == Placed(L)
           N == Address(L, Len(L) + 1)
           word(a) == MicroOf(P, LineAt(P, a))[a - P[LineAt(P, a)].addr + 1]
           f == [k \in 1..N |-> word(k - 1)]
<1>1. Len(L) \in Nat /\ DOMAIN L = 1..Len(L)
  BY DEF Parsed
<1>2. IsPlaced(L, P)
  BY <1>1, PlacedIs
<1>3. N \in Nat
  <2>1. Len(L) + 1 \in Nat \ {0}
    BY <1>1
  <2> QED BY <2>1, AddressNatural
<1>4. DOMAIN microtemp = 1..N
  BY DEF Parsed, IsFile
<1>5. ASSUME NEW l \in 1..N PROVE Translate(microtemp[l]) = word(l - 1)
  <2>1. l - 1 \in Nat /\ l - 1 < N /\ Len(L) + 1 \in Nat \ {0} /\ (Len(L) + 1) - 1 = Len(L)
    BY <1>1, <1>3
  <2>2. PICK t \in 1..Len(L) : Address(L, t) <= l - 1 /\ l - 1 < Address(L, t) + Size(L, t)
    <3>1. \E t \in 1..((Len(L) + 1) - 1) : Address(L, t) <= l - 1 /\ l - 1 < Address(L, t) + Size(L, t)
      BY <2>1, AddressCovered
    <3> QED BY <2>1, <3>1
  <2> HIDE DEF P, N
  <2>3. LineAt(P, l - 1) = t
    BY <1>2, <2>1, <2>2, LineAtIs
  <2>4. P[t].addr = Address(L, t)
    BY <1>2 DEF IsPlaced
  <2>5. Address(L, t) \in Nat /\ Size(L, t) \in 0..2
    <3>1. t \in Nat \ {0}
      OBVIOUS
    <3> QED BY <3>1, AddressNatural, AddressSteps
  <2> DEFINE i == l - 1 - Address(L, t) + 1
  <2>6. i \in 1..Size(L, t) /\ Address(L, t) + i = l
    BY <2>1, <2>2, <2>5
  <2>7. word(l - 1) = MicroOf(P, t)[i]
    BY <2>3, <2>4, Zenon
  <2> HIDE DEF i, word
  <2>8. Translate(microtemp[Address(L, t) + i]) = MicroOf(P, t)[i]
    BY <1>1, <2>6, WordRight DEF P
  <2> QED BY <2>6, <2>7, <2>8
<1>6. MicroFile = [l \in 1..N |-> Translate(microtemp[l])]
  BY <1>4, Zenon DEF MicroFile
<1>7. MicroImage(P) = <<>> \o f
  <2>1. Address(P, Len(P) + 1) = N
    BY <1>2, PlacedAddress
  <2> HIDE DEF P, N
  <2>2. MicroImage(P) = <<>> \o [k \in 1..Address(P, Len(P) + 1) |-> word(k - 1)]
    BY Zenon DEF MicroImage
  <2> QED BY <2>1, <2>2, Zenon
<1> HIDE DEF word, P, N
<1>8. f = [k \in 1..N |-> f[k]] /\ \A k \in 1..N : f[k] = word(k - 1)
  OBVIOUS
<1>9. MicroFile = f
  BY <1>5, <1>6
<1> HIDE DEF f
<1>10. <<>> \o f = f
  BY <1>3, <1>8, TupleIsFile
<1> QED BY <1>7, <1>9, <1>10 DEF P

(* A row points where its line says. *)
LEMMA PlaceRight ==
  ASSUME Parsed, NEW m, HasRow(listing, m)
  PROVE  at[jumptable[Row(listing, m) + 1]] = RowTarget(Placed(listing), m)
<1> DEFINE P == Placed(listing)
           kind == listing[m].kind
<1>1. Len(listing) \in Nat /\ DOMAIN listing = 1..Len(listing) /\ WellNamed(listing)
  BY DEF Parsed
<1>2. IsPlaced(listing, P)
  BY <1>1, PlacedIs
<1> HIDE DEF P
<1>m. m \in DOMAIN listing
  BY DEF HasRow
<1>3. P[m].kind = kind /\ P[m].text = listing[m].text /\ P[m].addr = Address(listing, m)
  BY <1>1, <1>2, <1>m DEF IsPlaced
<1>4. CASE kind \in MarkKinds
  <2>1. /\ jumptable[Row(listing, m) + 1] = LabelOf(listing, m)
        /\ at[LabelOf(listing, m)] = Landing(listing, m)
    BY <1>4, <1>m DEF Parsed
  <2>2. kind # "here"
    <3>1. kind \notin NameKinds
      BY <1>4, NoNameIsMark
    <3> QED BY <3>1, Zenon DEF NameKinds
  <2>3. CASE kind \in ElseKinds
    <3>1. RowTarget(P, m) = P[m].addr + 1
      BY <1>3, <2>2, <2>3, Zenon DEF RowTarget
    <3>2. Landing(listing, m) = Address(listing, m) + 1
      BY <2>3, Zenon DEF Landing
    <3> QED BY <1>3, <2>1, <3>1, <3>2 DEF P
  <2>4. CASE kind \notin ElseKinds
    <3>1. RowTarget(P, m) = P[m].addr
      BY <1>3, <2>2, <2>4, Zenon DEF RowTarget
    <3>2. Landing(listing, m) = Address(listing, m) + 0
      BY <2>4, Zenon DEF Landing
    <3>3. Address(listing, m) \in Nat
      <4>1. m \in Nat \ {0}
        BY <1>1, <1>m
      <4> QED BY <4>1, AddressNatural
    <3> QED BY <1>3, <2>1, <3>1, <3>2, <3>3 DEF P
  <2> QED BY <2>3, <2>4
<1>5. CASE kind = "label"
  <2>1. kind \in NameKinds
    BY <1>5, Zenon DEF NameKinds
  <2>2. /\ jumptable[Row(listing, m) + 1] = Named(listing[m].text)
        /\ at[Named(listing[m].text)] = Address(listing, m)
    BY <1>5, <1>m, <2>1 DEF Parsed
  <2>3. RowTarget(P, m) = P[m].addr
    <3>1. kind # "here" /\ kind \notin ElseKinds
      BY <1>5, Zenon DEF ElseKinds
    <3> QED BY <1>3, <3>1, Zenon DEF RowTarget
  <2> QED BY <1>3, <2>2, <2>3 DEF P
<1>6. CASE kind = "here"
  <2>1. kind \in NameKinds
    BY <1>6, Zenon DEF NameKinds
  <2>2. PICK j \in DOMAIN listing : listing[j].kind = "label" /\ listing[j].text = listing[m].text
    <3>1. kind \in {"here", "call"}
      BY <1>6
    <3> QED BY <1>1, <1>m, <3>1, Zenon DEF WellNamed
  <2>3. /\ jumptable[Row(listing, m) + 1] = Named(listing[m].text)
        /\ at[Named(listing[j].text)] = Address(listing, j)
    BY <1>m, <2>1, <2>2 DEF Parsed
  <2>4. \A k \in DOMAIN listing : listing[k].kind = "label" /\ listing[k].text = listing[m].text => k = j
    <3>1. \A a, b \in {k \in DOMAIN listing : listing[k].kind = "label"} :
             listing[a].text = listing[b].text => a = b
      BY <1>1, Zenon DEF WellNamed
    <3> QED BY <2>2, <3>1
  <2> DEFINE isIt(k) == P[k].kind = "label" /\ P[k].text = P[m].text
  <2>5. \A k \in DOMAIN listing : isIt(k) <=> listing[k].kind = "label" /\ listing[k].text = listing[m].text
    BY <1>1, <1>2, <1>3 DEF IsPlaced
  <2>6. DOMAIN P = DOMAIN listing /\ P[j].addr = Address(listing, j)
    BY <1>1, <1>2 DEF IsPlaced
  <2>7. RowTarget(P, m) = P[CHOOSE k \in DOMAIN P : isIt(k)].addr
    <3>1. P[m].kind = "here" /\ P[m].kind \notin ElseKinds
      BY <1>3, <1>6, Zenon DEF ElseKinds
    <3>2. RowTarget(P, m) = P[CHOOSE k \in DOMAIN P : P[k].kind = "label" /\ P[k].text = P[m].text].addr
      BY <3>1, Zenon DEF RowTarget
    <3> QED BY <3>2, Zenon
  <2> HIDE DEF isIt
  <2>8. (CHOOSE k \in DOMAIN P : isIt(k)) = j
    BY <2>2, <2>4, <2>5, <2>6, Zenon
  <2>9. RowTarget(P, m) = Address(listing, j)
    BY <2>6, <2>7, <2>8, Zenon
  <2> QED BY <2>2, <2>3, <2>9 DEF P
<1> QED BY <1>4, <1>5, <1>6, Zenon DEF HasRow, NameKinds

(* The image of the jump table. *)
LEMMA JumpRight == Parsed => JumpFile = JumpImage(Placed(listing))
<1> SUFFICES ASSUME Parsed PROVE JumpFile = JumpImage(Placed(listing))
  OBVIOUS
<1> DEFINE L == listing
           P == Placed(L)
           N == RowCount(L)
           rows == {m \in DOMAIN P : P[m].kind \in NameKinds \cup MarkKinds}
           nth(k) == CHOOSE m \in rows : P[m].row = k - 1
           f == [k \in 1..N |-> RowTarget(P, nth(k))]
<1>1. Len(L) \in Nat /\ DOMAIN L = 1..Len(L)
  BY DEF Parsed
<1>2. IsPlaced(L, P)
  BY <1>1, PlacedIs
<1>3. N \in Nat /\ Cardinality({m \in DOMAIN L : L[m].kind \in NameKinds \cup MarkKinds}) = N
  BY <1>1, RowCountIs
<1>4. DOMAIN jumptable = 1..N
  BY DEF Parsed, IsFile
<1> HIDE DEF P
<1>5. /\ DOMAIN P = DOMAIN L
      /\ \A m \in DOMAIN L : P[m].kind = L[m].kind /\ P[m].row = Row(L, m)
  BY <1>1, <1>2 DEF IsPlaced
<1>6. rows = {m \in DOMAIN L : L[m].kind \in NameKinds \cup MarkKinds}
  BY <1>5
<1>7. JumpImage(P) = <<>> \o f
  <2>1. JumpImage(P) = <<>> \o [k \in 1..Cardinality(rows) |-> RowTarget(P, nth(k))]
    BY Zenon DEF JumpImage
  <2>2. Cardinality(rows) = N
    BY <1>3, <1>6, Zenon
  <2> HIDE DEF rows, nth, N
  <2> QED BY <2>1, <2>2, Zenon
<1>8. ASSUME NEW k \in 1..N PROVE at[jumptable[k]] = RowTarget(P, nth(k))
  <2>1. k - 1 \in Nat /\ k - 1 < N /\ (k - 1) + 1 = k
    BY <1>3
  <2>2. PICK m : HasRow(L, m) /\ Row(L, m) = k - 1
    BY <1>1, <2>1, RowOnto
  <2>3. \A j : j \in rows <=> HasRow(L, j)
    BY <1>6 DEF HasRow
  <2>4. \A j \in rows : P[j].row = Row(L, j)
    BY <1>5, <1>6
  <2>5. ASSUME NEW j \in rows, P[j].row = k - 1 PROVE j = m
    <3>1. HasRow(L, j) /\ Row(L, j) = Row(L, m)
      BY <2>2, <2>3, <2>4, <2>5
    <3> QED BY <1>1, <2>2, <3>1, RowInjective
  <2> HIDE DEF rows
  <2>6. nth(k) = m
    BY <2>2, <2>3, <2>4, <2>5, Zenon
  <2> HIDE DEF nth
  <2>7. at[jumptable[Row(L, m) + 1]] = RowTarget(P, m)
    BY <2>2, PlaceRight DEF P
  <2> QED BY <2>1, <2>2, <2>6, <2>7
<1>9. JumpFile = [k \in 1..N |-> at[jumptable[k]]]
  BY <1>4, Zenon DEF JumpFile
<1> HIDE DEF nth, N, rows
<1>10. f = [k \in 1..N |-> f[k]] /\ \A k \in 1..N : f[k] = RowTarget(P, nth(k))
  OBVIOUS
<1>11. JumpFile = f
  BY <1>8, <1>9
<1> HIDE DEF f
<1>12. <<>> \o f = f
  BY <1>3, <1>10, TupleIsFile
<1> QED BY <1>7, <1>11, <1>12 DEF P

-----------------------------------------------------------------------------
\* For all well-nested listings, the script counts as many addresses as it writes
\* lines, also for an elif, which is two, and for a loop or a fi, which are none.
THEOREM AddressAlwaysCounts == Spec => []AddressCounts
<1>1. IInv => AddressCounts
  BY DEF IInv
<1> QED BY <1>1, IInvAlways, PTL

\* Whatever the well-nested listings, the shell variables of a level are never
\* reused while a written line still refers to them, and no line refers to
\* one in the end.
THEOREM ReferencesAlwaysOpen == Spec => []ReferencesOpen
<1>1. IInv => ReferencesOpen
  <2> SUFFICES ASSUME IInv PROVE ReferencesOpen
    OBVIOUS
  <2>1. ASSUME AtEnd, NEW l \in DOMAIN microtemp PROVE microtemp[l].lvl = 0
    <3>0. WellNested(listing)
      BY ListingsAssumption DEF IInv, ParserTypeOK
    <3>1. Len(listing) \in Nat /\ Opened(listing, Len(listing) + 1) = 0
      BY <3>0, ListingShape, Zenon DEF WellNested
    <3>2. n = Len(listing) + 1
      BY <2>1, <3>1 DEF AtEnd, IInv, ParserTypeOK
    <3>3. level = 0
      BY <3>1, <3>2 DEF IInv
    <3> QED BY <2>1, <3>3 DEF IInv, ParserTypeOK
  <2> QED BY <2>1 DEF IInv, ReferencesOpen
<1> QED BY <1>1, IInvAlways, PTL

\* Whatever the listings, each generated image is the one that its structure calls
\* for: every jump goes to the next clause, the fi or the loop of its own construct,
\* every call to the last line of its name, and every row points past the jump of
\* the clause before, although the script only ever sees one line at a time.
THEOREM ImagesAlwaysRight == Spec => []ImagesRight
<1>1. IInv /\ ImagesInv => ImagesRight
  BY ParsedAtEnd, MicroRight, JumpRight, Zenon DEF ImagesRight
<1> QED BY <1>1, ImagesInvAlways, PTL
=============================================================================
