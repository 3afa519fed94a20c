----------------------------- MODULE RtlListing -----------------------------
(***************************************************************************)
(* The register-transfer listing of hard.tex as data, and what the two     *)
(* memory images made from it must be.                                     *)
(*                                                                         *)
(* A line of the listing is a record of its kind and its text.  Control    *)
(* points and conditions are named by their RTL text: the numbers that     *)
(* sort|uniq gives them are encoding detail.                               *)
(*                                                                         *)
(* MicroImage and JumpImage define the images from the structure of the    *)
(* listing alone (which clause follows which, where each line lands); the  *)
(* module RtlParser models the scripts that compute them line by line.     *)
(***************************************************************************)
EXTENDS Naturals, Sequences, FiniteSets

-----------------------------------------------------------------------------
(* The kinds of line. *)

Line(kind, text) == [kind |-> kind, text |-> text]

Rtl(word)      == Line("rtl", word)     \* a register transfer
If(cond)       == Line("if", cond)
Elif(cond)     == Line("elif", cond)
Else           == Line("else", "")
Fi             == Line("fi", "")
Loop           == Line("loop", "")
Until(cond)    == Line("until", cond)
Label(name)    == Line("label", name)   \* "name:"
GoesHere(name) == Line("here", name)    \* "# name goes here": an alias's table slot
Call(name)     == Line("call", name)    \* "# call name"
CallOpcode     == Line("callopc", "")   \* "# call function at uJumpTab label IR(opc)"
ReturnLine     == Line("return", "")
RestartLine    == Line("restart", "")   \* "# jump to the very beginning"
BailOut        == Line("halt", "")
BailLoudly     == Line("reject", "")    \* "# bail out loudly"
PrintOut       == Line("print", "")

NameKinds   == {"label", "here"}         \* lines that only name a place
OpenKinds   == {"if", "loop"}            \* lines that open a construct
CloseKinds  == {"fi", "until"}           \* lines that close one
ElseKinds   == {"elif", "else"}          \* lines that end a clause and start one
ClauseKinds == ElseKinds \cup {"fi"}     \* lines an if or elif may skip to
MarkKinds   == ClauseKinds \cup {"loop"} \* lines that get a generated label
NoCodeKinds == NameKinds \cup {"loop", "fi"}

-----------------------------------------------------------------------------
(* A microinstruction: what it does, the condition under which it is
   skipped, the control point it sets, the jump-table index it names.      *)

Micro(op, cond, ctrl, jump) == [op |-> op, cond |-> cond, ctrl |-> ctrl, jump |-> jump]

-----------------------------------------------------------------------------
(* Where things are, by counting the lines of the listing L before line n. *)

Before(L, n, kinds) == Cardinality({m \in 1..(n - 1) : L[m].kind \in kinds})

Address(L, n) == (n - 1) - Before(L, n, NoCodeKinds) + Before(L, n, {"elif"})

(* The constructs that are open before line n. *)
Opened(L, n) == Before(L, n, OpenKinds) - Before(L, n, CloseKinds)

(* How many constructs line n is in, an if or a loop counting as in its own. *)
Nesting(L, n) == Before(L, n + 1, OpenKinds) - Before(L, n, CloseKinds)

(* Rows of the jump table: first the named lines, then the marked ones. *)
Row(L, n) == IF L[n].kind \in NameKinds THEN Before(L, n, NameKinds)
             ELSE Before(L, Len(L) + 1, NameKinds) + Before(L, n, MarkKinds)

(* The listing with its places (a tuple, which TLC computes once). *)
Placed(L) ==
  <<>> \o [n \in DOMAIN L |-> [kind |-> L[n].kind, text |-> L[n].text, addr |-> Address(L, n),
                                nesting |-> Nesting(L, n), row |-> Row(L, n)]]

(* The next line of the given kinds in the construct of line n, and the loop
   that the until of line n closes.                                        *)
NextOf(P, n, kinds) ==
  LET isIt(m) == P[m].kind \in kinds /\ P[m].nesting = P[n].nesting
  IN  CHOOSE m \in (n + 1)..Len(P) : isIt(m) /\ \A k \in (n + 1)..(m - 1) : ~isIt(k)
OpeningLoop(P, n) ==
  LET isIt(m) == P[m].kind = "loop" /\ P[m].nesting = P[n].nesting
  IN  CHOOSE m \in 1..(n - 1) : isIt(m) /\ \A k \in (m + 1)..(n - 1) : ~isIt(k)
LastNamed(P, name) ==
  LET isIt(m) == P[m].kind \in NameKinds /\ P[m].text = name
  IN  CHOOSE m \in DOMAIN P : isIt(m) /\ \A k \in (m + 1)..Len(P) : ~isIt(k)

(* What a row points to: a procedure's first line, or past a clause's jump. *)
RowTarget(P, n) ==
  CASE P[n].kind = "here" ->
         P[CHOOSE m \in DOMAIN P : P[m].kind = "label" /\ P[m].text = P[n].text].addr
    [] P[n].kind \in ElseKinds -> P[n].addr + 1
    [] OTHER -> P[n].addr

(* The jump that a test, or the end of a clause, makes. *)
TestOf(P, n)  == Micro("jump", P[n].text, "", P[NextOf(P, n, ClauseKinds)].row)
LeaveOf(P, n) == Micro("jump", "always", "", P[NextOf(P, n, {"fi"})].row)

(* The microinstructions of line n, in order. *)
MicroOf(P, n) ==
  LET line == P[n]
  IN  CASE line.kind \in NoCodeKinds -> <<>>
        [] line.kind = "if"    -> <<TestOf(P, n)>>
        [] line.kind = "elif"  -> <<LeaveOf(P, n), TestOf(P, n)>>
        [] line.kind = "else"  -> <<LeaveOf(P, n)>>
        [] line.kind = "until" -> <<Micro("jump", line.text, "", P[OpeningLoop(P, n)].row)>>
        [] line.kind = "rtl"   -> <<Micro("ctrl", "always", line.text, 0)>>
        [] line.kind = "call"  -> <<Micro("call", "always", "", P[LastNamed(P, line.text)].row)>>
        [] OTHER               -> <<Micro(line.kind, "always", "", 0)>>

(* The line of P whose code is at address a. *)
LineAt(P, a) ==
  CHOOSE n \in DOMAIN P : P[n].kind \notin NoCodeKinds /\ P[n].addr <= a
                          /\ a <= P[n].addr + (IF P[n].kind = "elif" THEN 1 ELSE 0)

(* The images of uMem and uJumpTab made from a placed listing, as sequences:
   the content of address a is element a + 1.                              *)
MicroImage(P) ==
  LET word(a) == MicroOf(P, LineAt(P, a))[a - P[LineAt(P, a)].addr + 1]
  IN  <<>> \o [k \in 1..Address(P, Len(P) + 1) |-> word(k - 1)]

JumpImage(P) ==
  LET rows == {n \in DOMAIN P : P[n].kind \in NameKinds \cup MarkKinds}
  IN  <<>> \o [k \in 1..Cardinality(rows) |->
                  RowTarget(P, CHOOSE n \in rows : P[n].row = k - 1)]
=============================================================================
