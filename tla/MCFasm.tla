-------------------------------- MODULE MCFasm --------------------------------
(***************************************************************************)
(* Small sources: data, a subject line, data that refers to labels, and a  *)
(* line at main.  The registers are small, so that addresses fall inside   *)
(* the binary; labels come before and after what refers to them.           *)
(***************************************************************************)
EXTENDS Assembly

SmallRegs == [r \in 0..15 |-> (3 * r + 1) % 8]

Word7(n) == Directive("none", 7, "", n)
Main     == Code(<<LabelPiece("main", "none"), Mnemonic(43, "none")>>)
Good(r, shift) == Term(r, shift, "none")

Forms == { Immediate(5, ""), Immediate(0, "z"), Absolute("a"), PcRelative(-2),
           Register(8, ""), Register(9, "%"), Register(3, "+"), Register(3, "-"),
           Scaled(5, <<Good(3, 1)>>), Scaled(6, <<Good(1, 0), Good(3, 2)>>),
           Displaced(1, "", <<Good(3, 0)>>), Displaced(0, "z", <<Good(0, 1), Good(3, 1)>>) }

FaultyForms == { Immediate(0, "nowhere"), [Immediate(0, "") EXCEPT !.fault = "number"],
                 [Displaced(0, "", <<Good(1, 0)>>) EXCEPT !.fault = "number"],
                 [Register(0, "") EXCEPT !.fault = "register"],
                 Scaled(2, <<Term(1, 1, "register")>>),
                 Scaled(2, <<Term(1, 1, "shift"), Good(2, 1)>>),
                 Displaced(0, "a", <<Good(1, 1), Term(2, 1, "register")>>),
                 Displaced(0, "a", <<Good(1, 1), Good(2, 1), Good(3, 1)>>) }

(* The subject: labels around an instruction. *)
Add3    == Mnemonic(22, "none")
Here(l) == LabelPiece(l, "none")
Upto(forms, n) == UNION {[1..k -> forms] : k \in 0..n}

Operations ==
  {<<Add3>> \o ops : ops \in Upto(Forms, 3)}
  \cup {<<Add3, x, y>> : x \in Forms \cup FaultyForms, y \in FaultyForms}
  \cup {<<Add3, x, y, x, y>> : x \in Forms, y \in {Immediate(5, ""), Absolute("a")}}
  \cup {<<>>, <<Mnemonic(0, "unknown")>>, <<Register(8, "")>>}

Plain   == {<<Add3, x, y, Register(8, "")>> : x \in {Absolute("z"), Immediate(1, "")},
                                               y \in {Immediate(0, "b"), Register(8, "%")}}
Subjects ==
  {Code(pre \o body) : pre \in {<<>>, <<Here("b")>>}, body \in Operations \ {<<>>}}
  \cup {Code(pre \o body) : pre \in {<<Here("b"), Here("c")>>, <<Here("a")>>, <<Here("z")>>,
                                     <<Here("main")>>, <<LabelPiece("b", "digit")>>},
                            body \in Plain \cup {<<>>, <<Add3>>}}
  \cup {Code(body \o <<Here("b")>>) : body \in Plain}
  \cup {Code(<<x[1], Here("b")>> \o Tail(x)) : x \in Plain}

Directives == { Directive("none", 9, "", 0), Directive("none", -1, "", 3),
                Directive("none", 0, "a", 1), Directive("none", 0, "nowhere", 1),
                Directive("none", 0, "nowhere", 0),
                Directive("count", 1, "", 1), Directive("repeats", 1, "", 1),
                Directive("unknown", 1, "", 1) }

Source(subject, after) == <<Code(<<Here("a")>>), Word7(2), subject, after,
                            Code(<<Here("z")>>), Directive("none", 0, "a", 2), Main>>

SomeSources ==
  {Source(s, Word7(1)) : s \in Subjects}
  \cup {Source(Code(<<Here("b")>> \o p), d) : p \in Plain, d \in Directives}
  \cup {<<>>, <<Code(<<Here("a")>>)>>, <<Word7(0)>>, <<Code(<<Add3>>), Word7(1)>>,
        \* references of a line that is given up, past the end
        <<Code(<<Here("a")>>), Code(<<Add3, Absolute("a"), Register(0, ""), Register(0, "")>>),
          Code(<<Add3, Absolute("a"), [Register(0, "") EXCEPT !.fault = "register"]>>)>>}
=============================================================================
