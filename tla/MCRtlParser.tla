---------------------------- MODULE MCRtlParser ----------------------------
(***************************************************************************)
(* RtlParser on FabComp's own listing and on every small listing: up to    *)
(* MaxLines lines inside one procedure, properly nested.                   *)
(***************************************************************************)
EXTENDS RtlParser, Microcode

CONSTANT MaxLines

(* What may follow a prefix, with the constructs then open, innermost first
   (an if that has met its else is a "tail").                              *)
Openings == {<<Loop, "loop">>, <<If("c"), "if">>}

Follow(open) ==
  {<<Rtl("w"), open>>} \cup {<<o[1], <<o[2]>> \o open>> : o \in Openings}
  \cup (IF open = <<>> THEN {} ELSE
        CASE Head(open) = "loop" -> {<<Until("d"), Tail(open)>>}
          [] Head(open) = "if"   -> {<<Fi, Tail(open)>>, <<Elif("e"), open>>,
                                     <<Else, <<"tail">> \o Tail(open)>>}
          [] OTHER               -> {<<Fi, Tail(open)>>})

(* Prefixes of k lines that MaxLines lines can still complete. *)
Prefixes[k \in 0..MaxLines] ==
  IF k = 0 THEN {<<<<>>, <<>>>>}
  ELSE UNION {{<<Append(x[1], f[1]), f[2]>> :
                 f \in {g \in Follow(x[2]) : Len(g[2]) <= MaxLines - k}} : x \in Prefixes[k - 1]}

Bodies == {x[1] : x \in Prefixes[MaxLines]}

(* Around the body: an alias slot before its procedure, and a caller. *)
Dress(body) == <<Label("f")>> \o body \o <<Call("g"), ReturnLine, GoesHere("g"),
                 Label("g"), PrintOut, ReturnLine>>

FabListings   == {Listing}
SmallListings == {Dress(body) : body \in Bodies}
AllListings   == FabListings \cup SmallListings
=============================================================================
