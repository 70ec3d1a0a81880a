----------------------------- MODULE MCService -----------------------------
(* Bodies of up to MaxLen tokens over an alphabet with an element of every   *)
(* kind: allowed (a, b), void (br), unknown (x), removed (form), removed and *)
(* raw (script), raw (title), removed and void (meta); and of every text.    *)
EXTENDS Service, TLC

CONSTANTS s1, s2, s3, MaxLen

MCAttrs == [tag \in Allowed |-> IF tag = "a" THEN {"href"} ELSE {}]
MCOrder == <<s1, s2, s3>>
Tokens ==
  {Text, Lt, TagTail("b"), Start("a", {"href", "other"}, FALSE), Start("b", {"other"}, FALSE),
   Start("b", {}, TRUE), End("b"), End("a"), Start("br", {}, FALSE),
   Start("x", {}, FALSE), End("x"), Start("form", {}, FALSE), End("form"),
   Start("script", {}, FALSE), End("script"), Start("title", {}, FALSE),
   End("title"), Start("meta", {}, FALSE)}
MCPlain == <<Text>>
MCBodies == {body \in UNION {[1..n -> Tokens] : n \in 1..MaxLen} : ~Seam(body)}
============================================================================
