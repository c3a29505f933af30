------------------------------- MODULE MCHcsFile -------------------------------
(***************************************************************************)
(* One task submits a file of two chunks; another resolves it, and also a  *)
(* topic with an admin key whose owner changes and fills it at will.       *)
(***************************************************************************)
EXTENDS HcsFile, TLC

CONSTANTS s1, a1, f, g, x, y

MCTopic == {s1, a1}
MCFile == {f, g}
MCFileOf == s1 :> f

(* The first chunk of f alone is the file g.                               *)
MCContent == {x, y}
MCCutOf == f :> <<x, y>> @@ g :> <<x>>
MCDecoded == <<x, y>> :> f @@ <<x>> :> g
================================================================================
