------------------------------ MODULE MCBridge ------------------------------
(* Small instances of the bridge.  Texts are of at most two bytes once     *)
(* shortened; "e'" and "e''" are the two bytes of one rune.                *)
EXTENDS Bridge, TLC

CONSTANTS c1, c2, c3

MCBytes == {"a", "b", "e'", "e''"}
MCRuneStarts == {"a", "b", "e'"}

(* A short text, a long one cut before its rune, and one too large. *)
MCTextOf == (c1 :> <<"a">>) @@ (c2 :> <<"b", "e'", "e''">>) @@ (c3 :> <<"a", "b">>)
MCOversize == {<<"a", "b">>}
=============================================================================
