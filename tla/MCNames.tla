------------------------------- MODULE MCNames -------------------------------
(* Names of up to six characters, two of them left for a plugin of up to seven:
   a letter to be lowered, a character to be dropped and dashes.  Ids are
   two digits with a dash between them. *)
EXTENDS Names

MCPlugins == UNION {[1..n -> {"A", "_", "-"}] : n \in 1..7}
MCIds == {<<"a", "-", "b">>, <<"b", "-", "a">>}
MCLower == [c \in {"a", "b", "A", "_", "-"} |-> IF c = "A" THEN "a" ELSE c]
MCLetters == {"a", "b"}
MCX == <<"b">>
MCUnknown == <<"b">>
MCHead == <<"a", "-">>
MCJobHeads == [seeder |-> <<"a", "-">>, smoke |-> <<"b", "-">>]
=============================================================================
