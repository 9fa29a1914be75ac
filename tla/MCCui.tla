------------------------------- MODULE MCCui -------------------------------
(***************************************************************************)
(* Two digits, one more character and fields of one to three characters.   *)
(* The first filter wants digits, the second a point after a digit.        *)
(***************************************************************************)
EXTENDS Cui

MCAnswers == {<<>>, <<"a">>, <<"b", "a">>, <<"a", "b", "c">>}
MCDigits == <<"0", "1">>
MCMatches(f, text) ==
    IF f = 0 THEN Len(text) > 0 /\ \A i \in DOMAIN text : text[i] \in DigitChars
    ELSE Len(text) = 2 /\ text[1] \in DigitChars /\ text[2] = "."
=============================================================================
