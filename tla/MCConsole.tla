----------------------------- MODULE MCConsole -----------------------------
(* Commands of one and two letters on a line with room for three.          *)
EXTENDS Console

CONSTANTS r, R, c, space

MCChars == {r, R, c, space}
MCFold == [x \in MCChars |-> IF x = R THEN r ELSE x]
MCReset == <<r>>
MCConfigReset == <<r, c>>
=============================================================================
