------------------------------ MODULE MCCanRelay -----------------------------
(* An instance of CanRelay: two boards, the first of which gets two        *)
(* requests.                                                               *)
EXTENDS CanRelay

CONSTANTS b1, b2

MCBoards == {b1, b2}
MCDest == <<b1, b2, b1>>
==============================================================================
