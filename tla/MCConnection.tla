--------------------------- MODULE MCConnection ---------------------------
(***************************************************************************)
(* Small instances of Connection.  Calls and sessions are model values; a   *)
(* scenario says what each call is and which session it is about.           *)
(***************************************************************************)
EXTENDS Connection, TLC

CONSTANTS c1, c2, c3, s1

ThreeCalls == {c1, c2, c3}
TwoCalls == {c1, c2}
TheSession == {s1}

(* Two turns and a load of one session, in any order and at once.          *)
TurnsAndLoad == c1 :> "prompt" @@ c2 :> "prompt" @@ c3 :> "load"
OneSession == [c \in ThreeCalls |-> s1]

(* A turn, and a request whose future may be dropped.                      *)
TurnAndRequest == c1 :> "prompt" @@ c2 :> "request"
(* Two turns, the second begun once the first was given up on or at once.  *)
TwoTurns == [c \in TwoCalls |-> "prompt"]
PairTarget == [c \in TwoCalls |-> s1]
===========================================================================
