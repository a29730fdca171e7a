---------------------------- MODULE MCDeadlines ----------------------------
(***************************************************************************)
(* A turn, a session/new and a handshake, while the agent is free to speak  *)
(* for two sessions; and two turns of one session.                          *)
(***************************************************************************)
EXTENDS Deadlines, TLC

CONSTANTS turn1, turn2, open, hello, s1, s2

MCCalls == {turn1, open, hello}
MCSessions == {s1, s2}
MCWatching == turn1 :> s1 @@ open :> Everything @@ hello :> Everything
TwoTurns == {turn1, turn2}
TwoTurnsWatching == turn1 :> s1 @@ turn2 :> s1
===========================================================================
