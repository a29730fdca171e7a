---------------------------- MODULE MCLaunching ----------------------------
(***************************************************************************)
(* Three directories: the prefix, one this process was given, one only the  *)
(* shell knows.  Cursor lives in the latter two; an `agent` in the prefix    *)
(* is somebody else's.                                                     *)
(***************************************************************************)
EXTENDS Launching

MCDirs == {"prefix", "given", "added"}
MCGiven == <<"given">>
(* No answer, and a profile that greets before it prints its PATH.         *)
MCAnswers == {<<>>, << <<"word">>, <<"added", "word", "given">>, <<>> >>}
MCManagers == <<"given">>
MCSearch == <<"added", "given">>
Look(owned, override, npx, given) ==
  [prefix |-> owned, override |-> override, allow_npx |-> npx, search |-> given]
MCLooks == {Look(TRUE, "none", FALSE, FALSE), Look(FALSE, "none", TRUE, FALSE),
            Look(TRUE, "none", TRUE, TRUE),
            Look(FALSE, "path", FALSE, FALSE), Look(FALSE, "name", TRUE, FALSE)}
===========================================================================
