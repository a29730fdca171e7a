------------------------------ MODULE MCKnobs ------------------------------
(***************************************************************************)
(* A model whose choice withdraws the effort knob, and a mode; then one or  *)
(* two calls of set_config.                                                 *)
(***************************************************************************)
EXTENDS Knobs, TLC

CONSTANTS model, effort, mode, first, second

MCKnobIds == {model, effort, mode}
MCWanted == <<model, effort, mode>>
MCWithdraws == model :> {effort} @@ effort :> {} @@ mode :> {}
OneSetter == {first}
OneSets == first :> effort
TwoSetters == {first, second}
TwoSets == first :> mode @@ second :> effort
NoWants == <<>>
===========================================================================
