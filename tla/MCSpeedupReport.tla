--------------------------- MODULE MCSpeedupReport ---------------------------
(* Instances of SpeedupReport for TLC. *)
EXTENDS SpeedupReport, TLC

Ok(us)        == [status |-> "ok", us |-> us]
Incorrect(us) == [status |-> "incorrect", us |-> us]
Failed        == [status |-> "failed"]

(***************************************************************************)
(* flydsl level with the baseline, 4% behind it (within the gate's 5%), a  *)
(* third behind, far behind, or not correct; the baseline as it is, or     *)
(* only an eager reference 11 times as slow, or none.  The means of one or *)
(* two shapes fall between every two neighbouring thresholds, 0.6 and 0.7  *)
(* and 0.95 and 0.97 too, where the two programs differ.                   *)
(***************************************************************************)
FlyRows  == {Ok(0), Ok(4), Ok(40), Ok(60), Incorrect(4)}
BaseRows == {Ok(0), Ok(240), Failed}

Symmetric == Permutations(ShapeId)
=============================================================================
