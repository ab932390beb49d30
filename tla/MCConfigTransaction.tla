------------------------ MODULE MCConfigTransaction ------------------------
(***************************************************************************)
(* Small instances of ConfigTransaction for TLC.                           *)
(***************************************************************************)
EXTENDS ConfigTransaction, TLC

CONSTANTS Base, Foreign, v1

\* The helper has never stored anything about the meter.
Fresh == {None}

\* A configuration is adopted and stored; nothing is calibrated.
AdoptedMeter == [hash |-> Base, conf |-> Base, calib |-> None, mark |-> "null"]
Adopted == {AdoptedMeter}

\* Verified gains of the adopted configuration wait to be handed over.
Gains == [vid |-> v1, src |-> Base, offsets |-> FALSE, owner |-> None,
          avail |-> TRUE, inst |-> FALSE, yaml |-> FALSE]
CalibratedMeter == [AdoptedMeter EXCEPT !.calib = Gains]
Calibrated == {CalibratedMeter}

Reviewed == Adopted \cup Calibrated
Everywhere == Fresh \cup Adopted \cup Calibrated

NoVids == {}
TxnSymmetry == Permutations(Txns)
=============================================================================
