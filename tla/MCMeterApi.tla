---------------------------- MODULE MCMeterApi ----------------------------
(* The tasks of the meter session are interchangeable, and so are clients. *)
EXTENDS MeterApi, TLC

MCSymmetry == Permutations(Tasks) \cup Permutations(Conns)
=============================================================================
