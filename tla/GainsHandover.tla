--------------------------- MODULE GainsHandover ---------------------------
(***************************************************************************)
(* What the durable record promises about verified calibration gains, with *)
(* no transactions, locks or files: gains that a calibration verified are  *)
(* handed over to the configuration at most once.  One transaction claims  *)
(* them, and either gives them back before its firmware is on the meter or *)
(* installs them; installed gains are never offered again: they become the *)
(* configuration's own, or a later install or calibration replaces them.   *)
(***************************************************************************)
CONSTANTS Txns, Vids, None

\* "absent": no verified calibration.  "flash": it stays in the meter's flash
\* (no source to hand it over to, or offsets).
Stages == {"absent", "flash", "free", "claimed", "installed", "yaml"}

VARIABLE gains

NoGains == [vid |-> None, stage |-> "absent", owner |-> None]

TypeOK ==
  gains \in [vid : Vids \cup {None}, stage : Stages, owner : Txns \cup {None}]

Move(from, to) == gains.stage \in from /\ gains' = [gains EXCEPT !.stage = to]

\* A calibration verified new gains; what was there before is obsolete.
Finalize ==
  \E v \in Vids, stage \in {"flash", "free"} :
    v # gains.vid /\ gains' = [vid |-> v, stage |-> stage, owner |-> None]

Claim(t) ==
  gains.stage = "free"
    /\ gains' = [gains EXCEPT !.stage = "claimed", !.owner = t]

GiveBack ==
  gains.stage = "claimed"
    /\ gains' = [gains EXCEPT !.stage = "free", !.owner = None]

Install == Move({"claimed"}, "installed")

\* The flash copy was cleared: the YAML is the only authority.
Complete == Move({"installed"}, "yaml")

\* Another firmware or configuration replaced the installed gains.
Revoke == gains.stage \in {"installed", "yaml"} /\ gains' = NoGains

Next ==
  \/ Finalize \/ \E t \in Txns : Claim(t)
  \/ GiveBack \/ Install \/ Complete \/ Revoke

\* The helper may start with gains verified before.
Init == TypeOK /\ gains.stage \in {"absent", "flash", "free"}

Spec == Init /\ [][Next]_gains
=============================================================================
