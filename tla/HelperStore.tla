---------------------------- MODULE HelperStore ----------------------------
(***************************************************************************)
(* The durable record HelperStore (store.py) keeps for one meter, and the  *)
(* compare-and-set operations the transactions and the calibration engine  *)
(* perform on it.  Every operation of the class loads the file, decides and*)
(* saves under one lock, so it is atomic: here it is a guard (Can...) and  *)
(* the record it writes.  Whether a save reaches the disk, and whether the *)
(* caller learns of it, is the business of the module that calls it.       *)
(*                                                                         *)
(* A configuration file is known by its content: the content a transaction *)
(* proposes is named by the transaction, OtherYaml are the contents no     *)
(* transaction wrote.  The SHA-256 of a content is the content.            *)
(***************************************************************************)
CONSTANTS
  Txns,        \* configuration transactions (32-hex transaction ids)
  Vids,        \* verification ids of finalized calibrations
  OtherYaml,   \* YAML contents that no transaction proposes
  None         \* Python's None: an absent key, record or owner

ASSUME NoneIsFresh == None \notin Txns \cup Vids \cup OtherYaml
ASSUME YamlIsFresh == Txns \cap OtherYaml = {}

Contents == Txns \cup OtherYaml

\* VerifiedCalibrationRecord: avail, owner and inst are the source_handoff_*
\* fields, yaml is source_authority = CONFIGURATION, offsets is
\* has_offset_calibration.
Calibrations ==
  [vid : Vids, src : Contents \cup {None}, offsets : BOOLEAN,
   owner : Txns \cup {None}, avail : BOOLEAN, inst : BOOLEAN, yaml : BOOLEAN]

\* One entry of data["meters"]: the hash of the verified YAML, the transaction
\* whose meter_configuration is stored (always for that hash), the verified
\* calibration and the interrupted-session marker (no key / null / set).
Meters ==
  [hash : Contents \cup {None}, conf : Contents \cup {None},
   calib : Calibrations \cup {None}, mark : {"no", "null", "set"}]

\* data["install_recovery"][mac], the checkpoint of an install past its
\* second confirmation.
Checkpoints ==
  [txn : Txns, kind : {"install", "calib"}, full : BOOLEAN,
   vid : Vids \cup {None}, src : Contents, prop : Contents,
   fp : Meters \cup {None}, uploaded : BOOLEAN]

ASSUME NoneIsNoRecord == None \notin Calibrations \cup Meters \cup Checkpoints

Stores == [meter : Meters \cup {None}, ck : Checkpoints \cup {None}]

NoMeter == [hash |-> None, conf |-> None, calib |-> None, mark |-> "no"]

\* What a reader of the loaded mapping sees; setdefault(mac, {}) when written.
Entry(m) == IF m = None THEN NoMeter ELSE m

\* The rules __post_init__ enforces whenever a record is read back.
Loadable(c) ==
  /\ c.avail => c.src # None /\ ~c.inst
  /\ c.inst => c.owner # None
  /\ c.yaml => c.inst

Identifies(m, v) == Entry(m).calib # None /\ m.calib.vid = v

\* Variant: a claim that does not ask whether the gains are still available.
CanClaimTwice(m, v) == Identifies(m, v) /\ ~m.calib.offsets

CanClaim(m, v) == Identifies(m, v) /\ m.calib.avail /\ ~m.calib.offsets

Claim(m, t) ==
  [m EXCEPT !.calib.avail = FALSE, !.calib.owner = t, !.calib.inst = FALSE]

\* async_revalidate_verified_calibration
IsReserved(m, v, t) ==
  /\ Identifies(m, v)
  /\ ~m.calib.avail /\ ~m.calib.offsets /\ m.calib.owner = t

CanRelease(m, v, t) ==
  Identifies(m, v) /\ ~m.calib.avail /\ m.calib.owner = t

\* Variant: a release that does not ask who claimed.
ReleaseAnyOwner(m, v, t) ==
  IF Identifies(m, v)
  THEN [m EXCEPT !.calib.avail = ~m.calib.offsets, !.calib.owner = None,
                 !.calib.inst = FALSE]
  ELSE m

\* A release that does not match leaves the record alone and returns False.
Release(m, v, t) ==
  IF CanRelease(m, v, t)
  THEN [m EXCEPT !.calib.avail = ~m.calib.offsets, !.calib.owner = None,
                 !.calib.inst = FALSE]
  ELSE m

Installed(m) == Entry(m).calib # None /\ m.calib.inst

\* Variant: a revocation that keeps the receipt.
KeepReceipt(m) == m

Revoke(m) == IF Installed(m) THEN [m EXCEPT !.calib = None] ELSE m

CanComplete(m, v, t) == IsReserved(m, v, t) /\ m.calib.inst

Complete(m) == [m EXCEPT !.calib.yaml = TRUE]

\* async_finalize_verified_calibration with the record
\* CalibrationEngine builds for a session on content src.
Finalize(m, v, src, offsets) ==
  [Entry(m) EXCEPT
     !.mark = "null",
     !.calib = [vid |-> v, src |-> src, offsets |-> offsets, owner |-> None,
                avail |-> src # None /\ ~offsets, inst |-> FALSE,
                yaml |-> FALSE]]

SaveMarker(m, marked) ==
  [Entry(m) EXCEPT !.mark = IF marked THEN "set" ELSE "null"]

\* A meter entry that holds nothing but the interrupted-session marker.
OnlyMarker(m) == Entry(m).hash = None /\ Entry(m).calib = None

\* async_save_verified_meter_configuration with an expected fingerprint fp
\* (the private exact-record CAS every reviewed install carries).
CanSaveConfiguration(m, t, prop, fp) ==
  \/ Entry(m).hash = prop /\ m.conf = t
  \/ m = fp /\ (OnlyMarker(m) \/ m.hash # None)

SaveConfiguration(m, t, prop) ==
  [Entry(m) EXCEPT !.hash = prop, !.conf = t,
                   !.calib = IF Installed(m) THEN None ELSE @]

\* The two ..._and_mark_verified_calibration_installed operations: conf is t
\* for a full meter configuration and None for legacy CT selections.
CanSaveAndMark(m, v, t, src, prop, conf) ==
  /\ IsReserved(m, v, t)
  /\ \/ m.hash = prop /\ m.calib.inst /\ m.conf = conf
     \/ m.hash = src /\ m.hash # prop

SaveAndMark(m, prop, conf) ==
  [m EXCEPT !.hash = prop, !.conf = conf, !.calib.inst = TRUE]

\* async_save_install_recovery replaces whatever checkpoint is there; it
\* refuses only to remove one that names another transaction.
CanClear(ck, t) == ck # None => ck.txn = t
=============================================================================
