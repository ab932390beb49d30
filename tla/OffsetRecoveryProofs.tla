------------------------- MODULE OffsetRecoveryProofs -------------------------
(***************************************************************************)
(* Proofs about OffsetRecovery, for any board, any tables and any bounds:  *)
(* the table that was in flash when the cycle began is kept on disk; a     *)
(* chip is run once under a preparation; the installed receipt is true; a  *)
(* finished operation is in the archive before it gives way; and the final *)
(* YAML changes no table that a chip calculates with.                      *)
(* The first four follow from IInv, the last from IInv and KInv.           *)
(***************************************************************************)
EXTENDS OffsetRecovery, FiniteSetTheorems, SequenceTheorems, WellFoundedInduction, TLAPS

Held == {"written", "ota", "mark", "check"}

\* The observations are in order of their arrival.
IsSeq(s) == s \in Seq(ToSet(s))

\* What the proof needs to know of the shape of a record.
Records(r) ==
  [orig : {r.orig}, obs : {r.obs}, prep : {r.prep}, cancelled : BOOLEAN,
   attempted : SUBSET Chips, results : Tables, final : Finalization \cup {None},
   finst : BOOLEAN, fcancel : BOOLEAN, selected : BOOLEAN]

\* A record that is on disk, or may be put back there, knows of every run
\* of its preparation, and its receipt is true.
Stands(r) ==
  /\ r \in Records(r) /\ IsSeq(r.obs)
  /\ r.prep # None =>
       /\ r.prep.id \in 1..ops /\ r.prep.gen \in 1..meter.gen /\ r.prep.stage \in Stages
       /\ \A c \in Chips : <<r.prep.id, c>> \in ran => c \in r.attempted
  /\ r.finst => r.final.id \in meter.had
  /\ r.selected => r.final # None

\* A saved table v of k is among the observations of the record.
Keeps(r, k, v) == \E o \in ToSet(r.obs) : o.key = k /\ o.kind = "saved" /\ o.val = v

-----------------------------------------------------------------------------
(* The inductive invariant.                                                *)

TaskType ==
  [op : {"none", "prepare", "resume", "finalize", "reconcile", "cycle"},
   pc : {"idle", "backup", "save", "attempt", "clear", "run", "capture", "review",
         "select", "confirm", "archive", "rotate", "verify"},
   src : {task.src}, stage : Stages, left : SUBSET Chips, chip : Chips \cup {None},
   old : {task.old}, new : {task.new}]

TxType ==
  [pc : {"none", "preview", "recover"} \cup Held, final : Finalization \cup {None},
   guard : BOOLEAN, recovered : BOOLEAN]

Shape ==
  /\ yaml \in Yamls /\ task \in TaskType /\ tx \in TxType
  /\ meter = [flash |-> meter.flash, fw |-> meter.fw, gen |-> meter.gen, had |-> meter.had]
  /\ meter.flash = [k \in Keys |-> meter.flash[k]]
  /\ meter.gen \in Nat \ {0} /\ ops \in 0..MaxOps
  /\ disk = [record |-> disk.record, archive |-> disk.archive]
  /\ ran \subseteq (1..ops) \X Chips

\* The lease keeps operations of the workflow and the transaction apart.
OneUser == task.op # "none" => tx.pc \notin Held

\* The transaction has what it installs; once it asks for the receipt, the
\* meter has run that.
HasRun ==
  /\ tx.pc # "none" => tx.final # None
  /\ tx.pc = "mark" => tx.final.id \in meter.had

\* On this connection, what a run would overwrite has been saved before.
Saved(c) ==
  LET k == <<c, Record.prep.stage>> IN
  meter.gen = Record.prep.gen /\ meter.fw.tables[k] = None /\ base[k] # None =>
    Keeps(Record, k, base[k])

Resuming ==
  task.op = "resume" =>
    /\ Record # None /\ Record.prep # None
    /\ task.pc = "backup" => \A c \in Left(Record) \ task.left : Saved(c)
    /\ task.pc \in {"attempt", "clear", "run", "capture"} =>
         \A c \in task.left : Saved(c)
    /\ task.pc \in {"clear", "run", "capture"} =>
         task.chip \in task.left /\ task.chip \in Record.attempted
    /\ task.pc = "capture" => task.new \in Values
    /\ task.pc \in {"clear", "run"} => <<Record.prep.id, task.chip>> \notin ran

\* The other operations hold what they will save, of a record that is there.
Reviewing ==
  /\ task.op \in {"prepare", "finalize"} /\ task.pc = "backup" => IsSeq(task.new)
  /\ task.op = "prepare" => task.pc \in {"backup", "save"}
  /\ task.op = "finalize" \/ (task.op = "prepare" /\ task.pc = "save") => Record # None
  /\ task.op = "finalize" => task.src \in Yamls
  /\ task.op = "reconcile" => Record # None /\ Record.final # None

\* A new cycle archives the record, replaces it, and may put it back.
Cycling ==
  task.op = "cycle" =>
    /\ Stands(task.old) /\ task.old.final # None
    /\ \E src \in {task.new.orig}, s \in {task.new.obs} :
         task.new = NewRecord(src, s) /\ IsSeq(s)
    /\ task.pc \in {"archive", "rotate"} => Record = task.old
    /\ task.pc = "rotate" => disk.archive = task.old
    /\ task.pc = "verify" => meter.flash = base

IInv ==
  /\ Shape /\ OneUser /\ HasRun
  /\ Record # None => Stands(Record)
  /\ Resuming /\ Reviewing /\ Cycling /\ OriginalIsKept

-----------------------------------------------------------------------------
(* Sequences of observations.                                              *)

LEMMA OwnSeq ==
  ASSUME NEW S, NEW s \in Seq(S)
  PROVE  IsSeq(s)
<1>1. s \in [1 .. Len(s) -> S] /\ Len(s) \in Nat
  BY LenProperties
<1>2. s \in [1 .. Len(s) -> ToSet(s)]
  BY <1>1 DEF ToSet
<1> QED BY <1>1, <1>2 DEF IsSeq

LEMMA ConcatIsSeq ==
  ASSUME NEW s, NEW t, IsSeq(s), IsSeq(t)
  PROVE  /\ IsSeq(s \o t)
         /\ ToSet(s) \subseteq ToSet(s \o t) /\ ToSet(t) \subseteq ToSet(s \o t)
<1> DEFINE S == ToSet(s) \cup ToSet(t)
<1>1. s \in Seq(S) /\ t \in Seq(S)
  BY SeqMonotonic DEF IsSeq
<1>2. /\ s \o t \in Seq(S) /\ Len(s \o t) = Len(s) + Len(t)
      /\ \A i \in 1 .. Len(s) + Len(t) :
           (s \o t)[i] = IF i <= Len(s) THEN s[i] ELSE t[i - Len(s)]
  <2> HIDE DEF S
  <2> QED BY <1>1, ConcatProperties
<1>3. /\ Len(s) \in Nat /\ DOMAIN s = 1 .. Len(s)
      /\ Len(t) \in Nat /\ DOMAIN t = 1 .. Len(t)
      /\ DOMAIN (s \o t) = 1 .. Len(s \o t)
  BY <1>1, <1>2, LenProperties
<1>4. \A i \in 1 .. Len(s) : (s \o t)[i] = s[i]
  BY <1>2, <1>3
<1>5. \A i \in 1 .. Len(t) : (s \o t)[i + Len(s)] = t[i]
  BY <1>2, <1>3
<1>6. ToSet(s) \subseteq ToSet(s \o t)
  BY <1>2, <1>3, <1>4 DEF ToSet
<1>7. ToSet(t) \subseteq ToSet(s \o t)
  <2>1. \A i \in 1 .. Len(t) : i + Len(s) \in DOMAIN (s \o t)
    BY <1>2, <1>3
  <2> QED BY <2>1, <1>3, <1>5 DEF ToSet
<1> QED BY <1>2, <1>6, <1>7, OwnSeq

LEMMA SingleIsSeq ==
  ASSUME NEW o
  PROVE  IsSeq(<<o>>) /\ o \in ToSet(<<o>>)
<1>1. DOMAIN <<o>> = {1} /\ <<o>>[1] = o
  OBVIOUS
<1>2. ToSet(<<o>>) = {o}
  BY <1>1 DEF ToSet
<1> QED BY <1>2 DEF IsSeq

LEMMA SetToSeqIsSeq ==
  ASSUME NEW S, IsFiniteSet(S)
  PROVE  IsSeq(SetToSeq(S))
<1> DEFINE n == Cardinality(S)
           f == SetToSeq(S)
<1>1. n \in Nat /\ ExistsBijection(1..n, S)
  BY FS_CardinalityType
<1>2. \E g \in [1..n -> S] : IsInjective(g)
  BY <1>1 DEF ExistsBijection, Bijection, Injection, IsInjective
<1>3. f \in [1..n -> S]
  BY <1>2 DEF SetToSeq
<1>4. f \in [1..n -> ToSet(f)]
  BY <1>3 DEF ToSet
<1> QED BY <1>1, <1>4 DEF IsSeq

-----------------------------------------------------------------------------
(* What an update does to a record.                                        *)

LEMMA NewRecordStands ==
  ASSUME NEW src, NEW s, IsSeq(s)
  PROVE  /\ Stands(NewRecord(src, s))
         /\ NewRecord(src, s).obs = s /\ NewRecord(src, s).prep = None
         /\ NewRecord(src, s).final = None
         /\ ~NewRecord(src, s).finst /\ ~NewRecord(src, s).selected
BY DEF NewRecord, Stands, Records, NoTables, Tables

LEMMA ObservedStands ==
  ASSUME NEW r, Stands(r), NEW s, IsSeq(s), NEW q, q = [r EXCEPT !.obs = @ \o s]
  PROVE  /\ Stands(q) /\ q.obs = r.obs \o s /\ q.prep = r.prep
         /\ q.attempted = r.attempted /\ q.results = r.results
         /\ q.final = r.final /\ q.selected = r.selected
<1>1. /\ q.obs = r.obs \o s /\ q.prep = r.prep /\ q.attempted = r.attempted
      /\ q.results = r.results /\ q.final = r.final /\ q.selected = r.selected
      /\ q.finst = r.finst /\ q \in Records(q)
  BY DEF Stands, Records
<1>2. IsSeq(q.obs)
  BY <1>1, ConcatIsSeq DEF Stands
<1> QED BY <1>1, <1>2 DEF Stands

\* Its preparation is the next one; nothing was run under it.
LEMMA PreparedStands ==
  ASSUME NEW r, Stands(r), NEW p, NEW q, UNCHANGED <<meter, ran>>,
         p.id \in 1..ops', p.gen \in 1..meter.gen, p.stage \in Stages,
         \A c \in Chips : <<p.id, c>> \notin ran,
         q = [r EXCEPT !.prep = p, !.cancelled = FALSE, !.attempted = {}]
  PROVE  Stands(q)' /\ q.obs = r.obs /\ q.final = r.final /\ q.selected = r.selected
<1>1. /\ q.obs = r.obs /\ q.prep = p /\ q.attempted = {}
      /\ q.results = r.results /\ q.final = r.final /\ q.selected = r.selected
      /\ q.finst = r.finst /\ q \in Records(q)
  BY DEF Stands, Records
<1> QED BY <1>1 DEF Stands

LEMMA AttemptedStands ==
  ASSUME NEW r, Stands(r), NEW c \in Chips, NEW q, q = Attempted(r, c)
  PROVE  /\ Stands(q) /\ q.obs = r.obs /\ q.prep = r.prep /\ q.results = r.results
         /\ q.attempted = r.attempted \cup {c}
         /\ q.final = r.final /\ q.selected = r.selected
<1>1. /\ q.obs = r.obs /\ q.prep = r.prep /\ q.attempted = r.attempted \cup {c}
      /\ q.results = r.results /\ q.final = r.final /\ q.selected = r.selected
      /\ q.finst = r.finst /\ q \in Records(q)
  BY DEF Stands, Records, Attempted
<1> QED BY <1>1 DEF Stands

LEMMA CapturedStands ==
  ASSUME NEW r, Stands(r), NEW k \in Keys, NEW v \in Values, NEW q,
         q = [r EXCEPT !.results[k] = v]
  PROVE  /\ Stands(q) /\ q.obs = r.obs /\ q.prep = r.prep
         /\ q.attempted = r.attempted
         /\ q.final = r.final /\ q.selected = r.selected
<1>1. /\ q.obs = r.obs /\ q.prep = r.prep /\ q.attempted = r.attempted
      /\ q.final = r.final /\ q.selected = r.selected
      /\ q.finst = r.finst /\ q \in Records(q)
  <2>1. r.results \in Tables
    BY DEF Stands, Records
  <2>2. [r.results EXCEPT ![k] = v] \in Tables
    BY <2>1 DEF Tables
  <2> QED BY <2>2 DEF Stands, Records
<1> QED BY <1>1 DEF Stands

LEMMA ReviewedStands ==
  ASSUME NEW r, Stands(r), NEW f \in Finalization, NEW q,
         q = [r EXCEPT !.final = f, !.finst = FALSE, !.fcancel = FALSE, !.selected = FALSE]
  PROVE  Stands(q) /\ q.obs = r.obs /\ q.final = f
<1>1. /\ q.obs = r.obs /\ q.prep = r.prep /\ q.attempted = r.attempted
      /\ q.final = f /\ q.selected = FALSE /\ q.finst = FALSE /\ q \in Records(q)
  BY DEF Stands, Records
<1> QED BY <1>1 DEF Stands

LEMMA InstalledStands ==
  ASSUME NEW r, Stands(r), r.final.id \in meter.had, NEW q, q = [r EXCEPT !.finst = TRUE]
  PROVE  Stands(q) /\ q.obs = r.obs /\ q.final = r.final
<1>1. /\ q.obs = r.obs /\ q.prep = r.prep /\ q.attempted = r.attempted
      /\ q.final = r.final /\ q.selected = r.selected /\ q \in Records(q)
  BY DEF Stands, Records
<1> QED BY <1>1 DEF Stands

LEMMA SelectedStands ==
  ASSUME NEW r, Stands(r), r.final # None, NEW q, q = [r EXCEPT !.selected = TRUE]
  PROVE  Stands(q) /\ q.obs = r.obs /\ q.final = r.final
<1>1. /\ q.obs = r.obs /\ q.prep = r.prep /\ q.attempted = r.attempted
      /\ q.final = r.final /\ q.finst = r.finst /\ q \in Records(q)
  BY DEF Stands, Records
<1> QED BY <1>1 DEF Stands

LEMMA CancelledStands ==
  ASSUME NEW r, Stands(r), NEW q, q = Cancelled(r)
  PROVE  Stands(q) /\ q.obs = r.obs /\ q.final = r.final
<1>1. /\ q.obs = r.obs /\ q.prep = r.prep /\ q.attempted = r.attempted
      /\ q.final = r.final /\ q.finst = r.finst /\ (q.selected => r.selected)
      /\ q \in Records(q)
  BY DEF Stands, Records, Cancelled
<1> QED BY <1>1 DEF Stands

\* A backup only adds observations; it drops a preparation that was never
\* acted on, and no other.
LEMMA BackupStands ==
  ASSUME NEW r, r = None \/ Stands(r), NEW src, NEW s, IsSeq(s),
         NEW b, b = Backup(r, src, s), b # None
  PROVE  /\ Stands(b) /\ ToSet(s) \subseteq ToSet(b.obs)
         /\ r # None => /\ ToSet(r.obs) \subseteq ToSet(b.obs)
                        /\ r.selected => b.final = r.final
                        /\ r.prep # None /\ src = r.prep.src =>
                             /\ b.prep = r.prep /\ b.attempted = r.attempted
                             /\ b.results = r.results
<1>1. CASE r = None
  BY <1>1, NewRecordStands DEF Backup
<1>2. CASE /\ r # None
           /\ src \in {r.orig} \cup (IF r.prep = None THEN {} ELSE {r.prep.src})
  <2>1. b = [r EXCEPT !.obs = @ \o s]
    BY <1>2 DEF Backup
  <2>2. ToSet(s) \subseteq ToSet(r.obs \o s) /\ ToSet(r.obs) \subseteq ToSet(r.obs \o s)
    BY <1>2, ConcatIsSeq DEF Stands
  <2> QED BY <1>2, <2>1, <2>2, ObservedStands
<1>3. CASE /\ r # None
           /\ src \notin {r.orig} \cup (IF r.prep = None THEN {} ELSE {r.prep.src})
  <2>1. r.final = None /\ b = NewRecord(src, r.obs \o s)
    BY <1>3 DEF Backup
  <2>2. /\ ToSet(s) \subseteq ToSet(r.obs \o s) /\ ToSet(r.obs) \subseteq ToSet(r.obs \o s)
        /\ IsSeq(r.obs \o s)
    BY <1>3, ConcatIsSeq DEF Stands
  <2>3. ~r.selected
    BY <1>3, <2>1 DEF Stands
  <2> QED BY <1>3, <2>1, <2>2, <2>3, NewRecordStands
<1> QED BY <1>1, <1>2, <1>3

-----------------------------------------------------------------------------
(* Steps that keep the record, or put another in its place.                *)

LEMMA StandsStays ==
  ASSUME NEW r, Stands(r), Shape, Shape', ops' >= ops, meter'.gen >= meter.gen,
         meter.had \subseteq meter'.had, UNCHANGED ran
  PROVE  Stands(r)'
<1>1. r.prep # None => r.prep.id \in 1..ops' /\ r.prep.gen \in 1..meter'.gen
  BY DEF Stands, Shape
<1> QED BY <1>1 DEF Stands

LEMMA StandsSame ==
  ASSUME NEW r, Stands(r), UNCHANGED <<meter, ops, ran>>
  PROVE  Stands(r)'
BY DEF Stands

\* The record on disk stays, or gives way to one with all its observations.
Updates ==
  /\ disk' = [record |-> disk'.record, archive |-> disk'.archive]
  /\ Record' # None => Stands(Record)'
  /\ Record # None => Record' # None /\ ToSet(Record.obs) \subseteq ToSet(Record'.obs)

LEMMA KeepsRecord ==
  ASSUME IInv, Shape', UNCHANGED <<disk, ran>>, ops' >= ops, meter'.gen >= meter.gen,
         meter.had \subseteq meter'.had
  PROVE  Updates /\ Record' = Record
<1>1. PICK r \in {Record} : TRUE
  OBVIOUS
<1>2. r = Record /\ r = Record'
  BY <1>1 DEF Record
<1>3. r # None => Stands(r)
  BY <1>2 DEF IInv
<1>4. r # None => Stands(r)'
  BY <1>3, StandsStays DEF IInv
<1>5. Record' # None => Stands(Record)'
  BY <1>2, <1>4
<1> QED BY <1>2, <1>5 DEF Updates, IInv, Shape

LEMMA SameRecord ==
  ASSUME IInv, UNCHANGED <<disk, ran, ops, meter>>
  PROVE  Updates /\ Record' = Record
<1>1. PICK r \in {Record} : TRUE
  OBVIOUS
<1>2. r = Record /\ r = Record'
  BY <1>1 DEF Record
<1>3. r # None => Stands(r)
  BY <1>2 DEF IInv
<1>4. r # None => Stands(r)'
  BY <1>3, StandsSame DEF IInv
<1>5. Record' # None => Stands(Record)'
  BY <1>2, <1>4
<1> QED BY <1>2, <1>5 DEF Updates, IInv, Shape

LEMMA PutsRecord ==
  ASSUME IInv, NEW q, disk' = [disk EXCEPT !.record = q], q # None, Stands(q)',
         Record # None => ToSet(Record.obs) \subseteq ToSet(q.obs)
  PROVE  Updates /\ Record' = q /\ disk'.archive = disk.archive
<1>1. /\ disk' = [record |-> disk'.record, archive |-> disk'.archive]
      /\ disk'.record = q /\ disk'.archive = disk.archive
  BY DEF IInv, Shape
<1>2. Record' = q
  BY <1>1 DEF Record
<1>3. Record' # None => Stands(Record)'
  BY <1>2
<1> QED BY <1>1, <1>2, <1>3 DEF Updates

LEMMA UpdateKeeps ==
  ASSUME OriginalIsKept, Updates, meter'.flash = meter.flash, UNCHANGED base
  PROVE  OriginalIsKept'
BY DEF OriginalIsKept, Updates

LEMMA IdleStands ==
  ASSUME task' = NoTask
  PROVE  /\ task' \in TaskType' /\ OneUser' /\ Resuming' /\ Reviewing' /\ Cycling'
         /\ task'.op = "none"
BY DEF NoTask, TaskType, OneUser, Resuming, Reviewing, Cycling, Stages

\* Most steps leave the meter, the transaction and the history alone.
LEMMA ShapeStays ==
  ASSUME Shape, yaml' \in Yamls, task' \in TaskType', tx' \in TxType', UNCHANGED <<meter, ops, ran>>,
         disk' = [record |-> disk'.record, archive |-> disk'.archive]
  PROVE  Shape'
BY DEF Shape

LEMMA TxStays ==
  ASSUME Shape, UNCHANGED tx
  PROVE  tx' \in TxType'
BY DEF Shape, TxType

LEMMA TaskStep ==
  ASSUME IInv, task' \in TaskType', UNCHANGED <<yaml, meter, tx, ops, base, ran>>, Updates,
         task'.op # "none" => task.op # "none" \/ LeaseFree,
         Resuming', Reviewing', Cycling'
  PROVE  IInv'
<1>1. Shape'
  BY TxStays, ShapeStays DEF IInv, Updates, Shape
<1>2. OneUser' /\ HasRun'
  BY DEF IInv, OneUser, HasRun, LeaseFree, TxHolds, Held
<1>3. OriginalIsKept'
  BY UpdateKeeps DEF IInv
<1> QED BY <1>1, <1>2, <1>3 DEF IInv, Updates

\* The operation ends.
LEMMA TaskEnds ==
  ASSUME IInv, task' = NoTask, UNCHANGED <<yaml, meter, tx, ops, base, ran>>, Updates
  PROVE  IInv'
BY IdleStands, TaskStep

LEMMA ImageSeq ==
  ASSUME NEW S, IsFiniteSet(S), NEW f, f = [k \in S |-> f[k]]
  PROVE  IsSeq(SetToSeq({f[k] : k \in S}))
<1> DEFINE T == {f[k] : k \in S}
<1>1. f \in [S -> T] /\ \A t \in T : \E k \in S : f[k] = t
  OBVIOUS
<1>2. f \in Surjection(S, T)
  BY <1>1 DEF Surjection
<1>3. IsFiniteSet(T)
  BY <1>2, FS_Surjection
<1> QED BY <1>3, SetToSeqIsSeq

-----------------------------------------------------------------------------
(* The preparation.                                                        *)

LEMMA ObservesFinite ==
  ASSUME NEW S \in SUBSET Chips, NEW T \in SUBSET (S \X Stages)
  PROVE  IsFiniteSet(T)
<1>1. IsFiniteSet(S) /\ IsFiniteSet(Stages)
  <2>1. IsFiniteSet({} \cup {1})
    BY FS_EmptySet, FS_AddElement
  <2>2. IsFiniteSet(({} \cup {1}) \cup {2})
    BY <2>1, FS_AddElement
  <2>3. Stages = ({} \cup {1}) \cup {2}
    BY DEF Stages
  <2> QED BY <2>2, <2>3, RecoveryAssumption, FS_Subset
<1> QED BY <1>1, FS_Product, FS_Subset

LEMMA PrepareObserveStep ==
  ASSUME IInv, NEW stage \in Stages, PrepareObserve(stage)
  PROVE  IInv'
<1> DEFINE done == IF Record = None THEN {} ELSE Results(Record)
           targets == {c \in Chips : <<c, stage>> \notin done}
           missing == {k \in targets \X Stages : k \notin done}
           found == [k \in missing |-> Candidates(Record, k, yaml)]
           item == [k \in missing |-> CHOOSE c \in found[k] : TRUE]
           seen == [k \in missing |-> Observed(k, item[k], yaml)]
           old == {c \in targets : ~FirstUse(Record, <<c, stage>>, item[<<c, stage>>])}
           new == SetToSeq({Observed(k, item[k], yaml) : k \in missing})
<1>1. /\ task' = [NoTask EXCEPT !.op = "prepare", !.pc = "backup", !.src = yaml,
                    !.stage = stage, !.left = targets, !.old = old, !.new = new]
      /\ LeaseFree
  BY DEF PrepareObserve, Begin
<1>2. UNCHANGED <<yaml, meter, disk, tx, ops, base, ran>>
  BY DEF PrepareObserve
<1>3. IsSeq(new)
  <2>1. IsFiniteSet(missing)
    BY ObservesFinite
  <2>2. seen = [k \in missing |-> seen[k]]
    OBVIOUS
  <2>3. {seen[k] : k \in missing} = {Observed(k, item[k], yaml) : k \in missing}
    OBVIOUS
  <2> HIDE DEF missing, seen
  <2>4. IsSeq(SetToSeq({seen[k] : k \in missing}))
    BY <2>1, <2>2, ImageSeq
  <2> QED BY <2>3, <2>4
<1>4. targets \in SUBSET Chips
  OBVIOUS
<1> HIDE DEF targets, old, new
<1>5. /\ task' \in TaskType' /\ task'.op = "prepare" /\ task'.pc = "backup"
      /\ task'.new = new
  BY <1>1, <1>4 DEF NoTask, TaskType
<1>6. Resuming' /\ Reviewing' /\ Cycling'
  <2>1. IsSeq(task.new)'
    BY <1>3, <1>5 DEF IsSeq, ToSet
  <2> QED BY <1>5, <2>1 DEF Resuming, Reviewing, Cycling
<1> QED BY <1>1, <1>2, <1>5, <1>6, SameRecord, TaskStep

\* What a backup puts on disk, or leaves there.
LEMMA BackupUpdates ==
  ASSUME IInv, NEW src, NEW s, IsSeq(s), UNCHANGED <<meter, ops, ran>>,
         NEW b, b = Backup(Record, src, s), Put(b)
  PROVE  /\ Updates /\ Record' = b /\ disk'.archive = disk.archive
         /\ ToSet(s) \subseteq ToSet(b.obs)
         /\ Record # None => /\ ToSet(Record.obs) \subseteq ToSet(b.obs)
                             /\ Record.selected => b.final = Record.final
                             /\ Record.prep # None /\ src = Record.prep.src =>
                                  /\ b.prep = Record.prep
                                  /\ b.attempted = Record.attempted
                                  /\ b.results = Record.results
<1>1. b # None /\ disk' = [disk EXCEPT !.record = b]
  BY DEF Put
<1>2. PICK r \in {Record} : TRUE
  OBVIOUS
<1>3. r = Record /\ (r = None \/ Stands(r))
  BY <1>2 DEF IInv
<1>4. /\ Stands(b) /\ ToSet(s) \subseteq ToSet(b.obs)
      /\ r # None => /\ ToSet(r.obs) \subseteq ToSet(b.obs)
                     /\ r.selected => b.final = r.final
                     /\ r.prep # None /\ src = r.prep.src =>
                          /\ b.prep = r.prep /\ b.attempted = r.attempted
                          /\ b.results = r.results
  BY <1>1, <1>3, BackupStands
<1>5. Stands(b)'
  BY <1>4, StandsSame
<1> QED BY <1>1, <1>3, <1>4, <1>5, PutsRecord

LEMMA PrepareBackupStep ==
  ASSUME IInv, PrepareBackup
  PROVE  IInv'
<1>1. PICK s \in {task.new} : TRUE
  OBVIOUS
<1>2. s = task.new /\ IsSeq(s)
  BY <1>1 DEF IInv, Reviewing, PrepareBackup, At
<1>3. PICK b \in {Backup(Record, task.src, s)} : TRUE
  OBVIOUS
<1>4. PICK src \in {task.src} : TRUE
  OBVIOUS
<1>5. /\ b = Backup(Record, src, s) /\ task.op = "prepare"
      /\ UNCHANGED <<yaml, meter, tx, ops, base, ran>>
      /\ \/ Put(b) /\ task' = [task EXCEPT !.pc = "save"]
         \/ PutFails(b) /\ task' = NoTask
  BY <1>1, <1>3, <1>4 DEF PrepareBackup, At
<1>6. CASE UNCHANGED disk /\ task' = NoTask
  BY <1>5, <1>6, TaskEnds, SameRecord
<1>7. CASE Put(b)
  <2>1. Updates /\ Record' = b
    BY <1>2, <1>5, <1>7, BackupUpdates
  <2>2. CASE task' = NoTask
    BY <1>5, <2>1, <2>2, TaskEnds
  <2>3. CASE task' = [task EXCEPT !.pc = "save"]
    <3>1. task' \in TaskType' /\ task'.op = "prepare" /\ task'.pc = "save"
      BY <1>5, <2>3 DEF IInv, Shape, TaskType
    <3>2. b # None
      BY <1>7 DEF Put
    <3> QED BY <1>5, <2>1, <3>1, <3>2, TaskStep DEF Resuming, Reviewing, Cycling
  <2> QED BY <1>5, <2>2, <2>3
<1> QED BY <1>5, <1>6, <1>7 DEF PutFails

\* One more operation has been reviewed.
LEMMA OpsShape ==
  ASSUME Shape, task' \in TaskType', tx' \in TxType', ops' = ops + 1, ops < MaxOps,
         UNCHANGED <<yaml, meter, ran>>,
         disk' = [record |-> disk'.record, archive |-> disk'.archive]
  PROVE  Shape'
<1>1. ops' \in 0..MaxOps /\ ran \subseteq (1..ops') \X Chips
  BY RecoveryAssumption DEF Shape
<1> QED BY <1>1 DEF Shape

LEMMA ReviewEnds ==
  ASSUME IInv, task' = NoTask, ops' = ops + 1, ops < MaxOps, UNCHANGED <<yaml, meter, base, ran>>, Updates,
         tx' \in TxType', tx'.pc # "mark", tx'.pc # "none" => tx'.final # None
  PROVE  IInv'
<1>1. Shape'
  BY IdleStands, OpsShape DEF IInv, Updates
<1>2. OriginalIsKept'
  BY UpdateKeeps DEF IInv
<1> QED BY <1>1, <1>2, IdleStands DEF IInv, Updates, HasRun

LEMMA PrepareSaveStep ==
  ASSUME IInv, PrepareSave
  PROVE  IInv'
<1>1. PICK r \in {Record} : TRUE
  OBVIOUS
<1>2. PICK p \in {[id |-> ops + 1, src |-> task.src, stage |-> task.stage,
                   targets |-> task.left, gen |-> meter.gen, clear |-> task.old]} : TRUE
  OBVIOUS
<1>3. p.id = ops + 1 /\ p.gen = meter.gen /\ p.stage \in Stages
  BY <1>2 DEF IInv, Shape, TaskType
<1>4. PICK q \in {[r EXCEPT !.prep = p, !.cancelled = FALSE, !.attempted = {}]} : TRUE
  OBVIOUS
<1>5. /\ task.op = "prepare" /\ task.pc = "save" /\ task' = NoTask
      /\ UNCHANGED <<yaml, meter, tx, base, ran>>
      /\ \/ ops' = ops + 1 /\ ops < MaxOps /\ (Put(q) \/ PutFails(q))
         \/ UNCHANGED <<disk, ops>>
  BY <1>1, <1>2, <1>4 DEF PrepareSave, At
<1>6. r = Record /\ r # None /\ Stands(r)
  BY <1>1, <1>5 DEF IInv, Reviewing
<1>7. CASE UNCHANGED <<disk, ops>>
  BY <1>5, <1>7, TaskEnds, SameRecord
<1>8. CASE ops' = ops + 1 /\ ops < MaxOps /\ (Put(q) \/ UNCHANGED disk)
  <2>1. /\ tx.pc # "mark" /\ tx' \in TxType'
        /\ tx.pc # "none" => tx.final # None
    BY <1>5, TxStays DEF IInv, OneUser, Held, HasRun
  <2>2. meter.gen \in 1..meter.gen /\ ops + 1 >= ops /\ meter.gen >= meter.gen
    BY DEF IInv, Shape
  <2>3. Shape'
    <3>1. disk' = [record |-> disk'.record, archive |-> disk'.archive]
      BY <1>8 DEF Put, IInv, Shape
    <3> QED BY <1>5, <1>8, <2>1, <3>1, IdleStands, OpsShape DEF IInv
  <2>4. CASE Put(q)
    <3>1. Stands(q)' /\ q.obs = r.obs
      <4>1. /\ Stands(r) /\ UNCHANGED <<meter, ran>>
            /\ q = [r EXCEPT !.prep = p, !.cancelled = FALSE, !.attempted = {}]
        BY <1>4, <1>5, <1>6
      <4>2. p.id \in 1..ops' /\ \A c \in Chips : <<p.id, c>> \notin ran
        BY <1>3, <1>8 DEF IInv, Shape
      <4> QED BY <1>3, <2>2, <4>1, <4>2, PreparedStands
    <3>2. q # None /\ disk' = [disk EXCEPT !.record = q]
      BY <2>4 DEF Put
    <3>3. Updates
      BY <1>6, <3>1, <3>2, PutsRecord
    <3> QED BY <1>5, <1>8, <2>1, <3>3, ReviewEnds
  <2>5. CASE UNCHANGED disk
    <3>1. Updates
      BY <1>5, <1>8, <2>2, <2>3, <2>5, KeepsRecord
    <3> QED BY <1>5, <1>8, <2>1, <3>1, ReviewEnds
  <2> QED BY <1>8, <2>4, <2>5
<1> QED BY <1>5, <1>7, <1>8 DEF PutFails

-----------------------------------------------------------------------------
(* The finalization.                                                       *)

LEMMA FinalObserveStep ==
  ASSUME IInv, FinalObserve
  PROVE  IInv'
<1> DEFINE missing == Missing(Record)
           found == [k \in missing |-> Remaining(Record, k)]
           seen == [k \in missing |-> Observed(k, CHOOSE c \in found[k] : TRUE, yaml)]
           new == IF Record.final # None THEN <<>>
                  ELSE SetToSeq({Observed(k, CHOOSE c \in found[k] : TRUE, yaml) :
                                 k \in missing})
           pc == IF Record.final = None /\ missing # {} THEN "backup" ELSE "review"
<1>1. /\ task' = [NoTask EXCEPT !.op = "finalize", !.src = yaml, !.pc = pc, !.new = new]
      /\ LeaseFree /\ Record # None
  BY DEF FinalObserve, Begin
<1>2. UNCHANGED <<yaml, meter, disk, tx, ops, base, ran>>
  BY DEF FinalObserve
<1>3. IsSeq(new)
  <2>1. missing \in SUBSET (Chips \X Stages)
    BY DEF Missing, Targets, Results, Keys
  <2>2. IsFiniteSet(missing)
    BY <2>1, ObservesFinite
  <2>3. seen = [k \in missing |-> seen[k]]
    OBVIOUS
  <2>4. {seen[k] : k \in missing} =
          {Observed(k, CHOOSE c \in found[k] : TRUE, yaml) : k \in missing}
    OBVIOUS
  <2>5. IsSeq(<<>>)
    BY DEF IsSeq
  <2> HIDE DEF missing, seen
  <2>6. IsSeq(SetToSeq({seen[k] : k \in missing}))
    BY <2>2, <2>3, ImageSeq
  <2> QED BY <2>4, <2>5, <2>6
<1>4. pc \in {"backup", "review"}
  OBVIOUS
<1> HIDE DEF pc, new
<1>5. /\ task' \in TaskType' /\ task'.op = "finalize" /\ task'.pc \in {"backup", "review"}
      /\ task'.new = new /\ task'.src = yaml
  BY <1>1, <1>4 DEF NoTask, TaskType, Stages
<1>6. Resuming' /\ Reviewing' /\ Cycling'
  <2>1. IsSeq(task.new)'
    BY <1>3, <1>5 DEF IsSeq, ToSet
  <2>2. Record' # None /\ task'.src \in Yamls
    BY <1>1, <1>2, <1>5 DEF Record, IInv, Shape
  <2> QED BY <1>5, <2>1, <2>2 DEF Resuming, Reviewing, Cycling
<1> QED BY <1>1, <1>2, <1>5, <1>6, SameRecord, TaskStep

LEMMA FinalBackupStep ==
  ASSUME IInv, FinalBackup
  PROVE  IInv'
<1>1. PICK s \in {task.new} : TRUE
  OBVIOUS
<1>2. s = task.new /\ IsSeq(s)
  BY <1>1 DEF IInv, Reviewing, FinalBackup, At
<1>3. PICK b \in {Backup(Record, task.src, s)} : TRUE
  OBVIOUS
<1>4. PICK src \in {task.src} : TRUE
  OBVIOUS
<1>5. /\ b = Backup(Record, src, s) /\ task.op = "finalize"
      /\ UNCHANGED <<yaml, meter, tx, ops, base, ran>>
      /\ \/ Put(b) /\ task' = [task EXCEPT !.pc = "review", !.new = <<>>]
         \/ PutFails(b) /\ task' = NoTask
  BY <1>1, <1>3, <1>4 DEF FinalBackup, At
<1>6. CASE UNCHANGED disk /\ task' = NoTask
  BY <1>5, <1>6, TaskEnds, SameRecord
<1>7. CASE Put(b)
  <2>1. Updates /\ Record' = b
    BY <1>2, <1>5, <1>7, BackupUpdates
  <2>2. CASE task' = NoTask
    BY <1>5, <2>1, <2>2, TaskEnds
  <2>3. CASE task' = [task EXCEPT !.pc = "review", !.new = <<>>]
    <3>1. /\ task' \in TaskType' /\ task'.op = "finalize" /\ task'.pc = "review"
          /\ task'.src \in Yamls
      BY <1>5, <2>3 DEF IInv, Shape, TaskType, Reviewing
    <3>2. b # None
      BY <1>7 DEF Put
    <3> QED BY <1>5, <2>1, <3>1, <3>2, TaskStep DEF Resuming, Reviewing, Cycling
  <2> QED BY <1>5, <2>2, <2>3
<1> QED BY <1>5, <1>6, <1>7 DEF PutFails

-----------------------------------------------------------------------------
(* The calibration of the prepared chips.                                  *)

LEMMA SavedStays ==
  ASSUME Record # None, Record'.prep = Record.prep,
         ToSet(Record.obs) \subseteq ToSet(Record'.obs),
         UNCHANGED base, meter'.fw = meter.fw, meter'.gen = meter.gen, NEW c, Saved(c)
  PROVE  Saved(c)'
BY DEF Saved, Keeps

LEMMA ResumeStep ==
  ASSUME IInv, Resume
  PROVE  IInv'
<1>1. /\ task' = [NoTask EXCEPT !.op = "resume", !.pc = "backup", !.left = Left(Record)]
      /\ LeaseFree /\ Record # None /\ Record.prep # None
      /\ UNCHANGED <<yaml, meter, disk, tx, ops, base, ran>>
  BY DEF Resume, Begin, Reconciles, ActionReady
<1>2. PICK left \in SUBSET Chips : left = Left(Record)
  BY DEF Left
<1>3. /\ task' \in TaskType' /\ task'.op = "resume" /\ task'.pc = "backup"
      /\ task'.left = Left(Record)
  BY <1>1, <1>2 DEF NoTask, TaskType, Stages
<1>4. Updates /\ Record' = Record
  BY <1>1, SameRecord
<1>5. Left(Record)' = Left(Record)
  BY <1>4 DEF Left
<1>6. Resuming'
  <2>1. Record' # None /\ (Record.prep # None)'
    BY <1>1, <1>4
  <2>2. (Left(Record) \ task.left)' = {}
    BY <1>3, <1>5
  <2> QED BY <1>3, <2>1, <2>2 DEF Resuming
<1> QED BY <1>1, <1>3, <1>4, <1>6, TaskStep DEF Reviewing, Cycling

\* What a resumed operation knows of its record.
LEMMA ResumedRecord ==
  ASSUME IInv, task.op = "resume"
  PROVE  /\ Record # None /\ Record.prep # None /\ Stands(Record)
         /\ Record.prep.stage \in Stages /\ Record.prep.id \in 1..ops
         /\ \A c \in Chips : Key(c) \in Keys /\ Key(c) = <<c, Record.prep.stage>>
BY DEF IInv, Resuming, Stands, Key, Keys

\* After its backup, what a run of the chip would overwrite is saved.
LEMMA BackupSaves ==
  ASSUME IInv, task.op = "resume", NEW c \in Chips, Reconciles,
         UNCHANGED <<meter, base, ops, ran>>,
         NEW q, q = SavedFirst(Record, c), \/ q = Record /\ UNCHANGED disk
                                           \/ q # Record /\ Put(q)
  PROVE  /\ Updates /\ Record' = q /\ q.prep = Record.prep /\ q.results = Record.results
         /\ q.attempted = Record.attempted /\ Saved(c)'
<1>1. /\ Record # None /\ Record.prep # None /\ Stands(Record) /\ yaml = Record.prep.src
      /\ Key(c) \in Keys /\ Key(c) = <<c, Record.prep.stage>>
  BY ResumedRecord DEF Reconciles
<1>2. PICK k \in {Key(c)} : TRUE
  OBVIOUS
<1>3. PICK src \in {yaml} : TRUE
  OBVIOUS
<1>4. PICK o \in {Observed(Key(c), [kind |-> "saved", val |-> Dumped(Key(c))], yaml)} : TRUE
  OBVIOUS
<1>5. o.key = k /\ o.kind = "saved" /\ o.val = Dumped(k)
  BY <1>2, <1>4 DEF Observed
<1>6. q = IF Dumped(k) = None THEN Record ELSE Backup(Record, src, <<o>>)
  BY <1>2, <1>3, <1>4 DEF SavedFirst
<1>7. k \in Keys /\ k = <<c, Record.prep.stage>> /\ src = Record.prep.src
  BY <1>1, <1>2, <1>3
<1>8. CASE UNCHANGED disk /\ q = Record
  <2>1. Updates /\ Record' = Record
    BY <1>8, SameRecord
  <2>2. ASSUME Dumped(k) # None
        PROVE  o \in ToSet(Record.obs)
    <3>1. q = Backup(Record, src, <<o>>)
      BY <1>6, <2>2
    <3>2. PICK r \in {Record} : TRUE
      OBVIOUS
    <3>3. r = Record /\ Stands(r)
      BY <1>1, <3>2
    <3>4. PICK s \in {<<o>>} : TRUE
      OBVIOUS
    <3>5. IsSeq(s) /\ o \in ToSet(s) /\ q = Backup(r, src, s) /\ q # None
      BY <1>1, <1>8, <3>1, <3>3, <3>4, SingleIsSeq
    <3>6. ToSet(s) \subseteq ToSet(q.obs)
      BY <3>3, <3>5, BackupStands
    <3> QED BY <1>8, <3>5, <3>6
  <2>3. CASE Dumped(k) # None
    <3>1. meter.fw.tables[k] = None /\ base[k] # None => Keeps(Record, k, base[k])
      BY <1>1, <1>5, <1>7, <2>2, <2>3 DEF IInv, OriginalIsKept, Keeps, Dumped
    <3> QED BY <1>7, <1>8, <2>1, <3>1 DEF Saved, Keeps
  <2>4. CASE Dumped(k) = None
    <3>1. meter.fw.tables[k] = None /\ base[k] # None => Keeps(Record, k, base[k])
      BY <1>1, <1>7, <2>4 DEF IInv, OriginalIsKept, Keeps, Dumped
    <3> QED BY <1>7, <1>8, <2>1, <3>1 DEF Saved, Keeps
  <2> QED BY <1>8, <2>1, <2>3, <2>4
<1>9. CASE Put(q) /\ q # Record
  <2>1. Dumped(k) # None /\ q = Backup(Record, src, <<o>>)
    BY <1>6, <1>9
  <2>2. /\ Updates /\ Record' = q /\ o \in ToSet(q.obs)
        /\ ToSet(Record.obs) \subseteq ToSet(q.obs)
        /\ q.prep = Record.prep /\ q.attempted = Record.attempted
        /\ q.results = Record.results
    BY <1>1, <1>7, <1>9, <2>1, SingleIsSeq, BackupUpdates
  <2>3. meter.fw.tables[k] = None /\ base[k] # None => Keeps(q, k, base[k])
    BY <1>1, <1>5, <1>7, <2>1, <2>2 DEF IInv, OriginalIsKept, Keeps, Dumped
  <2> QED BY <1>7, <2>2, <2>3 DEF Saved, Keeps
<1> QED BY <1>8, <1>9


\* A backup of the chip that fails leaves the record, or adds to it.
LEMMA BackupEnds ==
  ASSUME IInv, task.op = "resume", NEW c \in Chips, task' = NoTask,
         UNCHANGED <<yaml, meter, tx, base, ops, ran>>, Put(SavedFirst(Record, c))
  PROVE  IInv'
<1>1. PICK q \in {SavedFirst(Record, c)} : TRUE
  OBVIOUS
<1>2. Put(q)
  BY <1>1
<1>3. PICK src \in {yaml}, s \in {<<Observed(Key(c),
                     [kind |-> "saved", val |-> Dumped(Key(c))], yaml)>>} : TRUE
  OBVIOUS
<1>4. IsSeq(s)
  BY <1>3, SingleIsSeq
<1>5. q = Record \/ q = Backup(Record, src, s)
  BY <1>1, <1>3 DEF SavedFirst
<1>6. CASE q = Record
  <2>1. disk' = [disk EXCEPT !.record = q] /\ q # None
    BY <1>2 DEF Put
  <2>2. Stands(q)'
    <3>1. Stands(q)
      BY <1>6, <2>1 DEF IInv
    <3> QED BY <3>1, StandsSame
  <2>3. Updates
    BY <1>6, <2>1, <2>2, PutsRecord
  <2> QED BY <2>3, TaskEnds
<1>7. CASE q = Backup(Record, src, s)
  BY <1>2, <1>4, <1>7, BackupUpdates, TaskEnds
<1> QED BY <1>5, <1>6, <1>7

LEMMA ResumeBackupStep ==
  ASSUME IInv, ResumeBackup
  PROVE  IInv'
<1>1. PICK c \in task.left :
        LET new == SavedFirst(Record, c)
            next == task.left \ {c}
        IN \/ /\ Reconciles /\ IF new = Record THEN UNCHANGED disk ELSE Put(new)
              /\ task' = IF next # {} THEN [task EXCEPT !.left = next]
                         ELSE [task EXCEPT !.pc = "attempt", !.left = Left(Record)]
           \/ task' = NoTask /\ (IF new = Record THEN UNCHANGED disk ELSE PutFails(new))
  BY DEF ResumeBackup
<1>2. PICK q \in {SavedFirst(Record, c)} : TRUE
  OBVIOUS
<1>3. /\ q = SavedFirst(Record, c) /\ task.op = "resume" /\ task.pc = "backup"
      /\ UNCHANGED <<yaml, meter, tx, ops, base, ran>> /\ c \in Chips /\ task.left \subseteq Chips
  BY <1>1, <1>2 DEF ResumeBackup, At, IInv, Shape, TaskType
<1>4. CASE task' = NoTask /\ UNCHANGED disk
  BY <1>3, <1>4, SameRecord, TaskEnds
<1>5. CASE task' = NoTask /\ Put(SavedFirst(Record, c))
  BY <1>3, <1>5, BackupEnds
<1>6. CASE /\ Reconciles /\ IF q = Record THEN UNCHANGED disk ELSE Put(q)
           /\ task' = IF task.left \ {c} # {} THEN [task EXCEPT !.left = task.left \ {c}]
                      ELSE [task EXCEPT !.pc = "attempt", !.left = Left(Record)]
  <2>1. /\ Updates /\ Record' = q /\ q.prep = Record.prep /\ q.results = Record.results
        /\ q.attempted = Record.attempted /\ Saved(c)'
    BY <1>3, <1>6, BackupSaves
  <2>2. Left(Record)' = Left(Record)
    BY <2>1 DEF Left
  <2>3. \A d \in Left(Record) \ (task.left \ {c}) : Saved(d)'
    <3>1. TAKE d \in Left(Record) \ (task.left \ {c})
    <3>2. CASE d = c
      BY <2>1, <3>2
    <3>3. CASE d # c
      <4>1. Saved(d) /\ Record # None
        BY <1>3, <3>3 DEF IInv, Resuming
      <4>2. ToSet(Record.obs) \subseteq ToSet(Record'.obs)
        BY <2>1, <4>1 DEF Updates
      <4> QED BY <1>3, <2>1, <4>1, <4>2, SavedStays
    <3> QED BY <3>2, <3>3
  <2>4. (Record # None /\ Record.prep # None)'
    BY <1>3, <2>1, ResumedRecord DEF Updates
  <2>5. CASE task' = [task EXCEPT !.left = task.left \ {c}]
    <3>1. /\ task' \in TaskType' /\ task'.op = "resume" /\ task'.pc = "backup"
          /\ task'.left = task.left \ {c}
      BY <1>3, <2>5 DEF IInv, Shape, TaskType
    <3>2. Resuming'
      BY <2>2, <2>3, <2>4, <3>1 DEF Resuming
    <3> QED BY <1>3, <2>1, <3>1, <3>2, TaskStep DEF Reviewing, Cycling
  <2>6. CASE /\ task.left \ {c} = {}
             /\ task' = [task EXCEPT !.pc = "attempt", !.left = Left(Record)]
    <3>1. PICK left \in SUBSET Chips : left = Left(Record)
      BY DEF Left
    <3>2. /\ task' \in TaskType' /\ task'.op = "resume" /\ task'.pc = "attempt"
          /\ task'.left = Left(Record)
      BY <1>3, <2>6, <3>1 DEF IInv, Shape, TaskType
    <3>3. \A d \in task'.left : Saved(d)'
      BY <2>3, <2>6, <3>2
    <3>4. Resuming'
      BY <2>4, <3>2, <3>3 DEF Resuming
    <3> QED BY <1>3, <2>1, <3>2, <3>4, TaskStep DEF Reviewing, Cycling
  <2> QED BY <1>6, <2>5, <2>6
<1> QED BY <1>1, <1>2, <1>4, <1>5, <1>6 DEF PutFails

LEMMA ResumeAttemptStep ==
  ASSUME IInv, ResumeAttempt
  PROVE  IInv'
<1>1. PICK c \in task.left :
        LET new == Attempted(Record, c) IN
        /\ c \notin Record.attempted
        /\ \/ /\ Put(new)
              /\ task' = [task EXCEPT !.chip = c,
                   !.pc = IF c \in Record.prep.clear THEN "clear" ELSE "run"]
           \/ PutFails(new) /\ task' = NoTask
  BY DEF ResumeAttempt
<1>2. PICK r \in {Record}, q \in {Attempted(Record, c)} : TRUE
  OBVIOUS
<1>3. /\ r = Record /\ q = Attempted(r, c) /\ task.op = "resume" /\ task.pc = "attempt"
      /\ UNCHANGED <<yaml, meter, tx, ops, base, ran>> /\ c \in Chips
  BY <1>1, <1>2 DEF ResumeAttempt, At, IInv, Shape, TaskType
<1>4. r # None /\ r.prep # None /\ Stands(r)
  BY <1>3, ResumedRecord
<1>5. CASE task' = NoTask /\ UNCHANGED disk
  BY <1>3, <1>5, SameRecord, TaskEnds
<1>6. CASE Put(q)
  <2>1. /\ Stands(q) /\ q.obs = r.obs /\ q.prep = r.prep
        /\ q.attempted = r.attempted \cup {c}
    BY <1>3, <1>4, AttemptedStands
  <2>2. Stands(q)' /\ q # None /\ disk' = [disk EXCEPT !.record = q]
    BY <1>3, <1>6, <2>1, StandsSame DEF Put
  <2>3. Updates /\ Record' = q
    BY <1>3, <2>1, <2>2, PutsRecord
  <2>4. CASE task' = NoTask
    BY <1>3, <2>3, <2>4, TaskEnds
  <2>5. CASE task' = [task EXCEPT !.chip = c,
                        !.pc = IF c \in Record.prep.clear THEN "clear" ELSE "run"]
    <3>1. /\ task' \in TaskType' /\ task'.op = "resume" /\ task'.pc \in {"clear", "run"}
          /\ task'.left = task.left /\ task'.chip = c
      BY <1>3, <2>5 DEF IInv, Shape, TaskType
    <3>2. \A d \in task'.left : Saved(d)'
      <4>1. TAKE d \in task'.left
      <4>2. Saved(d)
        BY <1>3, <3>1 DEF IInv, Resuming
      <4> QED BY <1>3, <1>4, <2>1, <2>3, <4>2, SavedStays
    <3>3. <<r.prep.id, c>> \notin ran
      BY <1>1, <1>3, <1>4 DEF Stands
    <3>4. Resuming'
      <4>1. (Record # None /\ Record.prep # None)'
        BY <1>4, <2>1, <2>2, <2>3
      <4>2. task'.chip \in Record'.attempted
        BY <2>1, <2>3, <3>1
      <4>3. <<Record'.prep.id, task'.chip>> \notin ran'
        BY <1>3, <2>1, <2>3, <3>1, <3>3
      <4> QED BY <1>1, <3>1, <3>2, <4>1, <4>2, <4>3 DEF Resuming
    <3> QED BY <1>3, <2>3, <3>1, <3>4, TaskStep DEF Reviewing, Cycling
  <2> QED BY <1>1, <1>6, <2>4, <2>5
<1> QED BY <1>1, <1>2, <1>3, <1>5, <1>6 DEF PutFails

LEMMA FlashFacts ==
  ASSUME Shape, NEW k \in Keys, NEW v, meter' = [meter EXCEPT !.flash[k] = v]
  PROVE  /\ meter' = [flash |-> meter'.flash, fw |-> meter'.fw, gen |-> meter'.gen,
                      had |-> meter'.had]
         /\ meter'.flash = [j \in Keys |-> meter'.flash[j]]
         /\ meter'.fw = meter.fw /\ meter'.gen = meter.gen /\ meter'.had = meter.had
         /\ meter'.flash[k] = v /\ \A j \in Keys \ {k} : meter'.flash[j] = meter.flash[j]
BY DEF Shape

\* A run or a clear of a chip whose table is saved.
LEMMA FlashStep ==
  ASSUME IInv, task.op = "resume", UNCHANGED <<yaml, disk, tx, ops, base>>,
         NEW c \in Chips, Saved(c), Reconciles, NEW v,
         meter' = meter \/ (meter.fw.tables[Key(c)] = None
                            /\ meter' = [meter EXCEPT !.flash[Key(c)] = v]),
         ran' = ran \/ (c \in Record.attempted /\ ran' = ran \cup {<<Record.prep.id, c>>}),
         task' \in TaskType', task'.op \in {"none", "resume"},
         task'.pc \notin {"backup", "save"}, Resuming'
  PROVE  IInv'
<1>1. /\ Record # None /\ Record.prep # None /\ Record.prep.id \in 1..ops
      /\ Record.prep.gen = meter.gen /\ Key(c) \in Keys
      /\ Key(c) = <<c, Record.prep.stage>>
  BY ResumedRecord DEF Reconciles
<1>2. PICK k \in Keys : k = Key(c)
  BY <1>1
<1>3. /\ meter' = [flash |-> meter'.flash, fw |-> meter'.fw, gen |-> meter'.gen,
                   had |-> meter'.had]
      /\ meter'.flash = [j \in Keys |-> meter'.flash[j]]
      /\ meter'.fw = meter.fw /\ meter'.gen = meter.gen /\ meter'.had = meter.had
      /\ \A j \in Keys \ {k} : meter'.flash[j] = meter.flash[j]
      /\ meter'.flash[k] = meter.flash[k] \/ meter.fw.tables[k] = None
  <2>1. CASE meter' = meter
    BY <2>1 DEF IInv, Shape
  <2>2. CASE /\ meter.fw.tables[k] = None /\ meter' = [meter EXCEPT !.flash[k] = v]
    BY <2>2, FlashFacts DEF IInv
  <2> QED BY <1>2, <2>1, <2>2
<1>4. Shape'
  <2>1. ran' \subseteq (1..ops) \X Chips
    BY <1>1 DEF IInv, Shape
  <2> QED BY <1>3, <2>1, TxStays DEF IInv, Shape
<1>5. OneUser' /\ HasRun'
  BY <1>3 DEF IInv, OneUser, HasRun
<1>6. PICK r \in {Record} : TRUE
  OBVIOUS
<1>7. r = Record /\ Record' = r
  BY <1>6 DEF Record
<1>8. Stands(r)'
  <2>1. Stands(r)
    BY <1>1, <1>7 DEF IInv
  <2>2. \A d \in Chips : <<r.prep.id, d>> \in ran' => d \in r.attempted
    BY <1>1, <1>7, <2>1 DEF Stands
  <2> QED BY <1>3, <2>1, <2>2 DEF Stands
<1>9. OriginalIsKept'
  <2>1. \A j \in Keys : base[j] # None /\ meter'.flash[j] # base[j] =>
                          Keeps(Record, j, base[j])
    <3>1. TAKE j \in Keys
    <3>2. CASE j = k /\ meter'.flash[k] # meter.flash[k]
      BY <1>1, <1>2, <1>3, <3>2 DEF Saved
    <3>3. CASE meter'.flash[j] = meter.flash[j]
      BY <1>1, <3>3 DEF IInv, OriginalIsKept, Keeps
    <3> QED BY <1>3, <3>2, <3>3
  <2> QED BY <1>1, <1>7, <2>1 DEF OriginalIsKept, Keeps
<1>10. Reviewing' /\ Cycling'
  BY DEF Reviewing, Cycling
<1>11. (Record # None => Stands(Record))'
  BY <1>7, <1>8
<1> QED BY <1>4, <1>5, <1>9, <1>10, <1>11 DEF IInv

LEMMA ResumeClearStep ==
  ASSUME IInv, ResumeClear
  PROVE  IInv'
<1>1. /\ task.op = "resume" /\ task.pc = "clear" /\ Reconciles
      /\ UNCHANGED <<yaml, disk, tx, ops, base, ran>>
      /\ task.chip \in Chips /\ task.chip \in task.left /\ Saved(task.chip)
  BY DEF ResumeClear, At, IInv, Resuming, Shape, TaskType
<1>2. PICK c \in Chips : c = task.chip
  BY <1>1
<1>3. meter' = meter \/ /\ meter.fw.tables[Key(c)] = None
                        /\ meter' = [meter EXCEPT !.flash[Key(c)] = None]
  BY <1>2 DEF ResumeClear
<1>4. meter'.fw = meter.fw /\ meter'.gen = meter.gen
  <2>1. Key(c) \in Keys
    BY <1>1, ResumedRecord
  <2> QED BY <1>3, <2>1, FlashFacts DEF IInv
<1>5. task' \in TaskType' /\ task'.op \in {"none", "resume"} /\ task'.pc \in {"idle", "run"}
      /\ Resuming'
  <2>1. CASE task' = NoTask
    BY <2>1, IdleStands DEF NoTask
  <2>2. CASE task' = [task EXCEPT !.pc = "run"]
    <3>1. /\ task' \in TaskType' /\ task'.op = "resume" /\ task'.pc = "run"
          /\ task'.left = task.left /\ task'.chip = task.chip
      BY <1>1, <2>2 DEF IInv, Shape, TaskType
    <3>2. Record' = Record
      BY <1>1 DEF Record
    <3>3. \A d \in task'.left : Saved(d)'
      BY <1>1, <1>4, <3>1, <3>2, SavedStays DEF IInv, Resuming
    <3> QED BY <1>1, <3>1, <3>2, <3>3 DEF IInv, Resuming
  <2> QED BY <2>1, <2>2 DEF ResumeClear
<1> QED BY <1>1, <1>2, <1>3, <1>5, FlashStep

LEMMA ResumeRunStep ==
  ASSUME IInv, ResumeRun
  PROVE  IInv'
<1>1. /\ task.op = "resume" /\ task.pc = "run" /\ Reconciles
      /\ UNCHANGED <<yaml, disk, tx, ops, base>>
      /\ task.chip \in Chips /\ task.chip \in task.left /\ Saved(task.chip)
      /\ task.chip \in Record.attempted
  BY DEF ResumeRun, At, IInv, Resuming, Shape, TaskType
<1>2. PICK c \in Chips : c = task.chip
  BY <1>1
<1>3. \/ /\ meter.fw.tables[Key(c)] = None
         /\ \E v \in Values :
              /\ meter' = [meter EXCEPT !.flash[Key(c)] = v]
              /\ ran' = ran \cup {<<Record.prep.id, c>>}
              /\ task' \in {NoTask, [task EXCEPT !.pc = "capture", !.new = v]}
      \/ UNCHANGED <<meter, ran>> /\ task' = NoTask
  BY <1>2 DEF ResumeRun
<1>4. CASE UNCHANGED <<meter, ran>> /\ task' = NoTask
  BY <1>1, <1>4, SameRecord, TaskEnds
<1>5. ASSUME NEW v \in Values, meter.fw.tables[Key(c)] = None,
             meter' = [meter EXCEPT !.flash[Key(c)] = v],
             ran' = ran \cup {<<Record.prep.id, c>>},
             task' \in {NoTask, [task EXCEPT !.pc = "capture", !.new = v]}
      PROVE  IInv'
  <2>1. meter'.fw = meter.fw /\ meter'.gen = meter.gen
    <3>1. Key(c) \in Keys
      BY <1>1, ResumedRecord
    <3> QED BY <1>5, <3>1, FlashFacts DEF IInv
  <2>2. task' \in TaskType' /\ task'.op \in {"none", "resume"}
        /\ task'.pc \in {"idle", "capture"} /\ Resuming'
    <3>1. CASE task' = NoTask
      BY <3>1, IdleStands DEF NoTask
    <3>2. CASE task' = [task EXCEPT !.pc = "capture", !.new = v]
      <4>1. /\ task' \in TaskType' /\ task'.op = "resume" /\ task'.pc = "capture"
            /\ task'.left = task.left /\ task'.chip = task.chip /\ task'.new = v
        BY <1>1, <3>2 DEF IInv, Shape, TaskType
      <4>2. Record' = Record
        BY <1>1 DEF Record
      <4>3. \A d \in task'.left : Saved(d)'
        BY <1>1, <2>1, <4>1, <4>2, SavedStays DEF IInv, Resuming
      <4> QED BY <1>1, <1>5, <4>1, <4>2, <4>3 DEF IInv, Resuming
    <3> QED BY <1>5, <3>1, <3>2
  <2> QED BY <1>1, <1>2, <1>5, <2>2, FlashStep
<1> QED BY <1>3, <1>4, <1>5

LEMMA ResumeCaptureStep ==
  ASSUME IInv, ResumeCapture
  PROVE  IInv'
<1>1. PICK r \in {Record}, k \in {Key(task.chip)}, v \in {task.new},
           left \in {task.left \ {task.chip}} : TRUE
  OBVIOUS
<1>2. PICK q \in {[r EXCEPT !.results[k] = v]} : TRUE
  OBVIOUS
<1>3. /\ task.op = "resume" /\ UNCHANGED <<yaml, meter, tx, ops, base, ran>>
      /\ task.pc = "capture" /\ r = Record /\ r # None /\ r.prep # None /\ Stands(r)
      /\ left \subseteq task.left
  BY <1>1, ResumedRecord DEF ResumeCapture, At
<1>7. k \in Keys /\ v \in Values
  BY <1>1, <1>3, ResumedRecord DEF IInv, Resuming, Shape, TaskType
<1>4. \/ /\ Put(q)
         /\ task' = IF left = {} THEN NoTask
                    ELSE [task EXCEPT !.pc = "attempt", !.left = left, !.chip = None,
                                      !.new = None]
      \/ PutFails(q) /\ task' = NoTask
  BY <1>1, <1>2 DEF ResumeCapture
<1>5. CASE task' = NoTask /\ UNCHANGED disk
  BY <1>3, <1>5, SameRecord, TaskEnds
<1>6. CASE Put(q)
  <2>1. Stands(q) /\ q.obs = r.obs /\ q.prep = r.prep
    BY <1>2, <1>3, <1>7, CapturedStands
  <2>2. Stands(q)' /\ q # None /\ disk' = [disk EXCEPT !.record = q]
    BY <1>3, <1>6, <2>1, StandsSame DEF Put
  <2>3. Updates /\ Record' = q
    BY <1>3, <2>1, <2>2, PutsRecord
  <2>4. CASE task' = NoTask
    BY <1>3, <2>3, <2>4, TaskEnds
  <2>5. CASE task' = [task EXCEPT !.pc = "attempt", !.left = left, !.chip = None,
                                  !.new = None]
    <3>1. /\ task' \in TaskType' /\ task'.op = "resume" /\ task'.pc = "attempt"
          /\ task'.left = left
      BY <1>3, <2>5 DEF IInv, Shape, TaskType
    <3>2. \A d \in task'.left : Saved(d)'
      <4>1. TAKE d \in task'.left
      <4>2. Saved(d)
        BY <1>3, <3>1 DEF IInv, Resuming
      <4> QED BY <1>3, <2>1, <2>3, <4>2, SavedStays
    <3>3. Resuming'
      <4>1. (Record # None /\ Record.prep # None)'
        BY <1>3, <2>1, <2>2, <2>3
      <4> QED BY <3>1, <3>2, <4>1 DEF Resuming
    <3> QED BY <1>3, <2>3, <3>1, <3>3, TaskStep DEF Reviewing, Cycling
  <2> QED BY <1>4, <1>6, <2>4, <2>5
<1> QED BY <1>4, <1>5, <1>6 DEF PutFails

\* What is reviewed is a finalization, and so no missing one.
LEMMA ReviewIsFinal ==
  ASSUME IInv, task.op = "finalize", NEW r, Stands(r), NEW n \in 1..MaxOps,
         \A k \in Targets(r) \X Stages : Proposed(r, task.src).tables[k] \in Values,
         NEW f, f = [id |-> n, src |-> task.src, proposed |-> Proposed(r, task.src),
                     targets |-> Targets(r), seen |-> Len(r.obs), results |-> r.results],
         NEW q, q.obs = r.obs, Put(q)
  PROVE  f \in Finalization /\ f # None
<1>1. Proposed(r, task.src) \in Yamls
  <2>1. PICK src \in Yamls : src = task.src
    BY DEF IInv, Reviewing
  <2>2. \A k \in Keys : Proposed(r, src).tables[k] \in Values \cup {None}
    <3>1. TAKE k \in Keys
    <3>2. CASE k[1] \in Targets(r)
      <4>1. k \in Targets(r) \X Stages
        BY <3>2 DEF Keys
      <4> QED BY <2>1, <4>1
    <3>3. CASE k[1] \notin Targets(r)
      BY <3>3 DEF Proposed, Yamls, Tables
    <3> QED BY <3>2, <3>3
  <2>3. /\ Proposed(r, src).rev = src.rev
        /\ Proposed(r, src) = [tables |-> Proposed(r, src).tables, rev |-> src.rev]
        /\ DOMAIN Proposed(r, src).tables = Keys
        /\ Proposed(r, src).tables = [k \in Keys |-> Proposed(r, src).tables[k]]
    BY DEF Proposed, Yamls
  <2>4. Proposed(r, src).tables \in Tables
    BY <2>2, <2>3 DEF Tables
  <2> QED BY <2>1, <2>3, <2>4 DEF Yamls
<1>2. task.src \in Yamls /\ r.results \in Tables
  BY DEF IInv, Reviewing, Stands, Records
<1>3. Targets(r) \in SUBSET Chips
  BY DEF Targets, Results, Keys
<1>4. Len(r.obs) \in 0..MaxObservations
  <2>1. Len(r.obs) <= MaxObservations /\ Len(r.obs) \in Nat
    BY LenProperties DEF Put, Encodes, Stands, IsSeq
  <2> QED BY <2>1, RecoveryAssumption
<1> QED BY <1>1, <1>2, <1>3, <1>4, NoneIsNoReview DEF Finalization

LEMMA FinalReviewStep ==
  ASSUME IInv, FinalReview
  PROVE  IInv'
<1>1. PICK r \in {Record} : TRUE
  OBVIOUS
<1>2. PICK f \in {[id |-> ops + 1, src |-> task.src, proposed |-> Proposed(r, task.src),
                   targets |-> Targets(r), seen |-> Len(r.obs), results |-> r.results]} : TRUE
  OBVIOUS
<1>3. PICK q \in {[r EXCEPT !.final = f, !.finst = FALSE, !.fcancel = FALSE,
                            !.selected = FALSE]} : TRUE
  OBVIOUS
<1>4. /\ task.op = "finalize" /\ task.pc = "review" /\ task' = NoTask
      /\ UNCHANGED <<yaml, meter, base, ran>>
      /\ \/ /\ ops' = ops + 1 /\ ops < MaxOps
            /\ \A k \in Targets(r) \X Stages : Proposed(r, task.src).tables[k] \in Values
            /\ \/ /\ Put(q)
                  /\ \/ tx' = tx
                     \/ tx' = [NoTx EXCEPT !.pc = "preview", !.final = f, !.guard = TRUE]
               \/ PutFails(q) /\ UNCHANGED tx
         \/ UNCHANGED <<disk, ops, tx>>
  BY <1>1, <1>2, <1>3 DEF FinalReview, At
<1>5. r = Record /\ r # None /\ Stands(r)
  BY <1>1, <1>4 DEF IInv, Reviewing
<1>8. ASSUME \A k \in Targets(r) \X Stages : Proposed(r, task.src).tables[k] \in Values,
             ops < MaxOps, Put(q)
      PROVE  f \in Finalization /\ f # None
  <2>1. PICK n \in 1..MaxOps : n = ops + 1
    BY <1>8, RecoveryAssumption DEF IInv, Shape
  <2>2. f = [id |-> n, src |-> task.src, proposed |-> Proposed(r, task.src),
             targets |-> Targets(r), seen |-> Len(r.obs), results |-> r.results]
    BY <1>2, <2>1
  <2>3. q.obs = r.obs
    BY <1>3, <1>5 DEF Stands, Records
  <2> QED BY <1>4, <1>5, <1>8, <2>2, <2>3, ReviewIsFinal
<1>6. CASE UNCHANGED <<disk, ops, tx>>
  BY <1>4, <1>6, TaskEnds, SameRecord
<1>7. CASE /\ ops' = ops + 1 /\ ops < MaxOps
           /\ \A k \in Targets(r) \X Stages : Proposed(r, task.src).tables[k] \in Values
           /\ (Put(q) \/ UNCHANGED disk)
           /\ \/ tx' = tx
              \/ /\ Put(q)
                 /\ tx' = [NoTx EXCEPT !.pc = "preview", !.final = f, !.guard = TRUE]
  <2>1. tx'.pc # "mark" /\ tx' \in TxType' /\ (tx'.pc # "none" => tx'.final # None)
    <3>1. CASE tx' = tx
      BY <1>4, <3>1, TxStays DEF IInv, OneUser, Held, HasRun
    <3>2. CASE Put(q) /\ tx' = [NoTx EXCEPT !.pc = "preview", !.final = f, !.guard = TRUE]
      BY <1>7, <1>8, <3>2, NoneIsNoReview DEF NoTx, TxType
    <3> QED BY <1>7, <3>1, <3>2
  <2>2. ops' >= ops /\ meter'.gen >= meter.gen /\ meter.had \subseteq meter'.had
    BY <1>4, <1>7 DEF IInv, Shape
  <2>3. Shape'
    <3>1. disk' = [record |-> disk'.record, archive |-> disk'.archive]
      BY <1>7 DEF Put, IInv, Shape
    <3> QED BY <1>4, <1>7, <2>1, <3>1, IdleStands, OpsShape DEF IInv
  <2>4. CASE Put(q)
    <3>1. Stands(q) /\ q.obs = r.obs
      <4>1. q = [r EXCEPT !.final = f, !.finst = FALSE, !.fcancel = FALSE,
                          !.selected = FALSE]
        BY <1>3
      <4>2. f \in Finalization
        BY <1>7, <1>8, <2>4
      <4> QED BY <1>5, <4>1, <4>2, ReviewedStands
    <3>2. Stands(q)'
      BY <1>4, <2>2, <2>3, <3>1, StandsStays DEF IInv
    <3>3. q # None /\ disk' = [disk EXCEPT !.record = q]
      BY <2>4 DEF Put
    <3>4. Updates
      BY <1>5, <3>1, <3>2, <3>3, PutsRecord
    <3> QED BY <1>4, <1>7, <2>1, <3>4, ReviewEnds
  <2>5. CASE UNCHANGED disk
    <3>1. Updates
      BY <1>4, <1>7, <2>2, <2>3, <2>5, KeepsRecord
    <3> QED BY <1>4, <1>7, <2>1, <3>1, ReviewEnds
  <2> QED BY <1>7, <2>4, <2>5
<1> QED BY <1>4, <1>6, <1>7 DEF PutFails

-----------------------------------------------------------------------------
(* Steps beside the operations of the workflow.                            *)

\* Only the transaction changes.
LEMMA TxStep ==
  ASSUME IInv, UNCHANGED <<disk, meter, task, ops, base, ran>>, tx' \in TxType',
         yaml' \in Yamls,
         task.op # "none" => tx'.pc \notin Held, HasRun'
  PROVE  IInv'
<1>1. task' \in TaskType'
  BY DEF IInv, Shape, TaskType
<1>2. Updates /\ Record' = Record
  BY SameRecord
<1>3. Shape'
  BY <1>1, <1>2, ShapeStays DEF IInv, Updates
<1>4. OneUser'
  BY DEF OneUser
<1>5. Resuming'
  BY <1>2 DEF IInv, Resuming, Left, Saved, Keeps
<1>6. Reviewing'
  BY <1>2 DEF IInv, Reviewing, IsSeq, ToSet
<1>7. Cycling'
  BY <1>2 DEF IInv, Cycling, Stands, Records
<1>8. OriginalIsKept'
  BY <1>2, UpdateKeeps DEF IInv
<1> QED BY <1>2, <1>3, <1>4, <1>5, <1>6, <1>7, <1>8 DEF IInv, Updates

\* The record changes while no operation of the workflow is under way.
LEMMA RecordStep ==
  ASSUME IInv, UNCHANGED <<yaml, meter, ops, base, ran>>, Updates, tx' \in TxType', HasRun',
         task.op = "none", task' = task
  PROVE  IInv'
<1>1. task' \in TaskType'
  BY DEF IInv, Shape, TaskType
<1>2. Shape'
  BY <1>1, ShapeStays DEF IInv, Updates, Shape
<1>3. OneUser' /\ Resuming' /\ Reviewing' /\ Cycling'
  BY DEF IInv, OneUser, Resuming, Reviewing, Cycling
<1>4. OriginalIsKept'
  BY UpdateKeeps DEF IInv
<1> QED BY <1>2, <1>3, <1>4 DEF IInv, Updates

\* The meter comes back, with a firmware.
LEMMA ReconnectFacts ==
  ASSUME Shape, NEW fw, Reconnected(fw)
  PROVE  /\ meter' = [flash |-> meter.flash, fw |-> meter'.fw, gen |-> meter'.gen,
                      had |-> meter'.had]
         /\ meter'.flash = meter.flash /\ meter'.gen = meter.gen + 1
         /\ meter.had \subseteq meter'.had
         /\ tx.final # None /\ fw = tx.final.proposed => tx.final.id \in meter'.had
<1>1. meter' = [meter EXCEPT !.fw = fw, !.gen = meter.gen + 1,
         !.had = IF tx.final # None /\ fw = tx.final.proposed
                 THEN meter.had \cup {tx.final.id} ELSE meter.had]
  BY DEF Reconnected
<1>2. meter = [flash |-> meter.flash, fw |-> meter.fw, gen |-> meter.gen, had |-> meter.had]
  BY DEF Shape
<1> QED BY <1>1, <1>2

LEMMA ReconnectStep ==
  ASSUME IInv, NEW fw, Reconnected(fw), UNCHANGED <<yaml, disk, task, ops, base, ran>>,
         tx' \in TxType', tx'.final = tx.final, tx'.pc = tx.pc \/ tx.pc \in Held,
         tx'.pc = "mark" => tx.pc = "mark" \/ tx.final.id \in meter'.had
  PROVE  IInv'
<1>1. /\ meter' = [flash |-> meter'.flash, fw |-> meter'.fw, gen |-> meter'.gen,
                   had |-> meter'.had]
      /\ meter'.flash = meter.flash /\ meter'.gen > meter.gen
      /\ meter.had \subseteq meter'.had /\ meter'.gen \in Nat \ {0}
  BY ReconnectFacts DEF IInv, Shape
<1>2. task' \in TaskType'
  BY DEF IInv, Shape, TaskType
<1>3. Shape'
  BY <1>1, <1>2 DEF IInv, Shape
<1>4. Updates /\ Record' = Record
  BY <1>1, <1>3, KeepsRecord DEF IInv, Shape
<1>5. OneUser' /\ HasRun'
  <2>1. tx'.pc # "none" => tx'.final # None
    BY DEF IInv, HasRun, Held
  <2> QED BY <1>1, <2>1 DEF IInv, OneUser, HasRun
<1>6. Resuming'
  <2>1. CASE task.op = "resume"
    <3>1. Record.prep.gen \in 1..meter.gen /\ meter'.gen # Record.prep.gen
      BY <1>1, <2>1 DEF IInv, Resuming, Stands, Shape
    <3>2. \A c \in Chips : Saved(c)'
      BY <1>4, <3>1 DEF Saved
    <3>3. task'.left \subseteq Chips /\ Left(Record)' \subseteq Chips
      BY <1>2 DEF TaskType, Left
    <3> QED BY <1>4, <2>1, <3>2, <3>3 DEF IInv, Resuming
  <2> QED BY <2>1 DEF Resuming
<1>7. Reviewing'
  BY <1>4 DEF IInv, Reviewing, IsSeq, ToSet
<1>8. Cycling'
  <2>1. CASE task.op = "cycle"
    <3>1. PICK r \in {task.old} : TRUE
      OBVIOUS
    <3>2. r = task.old /\ task'.old = r /\ Stands(r)
      BY <2>1, <3>1 DEF IInv, Cycling
    <3>3. Stands(r)'
      BY <1>1, <1>3, <3>2, StandsStays DEF IInv, Shape
    <3>4. Stands(task.old)'
      BY <3>2, <3>3
    <3> QED BY <1>1, <1>4, <2>1, <3>4 DEF IInv, Cycling
  <2> QED BY <2>1 DEF Cycling
<1>9. OriginalIsKept'
  BY <1>1, <1>4, UpdateKeeps DEF IInv
<1> QED BY <1>3, <1>4, <1>5, <1>6, <1>7, <1>8, <1>9 DEF IInv, Updates

-----------------------------------------------------------------------------
(* The transaction.                                                        *)

LEMMA TxFacts ==
  ASSUME Shape, NEW pc \in {"none", "preview", "recover"} \cup Held
  PROVE  /\ TxTo(pc) => tx' \in TxType' /\ tx'.pc = pc /\ tx'.final = tx.final
         /\ tx' = [tx EXCEPT !.pc = pc, !.recovered = TRUE] =>
              tx' \in TxType' /\ tx'.pc = pc /\ tx'.final = tx.final
         /\ tx' = NoTx => tx' \in TxType' /\ tx'.pc = "none"
<1>1. ASSUME TxTo(pc)
      PROVE  tx' \in TxType' /\ tx'.pc = pc /\ tx'.final = tx.final
  BY <1>1 DEF Shape, TxType, TxTo
<1>2. ASSUME tx' = [tx EXCEPT !.pc = pc, !.recovered = TRUE]
      PROVE  tx' \in TxType' /\ tx'.pc = pc /\ tx'.final = tx.final
  BY <1>2 DEF Shape, TxType
<1>3. ASSUME tx' = NoTx
      PROVE  tx' \in TxType' /\ tx'.pc = "none"
  BY <1>3 DEF TxType, NoTx
<1> QED BY <1>1, <1>2, <1>3

\* What it installs is a final YAML that was reviewed.
LEMMA TxFinal ==
  ASSUME IInv
  PROVE  tx.pc # "none" => /\ tx.final \in Finalization /\ tx.final # None
                           /\ {tx.final.src, tx.final.proposed} \subseteq Yamls
BY DEF IInv, HasRun, Shape, TxType, Finalization

LEMMA InstallStep ==
  ASSUME IInv, TxInstall, UNCHANGED <<task, session, ops, base, ran>>
  PROVE  IInv'
<1>1. /\ tx.pc \in {"written", "ota"} /\ UNCHANGED <<yaml, disk>> /\ tx.final # None
      /\ yaml' \in Yamls
  BY TxFinal DEF TxInstall, IInv, Shape
<1>2. CASE Reconnected(tx.final.proposed) /\ TxTo("mark")
  <2>1. tx' \in TxType' /\ tx'.pc = "mark" /\ tx'.final = tx.final
    BY <1>2, TxFacts DEF IInv, Held
  <2>2. PICK fw \in {tx.final.proposed} : TRUE
    OBVIOUS
  <2>3. Reconnected(fw) /\ fw = tx.final.proposed
    BY <1>2, <2>2
  <2>4. tx.final.id \in meter'.had
    <3>1. tx.final # None /\ fw = tx.final.proposed
      BY <1>1, <2>3
    <3> QED BY <2>3, <3>1, ReconnectFacts DEF IInv
  <2> QED BY <1>1, <2>1, <2>3, <2>4, ReconnectStep DEF Held
<1>3. CASE UNCHANGED meter /\ TxTo("ota")
  <2>1. tx' \in TxType' /\ tx'.pc = "ota" /\ tx'.final = tx.final
    BY <1>3, TxFacts DEF IInv, Held
  <2>2. task.op = "none"
    BY <1>1 DEF IInv, OneUser, Held
  <2> QED BY <1>1, <1>3, <2>1, <2>2, TxStep DEF HasRun
<1> QED BY <1>2, <1>3 DEF TxInstall

LEMMA MarkStep ==
  ASSUME IInv, TxMark, UNCHANGED <<task, session, ops, base, ran>>
  PROVE  IInv'
<1>1. PICK r \in {Record} : TRUE
  OBVIOUS
<1>2. PICK q \in {[r EXCEPT !.finst = TRUE]} : TRUE
  OBVIOUS
<1>3. /\ r = Record /\ q = [r EXCEPT !.finst = TRUE]
      /\ tx.pc = "mark" /\ UNCHANGED <<yaml, meter>>
      /\ \/ /\ SourceIs(tx.final.proposed, FALSE) /\ TxTo("check")
            /\ IF r.finst THEN UNCHANGED disk ELSE Put(q)
         \/ /\ SourceIs(tx.final.proposed, FALSE) /\ TxTo("mark") /\ PutFails(q)
         \/ tx' = NoTx /\ UNCHANGED disk
  BY <1>1, <1>2 DEF TxMark, MarkAt
<1>4. /\ task.op = "none" /\ tx.final.id \in meter.had /\ tx.final # None
      /\ yaml' \in Yamls
  BY <1>3 DEF IInv, OneUser, Held, HasRun, Shape
<1>5. tx' \in TxType' /\ HasRun'
  <2>1. /\ tx' \in TxType'
        /\ tx' = NoTx \/ tx'.final = tx.final
    BY <1>3, TxFacts DEF IInv, Held
  <2>2. tx' = NoTx => tx'.pc = "none"
    BY DEF NoTx
  <2> QED BY <1>3, <1>4, <2>1, <2>2 DEF HasRun
<1>6. CASE UNCHANGED disk
  BY <1>3, <1>4, <1>5, <1>6, TxStep
<1>7. CASE SourceIs(tx.final.proposed, FALSE) /\ Put(q)
  <2>1. r # None /\ r.final = tx.final /\ Stands(r)
    BY <1>3, <1>7 DEF SourceIs, Required, IInv
  <2>2. Stands(q) /\ q.obs = r.obs
    BY <1>3, <1>4, <2>1, InstalledStands
  <2>3. Stands(q)' /\ q # None /\ disk' = [disk EXCEPT !.record = q]
    BY <1>3, <1>7, <2>2, StandsSame DEF Put
  <2>4. Updates
    BY <1>3, <2>2, <2>3, PutsRecord
  <2> QED BY <1>3, <1>4, <1>5, <2>4, RecordStep
<1> QED BY <1>3, <1>6, <1>7 DEF PutFails

\* A cancellation leaves the record, or marks it.
LEMMA CancelUpdates ==
  ASSUME IInv, Record # None, PutFails(Cancelled(Record)), UNCHANGED <<meter, ops, ran>>
  PROVE  Updates
<1>1. PICK r \in {Record} : TRUE
  OBVIOUS
<1>2. PICK q \in {Cancelled(r)} : TRUE
  OBVIOUS
<1>3. r = Record /\ Stands(r) /\ q = Cancelled(r) /\ PutFails(q)
  BY <1>1, <1>2 DEF IInv
<1>4. CASE UNCHANGED disk
  BY <1>4, SameRecord
<1>5. CASE Put(q)
  <2>1. Stands(q) /\ q.obs = r.obs
    BY <1>3, CancelledStands
  <2>2. Stands(q)' /\ q # None /\ disk' = [disk EXCEPT !.record = q]
    BY <1>5, <2>1, StandsSame DEF Put
  <2> QED BY <1>3, <2>1, <2>2, PutsRecord
<1> QED BY <1>3, <1>4, <1>5 DEF PutFails

LEMMA TransactionStep ==
  ASSUME IInv, Transaction
  PROVE  IInv'
<1>1. UNCHANGED <<task, session, ops, base, ran>> /\ yaml' \in Yamls
  BY TxFinal DEF Transaction, TxWrite, TxRollback, TxInstall, TxMark, TxCheck, TxRecover,
                 TxAbandon, IInv, Shape
<1>2. CASE TxWrite \/ TxRollback \/ TxRecover \/ TxAbandon
  <2>1. UNCHANGED <<meter, disk>>
    BY <1>2 DEF TxWrite, TxRollback, TxRecover, TxAbandon
  <2>2. /\ tx' = NoTx \/ (task.op = "none" /\ (TxTo("written") \/
                          tx' = [tx EXCEPT !.pc = "ota", !.recovered = TRUE]))
    BY <1>2 DEF TxWrite, TxRollback, TxRecover, TxAbandon, LeaseFree
  <2>3. tx' \in TxType' /\ tx'.pc \in {"none", "written", "ota"}
        /\ (tx'.pc # "none" => task.op = "none" /\ tx'.final # None)
    <3>1. tx' # NoTx => tx.final # None
      BY <1>2, TxFinal DEF TxWrite, TxRollback, TxRecover, TxAbandon
    <3> QED BY <2>2, <3>1, TxFacts DEF IInv, Held, NoTx
  <2> QED BY <1>1, <2>1, <2>3, TxStep DEF HasRun, Held
<1>3. CASE TxInstall
  BY <1>1, <1>3, InstallStep
<1>4. CASE TxMark
  BY <1>1, <1>4, MarkStep
<1>5. CASE TxCheck
  <2>1. tx.pc = "check" /\ tx' = NoTx /\ UNCHANGED <<yaml, meter>>
    BY <1>5 DEF TxCheck
  <2>2. tx' \in TxType' /\ tx'.pc = "none" /\ task.op = "none"
    BY <2>1, TxFacts DEF IInv, Held, OneUser
  <2>3. CASE UNCHANGED disk
    BY <1>1, <2>1, <2>2, <2>3, TxStep DEF HasRun
  <2>4. CASE Record # None /\ PutFails(Cancelled(Record))
    BY <1>1, <2>1, <2>2, <2>4, CancelUpdates, RecordStep DEF HasRun
  <2> QED BY <1>5, <2>3, <2>4 DEF TxCheck
<1> QED BY <1>2, <1>3, <1>4, <1>5 DEF Transaction

-----------------------------------------------------------------------------
(* The reconciliation, and a new cycle.                                    *)

LEMMA ReconcileStep ==
  ASSUME IInv, Reconcile
  PROVE  IInv'
<1>1. UNCHANGED <<yaml, meter, tx, ops, base, ran>>
  BY DEF Reconcile
<1>2. CASE ReconcileStart
  <2>1. /\ task' \in TaskType' /\ task'.op = "reconcile" /\ LeaseFree /\ UNCHANGED disk
        /\ Record # None /\ Record.final # None
    BY <1>2 DEF ReconcileStart, Begin, NoTask, TaskType, Stages
  <2>2. Record' = Record /\ Updates
    BY <1>1, <2>1, SameRecord
  <2> QED BY <1>1, <2>1, <2>2, TaskStep DEF Resuming, Reviewing, Cycling
<1>3. CASE ReconcileSelect \/ ReconcileConfirm
  <2>1. PICK r \in {Record} : TRUE
    OBVIOUS
  <2>2. PICK q \in {[r EXCEPT !.selected = TRUE]} : TRUE
    OBVIOUS
  <2>3. /\ task.op = "reconcile" /\ r = Record /\ q = [r EXCEPT !.selected = TRUE]
        /\ \/ task' = NoTask /\ UNCHANGED disk
           \/ Put(q) /\ task' = [task EXCEPT !.pc = "confirm"]
           \/ task' = NoTask /\ PutFails(Cancelled(Record))
    BY <1>3, <2>1, <2>2 DEF ReconcileSelect, ReconcileConfirm, ReconcileFails, At
  <2>4. r # None /\ r.final # None /\ Stands(r)
    BY <2>3 DEF IInv, Reviewing
  <2>5. CASE task' = NoTask /\ UNCHANGED disk
    BY <1>1, <2>5, SameRecord, TaskEnds
  <2>6. CASE task' = NoTask /\ PutFails(Cancelled(Record))
    BY <1>1, <2>3, <2>4, <2>6, CancelUpdates, TaskEnds
  <2>7. CASE Put(q) /\ task' = [task EXCEPT !.pc = "confirm"]
    <3>1. Stands(q) /\ q.obs = r.obs /\ q.final = r.final
      BY <2>3, <2>4, SelectedStands
    <3>2. Stands(q)' /\ q # None /\ disk' = [disk EXCEPT !.record = q]
      BY <1>1, <2>7, <3>1, StandsSame DEF Put
    <3>3. Updates /\ Record' = q
      BY <2>3, <3>1, <3>2, PutsRecord
    <3>4. task' \in TaskType' /\ task'.op = "reconcile"
      BY <2>3, <2>7 DEF IInv, Shape, TaskType
    <3>5. Record'.final # None
      BY <2>4, <3>1, <3>3
    <3> QED BY <1>1, <2>3, <3>2, <3>3, <3>4, <3>5, TaskStep DEF Resuming, Reviewing, Cycling
  <2> QED BY <2>3, <2>5, <2>6, <2>7
<1> QED BY <1>2, <1>3 DEF Reconcile

LEMMA CycleStartStep ==
  ASSUME IInv, CycleStart, UNCHANGED <<yaml, meter, tx, ops, ran>>
  PROVE  IInv'
<1>1. PICK r \in {Record} : TRUE
  OBVIOUS
<1> DEFINE K == r.final.targets \X Stages
           seen == [k \in K |->
             Observed(k, [kind |-> "configuration", val |-> yaml.tables[k]], yaml)]
           s == SetToSeq({seen[k] : k \in K})
<1>2. /\ r = Record /\ r # None /\ r.final # None /\ LeaseFree /\ UNCHANGED <<disk, base>>
  BY <1>1 DEF CycleStart, Begin
<1>3. task' = [NoTask EXCEPT !.op = "cycle", !.pc = "archive", !.old = r,
                             !.new = NewRecord(yaml, s)]
  <2>1. {seen[k] : k \in K} =
          {Observed(k, [kind |-> "configuration", val |-> yaml.tables[k]], yaml) : k \in K}
    OBVIOUS
  <2> QED BY <1>1, <2>1 DEF CycleStart, FirstStep
<1>4. Stands(r)
  BY <1>2 DEF IInv
<1>5. IsSeq(s)
  <2>1. r.final.targets \in SUBSET Chips
    BY <1>2, <1>4 DEF Stands, Records, Finalization
  <2>2. IsFiniteSet(K)
    BY <2>1, ObservesFinite
  <2>3. seen = [k \in K |-> seen[k]]
    OBVIOUS
  <2> HIDE DEF K, seen
  <2> QED BY <2>2, <2>3, ImageSeq
<1> HIDE DEF s
<1>6. PICK t \in {s}, src \in {yaml} : TRUE
  OBVIOUS
<1>7. /\ task' \in TaskType' /\ task'.op = "cycle" /\ task'.pc = "archive"
      /\ task'.old = r /\ task'.new = NewRecord(src, t) /\ IsSeq(t)
  BY <1>3, <1>5, <1>6 DEF NoTask, TaskType, Stages
<1>8. Updates /\ Record' = Record
  BY <1>2, SameRecord
<1>9. Stands(task.old)'
  <2>1. Stands(r)'
    BY <1>4, StandsSame
  <2> QED BY <1>7, <2>1
<1>10. Cycling'
  <2>1. task'.new.orig = src /\ task'.new.obs = t
    BY <1>7 DEF NewRecord
  <2>2. (\E x \in {task.new.orig}, y \in {task.new.obs} :
           task.new = NewRecord(x, y) /\ IsSeq(y))'
    BY <1>7, <2>1
  <2> QED BY <1>2, <1>7, <1>8, <1>9, <2>2 DEF Cycling
<1> QED BY <1>2, <1>7, <1>8, <1>10, TaskStep DEF Resuming, Reviewing

\* A new cycle goes on.
LEMMA CycleGoes ==
  ASSUME IInv, task.op = "cycle", NEW p \in {"rotate", "verify"},
         task' = [task EXCEPT !.pc = p], UNCHANGED <<meter, ops, ran>>,
         p = "rotate" => Record' = task.old /\ disk'.archive = task.old,
         p = "verify" => meter'.flash = base'
  PROVE  /\ task' \in TaskType' /\ task'.op = "cycle"
         /\ Resuming' /\ Reviewing' /\ Cycling'
<1>1. /\ task' \in TaskType' /\ task'.op = "cycle" /\ task'.pc = p
      /\ task'.old = task.old /\ task'.new = task.new
  BY DEF IInv, Shape, TaskType
<1>2. PICK r \in {task.old} : TRUE
  OBVIOUS
<1>3. r = task.old /\ Stands(r) /\ r.final # None
  BY <1>2 DEF IInv, Cycling
<1>4. Stands(task.old)'
  <2>1. Stands(r)'
    BY <1>3, StandsSame
  <2> QED BY <1>1, <1>3, <2>1
<1>5. (\E src \in {task.new.orig}, s \in {task.new.obs} :
         task.new = NewRecord(src, s) /\ IsSeq(s))'
  BY <1>1 DEF IInv, Cycling
<1> QED BY <1>1, <1>3, <1>4, <1>5 DEF Resuming, Reviewing, Cycling

\* The record gives way, when the flash is as it was at the beginning of it.
LEMMA GivesWay ==
  ASSUME IInv, task.op = "cycle", NEW q, Stands(q), Put(q), base' = meter.flash,
         UNCHANGED <<yaml, meter, tx, ops, ran>>, task' \in TaskType',
         Resuming', Reviewing', Cycling'
  PROVE  IInv'
<1>1. q # None /\ disk' = [disk EXCEPT !.record = q]
  BY DEF Put
<1>2. /\ disk' = [record |-> disk'.record, archive |-> disk'.archive]
      /\ Record' = q
  BY <1>1 DEF IInv, Shape, Record
<1>3. Shape'
  BY <1>2, TxStays, ShapeStays DEF IInv, Shape
<1>4. OneUser' /\ HasRun'
  BY DEF IInv, OneUser, HasRun
<1>5. (Record # None => Stands(Record))'
  <2>1. Stands(q)'
    BY StandsSame
  <2> QED BY <1>2, <2>1
<1>6. OriginalIsKept'
  BY DEF OriginalIsKept
<1> QED BY <1>3, <1>4, <1>5, <1>6 DEF IInv

LEMMA CycleStep ==
  ASSUME IInv, Cycle
  PROVE  IInv'
<1>1. UNCHANGED <<yaml, meter, tx, ops, ran>>
  BY DEF Cycle
<1>2. CASE CycleStart
  BY <1>1, <1>2, CycleStartStep
<1>3. CASE CycleArchive
  <2>1. task.op = "cycle" /\ task.pc = "archive" /\ UNCHANGED base
    BY <1>3 DEF CycleArchive, At
  <2>2. CASE disk' = [disk EXCEPT !.archive = task.old]
    <3>1. /\ disk' = [record |-> disk'.record, archive |-> disk'.archive]
          /\ disk'.record = disk.record /\ disk'.archive = task.old
      BY <2>2 DEF IInv, Shape
    <3>2. PICK r \in {Record} : TRUE
      OBVIOUS
    <3>3. r = Record /\ r = Record' /\ r = task.old
      BY <2>1, <3>1, <3>2 DEF Record, IInv, Cycling
    <3>4. (Record # None => Stands(Record))'
      <4>1. r # None => Stands(r)
        BY <3>3 DEF IInv
      <4>2. r # None => Stands(r)'
        BY <1>1, <4>1, StandsSame
      <4> QED BY <3>3, <4>2
    <3>5. Updates
      BY <3>1, <3>3, <3>4 DEF Updates
    <3>6. CASE task' = NoTask
      BY <1>1, <2>1, <3>5, <3>6, TaskEnds
    <3>7. CASE task' = [task EXCEPT !.pc = "rotate"]
      <4>1. /\ task' \in TaskType' /\ task'.op = "cycle"
            /\ Resuming' /\ Reviewing' /\ Cycling'
        BY <1>1, <2>1, <3>1, <3>3, <3>7, CycleGoes
      <4> QED BY <1>1, <2>1, <3>5, <4>1, TaskStep
    <3> QED BY <1>3, <3>6, <3>7 DEF CycleArchive
  <2>3. CASE UNCHANGED disk /\ task' = NoTask
    BY <1>1, <2>1, <2>3, SameRecord, TaskEnds
  <2> QED BY <1>3, <2>2, <2>3 DEF CycleArchive
<1>4. CASE CycleRotate
  <2>1. task.op = "cycle" /\ task.pc = "rotate"
    BY <1>4 DEF CycleRotate, At
  <2>2. PICK q \in {task.new} : TRUE
    OBVIOUS
  <2>3. q = task.new /\ Stands(q)
    BY <2>1, <2>2, NewRecordStands DEF IInv, Cycling
  <2>4. CASE Put(q) /\ base' = meter.flash /\ task' = [task EXCEPT !.pc = "verify"]
    <3>1. task' \in TaskType' /\ Resuming' /\ Reviewing' /\ Cycling'
      BY <1>1, <2>1, <2>4, CycleGoes
    <3> QED BY <1>1, <2>1, <2>3, <2>4, <3>1, GivesWay
  <2>5. CASE Put(q) /\ base' = meter.flash /\ task' = NoTask
    BY <1>1, <2>1, <2>3, <2>5, IdleStands, GivesWay
  <2>6. CASE UNCHANGED <<disk, base>> /\ task' = NoTask
    BY <1>1, <2>6, SameRecord, TaskEnds
  <2>7. CASE UNCHANGED disk /\ base' = meter.flash /\ task' = NoTask
    <3>1. Updates
      BY <1>1, <2>7, SameRecord
    <3>2. Shape' /\ HasRun' /\ OriginalIsKept'
      BY <1>1, <2>7, <3>1, IdleStands, TxStays, ShapeStays
      DEF IInv, Updates, HasRun, OriginalIsKept, Shape
    <3> QED BY <2>7, <3>1, <3>2, IdleStands DEF IInv, Updates
  <2>8. Put(q) => disk'.record = q
    BY DEF Put, IInv, Shape
  <2> QED BY <1>4, <2>3, <2>4, <2>5, <2>6, <2>7, <2>8 DEF CycleRotate
<1>5. CASE CycleVerify
  <2>1. task.op = "cycle" /\ task.pc = "verify" /\ task' = NoTask /\ UNCHANGED base
    BY <1>5 DEF CycleVerify, At
  <2>2. PICK q \in {task.old} : TRUE
    OBVIOUS
  <2>3. q = task.old /\ Stands(q) /\ base' = meter.flash
    BY <2>1, <2>2 DEF IInv, Cycling
  <2>4. CASE Put(q)
    BY <1>1, <2>1, <2>3, <2>4, IdleStands, GivesWay
  <2>5. CASE UNCHANGED disk
    BY <1>1, <2>1, <2>5, SameRecord, TaskEnds
  <2> QED BY <1>5, <2>3, <2>4, <2>5 DEF CycleVerify
<1> QED BY <1>2, <1>3, <1>4, <1>5 DEF Cycle

-----------------------------------------------------------------------------
(* Sessions, and what others do.                                           *)

LEMMA SessionStep ==
  ASSUME IInv, Session
  PROVE  IInv'
<1>1. UNCHANGED <<yaml, meter, ops, base, ran>>
  BY DEF Session
<1>2. CASE Revoke
  <2>1. UNCHANGED <<disk, task>> /\ tx' = [tx EXCEPT !.guard = FALSE] /\ yaml' \in Yamls
    BY <1>1, <1>2 DEF Revoke, IInv, Shape
  <2>2. tx' \in TxType' /\ tx'.pc = tx.pc /\ tx'.final = tx.final
    BY <2>1 DEF IInv, Shape, TxType
  <2> QED BY <1>1, <2>1, <2>2, TxStep DEF IInv, OneUser, HasRun
<1>3. CASE CleanupCancel
  <2>1. UNCHANGED <<tx, task>> /\ task.op = "none" /\ tx' \in TxType' /\ HasRun'
    BY <1>1, <1>3, TxStays DEF CleanupCancel, IInv, HasRun
  <2>2. CASE UNCHANGED disk
    BY <1>1, <2>1, <2>2, SameRecord, RecordStep
  <2>3. CASE Record # None /\ PutFails(Cancelled(Record))
    BY <1>1, <2>1, <2>3, CancelUpdates, RecordStep
  <2> QED BY <1>3, <2>2, <2>3 DEF CleanupCancel
<1>4. CASE StartSession
  <2>1. UNCHANGED <<tx, task, disk>> /\ tx' \in TxType' /\ yaml' \in Yamls
    BY <1>1, <1>4, TxStays DEF StartSession, IInv, Shape
  <2> QED BY <1>1, <2>1, TxStep DEF IInv, OneUser, HasRun
<1>5. CASE Fail
  BY <1>1, <1>5, SameRecord, TaskEnds DEF Fail, Raise
<1> QED BY <1>2, <1>3, <1>4, <1>5 DEF Session

LEMMA CrashStep ==
  ASSUME IInv, Crash, UNCHANGED <<ops, base, ran>>
  PROVE  IInv'
<1>1. task' = NoTask /\ UNCHANGED <<yaml, meter, disk>>
  BY DEF Crash
<1>2. /\ tx' \in TxType' /\ tx'.pc \in {"none", "recover"}
      /\ tx'.pc # "none" => tx'.final # None
  <2>1. CASE tx' = NoTx
    BY <2>1, TxFacts DEF IInv, NoTx
  <2>2. CASE /\ tx.pc # "none"
             /\ tx' = [NoTx EXCEPT !.pc = "recover", !.final = tx.final]
    BY <2>2, TxFinal DEF NoTx, TxType
  <2> QED BY <2>1, <2>2 DEF Crash
<1>3. Updates
  BY <1>1, SameRecord
<1>4. Shape' /\ HasRun'
  BY <1>1, <1>2, <1>3, IdleStands, ShapeStays DEF IInv, Updates, HasRun, Shape
<1>5. OriginalIsKept'
  BY <1>1, <1>3, UpdateKeeps DEF IInv
<1> QED BY <1>1, <1>3, <1>4, <1>5, IdleStands DEF IInv, Updates

LEMMA OthersStep ==
  ASSUME IInv, Others
  PROVE  IInv'
<1>1. UNCHANGED <<ops, base, ran>>
  BY DEF Others
<1>2. CASE Crash
  BY <1>1, <1>2, CrashStep
<1>3. CASE Edit /\ UNCHANGED <<meter, disk, task, tx>>
  <2>1. tx' \in TxType' /\ yaml' \in Yamls
    BY <1>3, TxStays, RecoveryAssumption DEF IInv, Shape, Edit, Yamls, NoTables, Tables
  <2> QED BY <1>1, <1>3, <2>1, TxStep DEF IInv, OneUser, HasRun
<1>4. ASSUME NEW fw \in {yaml, meter.fw}, Reconnected(fw), UNCHANGED <<yaml, disk, task, tx>>
      PROVE  IInv'
  <2>1. tx' \in TxType'
    BY <1>4, TxStays DEF IInv
  <2> QED BY <1>1, <1>4, <2>1, ReconnectStep
<1> QED BY <1>2, <1>3, <1>4 DEF Others, Restart

-----------------------------------------------------------------------------
(* The invariant, and what follows from it.                                *)

LEMMA InitStands == Init => IInv
<1> SUFFICES ASSUME Init PROVE IInv
  OBVIOUS
<1>1. PICK flash \in Tables : meter = [flash |-> flash, fw |-> yaml, gen |-> 1, had |-> {}]
  BY DEF Init
<1>2. task \in TaskType /\ task.op = "none" /\ tx \in TxType /\ tx.pc = "none"
  BY DEF Init, NoTask, NoTx, TaskType, TxType, Stages
<1>3. /\ meter = [flash |-> meter.flash, fw |-> meter.fw, gen |-> meter.gen,
                  had |-> meter.had]
      /\ meter.flash = flash /\ meter.gen = 1
      /\ flash = [k \in Keys |-> flash[k]]
  BY <1>1 DEF Tables
<1>4. Record = None /\ disk = [record |-> disk.record, archive |-> disk.archive]
  BY DEF Init, Record
<1>5. Shape
  <2>1. yaml \in Yamls
    BY RecoveryAssumption DEF Init, Yamls, NoTables, Tables
  <2>2. ops \in 0..MaxOps /\ ran = {}
    BY RecoveryAssumption DEF Init
  <2> QED BY <1>2, <1>3, <1>4, <2>1, <2>2 DEF Shape
<1> QED BY <1>2, <1>3, <1>4, <1>5
        DEF Init, IInv, OneUser, HasRun, Resuming, Reviewing, Cycling, OriginalIsKept

LEMMA NextStands == IInv /\ [Next]_vars => IInv'
<1> SUFFICES ASSUME IInv, [Next]_vars PROVE IInv'
  OBVIOUS
<1>1. CASE UNCHANGED vars
  <2>1. UNCHANGED <<yaml, meter, disk, confirmed, task, tx, session, ops, base, ran>>
    BY <1>1 DEF vars
  <2>2. tx' \in TxType' /\ yaml' \in Yamls
    BY <2>1, TxStays DEF IInv, Shape
  <2> QED BY <2>1, <2>2, TxStep DEF IInv, OneUser, HasRun
<1>2. ASSUME NEW stage \in Stages, PrepareObserve(stage)
      PROVE  IInv'
  BY <1>2, PrepareObserveStep
<1>3. CASE PrepareBackup \/ PrepareSave
  BY <1>3, PrepareBackupStep, PrepareSaveStep
<1>4. CASE Resume \/ ResumeBackup \/ ResumeAttempt \/ ResumeClear \/ ResumeRun \/ ResumeCapture
  BY <1>4, ResumeStep, ResumeBackupStep, ResumeAttemptStep, ResumeClearStep,
     ResumeRunStep, ResumeCaptureStep
<1>5. CASE FinalObserve \/ FinalBackup \/ FinalReview
  BY <1>5, FinalObserveStep, FinalBackupStep, FinalReviewStep
<1>6. CASE Transaction \/ Reconcile \/ Cycle \/ Session \/ Others
  BY <1>6, TransactionStep, ReconcileStep, CycleStep, SessionStep, OthersStep
<1> QED BY <1>1, <1>2, <1>3, <1>4, <1>5, <1>6 DEF Next

LEMMA InvariantHolds == Spec => []IInv
BY InitStands, NextStands, PTL DEF Spec

\* The saved table that was in flash when the cycle began is on disk, once it
\* is not in flash any more (async_backup).
THEOREM OriginalsAreKept == Spec => []OriginalIsKept
<1>1. IInv => OriginalIsKept
  BY DEF IInv
<1> QED BY <1>1, InvariantHolds, PTL

\* A chip is run once under a reviewed preparation (async_begin_attempt).
THEOREM RunsAreSingle == Spec => NoRunIsRepeated
<1>1. IInv => (At("resume", "run") /\ (meter' # meter \/ task'.pc = "capture") =>
                 <<Record.prep.id, task.chip>> \notin ran)
  BY DEF IInv, Resuming, At
<1> QED BY <1>1, InvariantHolds, PTL DEF NoRunIsRepeated

\* A step that changes the record leaves the meter alone.
LEMMA OneAtATime ==
  ASSUME [Next]_vars
  PROVE  meter' = meter \/ disk' = disk
BY DEF Next, vars, PrepareObserve, PrepareBackup, PrepareSave, Resume, ResumeBackup,
       ResumeAttempt, ResumeClear, ResumeRun, ResumeCapture, FinalObserve, FinalBackup,
       FinalReview, Transaction, TxWrite, TxRollback, TxInstall, TxMark, TxCheck,
       TxRecover, TxAbandon, Reconcile, Cycle, Session, Others, Crash, Restart

\* The installed receipt is written only after the meter has run the final
\* firmware (async_mark_final_installed).
THEOREM ReceiptsAreTrue == Spec => ReceiptIsTrue
<1>1. IInv /\ [Next]_vars /\ IInv' =>
        (Record' # None /\ Record'.finst /\ ~Record.finst => Record'.final.id \in meter.had)
  <2> SUFFICES ASSUME IInv, IInv', [Next]_vars, Record' # None, Record'.finst, ~Record.finst
               PROVE  Record'.final.id \in meter.had
    OBVIOUS
  <2>1. meter' = meter
    <3>1. disk' # disk
      BY DEF Record
    <3> QED BY <3>1, OneAtATime
  <2> QED BY <2>1 DEF IInv, Stands
<1> QED BY <1>1, InvariantHolds, PTL DEF Spec, ReceiptIsTrue

-----------------------------------------------------------------------------
(* A finished operation gives way only to a new cycle.                     *)

Archives == Record # None /\ Record.selected /\ Record'.final = None => disk'.archive = Record

LEMMA KeptRecord ==
  ASSUME IInv, disk'.record = disk.record
  PROVE  Archives
BY DEF IInv, Stands, Archives, Record

LEMMA PutArchives ==
  ASSUME IInv, NEW q, Put(q) \/ UNCHANGED disk,
         Record # None /\ Record.selected => q.final # None
  PROVE  Archives
<1>1. CASE UNCHANGED disk
  BY <1>1, KeptRecord
<1>2. CASE Put(q)
  <2>1. Record' = q
    BY <1>2 DEF Put, Record, IInv, Shape
  <2> QED BY <2>1 DEF Archives
<1> QED BY <1>1, <1>2

LEMMA SelectedRecord ==
  ASSUME IInv, Record # None, Record.selected
  PROVE  Stands(Record) /\ Record.final # None
BY DEF IInv, Stands

\* A backup of a finished operation does not begin a new record.
LEMMA BackupArchives ==
  ASSUME IInv, NEW src, NEW s, IsSeq(s),
         Put(Backup(Record, src, s)) \/ UNCHANGED disk
  PROVE  Archives
<1>1. PICK b \in {Backup(Record, src, s)}, r \in {Record} : TRUE
  OBVIOUS
<1>2. b = Backup(r, src, s) /\ r = Record /\ (Put(b) \/ UNCHANGED disk)
  BY <1>1
<1>3. Put(b) => b # None
  BY DEF Put
<1>4. b # None /\ r # None /\ r.selected => b.final # None
  BY <1>2, SelectedRecord, BackupStands
<1> QED BY <1>2, <1>3, <1>4, PutArchives, KeptRecord

LEMMA PrepareArchives ==
  ASSUME IInv, PrepareBackup \/ FinalBackup \/ PrepareSave
  PROVE  Archives
<1>1. CASE PrepareBackup \/ FinalBackup
  <2>1. IsSeq(task.new)
    BY <1>1 DEF IInv, Reviewing, PrepareBackup, FinalBackup, At
  <2>2. Put(Backup(Record, task.src, task.new)) \/ UNCHANGED disk
    BY <1>1 DEF PrepareBackup, FinalBackup, PutFails
  <2> QED BY <2>1, <2>2, BackupArchives
<1>2. CASE PrepareSave
  <2>1. PICK p \in {[id |-> ops + 1, src |-> task.src, stage |-> task.stage,
                     targets |-> task.left, gen |-> meter.gen, clear |-> task.old]},
             r \in {Record} : TRUE
    OBVIOUS
  <2>2. PICK q \in {[r EXCEPT !.prep = p, !.cancelled = FALSE, !.attempted = {}]} : TRUE
    OBVIOUS
  <2>3. Put(q) \/ UNCHANGED disk
    BY <1>2, <2>1, <2>2 DEF PrepareSave, PutFails
  <2>4. Record # None /\ Record.selected => q.final # None
    BY <2>1, <2>2, SelectedRecord DEF Stands, Records
  <2> QED BY <2>3, <2>4, PutArchives
<1> QED BY <1>1, <1>2

LEMMA ResumeArchives ==
  ASSUME IInv, ResumeBackup \/ ResumeAttempt \/ ResumeCapture
  PROVE  Archives
<1>1. CASE ResumeBackup
  <2>1. PICK c \in task.left : Put(SavedFirst(Record, c)) \/ UNCHANGED disk
    BY <1>1 DEF ResumeBackup, PutFails
  <2>2. PICK s \in {<<Observed(Key(c), [kind |-> "saved", val |-> Dumped(Key(c))], yaml)>>} :
          TRUE
    OBVIOUS
  <2>3. IsSeq(s)
    BY <2>2, SingleIsSeq
  <2>4. \/ Put(Backup(Record, yaml, s)) \/ UNCHANGED disk
        \/ Put(Record)
    BY <2>1, <2>2 DEF SavedFirst
  <2>5. CASE Put(Record)
    <3>1. disk'.record = disk.record
      BY <2>5 DEF Put, Record, IInv, Shape
    <3> QED BY <3>1, KeptRecord
  <2> QED BY <2>3, <2>4, <2>5, BackupArchives
<1>2. CASE ResumeAttempt
  <2>1. PICK c \in task.left : Put(Attempted(Record, c)) \/ UNCHANGED disk
    BY <1>2 DEF ResumeAttempt, PutFails
  <2>2. PICK q \in {Attempted(Record, c)} : TRUE
    OBVIOUS
  <2>3. Record # None /\ Record.selected => q.final # None
    BY <2>2, SelectedRecord DEF Attempted, Stands, Records
  <2> QED BY <2>1, <2>2, <2>3, PutArchives
<1>3. CASE ResumeCapture
  <2>1. PICK r \in {Record}, k \in {Key(task.chip)}, v \in {task.new} : TRUE
    OBVIOUS
  <2>2. PICK q \in {[r EXCEPT !.results[k] = v]} : TRUE
    OBVIOUS
  <2>3. Put(q) \/ UNCHANGED disk
    BY <1>3, <2>1, <2>2 DEF ResumeCapture, PutFails
  <2>4. Record # None /\ Record.selected => q.final # None
    BY <2>1, <2>2, SelectedRecord DEF Stands, Records
  <2> QED BY <2>3, <2>4, PutArchives
<1> QED BY <1>1, <1>2, <1>3

LEMMA CancelArchives ==
  ASSUME IInv, PutFails(Cancelled(Record)) \/ UNCHANGED disk
  PROVE  Archives
<1>1. PICK q \in {Cancelled(Record)} : TRUE
  OBVIOUS
<1>2. Record # None /\ Record.selected => q.final # None
  BY <1>1, SelectedRecord DEF Cancelled, Stands, Records
<1> QED BY <1>1, <1>2, PutArchives DEF PutFails

\* A review replaces the final YAML by another one.
LEMMA ReviewArchives ==
  ASSUME IInv, FinalReview
  PROVE  Archives
<1>1. PICK r \in {Record} : TRUE
  OBVIOUS
<1>2. PICK f \in {[id |-> ops + 1, src |-> task.src, proposed |-> Proposed(r, task.src),
                   targets |-> Targets(r), seen |-> Len(r.obs), results |-> r.results]} : TRUE
  OBVIOUS
<1>3. PICK q \in {[r EXCEPT !.final = f, !.finst = FALSE, !.fcancel = FALSE,
                            !.selected = FALSE]} : TRUE
  OBVIOUS
<1>4. /\ task.op = "finalize"
      /\ \/ /\ \A k \in Targets(r) \X Stages : Proposed(r, task.src).tables[k] \in Values
            /\ ops < MaxOps /\ Put(q)
         \/ UNCHANGED disk
  BY <1>1, <1>2, <1>3 DEF FinalReview, At, PutFails
<1>5. r = Record /\ Stands(r)
  BY <1>1, <1>4 DEF IInv, Reviewing
<1>6. q.obs = r.obs /\ q.final = f
  BY <1>3, <1>5 DEF Stands, Records
<1>7. CASE /\ \A k \in Targets(r) \X Stages : Proposed(r, task.src).tables[k] \in Values
           /\ ops < MaxOps /\ Put(q)
  <2>1. PICK n \in 1..MaxOps : n = ops + 1
    BY <1>7, RecoveryAssumption DEF IInv, Shape
  <2>2. f = [id |-> n, src |-> task.src, proposed |-> Proposed(r, task.src),
             targets |-> Targets(r), seen |-> Len(r.obs), results |-> r.results]
    BY <1>2, <2>1
  <2>3. f # None
    BY <1>4, <1>5, <1>6, <1>7, <2>2, ReviewIsFinal
  <2> QED BY <1>6, <1>7, <2>3, PutArchives
<1> QED BY <1>4, <1>7, KeptRecord

\* The transaction marks the record it installs, and may cancel it.
LEMMA TransactionArchives ==
  ASSUME IInv, Transaction
  PROVE  Archives
<1>1. CASE TxMark
  <2>1. PICK r \in {Record} : TRUE
    OBVIOUS
  <2>2. PICK q \in {[r EXCEPT !.finst = TRUE]} : TRUE
    OBVIOUS
  <2>3. Put(q) \/ UNCHANGED disk
    BY <1>1, <2>1, <2>2 DEF TxMark, PutFails
  <2>4. Record # None /\ Record.selected => q.final # None
    BY <2>1, <2>2, SelectedRecord DEF Stands, Records
  <2> QED BY <2>3, <2>4, PutArchives
<1>2. CASE TxCheck
  BY <1>2, CancelArchives DEF TxCheck
<1>3. CASE TxWrite \/ TxRollback \/ TxInstall \/ TxRecover \/ TxAbandon
  BY <1>3, KeptRecord DEF TxWrite, TxRollback, TxInstall, TxRecover, TxAbandon
<1> QED BY <1>1, <1>2, <1>3 DEF Transaction

\* So does the reconciliation.
LEMMA ReconcileArchives ==
  ASSUME IInv, Reconcile
  PROVE  Archives
<1>1. PICK r \in {Record} : TRUE
  OBVIOUS
<1>2. PICK q \in {[r EXCEPT !.selected = TRUE]} : TRUE
  OBVIOUS
<1>3. \/ UNCHANGED disk
      \/ Put(q)
      \/ PutFails(Cancelled(Record))
  BY <1>1, <1>2 DEF Reconcile, ReconcileStart, ReconcileSelect, ReconcileConfirm, ReconcileFails
<1>4. Record # None /\ Record.selected => q.final # None
  BY <1>1, <1>2, SelectedRecord DEF Stands, Records
<1> QED BY <1>3, <1>4, PutArchives, CancelArchives

\* A new cycle replaces the record by one without a final YAML, which is
\* archived by then.
LEMMA CycleArchives ==
  ASSUME IInv, Cycle
  PROVE  Archives
<1>1. CASE CycleStart
  BY <1>1, KeptRecord DEF CycleStart
<1>2. CASE CycleArchive
  <2>1. disk'.record = disk.record
    BY <1>2 DEF CycleArchive, IInv, Shape
  <2> QED BY <2>1, KeptRecord
<1>3. CASE CycleRotate
  <2>1. /\ task.op = "cycle" /\ task.pc = "rotate"
        /\ Put(task.new) \/ UNCHANGED disk
    BY <1>3 DEF CycleRotate, At
  <2>2. disk.archive = Record
    BY <2>1 DEF IInv, Cycling
  <2>3. CASE Put(task.new)
    <3>1. disk'.archive = disk.archive
      BY <2>3 DEF Put, IInv, Shape
    <3> QED BY <2>2, <3>1 DEF Archives
  <2> QED BY <2>1, <2>3, KeptRecord
<1>4. CASE CycleVerify
  <2>1. /\ task.op = "cycle"
        /\ Put(task.old) \/ UNCHANGED disk
    BY <1>4 DEF CycleVerify, At
  <2>2. task.old.final # None
    BY <2>1 DEF IInv, Cycling
  <2> QED BY <2>1, <2>2, PutArchives
<1> QED BY <1>1, <1>2, <1>3, <1>4 DEF Cycle

LEMMA NextArchives ==
  ASSUME IInv, [Next]_vars
  PROVE  Archives
<1>1. CASE UNCHANGED vars
  BY <1>1, KeptRecord DEF vars
<1>2. ASSUME NEW stage \in Stages, PrepareObserve(stage)
      PROVE  Archives
  BY <1>2, KeptRecord DEF PrepareObserve
<1>3. CASE PrepareBackup \/ PrepareSave \/ FinalBackup
  BY <1>3, PrepareArchives
<1>4. CASE ResumeBackup \/ ResumeAttempt \/ ResumeCapture
  BY <1>4, ResumeArchives
<1>5. CASE Resume \/ ResumeClear \/ ResumeRun \/ FinalObserve
  BY <1>5, KeptRecord DEF Resume, ResumeClear, ResumeRun, FinalObserve
<1>6. CASE FinalReview \/ Transaction \/ Reconcile \/ Cycle
  BY <1>6, ReviewArchives, TransactionArchives, ReconcileArchives, CycleArchives
<1>7. CASE Session
  BY <1>7, KeptRecord, CancelArchives
     DEF Session, Revoke, CleanupCancel, StartSession, Fail, Raise
<1>8. CASE Others
  BY <1>8, KeptRecord DEF Others, Crash
<1> QED BY <1>1, <1>2, <1>3, <1>4, <1>5, <1>6, <1>7, <1>8 DEF Next

\* A finished operation gives way only to a new cycle, which has archived it
\* (async_begin_new_cycle).
THEOREM FinishedAreArchived == Spec => FinishedIsArchived
<1>1. IInv /\ [Next]_vars =>
        (Record # None /\ Record.selected /\ Record'.final = None => disk'.archive = Record)
  BY NextArchives DEF Archives
<1> QED BY <1>1, InvariantHolds, PTL DEF Spec, FinishedIsArchived

-----------------------------------------------------------------------------
(* The final YAML keeps every table: places in a sequence.                 *)

\* Every set of naturals has a least element, which is what induction over
\* the places of an observation comes to.
LEMMA LeastNatural ==
  ASSUME NEW S \in SUBSET Nat, S # {}
  PROVE  \E n \in S : \A m \in S : n <= m
<1> DEFINE R == OpToRel(<, Nat)
<1>1. IsWellFoundedOn(R, Nat)
  BY NatLessThanWellFounded
<1>2. R = {ss \in Nat \X Nat : ss[1] < ss[2]}
  BY DEF OpToRel
<1> HIDE DEF R
<1>3. PICK n \in S : \A m \in S : ~(<<m, n>> \in R)
  BY <1>1, WFMin
<1>4. ASSUME NEW m \in S PROVE n <= m
  <2>1. <<m, n>> \in Nat \X Nat /\ ~(m < n)
    BY <1>2, <1>3
  <2> QED BY <2>1
<1> QED BY <1>4

LEMMA MinPlace ==
  ASSUME NEW n \in Nat, NEW S \in SUBSET (1..n), S # {}
  PROVE  Min(S) \in S /\ \A m \in S : Min(S) <= m
<1>1. S \in SUBSET Nat
  OBVIOUS
<1>2. \E x \in S : \A y \in S : x <= y
  BY <1>1, LeastNatural
<1> QED BY <1>2 DEF Min

LEMMA MaxPlace ==
  ASSUME NEW n \in Nat, NEW S \in SUBSET (1..n), S # {}
  PROVE  Max(S) \in S /\ \A m \in S : Max(S) >= m
<1>0. \A m \in S : m \in Nat /\ n - m \in Nat
  OBVIOUS
<1> DEFINE T == {n - m : m \in S}
<1>1. T \in SUBSET Nat /\ T # {}
  BY <1>0
<1>2. PICK t \in T : \A u \in T : t <= u
  BY <1>1, LeastNatural
<1>3. PICK x \in S : t = n - x
  BY <1>2
<1>4. \A y \in S : x >= y
  <2> TAKE y \in S
  <2>1. t <= n - y
    BY <1>2
  <2>2. x \in Nat /\ y \in Nat
    BY <1>0
  <2> QED BY <1>3, <2>1, <2>2
<1>5. \E z \in S : \A y \in S : z >= y
  BY <1>4
<1> QED BY <1>5 DEF Max

\* The first and the last of some places hold observations of the record.
LEMMA PlaceHolds ==
  ASSUME NEW s, IsSeq(s), NEW S \in SUBSET DOMAIN s, S # {}
  PROVE  /\ Min(S) \in S /\ Max(S) \in S
         /\ s[Min(S)] \in ToSet(s) /\ s[Max(S)] \in ToSet(s)
<1>1. Len(s) \in Nat /\ DOMAIN s = 1..Len(s)
  BY LenProperties DEF IsSeq
<1>2. Min(S) \in S /\ Max(S) \in S
  BY <1>1, MinPlace, MaxPlace
<1> QED BY <1>2 DEF ToSet
-----------------------------------------------------------------------------
(* What a record tells of the meter.                                       *)

\* The table a chip calculates with when the firmware configures none.
Own(m, k) == IF m.flash[k] # None THEN m.flash[k] ELSE Zero

FirstDone(r) == \A c \in Chips : r.results[<<c, 1>>] # None

\* Nothing was run on stage 2 under this record.
SecondRests(r) == r.prep # None /\ r.prep.stage = 2 => ~FirstDone(r)

Sources(r) == {r.orig} \cup (IF r.prep = None THEN {} ELSE {r.prep.src})

\* A finalization configures both stages of a chip.
Paired(y) == \A c \in Chips : y.tables[<<c, 1>>] = None <=> y.tables[<<c, 2>>] = None

\* Observations O, beside the observations P: a table that is taken to be zero
\* was never configured, and a saved one is in flash, if nothing was run.
Honest(O, P, m, rests) ==
  \A o \in O :
    /\ o.kind \in Kinds
    /\ o.kind = "first" =>
         o.val = Zero /\ \A p \in P : p.key = o.key => p.kind # "configuration"
    /\ o.kind = "configuration" => \A p \in P : p.key = o.key => p.kind # "first"
    /\ o.kind = "saved" /\ rests =>
         \A c \in Chips : o.key = <<c, 2>> => o.val = m.flash[<<c, 2>>]

\* What was captured is in flash; stage 2 waits for stage 1; a preparation
\* is about all the chips that its stage still lacks.
Captured(r, m) ==
  /\ \A k \in Keys : r.results[k] # None => m.flash[k] = r.results[k] /\ r.prep # None
  /\ \A c \in Chips : r.results[<<c, 2>>] # None => FirstDone(r)
  /\ r.prep # None => \A c \in Chips \ r.prep.targets : r.results[<<c, r.prep.stage>>] # None

\* A YAML configures no table of a captured chip, or, when that was reviewed,
\* the one it has.
Plain(y, r, m) ==
  \A k \in Targets(r) \X Stages :
    y.tables[k] = None \/ (r.final # None /\ y.tables[k] = Own(m, k))

\* Observations O under the sources S tell the tables that were not run.
Tells(O, S, r, m) ==
  \A k \in Missing(r) : \E o \in O :
    /\ o.key = k /\ o.src \in S
    /\ o.kind = IF m.flash[k] # None THEN "saved" ELSE "first"

\* The reviewed YAML configures what each chip has.
Finalized(r, m) ==
  r.final # None =>
    /\ Targets(r) = Chips /\ r.final.targets = Chips
    /\ Tells(ToSet(r.obs), Sources(r), r, m)
    /\ r.final.seen = Len(r.obs)
    /\ \A k \in Keys : r.final.proposed.tables[k] = Own(m, k)
    /\ Plain(r.final.src, r, m) /\ Paired(r.final.src)

\* A table that is configured has been observed.
Observes(s, y) == \A k \in Keys : y.tables[k] # None => \E o \in ToSet(s) : o.key = k

Covers(y, r) == r.final = None => Observes(r.obs, y)

Good(r, y, m) ==
  /\ Honest(ToSet(r.obs), ToSet(r.obs), m, SecondRests(r))
  /\ Captured(r, m) /\ Plain(y, r, m) /\ Plain(m.fw, r, m)
  /\ Finalized(r, m) /\ Covers(y, r)

-----------------------------------------------------------------------------
(* The second inductive invariant.                                         *)

Knows ==
  /\ meter.gen <= MaxGeneration
  /\ Paired(yaml) /\ Paired(meter.fw)
  /\ Record = None => yaml.tables = NoTables
  /\ Record # None => Good(Record, yaml, meter)
  /\ tx.pc \in Held => Record # None /\ Record.final = tx.final

\* A run is of a table that nothing configures.
Running ==
  task.op = "resume" =>
    /\ \A c \in Chips : yaml.tables[<<c, Record.prep.stage>>] = None
    /\ Record.final = None
    /\ Record.prep.stage = 2 => FirstDone(Record)
    /\ task.left \subseteq Left(Record)
    /\ task.pc = "capture" =>
         meter.flash[Key(task.chip)] = task.new /\ meter.fw.tables[Key(task.chip)] = None

\* Observations s that the record r is going to take.
Fit(s, r, m) ==
  IF r = None THEN Honest(ToSet(s), ToSet(s), m, TRUE)
  ELSE r.final = None =>
    /\ Honest(ToSet(s), ToSet(s) \cup ToSet(r.obs), m, SecondRests(r))
    /\ Honest(ToSet(r.obs), ToSet(s), m, SecondRests(r))

Preparing ==
  task.op = "prepare" =>
    /\ task.src \in Yamls /\ task.old \in SUBSET Chips /\ task.left # {}
    /\ task.left = {c \in Chips : Record = None \/ Record.results[<<c, task.stage>>] = None}
    /\ task.pc = "backup" => Fit(task.new, Record, meter)

Finalizing ==
  task.op = "finalize" =>
    /\ Plain(task.src, Record, meter) /\ Paired(task.src) /\ Results(Record) # {}
    /\ task.pc = "backup" =>
         /\ Fit(task.new, Record, meter) /\ Record.final = None
         /\ Tells(ToSet(task.new), {task.src}, Record, meter)
    /\ task.pc = "review" => Tells(ToSet(Record.obs), Sources(Record), Record, meter)

Turning ==
  task.op = "cycle" => Good(task.old, yaml, meter) /\ Good(task.new, yaml, meter)

KInv == Knows /\ Running /\ Preparing /\ Finalizing /\ Turning
-----------------------------------------------------------------------------
(* What the helper takes a table to be is what the chip has.               *)

\* When no preparation is unfinished, only stage 2 can be missing, and
\* nothing was run on it.
LEMMA OnlySecondMissing ==
  ASSUME NEW r, Stands(r), NEW m, Captured(r, m), ~Unfinished(r), NEW k \in Missing(r)
  PROVE  /\ SecondRests(r) /\ \E c \in Chips : k = <<c, 2>>
<1>1. r.results \in Tables
  BY DEF Stands, Records
<1>2. PICK c \in Targets(r), s \in Stages : k = <<c, s>> /\ r.results[<<c, s>>] = None
  BY DEF Missing, Results, Keys, Targets
<1>3. PICK t \in Stages : c \in Chips /\ r.results[<<c, t>>] # None
  BY DEF Targets, Results, Keys
<1>4. r.prep # None
  BY <1>3 DEF Captured, Keys
<1>5. \A d \in Chips : r.results[<<d, r.prep.stage>>] # None
  BY <1>4 DEF Captured, Unfinished
<1>6. r.prep.stage \in Stages
  BY <1>4 DEF Stands
<1>7. s # 1
  <2>1. FirstDone(r)
    BY <1>3, <1>5, <1>6 DEF Captured, FirstDone, Stages
  <2> QED BY <1>2, <1>3, <2>1 DEF FirstDone
<1>8. s = 2
  BY <1>7 DEF Stages
<1>9. r.prep.stage # 2
  BY <1>2, <1>3, <1>5, <1>8
<1> QED BY <1>2, <1>3, <1>8, <1>9 DEF SecondRests

LEMMA SourcesAllowed ==
  ASSUME NEW r
  PROVE  Sources(r) \subseteq Allowed(r)
BY DEF Sources, Allowed

LEMMA KnownIsOwn ==
  ASSUME NEW r, Stands(r), NEW m, Captured(r, m), ~Unfinished(r), NEW k \in Missing(r),
         Honest(ToSet(r.obs), ToSet(r.obs), m, SecondRests(r)),
         Tells(ToSet(r.obs), Sources(r), r, m), Known(r, k) \in Values
  PROVE  Known(r, k) = Own(m, k)
<1>1. PICK c \in Chips : k = <<c, 2>> /\ SecondRests(r)
  BY OnlySecondMissing
<1>2. PICK o \in ToSet(r.obs) : /\ o.key = k /\ o.src \in Sources(r)
                                /\ o.kind = IF m.flash[k] # None THEN "saved" ELSE "first"
  BY DEF Tells
<1>3. PICK i \in DOMAIN r.obs : r.obs[i] = o
  BY <1>2 DEF ToSet
<1>4. i \in Seen(r, k)
  BY <1>2, <1>3, SourcesAllowed DEF Seen
<1>5. IsSeq(r.obs)
  BY DEF Stands
<1> DEFINE saved == OfKind(r, k, "saved")
<1>6. saved \in SUBSET DOMAIN r.obs /\ Seen(r, k) \in SUBSET DOMAIN r.obs
  BY DEF OfKind, Seen
<1>7. CASE saved # {}
  <2>1. Max(saved) \in saved /\ r.obs[Max(saved)] \in ToSet(r.obs)
    BY <1>5, <1>6, <1>7, PlaceHolds
  <2>2. r.obs[Max(saved)].key = k /\ r.obs[Max(saved)].kind = "saved"
    BY <2>1 DEF OfKind, Seen
  <2>3. r.obs[Max(saved)].val = m.flash[k]
    BY <1>1, <2>1, <2>2 DEF Honest
  <2>4. Known(r, k) = m.flash[k]
    BY <1>7, <2>3 DEF Known
  <2> QED BY <2>4, RecoveryAssumption DEF Own
<1>8. CASE saved = {}
  <2>1. r.obs[i].kind # "saved"
    BY <1>4, <1>8 DEF OfKind
  <2>2. o.kind = "first" /\ m.flash[k] = None
    BY <1>2, <1>3, <2>1
  <2> DEFINE j == Min(Seen(r, k))
  <2>3. j \in Seen(r, k) /\ r.obs[j] \in ToSet(r.obs)
    BY <1>4, <1>5, <1>6, PlaceHolds
  <2>4. r.obs[j].key = k /\ r.obs[j].kind # "saved"
    BY <1>8, <2>3 DEF OfKind, Seen
  <2>5. r.obs[j].kind = "first" /\ r.obs[j].val = Zero
    BY <1>2, <2>2, <2>3, <2>4 DEF Honest, Kinds
  <2>6. Known(r, k) = Zero
    BY <1>4, <1>8, <2>5 DEF Known
  <2> QED BY <2>2, <2>6 DEF Own
<1> QED BY <1>7, <1>8

\* The YAML that is proposed configures what each chip has.
LEMMA ProposedIsOwn ==
  ASSUME NEW r, Stands(r), NEW src \in Yamls, NEW m, Captured(r, m), ~Unfinished(r),
         Honest(ToSet(r.obs), ToSet(r.obs), m, SecondRests(r)),
         Tells(ToSet(r.obs), Sources(r), r, m),
         \A k \in Targets(r) \X Stages : Proposed(r, src).tables[k] \in Values
  PROVE  \A k \in Targets(r) \X Stages : Proposed(r, src).tables[k] = Own(m, k)
<1>1. r.results \in Tables
  BY DEF Stands, Records
<1> SUFFICES ASSUME NEW k \in Targets(r) \X Stages
             PROVE  Proposed(r, src).tables[k] = Own(m, k)
  OBVIOUS
<1>2. k \in Keys /\ k[1] \in Targets(r)
  BY DEF Keys, Targets, Results
<1>3. Proposed(r, src).tables[k] = IF r.results[k] # None THEN r.results[k] ELSE Known(r, k)
  BY <1>2 DEF Proposed, Yamls
<1>4. CASE r.results[k] # None
  <2>1. Proposed(r, src).tables[k] = m.flash[k]
    BY <1>2, <1>3, <1>4 DEF Captured
  <2>2. m.flash[k] # None
    BY <1>2, <1>4 DEF Captured
  <2> QED BY <2>1, <2>2 DEF Own
<1>5. CASE r.results[k] = None
  <2>1. k \in Missing(r)
    BY <1>2, <1>5 DEF Missing, Results
  <2>2. Known(r, k) \in Values
    BY <1>3, <1>5
  <2> QED BY <1>3, <1>5, <2>1, <2>2, KnownIsOwn
<1> QED BY <1>4, <1>5
-----------------------------------------------------------------------------
(* Records that tell the same, and meters that do.                         *)

LEMMA ConcatSet ==
  ASSUME NEW s, NEW t, IsSeq(s), IsSeq(t)
  PROVE  /\ ToSet(s \o t) = ToSet(s) \cup ToSet(t)
         /\ Len(s \o t) = Len(s) + Len(t) /\ Len(s) \in Nat /\ Len(t) \in Nat
         /\ Len(t) = 0 => ToSet(t) = {}
<1> DEFINE S == ToSet(s) \cup ToSet(t)
<1>1. s \in Seq(S) /\ t \in Seq(S)
  BY SeqMonotonic DEF IsSeq
<1>2. s \o t \in Seq(S) /\ Len(s \o t) = Len(s) + Len(t)
  <2> HIDE DEF S
  <2> QED BY <1>1, ConcatProperties
<1>3. DOMAIN (s \o t) = 1 .. Len(s \o t) /\ \A i \in 1 .. Len(s \o t) : (s \o t)[i] \in S
  <2> HIDE DEF S
  <2> QED BY <1>2, LenProperties, ElementOfSeq
<1>4. ToSet(s \o t) \subseteq S
  <2> HIDE DEF S
  <2> QED BY <1>3 DEF ToSet
<1>5. /\ Len(s) \in Nat /\ Len(t) \in Nat /\ DOMAIN t = 1 .. Len(t)
  BY LenProperties DEF IsSeq
<1>6. Len(t) = 0 => ToSet(t) = {}
  BY <1>5 DEF ToSet
<1> QED BY <1>2, <1>4, <1>5, <1>6, ConcatIsSeq

\* The record's flags do not matter.
LEMMA GoodAlike ==
  ASSUME NEW r, NEW q, NEW y, NEW m, Good(r, y, m), q.orig = r.orig,
         ToSet(q.obs) = ToSet(r.obs), Len(q.obs) = Len(r.obs),
         q.prep = r.prep, q.results = r.results, q.final = r.final
  PROVE  Good(q, y, m)
<1>1. FirstDone(q) <=> FirstDone(r)
  BY DEF FirstDone
<1>2. SecondRests(q) <=> SecondRests(r)
  BY <1>1 DEF SecondRests
<1>3. Results(q) = Results(r)
  BY DEF Results
<1>4. Targets(q) = Targets(r)
  BY <1>3 DEF Targets
<1>5. Missing(q) = Missing(r) /\ Sources(q) = Sources(r)
  BY <1>3, <1>4 DEF Missing, Sources
<1>6. Honest(ToSet(q.obs), ToSet(q.obs), m, SecondRests(q))
  BY <1>2 DEF Good, Honest
<1>7. Captured(q, m)
  BY <1>1 DEF Good, Captured
<1>8. Plain(y, q, m) /\ Plain(m.fw, q, m)
  BY <1>4 DEF Good, Plain
<1>9. Finalized(q, m)
  BY <1>4, <1>5 DEF Good, Finalized, Plain, Tells
<1>10. Covers(y, q)
  BY DEF Good, Covers, Observes
<1> QED BY <1>6, <1>7, <1>8, <1>9, <1>10 DEF Good

\* Nothing is written to flash.
LEMMA GoodMoves ==
  ASSUME NEW r, NEW y, NEW m, Good(r, y, m), NEW z, NEW n, n.flash = m.flash,
         Plain(z, r, m), Plain(n.fw, r, m), Covers(z, r)
  PROVE  Good(r, z, n)
<1>1. \A k : Own(n, k) = Own(m, k)
  BY DEF Own
<1>2. Honest(ToSet(r.obs), ToSet(r.obs), n, SecondRests(r))
  BY DEF Good, Honest
<1>3. Captured(r, n)
  BY DEF Good, Captured
<1>4. Plain(z, r, n) /\ Plain(n.fw, r, n)
  BY <1>1 DEF Plain
<1>5. Finalized(r, n)
  BY <1>1 DEF Good, Finalized, Plain, Tells
<1> QED BY <1>2, <1>3, <1>4, <1>5 DEF Good

\* A YAML whose tables were taken out, or stay, is as good.
LEMMA LessIsPlain ==
  ASSUME NEW r, NEW y, NEW z, NEW m, r.results \in Tables,
         \A k \in Keys : z.tables[k] = None \/ z.tables[k] = y.tables[k]
  PROVE  /\ Plain(y, r, m) => Plain(z, r, m)
         /\ Covers(y, r) => Covers(z, r)
<1>1. Targets(r) \X Stages \subseteq Keys
  BY DEF Targets, Results, Keys
<1> QED BY <1>1 DEF Plain, Covers, Observes

\* A record without results says nothing of flash.
LEMMA FreshGood ==
  ASSUME NEW src, NEW s, NEW y, NEW m, Honest(ToSet(s), ToSet(s), m, TRUE),
         Observes(s, y)
  PROVE  /\ Good(NewRecord(src, s), y, m) /\ NewRecord(src, s).results = NoTables
         /\ NewRecord(src, s).final = None
<1> DEFINE r == NewRecord(src, s)
<1>1. /\ r.obs = s /\ r.prep = None /\ r.final = None /\ r.results = NoTables
  BY DEF NewRecord
<1> HIDE DEF r
<1>2. \A k \in Keys : r.results[k] = None
  BY <1>1 DEF NoTables
<1>3. Results(r) = {} /\ Targets(r) = {}
  BY <1>2 DEF Results, Targets
<1>4. Honest(ToSet(r.obs), ToSet(r.obs), m, SecondRests(r))
  BY <1>1 DEF Honest
<1>5. Captured(r, m)
  BY <1>1, <1>2 DEF Captured, Keys, Stages
<1>6. Plain(y, r, m) /\ Plain(m.fw, r, m)
  BY <1>3 DEF Plain
<1>7. Finalized(r, m) /\ Covers(y, r)
  BY <1>1 DEF Finalized, Covers
<1>8. Good(r, y, m)
  BY <1>4, <1>5, <1>6, <1>7 DEF Good
<1> QED BY <1>1, <1>8 DEF r

\* Observations that fit, added to those of the record.
LEMMA HonestTogether ==
  ASSUME NEW O, NEW S, NEW m, NEW rests, Honest(O, O, m, rests),
         Honest(S, S \cup O, m, rests), Honest(O, S, m, rests)
  PROVE  Honest(O \cup S, O \cup S, m, rests)
BY DEF Honest

\* A backup adds what fits.
LEMMA BackupGood ==
  ASSUME NEW r, NEW y, NEW m, r = None => y.tables = NoTables,
         r # None => Stands(r) /\ Good(r, y, m),
         NEW src, NEW s, IsSeq(s), Fit(s, r, m),
         NEW b, b = Backup(r, src, s), b # None, Encodes(b)
  PROVE  /\ Good(b, y, m)
         /\ \A k \in Keys : b.results[k] = IF r = None THEN None ELSE r.results[k]
         /\ r # None => b.final = r.final
         /\ r # None /\ Results(r) # {} =>
              /\ b.results = r.results /\ b.prep = r.prep /\ b.orig = r.orig
              /\ src \in Sources(r)
              /\ ToSet(b.obs) = ToSet(r.obs) \cup ToSet(s)
<1>1. CASE r = None
  <2>1. b = NewRecord(src, s)
    BY <1>1 DEF Backup
  <2>2. Observes(s, y)
    BY <1>1 DEF NoTables, Observes
  <2>3. Good(b, y, m) /\ b.results = NoTables
    BY <1>1, <2>1, <2>2, FreshGood DEF Fit
  <2> QED BY <1>1, <2>3 DEF NoTables
<1>2. CASE r # None /\ src \in Sources(r)
  <2>1. b = [r EXCEPT !.obs = @ \o s]
    BY <1>2 DEF Backup, Sources
  <2>2. /\ b.obs = r.obs \o s /\ b.orig = r.orig /\ b.prep = r.prep
        /\ b.results = r.results /\ b.final = r.final
    BY <1>2, <2>1 DEF Stands, Records
  <2>3. /\ ToSet(b.obs) = ToSet(r.obs) \cup ToSet(s) /\ Len(b.obs) = Len(r.obs) + Len(s)
        /\ Len(r.obs) \in Nat /\ Len(s) \in Nat /\ (Len(s) = 0 => ToSet(s) = {})
    BY <1>2, <2>2, ConcatSet DEF Stands
  <2>4. CASE r.final # None
    <3>1. Len(b.obs) = r.final.seen /\ r.final.seen = Len(r.obs)
      BY <1>2, <2>2, <2>4 DEF Encodes, Good, Finalized
    <3>2. ToSet(b.obs) = ToSet(r.obs) /\ Len(b.obs) = Len(r.obs)
      BY <2>3, <3>1
    <3> QED BY <1>2, <2>2, <2>3, <3>2, GoodAlike
  <2>5. CASE r.final = None
    <3>1. FirstDone(b) <=> FirstDone(r)
      BY <2>2 DEF FirstDone
    <3>2. SecondRests(b) <=> SecondRests(r)
      BY <2>2, <3>1 DEF SecondRests
    <3>3. Results(b) = Results(r)
      BY <2>2 DEF Results
    <3>4. Targets(b) = Targets(r)
      BY <3>3 DEF Targets
    <3>5. Honest(ToSet(b.obs), ToSet(b.obs), m, SecondRests(r))
      BY <1>2, <2>3, <2>5, HonestTogether DEF Good, Fit
    <3>6. Honest(ToSet(b.obs), ToSet(b.obs), m, SecondRests(b))
      BY <3>2, <3>5 DEF Honest
    <3>7. Captured(b, m)
      BY <1>2, <2>2, <3>1 DEF Good, Captured
    <3>8. Plain(y, b, m) /\ Plain(m.fw, b, m)
      BY <1>2, <2>2, <3>4 DEF Good, Plain
    <3>9. Finalized(b, m) /\ Covers(y, b)
      BY <1>2, <2>2, <2>3, <2>5 DEF Good, Finalized, Covers, Observes
    <3>10. Good(b, y, m)
      BY <3>6, <3>7, <3>8, <3>9 DEF Good
    <3> QED BY <1>2, <2>2, <2>3, <3>10
  <2> QED BY <2>4, <2>5
<1>3. CASE r # None /\ src \notin Sources(r)
  <2>1. Results(r) = {} /\ r.final = None /\ b = NewRecord(src, r.obs \o s)
    BY <1>3 DEF Backup, Sources
  <2>2. ToSet(r.obs \o s) = ToSet(r.obs) \cup ToSet(s)
    BY <1>3, ConcatSet DEF Stands
  <2>3. \A k \in Keys : r.results[k] = None
    BY <2>1 DEF Results
  <2>4. Honest(ToSet(r.obs) \cup ToSet(s), ToSet(r.obs) \cup ToSet(s), m, SecondRests(r))
    BY <1>3, <2>1, HonestTogether DEF Good, Fit
  <2>5. \A c \in Chips : SecondRests(r)
    BY <2>3 DEF SecondRests, FirstDone, Keys, Stages
  <2>6. Honest(ToSet(r.obs \o s), ToSet(r.obs \o s), m, TRUE)
    BY <2>2, <2>4, <2>5 DEF Honest
  <2>7. Observes(r.obs \o s, y)
    BY <1>3, <2>1, <2>2 DEF Good, Covers, Observes
  <2>8. Good(b, y, m) /\ b.results = NoTables /\ b.final = None
    <3>1. PICK t \in {r.obs \o s} : TRUE
      OBVIOUS
    <3>2. b = NewRecord(src, t)
      BY <2>1, <3>1
    <3>3. /\ Honest(ToSet(t), ToSet(t), m, TRUE)
          /\ Observes(t, y)
      BY <2>6, <2>7, <3>1
    <3> QED BY <3>2, <3>3, FreshGood
  <2> QED BY <2>1, <2>3, <2>8 DEF NoTables
<1> QED BY <1>1, <1>2, <1>3
-----------------------------------------------------------------------------
(* What the operations hold on to.                                         *)

LEMMA SetToSeqHolds ==
  ASSUME NEW S, IsFiniteSet(S)
  PROVE  IsSeq(SetToSeq(S)) /\ ToSet(SetToSeq(S)) = S
<1> DEFINE n == Cardinality(S)
           f == SetToSeq(S)
<1>1. n \in Nat /\ ExistsBijection(1..n, S)
  BY FS_CardinalityType
<1>2. \E g \in [1..n -> S] : IsInjective(g)
  BY <1>1 DEF ExistsBijection, Bijection, Injection, IsInjective
<1>3. f \in [1..n -> S] /\ IsInjective(f)
  BY <1>2 DEF SetToSeq
<1>4. f \in Injection(1..n, S)
  BY <1>3 DEF Injection, IsInjective
<1>5. Cardinality(1..n) = n
  BY <1>1, FS_Interval
<1>6. f \in Surjection(1..n, S)
  <2> HIDE DEF f
  <2> QED BY <1>4, <1>5, FS_Injection
<1>7. \A x \in S : \E i \in 1..n : f[i] = x
  BY <1>6 DEF Surjection
<1>8. ToSet(f) = S
  <2> HIDE DEF f, n
  <2> QED BY <1>3, <1>7 DEF ToSet
<1> QED BY <1>8, SetToSeqIsSeq

LEMMA ImageHolds ==
  ASSUME NEW S, IsFiniteSet(S), NEW f, f = [k \in S |-> f[k]]
  PROVE  /\ IsSeq(SetToSeq({f[k] : k \in S}))
         /\ ToSet(SetToSeq({f[k] : k \in S})) = {f[k] : k \in S}
<1> DEFINE T == {f[k] : k \in S}
<1>1. f \in [S -> T] /\ \A t \in T : \E k \in S : f[k] = t
  OBVIOUS
<1>2. f \in Surjection(S, T)
  BY <1>1 DEF Surjection
<1>3. IsFiniteSet(T)
  BY <1>2, FS_Surjection
<1> QED BY <1>3, SetToSeqHolds

\* A step ends the operation, or has none.
LEMMA NoneRuns ==
  ASSUME task'.op = "none"
  PROVE  Running' /\ Preparing' /\ Finalizing' /\ Turning'
BY DEF Running, Preparing, Finalizing, Turning

LEMMA EndedRuns ==
  ASSUME task' = NoTask
  PROVE  Running' /\ Preparing' /\ Finalizing' /\ Turning'
BY NoneRuns DEF NoTask

LEMMA KnowsStays ==
  ASSUME Knows, UNCHANGED <<yaml, meter, disk, tx>>
  PROVE  Knows' /\ Record' = Record
<1>1. Record' = Record
  BY DEF Record
<1> QED BY <1>1 DEF Knows, Paired

LEMMA PutGives ==
  ASSUME IInv, NEW q, Put(q)
  PROVE  Record' = q /\ q # None /\ Encodes(q)
BY DEF Put, IInv, Shape, Record

LEMMA KnowsPut ==
  ASSUME IInv, Knows, UNCHANGED <<yaml, meter, tx>>, NEW q, Put(q),
         Good(q, yaml, meter), tx.pc \in Held => q.final = tx.final
  PROVE  Knows' /\ Record' = q /\ Encodes(q) /\ q # None
<1>1. Record' = q /\ Encodes(q) /\ q # None
  BY PutGives
<1> QED BY <1>1 DEF Knows, Paired

\* The record that an operation works on.
LEMMA TheRecord ==
  ASSUME IInv, Knows, Record # None
  PROVE  Stands(Record) /\ Good(Record, yaml, meter)
BY DEF IInv, Knows

LEMMA HonestLess ==
  ASSUME NEW O, NEW P, NEW Q, NEW m, NEW rests, Honest(O, P, m, rests), Q \subseteq P
  PROVE  Honest(O, Q, m, rests)
BY DEF Honest

\* The tables that are dumped, or taken from earlier observations, fit.
LEMMA CandidateFits ==
  ASSUME Knows, Record # None => Stands(Record) /\ Record.final = None,
         NEW k \in Keys, NEW c \in Candidates(Record, k, yaml)
  PROVE  /\ c.kind \in Kinds
         /\ c.kind = "first" =>
              /\ c.val = Zero
              /\ Record # None => \A p \in ToSet(Record.obs) : p.key = k => p.kind # "configuration"
         /\ c.kind = "configuration" =>
              Record # None /\ \A p \in ToSet(Record.obs) : p.key = k => p.kind # "first"
         /\ c.kind = "saved" /\ (Record # None => SecondRests(Record)) =>
              \A d \in Chips : k = <<d, 2>> => c.val = meter.flash[k]
<1> DEFINE stored == IF Record = None THEN {} ELSE Seen(Record, k)
           last == Record.obs[Max(stored)]
<1>1. CASE Dumped(k) # None
  <2>1. c = [kind |-> "saved", val |-> Dumped(k)]
    BY <1>1 DEF Candidates
  <2>2. Dumped(k) = meter.flash[k]
    BY <1>1 DEF Dumped
  <2> QED BY <2>1, <2>2 DEF Kinds
<1>2. CASE Dumped(k) = None /\ stored # {}
  <2>1. c = [kind |-> last.kind, val |-> last.val] /\ Record # None
    BY <1>2 DEF Candidates
  <2>2. stored \in SUBSET DOMAIN Record.obs /\ stored = Seen(Record, k)
    BY <2>1 DEF Seen
  <2>3. Max(stored) \in stored /\ last \in ToSet(Record.obs)
    <3> HIDE DEF stored
    <3> QED BY <1>2, <2>1, <2>2, PlaceHolds DEF Stands
  <2>4. last.key = k
    <3> HIDE DEF stored
    <3> QED BY <2>2, <2>3 DEF Seen
  <2>5. Honest(ToSet(Record.obs), ToSet(Record.obs), meter, SecondRests(Record))
    BY <2>1 DEF Knows, Good
  <2> HIDE DEF stored, last
  <2>6. c.kind = last.kind /\ c.val = last.val
    BY <2>1
  <2> QED BY <2>1, <2>3, <2>4, <2>5, <2>6 DEF Honest
<1>3. CASE Dumped(k) = None /\ stored = {}
  <2>1. /\ Record # None => \A o \in ToSet(Record.obs) : o.key # k
        /\ c = [kind |-> "first", val |-> IF yaml.tables[k] # None THEN yaml.tables[k] ELSE Zero]
    BY <1>3 DEF Candidates
  <2>2. yaml.tables[k] = None
    <3>1. CASE Record = None
      BY <3>1 DEF Knows, NoTables
    <3>2. CASE Record # None
      BY <2>1, <3>2 DEF Knows, Good, Covers, Observes
    <3> QED BY <3>1, <3>2
  <2> QED BY <2>1, <2>2 DEF Kinds
<1> QED BY <1>1, <1>2, <1>3
LEMMA BatchFits ==
  ASSUME Knows, Record # None => Stands(Record),
         NEW S \in SUBSET Keys, NEW item,
         \A k \in S : item[k] \in Candidates(Record, k, yaml),
         NEW s, ToSet(s) = {Observed(k, item[k], yaml) : k \in S}
  PROVE  Fit(s, Record, meter)
<1>1. CASE Record # None /\ Record.final # None
  BY <1>1 DEF Fit
<1>2. CASE Record # None => Record.final = None
  <2>1. \A o \in ToSet(s) : \E k \in S :
          o.key = k /\ o.kind = item[k].kind /\ o.val = item[k].val
    BY DEF Observed
  <2>2. \A k \in S :
         /\ item[k].kind \in Kinds
         /\ item[k].kind = "first" =>
              /\ item[k].val = Zero
              /\ Record # None =>
                   \A p \in ToSet(Record.obs) : p.key = k => p.kind # "configuration"
         /\ item[k].kind = "configuration" =>
              Record # None /\ \A p \in ToSet(Record.obs) : p.key = k => p.kind # "first"
         /\ item[k].kind = "saved" /\ (Record # None => SecondRests(Record)) =>
              \A d \in Chips : k = <<d, 2>> => item[k].val = meter.flash[k]
    <3> TAKE k \in S
    <3>1. PICK c \in Candidates(Record, k, yaml) : c = item[k]
      OBVIOUS
    <3>2. k \in Keys
      OBVIOUS
    <3> QED BY <1>2, <3>1, <3>2, CandidateFits
  <2>3. CASE Record = None
    BY <2>1, <2>2, <2>3 DEF Fit, Honest
  <2>4. CASE Record # None
    <3>1. Honest(ToSet(s), ToSet(s) \cup ToSet(Record.obs), meter, SecondRests(Record))
      BY <2>1, <2>2, <2>4 DEF Honest
    <3>2. Honest(ToSet(Record.obs), ToSet(Record.obs), meter, SecondRests(Record))
      BY <2>4 DEF Knows, Good
    <3>3. Honest(ToSet(Record.obs), ToSet(s), meter, SecondRests(Record))
      BY <2>1, <2>2, <2>4, <3>2 DEF Honest
    <3> QED BY <2>4, <3>1, <3>3 DEF Fit
  <2> QED BY <2>3, <2>4
<1> QED BY <1>1, <1>2

LEMMA PrepareObserveKnows ==
  ASSUME IInv, KInv, NEW stage \in Stages, PrepareObserve(stage)
  PROVE  KInv'
<1> DEFINE done == IF Record = None THEN {} ELSE Results(Record)
           targets == {c \in Chips : <<c, stage>> \notin done}
           missing == {k \in targets \X Stages : k \notin done}
           found == [k \in missing |-> Candidates(Record, k, yaml)]
           item == [k \in missing |-> CHOOSE c \in found[k] : TRUE]
           seen == [k \in missing |-> Observed(k, item[k], yaml)]
           old == {c \in targets : ~FirstUse(Record, <<c, stage>>, item[<<c, stage>>])}
           new == SetToSeq({Observed(k, item[k], yaml) : k \in missing})
<1>1. /\ task' = [NoTask EXCEPT !.op = "prepare", !.pc = "backup", !.src = yaml,
                    !.stage = stage, !.left = targets, !.old = old, !.new = new]
      /\ targets # {} /\ \A k \in missing : found[k] # {}
      /\ UNCHANGED <<yaml, meter, disk, tx>>
  BY DEF PrepareObserve
<1>2. missing \in SUBSET Keys
  BY DEF Keys
<1>3. ToSet(new) = {Observed(k, item[k], yaml) : k \in missing}
  <2>1. IsFiniteSet(missing)
    BY ObservesFinite
  <2>2. seen = [k \in missing |-> seen[k]]
    OBVIOUS
  <2>3. {seen[k] : k \in missing} = {Observed(k, item[k], yaml) : k \in missing}
    OBVIOUS
  <2> HIDE DEF missing, seen
  <2>4. ToSet(SetToSeq({seen[k] : k \in missing})) = {seen[k] : k \in missing}
    BY <2>1, <2>2, ImageHolds
  <2> QED BY <2>3, <2>4
<1>4. \A k \in missing : item[k] \in Candidates(Record, k, yaml)
  BY <1>1
<1>5. Fit(new, Record, meter)
  <2> HIDE DEF missing, item, new
  <2>1. Knows /\ (Record # None => Stands(Record))
    BY DEF KInv, IInv
  <2> QED BY <1>2, <1>3, <1>4, <2>1, BatchFits
<1>6. targets = {c \in Chips : Record = None \/ Record.results[<<c, stage>>] = None}
  BY DEF Results, Keys
<1>10. old \in SUBSET Chips /\ yaml \in Yamls
  BY DEF IInv, Shape
<1> HIDE DEF targets, old, new
<1>7. /\ task'.op = "prepare" /\ task'.src = yaml /\ task'.old = old /\ task'.pc = "backup" /\ task'.new = new
      /\ task'.left = targets /\ task'.stage = stage
  BY <1>1 DEF NoTask
<1>8. Knows' /\ Record' = Record
  BY <1>1, KnowsStays DEF KInv
<1>9. Preparing'
  BY <1>1, <1>5, <1>6, <1>7, <1>8, <1>10 DEF Preparing
<1> QED BY <1>7, <1>8, <1>9 DEF KInv, Running, Finalizing, Turning

LEMMA PrepareBackupKnows ==
  ASSUME IInv, KInv, PrepareBackup
  PROVE  KInv'
<1>1. PICK s \in {task.new} : TRUE
  OBVIOUS
<1>2. /\ s = task.new /\ IsSeq(s) /\ task.op = "prepare" /\ task.pc = "backup"
      /\ Fit(s, Record, meter)
  BY <1>1 DEF IInv, Reviewing, PrepareBackup, At, KInv, Preparing
<1>3. PICK src \in {task.src} : TRUE
  OBVIOUS
<1>4. PICK b \in {Backup(Record, src, s)} : TRUE
  OBVIOUS
<1>5. /\ UNCHANGED <<yaml, meter, tx>>
      /\ \/ Put(b) /\ task' = [task EXCEPT !.pc = "save"]
         \/ PutFails(b) /\ task' = NoTask
  BY <1>1, <1>3, <1>4 DEF PrepareBackup
<1>6. CASE UNCHANGED disk /\ task' = NoTask
  BY <1>5, <1>6, KnowsStays, EndedRuns DEF KInv
<1>7. CASE Put(b)
  <2>1. PICK r \in {Record} : TRUE
    OBVIOUS
  <2>2. /\ r = Record /\ (r = None => yaml.tables = NoTables)
        /\ (r # None => Stands(r) /\ Good(r, yaml, meter))
    BY <2>1 DEF IInv, KInv, Knows
  <2>3. PICK y \in {yaml}, m \in {meter} : TRUE
    OBVIOUS
  <2>4. Encodes(b) /\ b # None
    BY <1>7 DEF Put
  <2>5. /\ Good(b, y, m)
        /\ \A k \in Keys : b.results[k] = IF r = None THEN None ELSE r.results[k]
        /\ r # None => b.final = r.final
    BY <1>2, <1>4, <2>2, <2>3, <2>4, BackupGood
  <2>6. tx.pc \in Held => b.final = tx.final
    BY <2>2, <2>5 DEF KInv, Knows
  <2>7. Knows' /\ Record' = b /\ b # None
    BY <1>5, <1>7, <2>3, <2>5, <2>6, KnowsPut DEF KInv
  <2>8. CASE task' = NoTask
    BY <2>7, <2>8, EndedRuns DEF KInv
  <2>9. CASE task' = [task EXCEPT !.pc = "save"]
    <3>1. /\ task'.op = "prepare" /\ task'.pc = "save" /\ task'.left = task.left
          /\ task'.src = task.src /\ task'.old = task.old
          /\ task'.stage = task.stage /\ task.stage \in Stages
      BY <1>2, <2>9 DEF IInv, Shape, TaskType
    <3>2. \A c \in Chips : b.results[<<c, task.stage>>] =
                             IF r = None THEN None ELSE r.results[<<c, task.stage>>]
      BY <2>5, <3>1 DEF Keys
    <3>3. Preparing'
      BY <1>2, <2>2, <2>7, <3>1, <3>2 DEF KInv, Preparing
    <3> QED BY <2>7, <3>1, <3>3 DEF KInv, Running, Finalizing, Turning
  <2> QED BY <1>5, <2>8, <2>9
<1> QED BY <1>5, <1>6, <1>7 DEF PutFails

\* The next preparation: stage 1 is only prepared while it lacks a chip.
LEMMA PreparedGood ==
  ASSUME NEW r, Stands(r), NEW y, NEW m, Good(r, y, m), r.final = None,
         NEW p, p # None, p.stage \in Stages, p.targets # {},
         p.targets = {c \in Chips : r.results[<<c, p.stage>>] = None},
         NEW q, q = [r EXCEPT !.prep = p, !.cancelled = FALSE, !.attempted = {}]
  PROVE  Good(q, y, m) /\ q.final = None
<1>1. /\ q.orig = r.orig /\ q.obs = r.obs /\ q.prep = p /\ q.results = r.results
      /\ q.final = r.final
  BY DEF Stands, Records
<1>2. FirstDone(q) <=> FirstDone(r)
  BY <1>1 DEF FirstDone
<1>3. SecondRests(q) => SecondRests(r)
  <2>1. CASE p.stage = 2
    BY <1>1, <1>2, <2>1 DEF SecondRests
  <2>2. CASE p.stage = 1
    <3>1. ~FirstDone(r)
      BY <2>2 DEF FirstDone
    <3> QED BY <3>1 DEF SecondRests
  <2> QED BY <2>1, <2>2 DEF Stages
<1>4. Results(q) = Results(r)
  BY <1>1 DEF Results
<1>5. Targets(q) = Targets(r)
  BY <1>4 DEF Targets
<1>6. Honest(ToSet(q.obs), ToSet(q.obs), m, SecondRests(q))
  BY <1>1, <1>3 DEF Good, Honest
<1>7. Captured(q, m)
  BY <1>1, <1>2 DEF Good, Captured
<1>8. Plain(y, q, m) /\ Plain(m.fw, q, m)
  BY <1>1, <1>5 DEF Good, Plain
<1>9. Finalized(q, m) /\ Covers(y, q)
  BY <1>1 DEF Good, Finalized, Covers
<1> QED BY <1>1, <1>6, <1>7, <1>8, <1>9 DEF Good

LEMMA PrepareSaveKnows ==
  ASSUME IInv, KInv, PrepareSave
  PROVE  KInv'
<1>1. PICK r \in {Record} : TRUE
  OBVIOUS
<1>2. PICK p \in {[id |-> ops + 1, src |-> task.src, stage |-> task.stage,
                   targets |-> task.left, gen |-> meter.gen, clear |-> task.old]} : TRUE
  OBVIOUS
<1>3. p.stage = task.stage /\ p.targets = task.left
  BY <1>2
<1>4. PICK q \in {[r EXCEPT !.prep = p, !.cancelled = FALSE, !.attempted = {}]} : TRUE
  OBVIOUS
<1>5. /\ task.op = "prepare" /\ task.pc = "save" /\ task' = NoTask
      /\ UNCHANGED <<yaml, meter, tx>>
      /\ \/ /\ ops < MaxOps /\ Record.final = None /\ (Put(q) \/ PutFails(q))
         \/ UNCHANGED disk
  BY <1>1, <1>2, <1>4 DEF PrepareSave, At
<1>6. /\ r = Record /\ r # None /\ Stands(r) /\ Good(r, yaml, meter)
      /\ tx.pc \notin Held
  BY <1>1, <1>5 DEF IInv, Reviewing, OneUser, KInv, Knows
<1>7. CASE UNCHANGED disk
  BY <1>5, <1>7, KnowsStays, EndedRuns DEF KInv
<1>8. CASE ops < MaxOps /\ Record.final = None /\ Put(q)
  <2>1. p \in Preparation
    <3>1. /\ ops + 1 \in 1..MaxOps /\ meter.gen \in 1..MaxGeneration
          /\ task.src \in Yamls /\ task.left \in SUBSET Chips /\ task.old \in SUBSET Chips
          /\ task.stage \in Stages
      BY <1>5, <1>8, RecoveryAssumption DEF IInv, Shape, TaskType, KInv, Knows, Preparing
    <3> QED BY <1>2, <3>1 DEF Preparation
  <2>2. p # None /\ p.stage \in Stages
    BY <2>1, NoneIsNoReview DEF Preparation
  <2>3. p.targets # {} /\ p.targets = {c \in Chips : r.results[<<c, p.stage>>] = None}
    BY <1>3, <1>5, <1>6 DEF KInv, Preparing
  <2>4. PICK y \in {yaml}, m \in {meter} : TRUE
    OBVIOUS
  <2>5. Good(q, y, m)
    <3>1. Stands(r) /\ Good(r, y, m) /\ r.final = None
      BY <1>6, <1>8, <2>4
    <3>2. q = [r EXCEPT !.prep = p, !.cancelled = FALSE, !.attempted = {}]
      BY <1>4
    <3> QED BY <2>2, <2>3, <3>1, <3>2, PreparedGood
  <2>6. Knows'
    BY <1>5, <1>6, <1>8, <2>4, <2>5, KnowsPut DEF KInv
  <2> QED BY <1>5, <2>6, EndedRuns DEF KInv
<1> QED BY <1>5, <1>7, <1>8 DEF PutFails
-----------------------------------------------------------------------------
(* The resumed preparation.                                                *)

LEMMA ResumeKnows ==
  ASSUME IInv, KInv, Resume
  PROVE  KInv'
<1>1. /\ task' = [NoTask EXCEPT !.op = "resume", !.pc = "backup", !.left = Left(Record)]
      /\ Record # None /\ Record.prep # None /\ Record.final = None
      /\ \A c \in Chips : yaml.tables[Key(c)] = None
      /\ Record.prep.stage = 2 => \/ \A c \in Chips : Record.results[<<c, 1>>] # None
                                  \/ \A c \in Chips : yaml.tables[<<c, 1>>] # None
      /\ UNCHANGED <<yaml, meter, disk, tx>>
  BY DEF Resume, Reconciles, ActionReady
<1>2. /\ task'.op = "resume" /\ task'.pc = "backup" /\ task'.left = Left(Record)
  BY <1>1 DEF NoTask
<1>3. Knows' /\ Record' = Record
  BY <1>1, KnowsStays DEF KInv
<1>4. \A c \in Chips : yaml.tables[<<c, Record.prep.stage>>] = None
  BY <1>1 DEF Key
<1>5. Record.prep.stage = 2 => FirstDone(Record)
  <2>1. Paired(yaml)
    BY DEF KInv, Knows
  <2> QED BY <1>1, <1>4, <2>1 DEF FirstDone, Paired
<1>6. Left(Record)' = Left(Record)
  BY <1>3 DEF Left
<1>7. Running'
  BY <1>1, <1>2, <1>3, <1>4, <1>5, <1>6 DEF Running
<1> QED BY <1>2, <1>3, <1>7 DEF KInv, Preparing, Finalizing, Turning

\* The record under a resumed preparation, when a step does not capture.
LEMMA RunningStays ==
  ASSUME IInv, KInv, task.op = "resume", Knows', UNCHANGED yaml,
         NEW q, Record' = q, q.prep = Record.prep, q.results = Record.results,
         q.final = Record.final,
         task'.op = "resume", task'.pc # "capture", task'.left \subseteq Left(Record)
  PROVE  KInv'
<1>1. Left(Record)' = Left(Record)
  BY DEF Left
<1>2. FirstDone(Record)' <=> FirstDone(Record)
  BY DEF FirstDone
<1>3. Running'
  BY <1>1, <1>2 DEF KInv, Running
<1> QED BY <1>3 DEF KInv, Preparing, Finalizing, Turning

LEMMA SavedFirstGood ==
  ASSUME IInv, KInv, task.op = "resume", NEW c \in Chips,
         NEW q, q = SavedFirst(Record, c), \/ q = Record /\ UNCHANGED disk
                                           \/ q # Record /\ Put(q),
         UNCHANGED <<yaml, meter, tx>>
  PROVE  Knows' /\ Record' = q /\ q.final = Record.final
<1>1. /\ Record # None /\ Stands(Record) /\ Good(Record, yaml, meter)
      /\ Key(c) \in Keys /\ tx.pc \notin Held
  BY ResumedRecord, TheRecord DEF KInv, IInv, OneUser
<1>2. CASE q = Record /\ UNCHANGED disk
  BY <1>2, KnowsStays DEF KInv
<1>3. CASE q # Record /\ Put(q)
  <2>1. PICK o \in {Observed(Key(c), [kind |-> "saved", val |-> Dumped(Key(c))], yaml)} : TRUE
    OBVIOUS
  <2>2. PICK r \in {Record}, y \in {yaml}, m \in {meter}, s \in {<<o>>} : TRUE
    OBVIOUS
  <2>3. Dumped(Key(c)) # None /\ q = Backup(r, y, s)
    BY <1>3, <2>1, <2>2 DEF SavedFirst
  <2>4. o.key = Key(c) /\ o.kind = "saved" /\ o.val = meter.flash[Key(c)]
    BY <2>1, <2>3 DEF Observed, Dumped
  <2>5. IsSeq(s) /\ ToSet(s) = {o}
    <3>1. DOMAIN <<o>> = {1} /\ <<o>>[1] = o
      OBVIOUS
    <3> QED BY <2>2, <3>1, SingleIsSeq DEF ToSet
  <2>6. Fit(s, r, m)
    <3>1. r # None /\ Honest(ToSet(r.obs), ToSet(r.obs), m, SecondRests(r))
      BY <1>1, <2>2 DEF Good
    <3>2. Honest({o}, {o} \cup ToSet(r.obs), m, SecondRests(r))
      BY <2>2, <2>4 DEF Honest, Kinds
    <3>3. Honest(ToSet(r.obs), {o}, m, SecondRests(r))
      BY <2>4, <3>1 DEF Honest
    <3> QED BY <2>5, <3>1, <3>2, <3>3 DEF Fit
  <2>7. /\ r # None => Stands(r) /\ Good(r, y, m)
        /\ r = None => y.tables = NoTables
        /\ r # None
    BY <1>1, <2>2
  <2>8. q # None /\ Encodes(q)
    BY <1>3 DEF Put
  <2>9. Good(q, y, m) /\ q.final = r.final
    BY <2>3, <2>5, <2>6, <2>7, <2>8, BackupGood
  <2> QED BY <1>1, <1>3, <2>2, <2>9, KnowsPut DEF KInv
<1> QED BY <1>2, <1>3

LEMMA ResumeBackupKnows ==
  ASSUME IInv, KInv, ResumeBackup
  PROVE  KInv'
<1>1. PICK c \in task.left :
        LET new == SavedFirst(Record, c)
            next == task.left \ {c}
        IN \/ /\ Reconciles /\ IF new = Record THEN UNCHANGED disk ELSE Put(new)
              /\ task' = IF next # {} THEN [task EXCEPT !.left = next]
                         ELSE [task EXCEPT !.pc = "attempt", !.left = Left(Record)]
           \/ task' = NoTask /\ (IF new = Record THEN UNCHANGED disk ELSE PutFails(new))
  BY DEF ResumeBackup
<1>2. PICK q \in {SavedFirst(Record, c)} : TRUE
  OBVIOUS
<1>3. /\ q = SavedFirst(Record, c) /\ task.op = "resume" /\ task.pc = "backup"
      /\ UNCHANGED <<yaml, meter, tx, ops, base, ran>> /\ c \in Chips
      /\ task.left \subseteq Left(Record)
  BY <1>1, <1>2 DEF ResumeBackup, At, IInv, Shape, TaskType, KInv, Running
<1>4. CASE task' = NoTask /\ UNCHANGED disk
  BY <1>3, <1>4, KnowsStays, EndedRuns DEF KInv
<1>5. CASE task' = NoTask /\ IF q = Record THEN UNCHANGED disk ELSE Put(q)
  <2>1. Knows'
    BY <1>3, <1>5, SavedFirstGood
  <2> QED BY <1>5, <2>1, EndedRuns DEF KInv
<1>6. CASE /\ Reconciles /\ IF q = Record THEN UNCHANGED disk ELSE Put(q)
           /\ task' = IF task.left \ {c} # {} THEN [task EXCEPT !.left = task.left \ {c}]
                      ELSE [task EXCEPT !.pc = "attempt", !.left = Left(Record)]
  <2>1. Knows' /\ Record' = q /\ q.final = Record.final
    BY <1>3, <1>6, SavedFirstGood
  <2>2. q.prep = Record.prep /\ q.results = Record.results
    BY <1>3, <1>6, BackupSaves
  <2>3. /\ task'.op = "resume" /\ task'.pc \in {"backup", "attempt"}
        /\ task'.left \subseteq Left(Record)
    BY <1>3, <1>6 DEF IInv, Shape, TaskType
  <2> QED BY <1>3, <2>1, <2>2, <2>3, RunningStays
<1> QED BY <1>1, <1>2, <1>4, <1>5, <1>6 DEF PutFails

LEMMA ResumeAttemptKnows ==
  ASSUME IInv, KInv, ResumeAttempt
  PROVE  KInv'
<1>1. PICK c \in task.left :
        LET new == Attempted(Record, c) IN
        \/ /\ Put(new)
           /\ task' = [task EXCEPT !.chip = c,
                !.pc = IF c \in Record.prep.clear THEN "clear" ELSE "run"]
        \/ PutFails(new) /\ task' = NoTask
  BY DEF ResumeAttempt
<1>2. PICK r \in {Record}, q \in {Attempted(Record, c)} : TRUE
  OBVIOUS
<1>3. /\ r = Record /\ q = Attempted(r, c) /\ task.op = "resume" /\ task.pc = "attempt"
      /\ UNCHANGED <<yaml, meter, tx>> /\ task.left \subseteq Left(Record)
  BY <1>1, <1>2 DEF ResumeAttempt, At, KInv, Running
<1>4. r # None /\ Stands(r) /\ Good(r, yaml, meter) /\ tx.pc \notin Held
  BY <1>3, ResumedRecord, TheRecord DEF KInv, IInv, OneUser
<1>5. CASE task' = NoTask /\ UNCHANGED disk
  BY <1>3, <1>5, KnowsStays, EndedRuns DEF KInv
<1>6. CASE Put(q)
  <2>1. /\ q.orig = r.orig /\ q.obs = r.obs /\ q.prep = r.prep /\ q.results = r.results
        /\ q.final = r.final
    BY <1>3, <1>4 DEF Stands, Records, Attempted
  <2>2. PICK y \in {yaml}, m \in {meter} : TRUE
    OBVIOUS
  <2>3. Good(q, y, m)
    BY <1>4, <2>1, <2>2, GoodAlike
  <2>4. Knows' /\ Record' = q
    BY <1>3, <1>4, <1>6, <2>2, <2>3, KnowsPut DEF KInv
  <2>5. CASE task' = NoTask
    BY <2>4, <2>5, EndedRuns DEF KInv
  <2>6. CASE task' = [task EXCEPT !.chip = c,
                        !.pc = IF c \in Record.prep.clear THEN "clear" ELSE "run"]
    <3>1. /\ task'.op = "resume" /\ task'.pc # "capture" /\ task'.left = task.left
      BY <1>3, <2>6 DEF IInv, Shape, TaskType
    <3> QED BY <1>3, <2>1, <2>4, <3>1, RunningStays
  <2> QED BY <1>1, <1>2, <1>6, <2>5, <2>6
<1> QED BY <1>1, <1>2, <1>5, <1>6 DEF PutFails

\* What is cleared or run was not captured.
LEMMA RunGood ==
  ASSUME NEW r, Stands(r), NEW y, NEW m, Good(r, y, m), r.final = None, NEW k \in Keys,
         r.results[k] = None, k[2] = 2 => ~SecondRests(r),
         NEW n, n.fw = m.fw, \A j \in Keys \ {k} : n.flash[j] = m.flash[j]
  PROVE  Good(r, y, n)
<1>1. Honest(ToSet(r.obs), ToSet(r.obs), n, SecondRests(r))
  <2>1. \A c \in Chips : <<c, 2>> \in Keys /\ (<<c, 2>> = k => k[2] = 2)
    BY DEF Keys, Stages
  <2>2. Honest(ToSet(r.obs), ToSet(r.obs), m, SecondRests(r))
    BY DEF Good
  <2> QED BY <2>1, <2>2 DEF Honest
<1>2. Captured(r, n)
  BY DEF Good, Captured
<1>3. Plain(y, r, n) /\ Plain(n.fw, r, n)
  BY DEF Good, Plain
<1>4. Finalized(r, n) /\ Covers(y, r)
  BY DEF Good, Finalized
<1> QED BY <1>1, <1>2, <1>3, <1>4 DEF Good

\* The table that a step of the resumed preparation writes.
LEMMA ChipKey ==
  ASSUME IInv, KInv, task.op = "resume", task.pc \in {"clear", "run", "capture"}
  PROVE  /\ Record # None /\ Stands(Record) /\ Good(Record, yaml, meter)
         /\ Record.final = None /\ Record.prep # None
         /\ Key(task.chip) \in Keys /\ Record.results[Key(task.chip)] = None
         /\ Key(task.chip)[1] = task.chip /\ task.chip \in Chips
         /\ Key(task.chip)[2] = Record.prep.stage
         /\ Key(task.chip)[2] = 2 => FirstDone(Record) /\ ~SecondRests(Record)
         /\ yaml.tables[Key(task.chip)] = None
         /\ tx.pc \notin Held
<1>1. Record # None /\ Stands(Record) /\ Good(Record, yaml, meter) /\ tx.pc \notin Held
  BY ResumedRecord, TheRecord DEF KInv, IInv, OneUser
<1>2. /\ Record.prep # None /\ task.chip \in Chips /\ task.chip \in Left(Record)
      /\ Record.final = None
      /\ \A c \in Chips : yaml.tables[<<c, Record.prep.stage>>] = None
      /\ Record.prep.stage = 2 => FirstDone(Record)
      /\ Record.prep.stage \in Stages
  BY ResumedRecord DEF IInv, Resuming, Shape, TaskType, KInv, Running
<1>3. Key(task.chip) = <<task.chip, Record.prep.stage>>
  BY DEF Key
<1> QED BY <1>1, <1>2, <1>3 DEF Keys, Left, SecondRests

LEMMA RunKnows ==
  ASSUME IInv, KInv, task.op = "resume", task.pc \in {"clear", "run"}, NEW v,
         \/ meter' = meter
         \/ meter' = [meter EXCEPT !.flash[Key(task.chip)] = v],
         UNCHANGED <<yaml, disk, tx>>
  PROVE  Knows' /\ Record' = Record /\ meter'.fw = meter.fw
<1>1. PICK r \in {Record}, y \in {yaml}, m \in {meter}, n \in {meter'},
           k \in {Key(task.chip)} : TRUE
  OBVIOUS
<1>2. /\ r # None /\ Stands(r) /\ Good(r, y, m) /\ r.final = None
      /\ k \in Keys /\ r.results[k] = None /\ (k[2] = 2 => ~SecondRests(r))
      /\ tx.pc \notin Held
  BY <1>1, ChipKey
<1>3. /\ n.fw = m.fw /\ n.gen = m.gen
      /\ \A j \in Keys \ {k} : n.flash[j] = m.flash[j]
  <2>1. CASE meter' = meter
    BY <1>1, <2>1
  <2>2. CASE meter' = [meter EXCEPT !.flash[k] = v]
    BY <1>1, <1>2, <2>2, FlashFacts DEF IInv
  <2> QED BY <1>1, <2>1, <2>2
<1>4. Good(r, y, n)
  BY <1>2, <1>3, RunGood
<1>5. Record' = r
  BY <1>1 DEF Record
<1> QED BY <1>1, <1>2, <1>3, <1>4, <1>5 DEF KInv, Knows, Paired

LEMMA ResumeClearKnows ==
  ASSUME IInv, KInv, ResumeClear
  PROVE  KInv'
<1>1. /\ task.op = "resume" /\ task.pc = "clear" /\ UNCHANGED <<yaml, disk, tx>>
      /\ \/ meter' = meter
         \/ meter' = [meter EXCEPT !.flash[Key(task.chip)] = None]
      /\ task' = NoTask \/ task' = [task EXCEPT !.pc = "run"]
  BY DEF ResumeClear, At
<1>2. Knows' /\ Record' = Record
  BY <1>1, RunKnows
<1>3. CASE task' = NoTask
  BY <1>2, <1>3, EndedRuns DEF KInv
<1>4. CASE task' = [task EXCEPT !.pc = "run"]
  <2>1. task'.op = "resume" /\ task'.pc = "run" /\ task'.left = task.left
    BY <1>1, <1>4 DEF IInv, Shape, TaskType
  <2>2. task.left \subseteq Left(Record)
    BY <1>1 DEF KInv, Running
  <2> QED BY <1>1, <1>2, <2>1, <2>2, RunningStays
<1> QED BY <1>1, <1>3, <1>4

LEMMA ResumeRunKnows ==
  ASSUME IInv, KInv, ResumeRun
  PROVE  KInv'
<1>1. /\ task.op = "resume" /\ task.pc = "run" /\ UNCHANGED <<yaml, disk, tx>>
      /\ \/ /\ meter.fw.tables[Key(task.chip)] = None
            /\ \E v \in Values :
                 /\ meter' = [meter EXCEPT !.flash[Key(task.chip)] = v]
                 /\ task' \in {NoTask, [task EXCEPT !.pc = "capture", !.new = v]}
         \/ UNCHANGED meter /\ task' = NoTask
  BY DEF ResumeRun, At
<1>2. CASE task' = NoTask
  <2>1. Knows'
    BY <1>1, RunKnows
  <2> QED BY <1>2, <2>1, EndedRuns DEF KInv
<1>3. ASSUME NEW v \in Values, meter.fw.tables[Key(task.chip)] = None,
             meter' = [meter EXCEPT !.flash[Key(task.chip)] = v],
             task' = [task EXCEPT !.pc = "capture", !.new = v]
      PROVE  KInv'
  <2>1. Knows' /\ Record' = Record /\ meter'.fw = meter.fw
    BY <1>1, <1>3, RunKnows
  <2>2. /\ task'.op = "resume" /\ task'.pc = "capture" /\ task'.left = task.left
        /\ task'.chip = task.chip /\ task'.new = v
    BY <1>1, <1>3 DEF IInv, Shape, TaskType
  <2>3. Key(task.chip)' = Key(task.chip) /\ Left(Record)' = Left(Record)
    BY <2>1, <2>2 DEF Key, Left
  <2>4. meter'.flash[Key(task.chip)] = v
    BY <1>1, <1>3, ChipKey, FlashFacts DEF IInv
  <2>5. Running'
    BY <1>1, <1>3, <2>1, <2>2, <2>3, <2>4 DEF KInv, Running
  <2> QED BY <2>1, <2>2, <2>5 DEF KInv, Preparing, Finalizing, Turning
<1> QED BY <1>1, <1>2, <1>3

\* A result is what the run left in flash, of a chip that nothing configures.
LEMMA CaptureGood ==
  ASSUME NEW r, Stands(r), NEW y, NEW m, Good(r, y, m), r.final = None, r.prep # None,
         NEW k \in Keys, NEW v \in Values, m.flash[k] = v,
         k[2] = r.prep.stage, k[2] = 2 => FirstDone(r),
         Paired(y), Paired(m.fw), y.tables[k] = None, m.fw.tables[k] = None,
         NEW q, q = [r EXCEPT !.results[k] = v]
  PROVE  Good(q, y, m)
<1>1. /\ q.orig = r.orig /\ q.obs = r.obs /\ q.prep = r.prep /\ q.final = r.final
      /\ q.results = [r.results EXCEPT ![k] = v] /\ r.results \in Tables
  BY DEF Stands, Records
<1>2. /\ q.results[k] = v /\ v # None
      /\ \A j \in Keys \ {k} : q.results[j] = r.results[j]
  BY <1>1, RecoveryAssumption DEF Tables
<1>3. \A c \in Chips, s \in Stages : <<c, s>> \in Keys
  BY DEF Keys
<1>4. FirstDone(r) => FirstDone(q)
  BY <1>2, <1>3 DEF FirstDone, Stages
<1>5. SecondRests(q) => SecondRests(r)
  BY <1>1, <1>4 DEF SecondRests
<1>6. Honest(ToSet(q.obs), ToSet(q.obs), m, SecondRests(q))
  BY <1>1, <1>5 DEF Good, Honest
<1>7. Captured(q, m)
  <2>1. \A j \in Keys : q.results[j] # None => m.flash[j] = q.results[j] /\ q.prep # None
    BY <1>1, <1>2 DEF Good, Captured
  <2>2. \A c \in Chips : q.results[<<c, 2>>] # None => FirstDone(q)
    <3> SUFFICES ASSUME NEW c \in Chips, q.results[<<c, 2>>] # None
                 PROVE  FirstDone(q)
      OBVIOUS
    <3>1. CASE k = <<c, 2>>
      BY <1>4, <3>1
    <3>2. CASE k # <<c, 2>>
      BY <1>2, <1>3, <1>4, <3>2 DEF Good, Captured, Stages
    <3> QED BY <3>1, <3>2
  <2>3. \A c \in Chips \ q.prep.targets : q.results[<<c, q.prep.stage>>] # None
    <3>1. r.prep.stage \in Stages
      BY DEF Stands
    <3> QED BY <1>1, <1>2, <1>3, <3>1 DEF Good, Captured
  <2> QED BY <2>1, <2>2, <2>3 DEF Captured
<1>8. Targets(q) \subseteq Targets(r) \cup {k[1]}
  BY <1>2 DEF Targets, Results
<1>9. \A s \in Stages : y.tables[<<k[1], s>>] = None /\ m.fw.tables[<<k[1], s>>] = None
  BY DEF Paired, Keys, Stages
<1>10. Plain(y, q, m) /\ Plain(m.fw, q, m)
  <2> SUFFICES ASSUME NEW j \in Targets(q) \X Stages
               PROVE  y.tables[j] = None /\ m.fw.tables[j] = None
    BY DEF Plain
  <2>1. CASE j[1] = k[1]
    <3>1. j = <<k[1], j[2]>> /\ j[2] \in Stages
      BY <2>1
    <3> QED BY <1>9, <3>1
  <2>2. CASE j[1] # k[1]
    <3>1. j \in Targets(r) \X Stages
      BY <1>8, <2>2
    <3> QED BY <3>1 DEF Good, Plain
  <2> QED BY <2>1, <2>2
<1>11. Finalized(q, m) /\ Covers(y, q)
  BY <1>1 DEF Good, Finalized, Covers
<1> QED BY <1>1, <1>6, <1>7, <1>10, <1>11 DEF Good

LEMMA ResumeCaptureKnows ==
  ASSUME IInv, KInv, ResumeCapture
  PROVE  KInv'
<1>1. PICK r \in {Record}, k \in {Key(task.chip)}, v \in {task.new},
           left \in {task.left \ {task.chip}} : TRUE
  OBVIOUS
<1>2. PICK q \in {[r EXCEPT !.results[k] = v]} : TRUE
  OBVIOUS
<1>3. /\ task.op = "resume" /\ UNCHANGED <<yaml, meter, tx>> /\ task.pc = "capture"
      /\ \/ /\ Put(q)
            /\ task' = IF left = {} THEN NoTask
                       ELSE [task EXCEPT !.pc = "attempt", !.left = left, !.chip = None,
                                         !.new = None]
         \/ PutFails(q) /\ task' = NoTask
  BY <1>1, <1>2 DEF ResumeCapture, At
<1>4. CASE task' = NoTask /\ UNCHANGED disk
  BY <1>3, <1>4, KnowsStays, EndedRuns DEF KInv
<1>5. CASE Put(q)
  <2>1. /\ Stands(r) /\ Good(r, yaml, meter) /\ r.final = None /\ r.prep # None
        /\ k \in Keys /\ k[1] = task.chip /\ k[2] = r.prep.stage /\ (k[2] = 2 => FirstDone(r))
        /\ yaml.tables[k] = None /\ tx.pc \notin Held
    BY <1>1, <1>3, ChipKey
  <2>2. /\ v \in Values /\ meter.flash[k] = v /\ meter.fw.tables[k] = None
        /\ Paired(yaml) /\ Paired(meter.fw)
    BY <1>1, <1>3 DEF IInv, Resuming, KInv, Running, Knows
  <2>3. PICK y \in {yaml}, m \in {meter} : TRUE
    OBVIOUS
  <2>4. /\ Good(q, y, m) /\ q.prep = r.prep /\ q.final = None
        /\ q.results = [r.results EXCEPT ![k] = v]
    <3>1. /\ Stands(r) /\ Good(r, y, m) /\ r.final = None /\ r.prep # None
          /\ k \in Keys /\ v \in Values /\ m.flash[k] = v
          /\ k[2] = r.prep.stage /\ (k[2] = 2 => FirstDone(r))
          /\ Paired(y) /\ Paired(m.fw) /\ y.tables[k] = None /\ m.fw.tables[k] = None
          /\ q = [r EXCEPT !.results[k] = v]
      BY <1>2, <2>1, <2>2, <2>3
    <3>2. Good(q, y, m)
      BY <3>1, CaptureGood
    <3> QED BY <3>1, <3>2 DEF Stands, Records
  <2>5. Knows' /\ Record' = q
    BY <1>3, <1>5, <2>1, <2>3, <2>4, KnowsPut DEF KInv
  <2>6. CASE task' = NoTask
    BY <2>5, <2>6, EndedRuns DEF KInv
  <2>7. CASE task' = [task EXCEPT !.pc = "attempt", !.left = left, !.chip = None,
                                  !.new = None]
    <3>1. task'.op = "resume" /\ task'.pc = "attempt" /\ task'.left = left
      BY <1>3, <2>7 DEF IInv, Shape, TaskType
    <3>2. r.results \in Tables /\ r.prep.stage \in Stages
      BY <2>1 DEF Stands, Records
    <3>3. \A c \in Chips : c # task.chip =>
            q.results[<<c, r.prep.stage>>] = r.results[<<c, r.prep.stage>>]
      BY <2>1, <2>4, <3>2 DEF Tables, Keys
    <3>4. task.left \subseteq Left(r)
      BY <1>1, <1>3 DEF KInv, Running
    <3>5. left \subseteq Left(q)
      BY <1>1, <2>4, <3>3, <3>4 DEF Left
    <3>6. FirstDone(r) => FirstDone(q)
      <4>1. \A c \in Chips : <<c, 1>> \in Keys
        BY DEF Keys, Stages
      <4> QED BY <2>2, <2>4, <3>2, <4>1, RecoveryAssumption DEF FirstDone, Tables
    <3>7. /\ \A c \in Chips : yaml.tables[<<c, r.prep.stage>>] = None
          /\ r.prep.stage = 2 => FirstDone(r)
      BY <1>1, <1>3 DEF KInv, Running
    <3>8. Left(Record)' = Left(q)
      BY <2>5 DEF Left
    <3>9. Running'
      BY <1>3, <2>4, <2>5, <3>1, <3>5, <3>6, <3>7, <3>8 DEF Running
    <3> QED BY <2>5, <3>1, <3>9 DEF KInv, Preparing, Finalizing, Turning
  <2> QED BY <1>3, <1>5, <2>6, <2>7
<1> QED BY <1>3, <1>4, <1>5 DEF PutFails

-----------------------------------------------------------------------------
(* The finalization.                                                       *)

\* The stages that were not run are told by the dump, or were never saved.
LEMMA RemainingFits ==
  ASSUME Knows, Record # None, Stands(Record), Record.final = None,
         NEW k \in Missing(Record), NEW c \in Remaining(Record, k)
  PROVE  /\ c.kind = IF meter.flash[k] # None THEN "saved" ELSE "first"
         /\ c.kind = "saved" => c.val = meter.flash[k]
         /\ c.kind = "first" =>
              c.val = Zero /\ \A p \in ToSet(Record.obs) : p.key = k => p.kind # "configuration"
<1>1. Good(Record, yaml, meter)
  BY DEF Knows
<1>2. meter.fw.tables[k] = None
  BY <1>1 DEF Good, Plain, Missing
<1>3. Dumped(k) = meter.flash[k]
  BY <1>2 DEF Dumped
<1>4. CASE Dumped(k) # None
  <2>1. c = [kind |-> "saved", val |-> Dumped(k)]
    BY <1>4 DEF Remaining
  <2> QED BY <1>3, <1>4, <2>1
<1>5. CASE Dumped(k) = None
  <2> DEFINE firsts == OfKind(Record, k, "first")
             last == Record.obs[Max(firsts)]
  <2>1. firsts # {} /\ c = [kind |-> "first", val |-> last.val]
    BY <1>5 DEF Remaining
  <2>2. firsts \in SUBSET DOMAIN Record.obs
    BY DEF OfKind, Seen
  <2>3. Max(firsts) \in firsts /\ last \in ToSet(Record.obs)
    <3> HIDE DEF firsts
    <3> QED BY <2>1, <2>2, PlaceHolds DEF Stands
  <2>4. last.key = k /\ last.kind = "first"
    BY <2>3 DEF OfKind, Seen
  <2>5. Honest(ToSet(Record.obs), ToSet(Record.obs), meter, SecondRests(Record))
    BY <1>1 DEF Good
  <2> HIDE DEF firsts, last
  <2>6. c.kind = "first" /\ c.val = last.val
    BY <2>1
  <2> QED BY <1>3, <1>5, <2>3, <2>4, <2>5, <2>6 DEF Honest
<1> QED BY <1>4, <1>5

LEMMA RemainingBatchFits ==
  ASSUME Knows, Record # None, Stands(Record), Record.final = None, NEW item,
         \A k \in Missing(Record) : item[k] \in Remaining(Record, k),
         NEW s, ToSet(s) = {Observed(k, item[k], yaml) : k \in Missing(Record)}
  PROVE  Fit(s, Record, meter) /\ Tells(ToSet(s), {yaml}, Record, meter)
<1>1. \A o \in ToSet(s) : \E k \in Missing(Record) :
        o.key = k /\ o.kind = item[k].kind /\ o.val = item[k].val
  BY DEF Observed
<1>2. \A k \in Missing(Record) :
       /\ item[k].kind = IF meter.flash[k] # None THEN "saved" ELSE "first"
       /\ item[k].kind = "saved" => item[k].val = meter.flash[k]
       /\ item[k].kind = "first" =>
            /\ item[k].val = Zero
            /\ \A p \in ToSet(Record.obs) : p.key = k => p.kind # "configuration"
  <2> TAKE k \in Missing(Record)
  <2>1. PICK c \in Remaining(Record, k) : c = item[k]
    OBVIOUS
  <2> QED BY <2>1, RemainingFits
<1>3. Honest(ToSet(Record.obs), ToSet(Record.obs), meter, SecondRests(Record))
  BY DEF Knows, Good
<1>4. \A o \in ToSet(s) : o.kind \in {"saved", "first"}
  BY <1>1, <1>2
<1>5. Honest(ToSet(s), ToSet(s) \cup ToSet(Record.obs), meter, SecondRests(Record))
  BY <1>1, <1>2, <1>4 DEF Honest, Kinds
<1>6. Honest(ToSet(Record.obs), ToSet(s), meter, SecondRests(Record))
  BY <1>1, <1>2, <1>3, <1>4 DEF Honest
<1>7. Tells(ToSet(s), {yaml}, Record, meter)
  <2> SUFFICES ASSUME NEW k \in Missing(Record)
               PROVE  \E o \in ToSet(s) :
                        /\ o.key = k /\ o.src \in {yaml}
                        /\ o.kind = IF meter.flash[k] # None THEN "saved" ELSE "first"
    BY DEF Tells
  <2>1. Observed(k, item[k], yaml) \in ToSet(s)
    OBVIOUS
  <2> QED BY <1>2, <2>1 DEF Observed
<1> QED BY <1>5, <1>6, <1>7 DEF Fit

LEMMA FinalObserveKnows ==
  ASSUME IInv, KInv, FinalObserve
  PROVE  KInv'
<1> DEFINE missing == Missing(Record)
           found == [k \in missing |-> Remaining(Record, k)]
           item == [k \in missing |-> CHOOSE c \in found[k] : TRUE]
           seen == [k \in missing |-> Observed(k, item[k], yaml)]
           new == IF Record.final # None THEN <<>>
                  ELSE SetToSeq({Observed(k, CHOOSE c \in found[k] : TRUE, yaml) :
                                 k \in missing})
           pc == IF Record.final = None /\ missing # {} THEN "backup" ELSE "review"
<1>1. /\ task' = [NoTask EXCEPT !.op = "finalize", !.src = yaml, !.pc = pc, !.new = new]
      /\ Record # None /\ Results(Record) # {}
      /\ Record.final = None => \A k \in missing : found[k] # {}
      /\ UNCHANGED <<yaml, meter, disk, tx>>
  BY DEF FinalObserve
<1>2. Stands(Record) /\ Good(Record, yaml, meter)
  BY <1>1, TheRecord DEF KInv
<1>3. ASSUME Record.final = None
      PROVE  Fit(new, Record, meter) /\ Tells(ToSet(new), {yaml}, Record, meter)
  <2>1. missing \in SUBSET (Chips \X Stages)
    BY DEF Missing, Targets, Results, Keys
  <2>2. IsFiniteSet(missing)
    BY <2>1, ObservesFinite
  <2>3. seen = [k \in missing |-> seen[k]]
    OBVIOUS
  <2>4. /\ {seen[k] : k \in missing} = {Observed(k, item[k], yaml) : k \in missing}
        /\ {seen[k] : k \in missing} =
             {Observed(k, CHOOSE c \in found[k] : TRUE, yaml) : k \in missing}
    OBVIOUS
  <2>5. \A k \in missing : item[k] \in Remaining(Record, k)
    BY <1>1, <1>3
  <2>6. new = SetToSeq({seen[k] : k \in missing})
    BY <1>3, <2>4
  <2>7. ToSet(new) = {Observed(k, item[k], yaml) : k \in missing}
    <3> HIDE DEF missing, seen, new
    <3>1. ToSet(SetToSeq({seen[k] : k \in missing})) = {seen[k] : k \in missing}
      BY <2>2, <2>3, ImageHolds
    <3> QED BY <2>4, <2>6, <3>1
  <2> HIDE DEF item, new
  <2> QED BY <1>1, <1>2, <1>3, <2>5, <2>7, RemainingBatchFits DEF KInv
<1>4. Record.final # None \/ missing = {} => Tells(ToSet(Record.obs), Sources(Record), Record, meter)
  BY <1>2 DEF Good, Finalized, Tells
<1>5. /\ pc = "backup" => Record.final = None
      /\ pc = "review" => Record.final # None \/ missing = {}
      /\ pc \in {"backup", "review"}
  OBVIOUS
<1> HIDE DEF missing, new, pc
<1>6. task'.op = "finalize" /\ task'.pc = pc /\ task'.src = yaml /\ task'.new = new
  BY <1>1 DEF NoTask
<1>7. Knows' /\ Record' = Record
  BY <1>1, KnowsStays DEF KInv
<1>8. Plain(yaml, Record, meter) /\ Paired(yaml)
  BY <1>1, <1>2 DEF Good, KInv, Knows
<1>9. Finalizing'
  <2>1. PICK r \in {Record}, y \in {yaml}, m \in {meter}, s \in {new} : TRUE
    OBVIOUS
  <2>2. /\ task'.src = y /\ task'.new = s /\ Record' = r /\ meter' = m
        /\ Plain(y, r, m) /\ Paired(y) /\ Results(r) # {}
        /\ pc = "backup" => Fit(s, r, m) /\ r.final = None /\ Tells(ToSet(s), {y}, r, m)
        /\ pc = "review" => Tells(ToSet(r.obs), Sources(r), r, m)
    BY <1>1, <1>3, <1>4, <1>5, <1>6, <1>7, <1>8, <2>1
  <2> QED BY <1>6, <2>2 DEF Finalizing
<1> QED BY <1>6, <1>7, <1>9 DEF KInv, Running, Preparing, Turning

LEMMA FinalBackupKnows ==
  ASSUME IInv, KInv, FinalBackup
  PROVE  KInv'
<1>1. PICK s \in {task.new}, src \in {task.src}, r \in {Record}, y \in {yaml}, m \in {meter} :
        TRUE
  OBVIOUS
<1>2. PICK b \in {Backup(r, src, s)} : TRUE
  OBVIOUS
<1>3. /\ task.op = "finalize" /\ task.pc = "backup" /\ UNCHANGED <<yaml, meter, tx>>
      /\ \/ Put(b) /\ task' = [task EXCEPT !.pc = "review", !.new = <<>>]
         \/ PutFails(b) /\ task' = NoTask
  BY <1>1, <1>2 DEF FinalBackup, At
<1>4. /\ r = Record /\ r # None /\ Stands(r) /\ Good(r, y, m) /\ tx.pc \notin Held
  BY <1>1, <1>3, TheRecord DEF IInv, Reviewing, OneUser, KInv
<1>5. /\ IsSeq(s) /\ Fit(s, r, m) /\ r.final = None /\ Results(r) # {}
      /\ Tells(ToSet(s), {src}, r, m) /\ Plain(src, r, m) /\ Paired(src)
  BY <1>1, <1>3 DEF IInv, Reviewing, KInv, Finalizing
<1>6. CASE UNCHANGED disk /\ task' = NoTask
  BY <1>3, <1>6, KnowsStays, EndedRuns DEF KInv
<1>7. CASE Put(b)
  <2>1. b = Backup(r, src, s) /\ b # None /\ Encodes(b)
    BY <1>2, <1>7 DEF Put
  <2>2. (r = None => y.tables = NoTables) /\ (r # None => Stands(r) /\ Good(r, y, m))
    BY <1>4
  <2>3. /\ Good(b, y, m) /\ b.final = r.final /\ b.results = r.results /\ b.prep = r.prep
        /\ b.orig = r.orig /\ src \in Sources(r)
        /\ ToSet(b.obs) = ToSet(r.obs) \cup ToSet(s)
    BY <1>4, <1>5, <2>1, <2>2, BackupGood
  <2>4. Knows' /\ Record' = b
    BY <1>1, <1>3, <1>4, <1>7, <2>3, KnowsPut DEF KInv
  <2>5. CASE task' = NoTask
    BY <2>4, <2>5, EndedRuns DEF KInv
  <2>6. CASE task' = [task EXCEPT !.pc = "review", !.new = <<>>]
    <3>1. task'.op = "finalize" /\ task'.pc = "review" /\ task'.src = src
      BY <1>1, <1>3, <2>6 DEF IInv, Shape, TaskType
    <3>2. Results(b) = Results(r)
      BY <2>3 DEF Results
    <3>3. Targets(b) = Targets(r)
      BY <3>2 DEF Targets
    <3>4. Missing(b) = Missing(r) /\ Sources(b) = Sources(r)
      BY <2>3, <3>2, <3>3 DEF Missing, Sources
    <3>5. Tells(ToSet(b.obs), Sources(b), b, m)
      BY <1>5, <2>3, <3>4 DEF Tells
    <3>6. Plain(src, b, m)
      BY <1>5, <2>3, <3>3 DEF Plain
    <3>7. Results(b) # {} /\ meter' = m
      BY <1>1, <1>3, <1>5, <3>2
    <3>8. Finalizing'
      BY <1>5, <2>4, <3>1, <3>5, <3>6, <3>7 DEF Finalizing
    <3> QED BY <2>4, <3>1, <3>8 DEF KInv, Running, Preparing, Turning
  <2> QED BY <1>3, <2>5, <2>6
<1> QED BY <1>3, <1>6, <1>7 DEF PutFails

LEMMA ReviewGood ==
  ASSUME NEW r, Stands(r), NEW y, NEW m, Good(r, y, m), NEW src \in Yamls,
         Results(r) # {}, ~Unfinished(r), Plain(src, r, m), Paired(src),
         Tells(ToSet(r.obs), Sources(r), r, m),
         \A k \in Targets(r) \X Stages : Proposed(r, src).tables[k] \in Values,
         NEW f, f # None, f.src = src, f.targets = Targets(r), f.seen = Len(r.obs),
         f.proposed = Proposed(r, src),
         NEW q, q = [r EXCEPT !.final = f, !.finst = FALSE, !.fcancel = FALSE,
                              !.selected = FALSE]
  PROVE  Good(q, y, m)
<1>1. /\ q.orig = r.orig /\ q.obs = r.obs /\ q.prep = r.prep /\ q.results = r.results
      /\ q.final = f
  BY DEF Stands, Records
<1>2. FirstDone(q) <=> FirstDone(r)
  BY <1>1 DEF FirstDone
<1>3. SecondRests(q) <=> SecondRests(r)
  BY <1>1, <1>2 DEF SecondRests
<1>4. Results(q) = Results(r)
  BY <1>1 DEF Results
<1>5. Targets(q) = Targets(r)
  BY <1>4 DEF Targets
<1>6. Missing(q) = Missing(r) /\ Sources(q) = Sources(r)
  BY <1>1, <1>4, <1>5 DEF Missing, Sources
<1>7. Honest(ToSet(r.obs), ToSet(r.obs), m, SecondRests(r)) /\ Captured(r, m)
  BY DEF Good
<1>8. Honest(ToSet(q.obs), ToSet(q.obs), m, SecondRests(q))
  BY <1>1, <1>3, <1>7 DEF Honest
<1>9. Captured(q, m)
  BY <1>1, <1>2, <1>7 DEF Captured
<1>10. Plain(y, q, m) /\ Plain(m.fw, q, m) /\ Plain(src, q, m)
  BY <1>1, <1>5 DEF Good, Plain
<1>11. Targets(r) = Chips
  <2>1. r.prep # None
    BY <1>7 DEF Captured, Results
  <2>2. \A c \in Chips : r.results[<<c, r.prep.stage>>] # None
    BY <1>7, <2>1 DEF Captured, Unfinished
  <2>3. \A c \in Chips : <<c, r.prep.stage>> \in Results(r)
    BY <2>1, <2>2 DEF Results, Keys, Stands
  <2>4. Chips \subseteq Targets(r)
    <3> SUFFICES ASSUME NEW c \in Chips
                 PROVE  c \in Targets(r)
      OBVIOUS
    <3>1. PICK k \in Results(r) : k[1] = c
      BY <2>3
    <3> QED BY <3>1 DEF Targets
  <2> QED BY <2>4 DEF Targets, Results, Keys
<1>12. \A k \in Keys : f.proposed.tables[k] = Own(m, k)
  <2>1. Keys = Targets(r) \X Stages
    BY <1>11 DEF Keys
  <2> QED BY <1>7, <2>1, ProposedIsOwn
<1>13. Tells(ToSet(q.obs), Sources(q), q, m)
  BY <1>1, <1>6 DEF Tells
<1>14. Finalized(q, m)
  BY <1>1, <1>5, <1>10, <1>11, <1>12, <1>13 DEF Finalized
<1>15. Covers(y, q)
  BY <1>1 DEF Covers
<1> QED BY <1>8, <1>9, <1>10, <1>14, <1>15 DEF Good

LEMMA KnowsPutFree ==
  ASSUME IInv, Knows, UNCHANGED <<yaml, meter>>, NEW q, Put(q),
         Good(q, yaml, meter), tx'.pc \notin Held
  PROVE  Knows'
<1>1. Record' = q /\ q # None
  BY PutGives
<1> QED BY <1>1 DEF Knows, Paired

LEMMA FinalReviewKnows ==
  ASSUME IInv, KInv, FinalReview
  PROVE  KInv'
<1>1. PICK r \in {Record}, src \in {task.src} : TRUE
  OBVIOUS
<1>2. PICK f \in {[id |-> ops + 1, src |-> src, proposed |-> Proposed(r, src),
                   targets |-> Targets(r), seen |-> Len(r.obs), results |-> r.results]} : TRUE
  OBVIOUS
<1>3. PICK q \in {[r EXCEPT !.final = f, !.finst = FALSE, !.fcancel = FALSE,
                            !.selected = FALSE]} : TRUE
  OBVIOUS
<1>4. /\ task.op = "finalize" /\ task.pc = "review" /\ task' = NoTask
      /\ UNCHANGED <<yaml, meter>>
      /\ \/ /\ ops < MaxOps /\ ~Unfinished(r)
            /\ \A k \in Targets(r) \X Stages : Proposed(r, src).tables[k] \in Values
            /\ \/ /\ Put(q)
                  /\ \/ tx' = tx
                     \/ tx' = [NoTx EXCEPT !.pc = "preview", !.final = f, !.guard = TRUE]
               \/ PutFails(q) /\ UNCHANGED tx
         \/ UNCHANGED <<disk, tx>>
  BY <1>1, <1>2, <1>3 DEF FinalReview, At
<1>5. CASE UNCHANGED <<disk, tx>>
  BY <1>4, <1>5, KnowsStays, EndedRuns DEF KInv
<1>6. CASE /\ ops < MaxOps /\ ~Unfinished(r) /\ Put(q)
           /\ \A k \in Targets(r) \X Stages : Proposed(r, src).tables[k] \in Values
           /\ \/ tx' = tx
              \/ tx' = [NoTx EXCEPT !.pc = "preview", !.final = f, !.guard = TRUE]
  <2>1. PICK y \in {yaml}, m \in {meter} : TRUE
    OBVIOUS
  <2>2. /\ r = Record /\ r # None /\ Stands(r) /\ Good(r, y, m) /\ tx.pc \notin Held
    BY <1>1, <1>4, <2>1, TheRecord DEF IInv, Reviewing, OneUser, KInv
  <2>3. /\ Plain(src, r, m) /\ Paired(src) /\ Results(r) # {} /\ src \in Yamls
        /\ Tells(ToSet(r.obs), Sources(r), r, m)
    BY <1>1, <1>4, <2>1 DEF IInv, Reviewing, KInv, Finalizing
  <2>4. f # None
    <3>1. PICK n \in 1..MaxOps : n = ops + 1
      BY <1>6, RecoveryAssumption DEF IInv, Shape
    <3>2. f = [id |-> n, src |-> task.src, proposed |-> Proposed(r, task.src),
               targets |-> Targets(r), seen |-> Len(r.obs), results |-> r.results]
      BY <1>1, <1>2, <3>1
    <3>3. q.obs = r.obs
      BY <1>3, <2>2 DEF Stands, Records
    <3>4. \A k \in Targets(r) \X Stages : Proposed(r, task.src).tables[k] \in Values
      BY <1>1, <1>6
    <3> QED BY <1>4, <1>6, <2>2, <3>2, <3>3, <3>4, ReviewIsFinal
  <2>5. /\ f.src = src /\ f.targets = Targets(r) /\ f.seen = Len(r.obs)
        /\ f.proposed = Proposed(r, src)
    BY <1>2
  <2>6. Good(q, y, m)
    <3>1. q = [r EXCEPT !.final = f, !.finst = FALSE, !.fcancel = FALSE,
                        !.selected = FALSE]
      BY <1>3
    <3> QED BY <1>6, <2>2, <2>3, <2>4, <2>5, <3>1, ReviewGood
  <2>7. tx'.pc \notin Held
    BY <1>6, <2>2 DEF NoTx, Held
  <2>8. Knows'
    BY <1>4, <1>6, <2>1, <2>6, <2>7, KnowsPutFree DEF KInv
  <2> QED BY <1>4, <2>8, EndedRuns DEF KInv
<1> QED BY <1>4, <1>5, <1>6 DEF PutFails

-----------------------------------------------------------------------------
(* The transaction.                                                        *)

LEMMA SameKnows ==
  ASSUME Knows, UNCHANGED <<yaml, meter>>, Record' = Record,
         tx'.pc \in Held => Record # None /\ Record.final = tx'.final
  PROVE  Knows'
BY DEF Knows, Paired

\* Only the transaction changes.
LEMMA TxKnows ==
  ASSUME KInv, UNCHANGED <<yaml, meter, disk, task>>,
         tx'.pc \in Held => Record # None /\ Record.final = tx'.final
  PROVE  KInv'
<1>1. Record' = Record
  BY DEF Record
<1>2. Knows'
  BY <1>1, SameKnows DEF KInv
<1>3. Running'
  BY <1>1 DEF KInv, Running, FirstDone, Left, Key
<1>4. Preparing' /\ Finalizing' /\ Turning'
  BY <1>1 DEF KInv, Preparing, Finalizing, Turning, Paired
<1> QED BY <1>2, <1>3, <1>4 DEF KInv

\* A flag of the record changes.
LEMMA FlagKnows ==
  ASSUME IInv, Knows, UNCHANGED <<yaml, meter>>, Record # None, NEW q, Put(q),
         q.orig = Record.orig, q.obs = Record.obs, q.prep = Record.prep,
         q.results = Record.results, q.final = Record.final,
         tx'.pc \in Held => tx.pc \in Held /\ tx'.final = tx.final
  PROVE  Knows' /\ Record' = q
<1>1. PICK r \in {Record}, y \in {yaml}, m \in {meter} : TRUE
  OBVIOUS
<1>2. Good(r, y, m)
  BY <1>1 DEF Knows
<1>3. Good(q, y, m)
  BY <1>1, <1>2, GoodAlike
<1>4. Record' = q /\ q # None
  BY PutGives
<1> QED BY <1>1, <1>3, <1>4 DEF Knows, Paired

LEMMA CancelKnows ==
  ASSUME IInv, Knows, UNCHANGED <<yaml, meter>>, Record # None, PutFails(Cancelled(Record)),
         tx'.pc \in Held => tx.pc \in Held /\ tx'.final = tx.final
  PROVE  Knows'
<1>1. PICK r \in {Record}, q \in {Cancelled(Record)} : TRUE
  OBVIOUS
<1>2. q = Cancelled(r) /\ Stands(r)
  BY <1>1 DEF IInv
<1>3. /\ q.orig = r.orig /\ q.obs = r.obs /\ q.prep = r.prep /\ q.results = r.results
      /\ q.final = r.final
  BY <1>2 DEF Stands, Records, Cancelled
<1>4. CASE UNCHANGED disk
  <2>1. Record' = Record
    BY <1>4 DEF Record
  <2>2. tx'.pc \in Held => Record # None /\ Record.final = tx'.final
    BY DEF Knows
  <2> QED BY <2>1, <2>2, SameKnows
<1>5. CASE Put(q)
  BY <1>1, <1>3, <1>5, FlagKnows
<1> QED BY <1>1, <1>4, <1>5 DEF PutFails

\* The YAML or the firmware is replaced while nothing else runs.
LEMMA MoveKnows ==
  ASSUME IInv, KInv, UNCHANGED <<disk, task>>, task.op = "none",
         Record # None, meter'.flash = meter.flash, meter'.gen <= MaxGeneration,
         Plain(yaml', Record, meter), Plain(meter'.fw, Record, meter),
         Covers(yaml', Record), Paired(yaml'), Paired(meter'.fw),
         tx'.pc \in Held => Record.final = tx'.final
  PROVE  KInv'
<1>1. PICK r \in {Record}, y \in {yaml}, m \in {meter}, z \in {yaml'}, n \in {meter'} : TRUE
  OBVIOUS
<1>2. Good(r, y, m)
  BY <1>1 DEF KInv, Knows
<1>3. Good(r, z, n)
  BY <1>1, <1>2, GoodMoves
<1>4. Record' = r
  BY <1>1 DEF Record
<1>5. Knows'
  BY <1>1, <1>3, <1>4 DEF Knows
<1> QED BY <1>5, NoneRuns DEF KInv

LEMMA ReconnectFw ==
  ASSUME Shape, NEW fw, Reconnected(fw)
  PROVE  meter'.fw = fw /\ (meter.gen < MaxGeneration => meter'.gen <= MaxGeneration)
         /\ meter.gen < MaxGeneration /\ meter'.flash = meter.flash
<1>1. meter.gen < MaxGeneration
  BY DEF Reconnected
<1>2. meter'.fw = fw /\ meter'.gen = meter.gen + 1 /\ meter'.flash = meter.flash
  BY DEF Reconnected, Shape
<1>3. meter.gen + 1 <= MaxGeneration
  BY <1>1, RecoveryAssumption DEF Shape
<1> QED BY <1>1, <1>2, <1>3

\* What the transaction of the record installs.
LEMMA InstalledIsOwn ==
  ASSUME IInv, KInv, Record # None, Record.final = tx.final, tx.final # None
  PROVE  /\ \A k \in Keys : tx.final.proposed.tables[k] = Own(meter, k)
         /\ Plain(tx.final.proposed, Record, meter) /\ Paired(tx.final.proposed)
         /\ Plain(tx.final.src, Record, meter) /\ Paired(tx.final.src)
         /\ \A y : Covers(y, Record)
         /\ Plain(yaml, Record, meter) /\ Plain(meter.fw, Record, meter)
         /\ Paired(yaml) /\ Paired(meter.fw) /\ meter.gen <= MaxGeneration
         /\ tx.final.targets = Chips /\ Targets(Record) = Chips
<1>1. Good(Record, yaml, meter)
  BY DEF KInv, Knows
<1>2. /\ Targets(Record) = Chips /\ tx.final.targets = Chips
      /\ \A k \in Keys : tx.final.proposed.tables[k] = Own(meter, k)
      /\ Plain(tx.final.src, Record, meter) /\ Paired(tx.final.src)
  BY <1>1 DEF Good, Finalized
<1>3. Plain(tx.final.proposed, Record, meter)
  BY <1>2 DEF Plain, Keys
<1>4. \A k \in Keys : Own(meter, k) # None
  BY RecoveryAssumption DEF Own
<1>5. Paired(tx.final.proposed)
  BY <1>2, <1>4 DEF Paired, Keys, Stages
<1>6. \A y : Covers(y, Record)
  BY DEF Covers
<1> QED BY <1>1, <1>2, <1>3, <1>5, <1>6 DEF Good, KInv, Knows

LEMMA TxMarkKnows ==
  ASSUME IInv, KInv, TxMark, UNCHANGED task
  PROVE  KInv'
<1>1. PICK r \in {Record} : TRUE
  OBVIOUS
<1>2. PICK q \in {[r EXCEPT !.finst = TRUE]} : TRUE
  OBVIOUS
<1>3. /\ r = Record /\ q = [r EXCEPT !.finst = TRUE]
      /\ tx.pc = "mark" /\ UNCHANGED <<yaml, meter>>
      /\ \/ /\ SourceIs(tx.final.proposed, FALSE) /\ TxTo("check")
            /\ IF r.finst THEN UNCHANGED disk ELSE Put(q)
         \/ /\ SourceIs(tx.final.proposed, FALSE) /\ TxTo("mark") /\ PutFails(q)
         \/ tx' = NoTx /\ UNCHANGED disk
  BY <1>1, <1>2 DEF TxMark, MarkAt
<1>4. task.op = "none" /\ task'.op = "none" /\ Record # None /\ Record.final = tx.final
  BY <1>3 DEF IInv, OneUser, Held, KInv, Knows
<1>5. tx'.pc \in Held => tx.pc \in Held /\ tx'.final = tx.final
  <2>1. TxTo("check") \/ TxTo("mark") => tx'.final = tx.final
    BY TxFacts DEF IInv, Held
  <2>2. tx' = NoTx => tx'.pc \notin Held
    BY DEF NoTx, Held
  <2> QED BY <1>3, <2>1, <2>2 DEF Held
<1>6. CASE UNCHANGED disk
  BY <1>3, <1>4, <1>5, <1>6, TxKnows
<1>7. CASE Put(q)
  <2>1. Stands(r) /\ r # None
    BY <1>3, <1>4 DEF IInv
  <2>2. /\ q.orig = r.orig /\ q.obs = r.obs /\ q.prep = r.prep /\ q.results = r.results
        /\ q.final = r.final
    BY <1>3, <2>1 DEF Stands, Records
  <2>3. Knows'
    BY <1>3, <1>5, <1>7, <2>1, <2>2, FlagKnows DEF KInv
  <2> QED BY <1>4, <2>3, NoneRuns DEF KInv
<1> QED BY <1>3, <1>6, <1>7 DEF PutFails

LEMMA TransactionKnows ==
  ASSUME IInv, KInv, Transaction
  PROVE  KInv'
<1>1. UNCHANGED task
  BY DEF Transaction
<1>0. tx' = NoTx => tx'.pc \notin Held
  BY DEF NoTx, Held
<1>2. CASE TxWrite
  <2>1. /\ task.op = "none" /\ UNCHANGED <<meter, disk>> /\ tx.final # None
    BY <1>2 DEF TxWrite, IInv, HasRun
  <2>2. CASE UNCHANGED yaml /\ tx' = NoTx
    BY <1>0, <1>1, <2>1, <2>2, TxKnows
  <2>3. CASE SourceIs(tx.final.src, FALSE) /\ yaml' = tx.final.proposed /\ TxTo("written")
    <3>1. Record # None /\ Record.final = tx.final
      BY <2>3 DEF SourceIs, Required
    <3>2. tx'.final = tx.final
      BY <2>3, TxFacts DEF IInv, Held
    <3> QED BY <1>1, <2>1, <2>3, <3>1, <3>2, InstalledIsOwn, MoveKnows
  <2> QED BY <1>2, <2>2, <2>3 DEF TxWrite
<1>3. CASE TxRollback
  <2>1. /\ task.op = "none" /\ UNCHANGED <<meter, disk>> /\ tx.final # None /\ tx' = NoTx
        /\ Record # None /\ Record.final = tx.final
        /\ yaml' = tx.final.src \/ yaml' = yaml
    BY <1>3 DEF TxRollback, IInv, HasRun, OneUser, Held, KInv, Knows
  <2> QED BY <1>0, <1>1, <2>1, InstalledIsOwn, MoveKnows
<1>4. CASE TxInstall
  <2>1. /\ task.op = "none" /\ UNCHANGED <<yaml, disk>> /\ tx.final # None
        /\ Record # None /\ Record.final = tx.final
    BY <1>4 DEF TxInstall, IInv, HasRun, OneUser, Held, KInv, Knows
  <2>2. TxTo("mark") \/ TxTo("ota") => tx'.final = tx.final
    BY TxFacts DEF IInv, Held
  <2>3. CASE UNCHANGED meter /\ TxTo("ota")
    BY <1>1, <2>1, <2>2, <2>3, TxKnows
  <2>4. CASE Reconnected(tx.final.proposed) /\ TxTo("mark")
    <3>1. /\ meter'.fw = tx.final.proposed /\ meter'.gen <= MaxGeneration
          /\ meter'.flash = meter.flash
      BY <2>4, ReconnectFw DEF IInv
    <3> QED BY <1>1, <2>1, <2>2, <2>4, <3>1, InstalledIsOwn, MoveKnows
  <2> QED BY <1>4, <2>3, <2>4 DEF TxInstall
<1>5. CASE TxMark
  BY <1>1, <1>5, TxMarkKnows
<1>6. CASE TxCheck
  <2>1. tx.pc = "check" /\ tx' = NoTx /\ UNCHANGED <<yaml, meter>> /\ task'.op = "none"
    BY <1>1, <1>6 DEF TxCheck, IInv, OneUser, Held
  <2>2. CASE UNCHANGED disk
    BY <1>0, <1>1, <2>1, <2>2, TxKnows
  <2>3. CASE Record # None /\ PutFails(Cancelled(Record))
    BY <1>0, <2>1, <2>3, CancelKnows, NoneRuns DEF KInv
  <2> QED BY <1>6, <2>2, <2>3 DEF TxCheck
<1>7. CASE TxRecover
  <2>1. /\ Record # None /\ Record.final = tx.final /\ UNCHANGED <<yaml, meter, disk>>
        /\ tx' = [tx EXCEPT !.pc = "ota", !.recovered = TRUE]
    BY <1>7 DEF TxRecover
  <2>2. tx'.final = tx.final
    BY <2>1, TxFacts DEF IInv, Held
  <2> QED BY <1>1, <2>1, <2>2, TxKnows
<1>8. CASE TxAbandon
  BY <1>0, <1>1, <1>8, TxKnows DEF TxAbandon
<1> QED BY <1>2, <1>3, <1>4, <1>5, <1>6, <1>7, <1>8 DEF Transaction

LEMMA ReconcileKnows ==
  ASSUME IInv, KInv, Reconcile
  PROVE  KInv'
<1>1. UNCHANGED <<yaml, meter, tx>>
  BY DEF Reconcile
<1>2. PICK r \in {Record} : TRUE
  OBVIOUS
<1>3. PICK q \in {[r EXCEPT !.selected = TRUE]} : TRUE
  OBVIOUS
<1>4. CASE ReconcileStart
  <2>1. UNCHANGED disk /\ task'.op = "reconcile"
    BY <1>4 DEF ReconcileStart, NoTask
  <2>2. Knows'
    BY <1>1, <2>1, KnowsStays DEF KInv
  <2> QED BY <2>1, <2>2 DEF KInv, Running, Preparing, Finalizing, Turning
<1>5. CASE ReconcileSelect \/ ReconcileConfirm
  <2>1. /\ task.op = "reconcile" /\ r = Record /\ q = [r EXCEPT !.selected = TRUE]
        /\ \/ task' = NoTask /\ UNCHANGED disk
           \/ Put(q) /\ task' = [task EXCEPT !.pc = "confirm"]
           \/ task' = NoTask /\ PutFails(Cancelled(Record))
    BY <1>2, <1>3, <1>5 DEF ReconcileSelect, ReconcileConfirm, ReconcileFails, At
  <2>2. r # None /\ Stands(r)
    BY <2>1 DEF IInv, Reviewing
  <2>3. CASE task' = NoTask /\ UNCHANGED disk
    BY <1>1, <2>3, KnowsStays, EndedRuns DEF KInv
  <2>4. CASE task' = NoTask /\ PutFails(Cancelled(Record))
    BY <1>1, <2>1, <2>2, <2>4, CancelKnows, EndedRuns DEF KInv
  <2>5. CASE Put(q) /\ task' = [task EXCEPT !.pc = "confirm"]
    <3>1. /\ q.orig = r.orig /\ q.obs = r.obs /\ q.prep = r.prep /\ q.results = r.results
          /\ q.final = r.final
      BY <2>1, <2>2 DEF Stands, Records
    <3>2. Knows'
      BY <1>1, <2>1, <2>2, <2>5, <3>1, FlagKnows DEF KInv
    <3>3. task'.op = "reconcile"
      BY <2>1, <2>5 DEF IInv, Shape, TaskType
    <3> QED BY <3>2, <3>3 DEF KInv, Running, Preparing, Finalizing, Turning
  <2> QED BY <2>1, <2>3, <2>4, <2>5
<1> QED BY <1>4, <1>5 DEF Reconcile

-----------------------------------------------------------------------------
(* A new cycle.                                                            *)

LEMMA CycleStartKnows ==
  ASSUME IInv, KInv, CycleStart, UNCHANGED <<yaml, meter, tx>>
  PROVE  KInv'
<1>1. PICK r \in {Record}, y \in {yaml}, m \in {meter} : TRUE
  OBVIOUS
<1> DEFINE K == r.final.targets \X Stages
           seen == [k \in K |->
             Observed(k, [kind |-> "configuration", val |-> y.tables[k]], y)]
           s == SetToSeq({seen[k] : k \in K})
<1>2. r = Record /\ r # None /\ r.final # None /\ UNCHANGED disk
  BY <1>1 DEF CycleStart, Begin
<1>3. task' = [NoTask EXCEPT !.op = "cycle", !.pc = "archive", !.old = r,
                             !.new = NewRecord(y, s)]
  <2>1. {seen[k] : k \in K} =
          {Observed(k, [kind |-> "configuration", val |-> y.tables[k]], y) : k \in K}
    OBVIOUS
  <2>2. y = yaml /\ r = Record
    BY <1>1
  <2>3. task' = [NoTask EXCEPT !.op = "cycle", !.pc = "archive", !.old = r,
          !.new = NewRecord(y, SetToSeq({Observed(k, [kind |-> "configuration",
                                                      val |-> y.tables[k]], y) : k \in K}))]
    BY <2>2 DEF CycleStart, FirstStep
  <2> QED BY <2>1, <2>3
<1>4. Stands(r) /\ Good(r, y, m)
  BY <1>1, <1>2, TheRecord DEF KInv
<1>5. K = Keys
  BY <1>2, <1>4 DEF Good, Finalized, Keys
<1>6. ToSet(s) = {seen[k] : k \in K}
  <2>1. r.final.targets \in SUBSET Chips
    BY <1>2, <1>4 DEF Stands, Records, Finalization
  <2>2. IsFiniteSet(K)
    BY <2>1, ObservesFinite
  <2>3. seen = [k \in K |-> seen[k]]
    OBVIOUS
  <2> HIDE DEF K, seen
  <2> QED BY <2>2, <2>3, ImageHolds
<1>7. \A k \in K : seen[k].kind = "configuration" /\ seen[k].key = k
  BY DEF Observed
<1> HIDE DEF K, seen, s
<1>8. \A o \in ToSet(s) : o.kind = "configuration"
  BY <1>6, <1>7
<1>9. Honest(ToSet(s), ToSet(s), m, TRUE)
  BY <1>8 DEF Honest, Kinds
<1>10. Observes(s, y)
  BY <1>5, <1>6, <1>7 DEF Observes
<1>11. PICK t \in {s} : TRUE
  OBVIOUS
<1>12. Good(NewRecord(y, t), y, m)
  BY <1>9, <1>10, <1>11, FreshGood
<1>13. task'.op = "cycle" /\ task'.old = r /\ task'.new = NewRecord(y, t)
  BY <1>3, <1>11 DEF NoTask
<1>14. Turning'
  <2>1. PICK q \in {NewRecord(y, t)} : TRUE
    OBVIOUS
  <2>2. task'.new = q /\ Good(q, y, m) /\ yaml' = y /\ meter' = m
    BY <1>1, <1>12, <1>13, <2>1
  <2> QED BY <1>4, <1>13, <2>2 DEF Turning
<1>15. Knows'
  BY <1>2, KnowsStays DEF KInv
<1> QED BY <1>13, <1>14, <1>15 DEF KInv, Running, Preparing, Finalizing

LEMMA CycleKnows ==
  ASSUME IInv, KInv, Cycle
  PROVE  KInv'
<1>1. UNCHANGED <<yaml, meter, tx>>
  BY DEF Cycle
<1>2. CASE CycleStart
  BY <1>1, <1>2, CycleStartKnows
<1>3. ASSUME task.op = "cycle", Knows',
             task' = NoTask \/ \E p \in {"rotate", "verify"} : task' = [task EXCEPT !.pc = p]
      PROVE  KInv'
  <2>1. CASE task' = NoTask
    BY <1>3, <2>1, EndedRuns DEF KInv
  <2>2. ASSUME NEW p \in {"rotate", "verify"}, task' = [task EXCEPT !.pc = p]
        PROVE  KInv'
    <3>1. task'.op = "cycle" /\ task'.old = task.old /\ task'.new = task.new
      BY <1>3, <2>2 DEF IInv, Shape, TaskType
    <3>2. Turning'
      BY <1>1, <1>3, <3>1 DEF KInv, Turning
    <3> QED BY <1>3, <3>1, <3>2 DEF KInv, Running, Preparing, Finalizing
  <2> QED BY <1>3, <2>1, <2>2
<1>4. ASSUME task.op = "cycle", UNCHANGED disk
      PROVE  Knows'
  BY <1>1, <1>4, KnowsStays DEF KInv
<1>5. ASSUME task.op = "cycle", NEW q \in {task.old, task.new}, Put(q)
      PROVE  Knows'
  <2>1. Good(q, yaml, meter) /\ tx.pc \notin Held
    BY <1>5 DEF KInv, Turning, IInv, OneUser
  <2> QED BY <1>1, <1>5, <2>1, KnowsPut DEF KInv
<1>6. CASE CycleArchive
  <2>1. /\ task.op = "cycle" /\ (task' = NoTask \/ task' = [task EXCEPT !.pc = "rotate"])
        /\ disk' = [disk EXCEPT !.archive = task.old] \/ UNCHANGED disk
    BY <1>6 DEF CycleArchive, At
  <2>2. CASE disk' = [disk EXCEPT !.archive = task.old]
    <3>1. Record' = Record
      BY <2>2 DEF IInv, Shape, Record
    <3>2. Knows'
      BY <1>1, <2>1, <3>1, SameKnows DEF KInv, Knows
    <3> QED BY <1>3, <2>1, <3>2
  <2> QED BY <1>3, <1>4, <2>1, <2>2
<1>7. CASE CycleRotate
  <2>1. /\ task.op = "cycle" /\ (task' = NoTask \/ task' = [task EXCEPT !.pc = "verify"])
        /\ Put(task.new) \/ UNCHANGED disk
    BY <1>7 DEF CycleRotate, At
  <2> QED BY <1>3, <1>4, <1>5, <2>1
<1>8. CASE CycleVerify
  <2>1. /\ task.op = "cycle" /\ task' = NoTask
        /\ Put(task.old) \/ UNCHANGED disk
    BY <1>8 DEF CycleVerify, At
  <2> QED BY <1>3, <1>4, <1>5, <2>1
<1> QED BY <1>2, <1>6, <1>7, <1>8 DEF Cycle

-----------------------------------------------------------------------------
(* Sessions, and what others do.                                           *)

LEMMA SessionKnows ==
  ASSUME IInv, KInv, Session
  PROVE  KInv'
<1>1. UNCHANGED <<yaml, meter>>
  BY DEF Session
<1>2. CASE Revoke
  <2>1. UNCHANGED <<disk, task>> /\ tx'.pc = tx.pc /\ tx'.final = tx.final
    BY <1>2 DEF Revoke, IInv, Shape, TxType
  <2> QED BY <1>1, <2>1, TxKnows DEF KInv, Knows
<1>3. CASE CleanupCancel
  <2>1. UNCHANGED <<tx, task>> /\ task'.op = "none"
    BY <1>3 DEF CleanupCancel
  <2>2. CASE UNCHANGED disk
    BY <1>1, <2>1, <2>2, TxKnows DEF KInv, Knows
  <2>3. CASE Record # None /\ PutFails(Cancelled(Record))
    BY <1>1, <2>1, <2>3, CancelKnows, NoneRuns DEF KInv
  <2> QED BY <1>3, <2>2, <2>3 DEF CleanupCancel
<1>4. CASE StartSession
  BY <1>1, <1>4, TxKnows DEF StartSession, KInv, Knows
<1>5. CASE Fail
  BY <1>1, <1>5, KnowsStays, EndedRuns DEF Fail, Raise, KInv
<1> QED BY <1>2, <1>3, <1>4, <1>5 DEF Session

\* An edit configures no table that was not configured.
LEMMA EditKnows ==
  ASSUME IInv, KInv, Edit, UNCHANGED <<meter, disk, task, tx>>
  PROVE  KInv'
<1>1. PICK y \in {yaml}, z \in {yaml'}, m \in {meter} : TRUE
  OBVIOUS
<1>2. z.tables = y.tables \/ z.tables = NoTables
  BY <1>1 DEF Edit, IInv, Shape, Yamls
<1>3. \A k \in Keys : z.tables[k] = None \/ z.tables[k] = y.tables[k]
  BY <1>2 DEF NoTables
<1>4. ASSUME NEW r, Stands(r), Good(r, y, m)
      PROVE  Good(r, z, m)
  <2>1. r.results \in Tables
    BY <1>4 DEF Stands, Records
  <2>2. Plain(y, r, m) /\ Covers(y, r) /\ Plain(m.fw, r, m)
    BY <1>4 DEF Good
  <2>3. Plain(z, r, m) /\ Covers(z, r)
    BY <1>3, <2>1, <2>2, LessIsPlain
  <2> QED BY <1>4, <2>2, <2>3, GoodMoves
<1>5. Record' = Record
  BY DEF Record
<1>6. Knows'
  <2>1. PICK r \in {Record} : TRUE
    OBVIOUS
  <2>2. Record' = r /\ (r # None => Good(r, z, m))
    BY <1>1, <1>4, <1>5, <2>1 DEF IInv, KInv, Knows
  <2>3. Paired(z)
    <3>1. Paired(y) /\ \A c \in Chips, s \in Stages : <<c, s>> \in Keys
      BY <1>1 DEF KInv, Knows, Keys
    <3> QED BY <1>2, <3>1 DEF Paired, NoTables, Stages
  <2>4. r = None => z.tables = NoTables
    BY <1>1, <1>2, <2>1 DEF KInv, Knows
  <2> QED BY <1>1, <2>1, <2>2, <2>3, <2>4 DEF KInv, Knows
<1>7. Running'
  <2>1. CASE task.op = "resume"
    <3>1. \A c \in Chips : <<c, Record.prep.stage>> \in Keys
      BY <2>1, ResumedRecord DEF Keys
    <3>2. \A c \in Chips : z.tables[<<c, Record.prep.stage>>] = None
      BY <1>1, <1>3, <2>1, <3>1 DEF KInv, Running
    <3> QED BY <1>1, <1>5, <2>1, <3>2 DEF KInv, Running, FirstDone, Left, Key
  <2> QED BY <2>1 DEF Running
<1>8. Preparing' /\ Finalizing'
  BY <1>5 DEF KInv, Preparing, Finalizing, Paired
<1>9. Turning'
  <2>1. CASE task.op = "cycle"
    <3>1. PICK r \in {task.old}, q \in {task.new} : TRUE
      OBVIOUS
    <3>2. Stands(r) /\ Stands(q)
      BY <2>1, <3>1, NewRecordStands DEF IInv, Cycling
    <3>3. Good(r, z, m) /\ Good(q, z, m)
      BY <1>1, <1>4, <2>1, <3>1, <3>2 DEF KInv, Turning
    <3> QED BY <1>1, <3>1, <3>3 DEF Turning
  <2> QED BY <2>1 DEF Turning
<1> QED BY <1>6, <1>7, <1>8, <1>9 DEF KInv

\* What is said of flash survives a restart of the meter.
LEMMA FlashSays ==
  ASSUME NEW m, NEW n, n.flash = m.flash, NEW r
  PROVE  /\ \A s : Fit(s, r, m) => Fit(s, r, n)
         /\ \A y : Plain(y, r, m) => Plain(y, r, n)
         /\ \A O, S : Tells(O, S, r, m) => Tells(O, S, r, n)
<1>1. \A k : Own(n, k) = Own(m, k)
  BY DEF Own
<1>2. \A O, P, rests : Honest(O, P, m, rests) => Honest(O, P, n, rests)
  BY DEF Honest
<1>3. \A s : Fit(s, r, m) => Fit(s, r, n)
  BY <1>2 DEF Fit
<1>4. \A y : Plain(y, r, m) => Plain(y, r, n)
  BY <1>1 DEF Plain
<1>5. \A O, S : Tells(O, S, r, m) => Tells(O, S, r, n)
  BY DEF Tells
<1> QED BY <1>3, <1>4, <1>5

LEMMA RestartKnows ==
  ASSUME IInv, KInv, NEW fw \in {yaml, meter.fw}, Reconnected(fw),
         UNCHANGED <<yaml, disk, task, tx>>
  PROVE  KInv'
<1>1. PICK y \in {yaml}, m \in {meter}, n \in {meter'}, r \in {Record} : TRUE
  OBVIOUS
<1>2. n.fw = fw /\ n.gen <= MaxGeneration /\ n.flash = m.flash /\ (n.fw = y \/ n.fw = m.fw)
  BY <1>1, ReconnectFw DEF IInv
<1>3. ASSUME NEW q, Good(q, y, m)
      PROVE  Good(q, y, n)
  <2>1. Plain(y, q, m) /\ Covers(y, q) /\ Plain(m.fw, q, m)
    BY <1>3 DEF Good
  <2>2. Plain(n.fw, q, m)
    BY <1>2, <2>1
  <2> QED BY <1>2, <1>3, <2>1, <2>2, GoodMoves
<1>4. Record' = r
  BY <1>1 DEF Record
<1>5. Knows'
  <2>1. r # None => Good(r, y, n)
    BY <1>1, <1>3 DEF KInv, Knows
  <2>2. Paired(y) /\ Paired(n.fw)
    BY <1>1, <1>2 DEF KInv, Knows
  <2> QED BY <1>1, <1>2, <1>4, <2>1, <2>2 DEF KInv, Knows
<1>6. Running'
  <2>1. CASE task.op = "resume"
    <3>1. task.pc = "capture" => n.fw.tables[Key(task.chip)] = None
      BY <1>1, <1>2, <2>1, ChipKey DEF KInv, Running
    <3>2. Key(task.chip)' = Key(task.chip) /\ Left(Record)' = Left(Record)
      BY <1>1, <1>4 DEF Key, Left
    <3> QED BY <1>1, <1>2, <1>4, <2>1, <3>1, <3>2 DEF KInv, Running, FirstDone
  <2> QED BY <2>1 DEF Running
<1>7. Preparing'
  <2>1. PICK s \in {task.new} : TRUE
    OBVIOUS
  <2>2. Fit(s, r, m) => Fit(s, r, n)
    BY <1>2, FlashSays
  <2> QED BY <1>1, <1>4, <2>1, <2>2 DEF KInv, Preparing
<1>8. Finalizing'
  <2>1. PICK s \in {task.new}, src \in {task.src} : TRUE
    OBVIOUS
  <2>2. /\ Fit(s, r, m) => Fit(s, r, n)
        /\ Plain(src, r, m) => Plain(src, r, n)
        /\ Tells(ToSet(s), {src}, r, m) => Tells(ToSet(s), {src}, r, n)
        /\ Tells(ToSet(r.obs), Sources(r), r, m) => Tells(ToSet(r.obs), Sources(r), r, n)
    BY <1>2, FlashSays
  <2>3. task.op = "finalize" =>
          /\ Plain(src, r, n) /\ Paired(src) /\ Results(r) # {}
          /\ task.pc = "backup" => Fit(s, r, n) /\ r.final = None /\ Tells(ToSet(s), {src}, r, n)
          /\ task.pc = "review" => Tells(ToSet(r.obs), Sources(r), r, n)
    BY <1>1, <2>1, <2>2 DEF KInv, Finalizing
  <2> QED BY <1>1, <1>4, <2>1, <2>3 DEF Finalizing
<1>9. Turning'
  <2>1. PICK q \in {task.old}, p \in {task.new} : TRUE
    OBVIOUS
  <2>2. task.op = "cycle" => Good(q, y, n) /\ Good(p, y, n)
    BY <1>1, <1>3, <2>1 DEF KInv, Turning
  <2> QED BY <1>1, <2>1, <2>2 DEF Turning
<1> QED BY <1>5, <1>6, <1>7, <1>8, <1>9 DEF KInv

LEMMA OthersKnows ==
  ASSUME IInv, KInv, Others
  PROVE  KInv'
<1>1. CASE Crash
  <2>1. task' = NoTask /\ UNCHANGED <<yaml, meter, disk>> /\ tx'.pc \notin Held
    BY <1>1 DEF Crash, NoTx, Held
  <2>2. Record' = Record
    BY <2>1 DEF Record
  <2>3. Knows'
    BY <2>1, <2>2, SameKnows DEF KInv
  <2> QED BY <2>1, <2>3, EndedRuns DEF KInv
<1>2. CASE Edit /\ UNCHANGED <<meter, disk, task, tx>>
  BY <1>2, EditKnows
<1>3. ASSUME NEW fw \in {yaml, meter.fw}, Reconnected(fw), UNCHANGED <<yaml, disk, task, tx>>
      PROVE  KInv'
  BY <1>3, RestartKnows
<1> QED BY <1>1, <1>2, <1>3 DEF Others, Restart

-----------------------------------------------------------------------------
(* The invariant, and what follows from it.                                *)

LEMMA InitKnows == Init => KInv
<1> SUFFICES ASSUME Init PROVE KInv
  OBVIOUS
<1>1. /\ yaml.tables = NoTables /\ meter.fw = yaml /\ meter.gen = 1
      /\ Record = None /\ tx.pc = "none" /\ task.op = "none"
  BY DEF Init, Record, NoTx, NoTask
<1>2. \A c \in Chips, s \in Stages : NoTables[<<c, s>>] = None
  BY DEF NoTables, Keys
<1>3. Paired(yaml) /\ Paired(meter.fw)
  BY <1>1, <1>2 DEF Paired, Stages
<1>4. Knows
  BY <1>1, <1>3, RecoveryAssumption DEF Knows, Held
<1> QED BY <1>1, <1>4 DEF KInv, Running, Preparing, Finalizing, Turning

LEMMA NextKnows == IInv /\ KInv /\ [Next]_vars => KInv'
<1> SUFFICES ASSUME IInv, KInv, [Next]_vars PROVE KInv'
  OBVIOUS
<1>1. CASE UNCHANGED vars
  <2>1. UNCHANGED <<yaml, meter, disk, task, tx>>
    BY <1>1 DEF vars
  <2> QED BY <2>1, TxKnows DEF KInv, Knows
<1>2. ASSUME NEW stage \in Stages, PrepareObserve(stage)
      PROVE  KInv'
  BY <1>2, PrepareObserveKnows
<1>3. CASE PrepareBackup \/ PrepareSave
  BY <1>3, PrepareBackupKnows, PrepareSaveKnows
<1>4. CASE Resume \/ ResumeBackup \/ ResumeAttempt \/ ResumeClear \/ ResumeRun \/ ResumeCapture
  BY <1>4, ResumeKnows, ResumeBackupKnows, ResumeAttemptKnows, ResumeClearKnows,
     ResumeRunKnows, ResumeCaptureKnows
<1>5. CASE FinalObserve \/ FinalBackup \/ FinalReview
  BY <1>5, FinalObserveKnows, FinalBackupKnows, FinalReviewKnows
<1>6. CASE Transaction \/ Reconcile \/ Cycle \/ Session \/ Others
  BY <1>6, TransactionKnows, ReconcileKnows, CycleKnows, SessionKnows, OthersKnows
<1> QED BY <1>1, <1>2, <1>3, <1>4, <1>5, <1>6 DEF Next

LEMMA KnowledgeHolds == Spec => []KInv
BY InvariantHolds, InitKnows, NextKnows, PTL DEF Spec

\* The firmware that the transaction installs calculates with the tables that
\* the chips had (build_finalization_plan, async_preview_offset_finalization).
THEOREM InstallsKeepTables == Spec => InstallKeepsTables
<1>1. IInv /\ KInv =>
        (TxInstall /\ tx'.pc = "mark" =>
           \A k \in tx.final.targets \X Stages : InUse(meter', k) = InUse(meter, k))
  <2> SUFFICES ASSUME IInv, KInv, TxInstall, tx'.pc = "mark",
                      NEW k \in tx.final.targets \X Stages
               PROVE  InUse(meter', k) = InUse(meter, k)
    OBVIOUS
  <2>1. tx.final # None /\ Record # None /\ Record.final = tx.final
    BY DEF TxInstall, SourceIs, Required, IInv, HasRun
  <2>2. Reconnected(tx.final.proposed)
    <3>1. TxTo("ota") => tx'.pc = "ota"
      BY TxFacts DEF IInv, Held
    <3> QED BY <3>1 DEF TxInstall
  <2>3. /\ \A j \in Keys : tx.final.proposed.tables[j] = Own(meter, j)
        /\ Plain(meter.fw, Record, meter)
        /\ tx.final.targets = Chips /\ Targets(Record) = Chips
    BY <2>1, InstalledIsOwn
  <2>4. k \in Keys /\ k \in Targets(Record) \X Stages
    BY <2>3 DEF Keys
  <2>5. InUse(meter, k) = Own(meter, k)
    BY <2>3, <2>4 DEF Plain, InUse, Own
  <2>6. meter'.fw = tx.final.proposed
    BY <2>2, ReconnectFw DEF IInv
  <2>7. Own(meter, k) # None
    BY RecoveryAssumption DEF Own
  <2> QED BY <2>3, <2>4, <2>5, <2>6, <2>7 DEF InUse
<1> QED BY <1>1, InvariantHolds, KnowledgeHolds, PTL DEF InstallKeepsTables

=============================================================================
