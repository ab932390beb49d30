----------------------------- MODULE LogParser -----------------------------
(***************************************************************************)
(* The evidence the helper takes from the log of the meter (log_parser.py):*)
(* what a calibration run, a clear or a dump of the tables is worth when   *)
(* other chips and other people press buttons too, when lines of an        *)
(* earlier run arrive late, and when lines are lost.                       *)
(*                                                                         *)
(* A line is a record: who it names and what it says.  A value is the      *)
(* table it was printed from, so that a mixture of two tables shows.       *)
(***************************************************************************)
EXTENDS Naturals, Sequences, FiniteSets, FiniteSetsExt, SequencesExt

CONSTANTS
  Chips, Target,   \* the chips of the meter, and the one that is calibrated
  PhaseCount,      \* 3 in the code
  MaxFaults,       \* lost lines, runs of others and late lines together
  None

Phases == 1 .. PhaseCount
Stages == {"gain", "offset", "power"}

ASSUME LogAssumption ==
  /\ Target \in Chips /\ None \notin Chips
  /\ PhaseCount \in Nat \ {0} /\ MaxFaults \in Nat

VARIABLES
  log,      \* the lines that arrived
  pending,  \* the lines the firmware still prints
  op,       \* what the helper asked for: a run, a clear or a dump
  ran,      \* the runs, clears and tables the firmware printed, in order
  faults
vars == <<log, pending, op, ran, faults>>

-----------------------------------------------------------------------------
(***************************************************************************)
(* Lines.                                                                  *)
(***************************************************************************)

Line == [kind |-> "text", tag |-> None, stage |-> "none", phase |-> 0,
         value |-> <<None, "none", 0>>, config |-> <<None, "none", 0>>, of |-> None, fresh |-> TRUE]

Say(chip, stage, kind) == [Line EXCEPT !.tag = chip, !.stage = stage, !.kind = kind]

\* A press of a button names the chip in the button's name, and has no tag.
Press(l) == l.kind \in {"run", "clear"}
Pressed(chip, stage, kind) == [Line EXCEPT !.of = chip, !.stage = stage, !.kind = kind]

Fresh(lines) == SelectSeq(lines, LAMBDA l : l.fresh)
OfChip(lines, chip) == SelectSeq(lines, LAMBDA l : l.tag = chip)

\* The indices from a to b of the lines that say one of kinds about stage.
Says(w, a, b, stage, kinds) == {i \in a .. b : w[i].stage = stage /\ w[i].kind \in kinds}
Has(w, stage, kinds) == Says(w, 1, Len(w), stage, kinds) # {}

Only(S) == IF S = {} THEN 0 ELSE CHOOSE i \in S : TRUE
Single(S) == Cardinality(S) = 1
No == [ok |-> FALSE]

\* The rows among the lines I of w, if there is one for each phase.
Complete(w, I) == Cardinality(I) = PhaseCount /\ {w[i].phase : i \in I} = Phases
Values(w, I) == [p \in Phases |-> w[CHOOSE i \in I : w[i].phase = p].value]

-----------------------------------------------------------------------------
(***************************************************************************)
(* parse_gain_run                                                          *)
(***************************************************************************)

Saves == {"saved", "both", "unsaved"}
Finals == {"completed", "both", "failed", "rollback"}
Terminals == Saves \cup Finals
GainEvidence == Terminals \cup {"header", "gainrow", "mismatch"}

\* Variant: the window runs to the last line.
GainEndOfLog(w, b, chip) == Len(w)

\* Another Run Gain press ends the operation, once a result of it was seen.
GainEnd(w, b, chip) ==
  Min({Len(w) + 1} \cup
      {i \in b + 1 .. Len(w) :
         /\ w[i].kind = "run" /\ w[i].stage = "gain"
         /\ \E j \in Says(w, b + 1, i - 1, "gain", Terminals) : w[j].tag = chip}) - 1

\* Variant: lines of other chips are passed over.
GainAmongOthers(w, b, e, chip) == TRUE

\* No line of another chip, and no evidence without the tag of this one.
GainAlone(w, b, e, chip) ==
  \A i \in b + 1 .. e :
    /\ w[i].tag \in {None, chip}
    /\ w[i].stage = "gain" /\ w[i].kind \in GainEvidence => w[i].tag = chip

GainHeaders(w, b, e) == Says(w, b + 1, e, "gain", {"header"})

\* Whether the run was saved, from its save and final results: the firmware
\* that restores the previous values need not report a save.
GainSaved(saves, finals) ==
  IF finals = <<"failed">> /\ saves = <<>> THEN <<FALSE>> ELSE saves

GainResults(saves, finals) ==
  /\ Len(finals) <= 1 /\ finals # <<"rollback">>
  /\ finals = <<"failed">> => saves # <<TRUE>>
  /\ finals = <<"completed">> => saves = <<TRUE>>
  /\ Len(GainSaved(saves, finals)) = 1

ParseGain(lines, chip) ==
  LET w == Fresh(lines)
      presses == {i \in DOMAIN w : w[i] = Pressed(chip, "gain", "run")}
      b == Min(presses)
      e == GainEnd(w, b, chip)
      h == Only(GainHeaders(w, b, e))
      rows == Says(w, h, e, "gain", {"gainrow"})
      ends == Says(w, h, e, "gain", Terminals)
      say == SetToSortSeq(ends, <)
      saves == [i \in 1 .. Len(say) |-> w[say[i]].kind]
      saved == LET s == SelectSeq(saves, LAMBDA k : k \in Saves) IN [i \in DOMAIN s |-> s[i] # "unsaved"]
      finals == LET s == SelectSeq(saves, LAMBDA k : k \in Finals)
                IN [i \in DOMAIN s |-> IF s[i] = "both" THEN "completed" ELSE s[i]]
  IN IF /\ presses # {}
        /\ GainAlone(w, b, e, chip)
        /\ Single(GainHeaders(w, b, e))
        /\ Says(w, b + 1, h - 1, "gain", GainEvidence) = {}
        /\ Complete(w, rows) /\ \A i \in rows, j \in ends : i < j
        /\ GainResults(saved, finals)
       THEN [ok |-> TRUE, rows |-> Values(w, rows),
             saved |-> GainSaved(saved, finals)[1],
             mismatches |-> {w[i].phase : i \in Says(w, h, e, "gain", {"mismatch"})},
             disabled |-> Says(w, b, e, "gain", {"disabled"}) # {}]
       ELSE No

-----------------------------------------------------------------------------
(***************************************************************************)
(* _parse_offset_operation: a run of either offset stage.                  *)
(***************************************************************************)

\* "Offset Calibration" is in the header of either stage.
IsHeader(l, stage) ==
  l.kind = "header" /\ (l.stage = stage \/ (stage = "offset" /\ l.stage = "power"))

\* A row names no stage.
OffsetEvidence(l, stage) ==
  \/ IsHeader(l, stage) \/ l.kind = "row"
  \/ l.stage = stage /\ l.kind \in Terminals \cup {"columns", "mismatch"}

\* _offset_log_category
Category(l) ==
  CASE l.stage \in {"offset", "power"} /\ l.kind \in
         {"header", "columns", "saved", "mismatch", "differs", "loaded", "fallback", "refuted"} \cup Finals
         -> l.stage
    [] l.stage = "power" /\ l.kind \in {"unsaved", "restored"} -> "power"
    [] OTHER -> "none"

\* Guidance of the button component is no press.
Operation(lines) == SelectSeq(Fresh(lines), LAMBDA l : l.kind # "note")

\* One press of this button, and none of any other.
OnePress(w, chip, stage, kind) ==
  /\ Single({i \in DOMAIN w : Press(w[i])})
  /\ \E i \in DOMAIN w : w[i] = Pressed(chip, stage, kind)

OffsetAlone(w, b, chip, stage) ==
  \A i \in b + 1 .. Len(w) :
    /\ w[i].tag \in {None, chip}
    /\ Category(w[i]) # "none" => w[i].tag = chip /\ Category(w[i]) = stage
    /\ OffsetEvidence(w[i], stage) => w[i].tag = chip

\* The firmware verifies what it ran, or (stock) reports the save alone.
OffsetFinals(w, h, stage, unverified) ==
  LET finals == Says(w, h, Len(w), stage, Finals)
  IN IF finals = {} /\ unverified THEN Says(w, h, Len(w), stage, {"saved"}) ELSE finals

ParseOffset(lines, chip, stage, unverified) ==
  LET w == Operation(lines)
      n == Len(w)
      b == Only({i \in 1 .. n : Press(w[i])})
      headers == {i \in b + 1 .. n : IsHeader(w[i], stage)}
      h == Only(headers)
      columns == Says(w, h, n, stage, {"columns"})
      f == Only(OffsetFinals(w, h, stage, unverified))
      rows == {i \in h .. n : w[i].kind = "row"}
      saves == Says(w, h, n, stage, {"saved", "both"})
      order == <<h, Only(columns)>> \o SetToSortSeq(rows, <)
               \o (IF Only(saves) = f THEN <<f>> ELSE <<Only(saves), f>>)
  IN IF /\ OnePress(w, chip, stage, "run")
        /\ \A i \in 1 .. n : w[i].kind # "spi"
        /\ \A i \in 1 .. b - 1 : ~OffsetEvidence(w[i], stage)
        /\ OffsetAlone(w, b, chip, stage)
        /\ Single(headers) /\ \A i \in b + 1 .. h - 1 : ~OffsetEvidence(w[i], stage)
        /\ Single(columns) /\ Single(OffsetFinals(w, h, stage, unverified))
        /\ Complete(w, rows) /\ \A i \in rows : i < f
        /\ \A i \in h .. n : w[i].kind \notin {"gainrow", "compare"}
        /\ w[f].kind \notin {"failed", "rollback"}
        /\ Says(w, h, n, stage, {"unsaved", "mismatch"}) = {}
        /\ Single(saves)
        /\ \A i \in 1 .. Len(order) - 1 : order[i] < order[i + 1]
        /\ \A i, j \in rows : w[i].phase < w[j].phase => i < j
       THEN [ok |-> TRUE, rows |-> Values(w, rows),
             verified |-> Says(w, h, n, stage, Finals) # {}]
       ELSE No

-----------------------------------------------------------------------------
(***************************************************************************)
(* _signed_table and its rows.                                             *)
(***************************************************************************)

\* Lines with the rule that ends every table.
Rules == {"header", "restored", "differs", "end"}

\* The table under the header of kind, if there is one: its lines, up to the
\* next rule or to the table of the other stage.
Table(ls, stage, kind) ==
  LET h == Only(Says(ls, 1, Len(ls), stage, {kind}))
      e == Min({Len(ls) + 1} \cup {i \in h + 1 .. Len(ls) : ls[i].kind \in Rules}) - 1
  IN SubSeq(ls, h + 1, e)

\* A table of one stage has its columns once and every phase once, and no row
\* of another shape.
SignedTable(ls, stage, kind, shape) ==
  LET t == Table(ls, stage, kind)
      rows == {i \in DOMAIN t : t[i].kind = shape}
  IN /\ Single(Says(ls, 1, Len(ls), stage, {kind}))
     /\ Single(Says(t, 1, Len(t), stage, {"columns"}))
     /\ shape = "compare" => Single({i \in DOMAIN t : t[i].kind = "pairs"})
     /\ Complete(t, rows)
     /\ \A i \in DOMAIN t : t[i].kind \in {"row", "compare", "gainrow"} => t[i].kind = shape

TableValues(ls, stage, kind, shape) ==
  LET t == Table(ls, stage, kind) IN Values(t, {i \in DOMAIN t : t[i].kind = shape})

Differs(ls, stage) ==
  LET t == Table(ls, stage, "differs")
  IN \E i \in DOMAIN t : t[i].kind = "compare" /\ t[i].value # t[i].config

-----------------------------------------------------------------------------
(***************************************************************************)
(* parse_offset_clear                                                      *)
(***************************************************************************)

ClearMarks == {"clearing", "nostored", "cleared"}

ClearAlone(w, b, chip, stage) ==
  \A i \in b + 1 .. Len(w) :
    /\ w[i].tag \in {None, chip}
    /\ w[i].kind \in ClearMarks => w[i].stage = stage
    /\ Category(w[i]) \in {"none", stage}
    /\ (w[i].kind = "row" \/ (w[i].stage = stage /\ w[i].kind \in ClearMarks \cup {"columns", "uncleared"}))
         => w[i].tag = chip

\* Nothing failed, and nothing was saved, from the press on.
ClearClean(w, b, stage) ==
  \A i \in b .. Len(w) :
    /\ w[i].kind \notin {"spi", "saved", "both", "unsaved", "rollback"}
    /\ ~(w[i].kind = "mismatch" /\ w[i].stage = stage)

\* The clear is reported after its table, exactly once, and did not fail; a
\* chip without a stored table clears nothing.
ClearEnds(w, m, c, rows, stage) ==
  LET ends == Says(w, m, Len(w), stage, {"cleared"})
  IN /\ Says(w, m, Len(w), stage, {"uncleared"}) = {}
     /\ \A i \in rows : i > c
     /\ IF w[m].kind = "nostored" THEN ends = {}
        ELSE Single(ends) /\ \A i \in rows \cup {c} : i < Only(ends)

ParseClear(lines, chip, stage) ==
  LET w == Fresh(lines)
      n == Len(w)
      b == Only({i \in 1 .. n : Press(w[i])})
      marks == Says(w, b, n, stage, {"clearing", "nostored"})
      m == Only(marks)
      columns == Says(w, b, n, stage, {"columns"})
      rows == {i \in b .. n : w[i].kind = "row"}
      tail == SubSeq(w, m, n)
  IN IF /\ OnePress(w, chip, stage, "clear")
        /\ ClearClean(w, b, stage) /\ ClearAlone(w, b, chip, stage)
        /\ Single(marks) /\ Single(columns) /\ Only(columns) > m
        /\ SignedTable(tail, stage, w[m].kind, "row")
        /\ ClearEnds(w, m, Only(columns), rows, stage)
       THEN [ok |-> TRUE, rows |-> TableValues(tail, stage, w[m].kind, "row"),
             cleared |-> w[m].kind = "clearing"]
       ELSE No

-----------------------------------------------------------------------------
(***************************************************************************)
(* parse_restore: the tables a restart reports.                            *)
(***************************************************************************)

NoTable == [ok |-> TRUE, some |-> FALSE, verified |-> FALSE, differs |-> FALSE]

SomeTable(ls, stage, kind, shape, verified) ==
  IF SignedTable(ls, stage, kind, shape)
    THEN [ok |-> TRUE, some |-> TRUE, rows |-> TableValues(ls, stage, kind, shape),
          verified |-> verified, differs |-> kind = "differs" /\ Differs(ls, stage)]
    ELSE No

\* The calibration is switched off for both offset stages by one line.
FellBack(ls, stage) == Has(ls, stage, {"fallback"}) \/ \E i \in DOMAIN ls : ls[i].kind = "off"

\* _restore_offset_category
OffsetTable(ls, expected, stage, unverified) ==
  LET failed == Has(ls, stage, {"refuted"})
      verified == Says(ls, 1, Len(ls), stage, {"loaded"})
      restored == Has(ls, stage, {"restored"})
      differs == Has(ls, stage, {"differs"})
  IN CASE ~expected /\ (failed \/ FellBack(ls, stage)) -> NoTable
       [] failed \/ FellBack(ls, stage) -> No
       [] ~expected /\ ~restored /\ ~differs /\ verified = {} -> NoTable
       [] ~Single(verified) /\ ~(unverified /\ verified = {}) -> No
       [] restored /\ ~differs -> SomeTable(ls, stage, "restored", "row", verified # {})
       [] differs /\ ~restored -> SomeTable(ls, stage, "differs", "compare", verified # {})
       [] OTHER -> No

\* _gain_table: gains have no sign, and their table no rule for extra rows; a
\* row of pairs begins like a plain one.
GainTable(ls, kind) ==
  LET t == Table(ls, "gain", kind)
      shapes == IF kind = "restored" THEN {"row", "compare"} ELSE {"compare"}
      rows == {i \in DOMAIN t : t[i].kind \in shapes}
  IN [there |-> Has(ls, "gain", {kind}),
      fine |-> /\ Single(Says(ls, 1, Len(ls), "gain", {kind}))
               /\ Has(t, "gain", {"columns"})
               /\ kind = "differs" => \E i \in DOMAIN t : t[i].kind = "pairs"
               /\ Cardinality({t[i].phase : i \in rows}) = Cardinality(rows),
      whole |-> Complete(t, rows),
      rows |-> IF Complete(t, rows) THEN Values(t, rows) ELSE <<>>]

GainTablesFine(ls) ==
  \A kind \in {"restored", "differs"} : GainTable(ls, kind).there => GainTable(ls, kind).fine

GainSource(ls) ==
  LET plain == GainTable(ls, "restored")
      pairs == GainTable(ls, "differs")
  IN CASE Has(ls, "gain", {"refuted", "fallback", "disabled"}) -> No
       [] ~GainTablesFine(ls) -> No
       [] Has(ls, "gain", {"loaded"}) /\ plain.there /\ plain.whole
            -> [ok |-> TRUE, rows |-> plain.rows, differs |-> FALSE]
       [] pairs.there /\ pairs.whole
            -> [ok |-> TRUE, rows |-> pairs.rows, differs |-> Differs(ls, "gain")]
       [] OTHER -> No

\* A chip that is not expected may report, but completely.
Unexpected(ls) ==
  LET plain == GainTable(ls, "restored")
      pairs == GainTable(ls, "differs")
  IN /\ plain.there => plain.fine /\ plain.whole
     /\ pairs.there => pairs.fine
     /\ ~plain.there /\ pairs.there => pairs.whole
     /\ ~plain.there /\ ~pairs.there => \A i \in DOMAIN ls : ls[i].kind \notin {"row", "compare"}
     /\ \A stage \in {"offset", "power"} : OffsetTable(ls, FALSE, stage, FALSE).ok

RestoreKinds == {"restored", "differs", "loaded", "fallback", "refuted", "disabled", "row", "compare"}

\* expected gives the categories of each chip that must report.
ParseRestore(lines, expected) ==
  LET w == Fresh(lines)
      gain(c) == IF "gain" \in expected[c] THEN GainSource(OfChip(w, c)).ok
                 ELSE GainTablesFine(OfChip(w, c))
      offsets(c) == \A stage \in {"offset", "power"} :
                      OffsetTable(OfChip(w, c), stage \in expected[c], stage, FALSE).ok
  IN IF /\ \A i \in DOMAIN w : w[i].kind \in RestoreKinds => w[i].tag \in Chips
        /\ \A c \in Chips \ DOMAIN expected : Unexpected(OfChip(w, c))
        /\ \A c \in DOMAIN expected : gain(c) /\ offsets(c)
       THEN [ok |-> TRUE,
             tables |-> [c \in DOMAIN expected |-> [stage \in expected[c] |->
               IF stage = "gain" THEN GainSource(OfChip(w, c))
               ELSE OffsetTable(OfChip(w, c), TRUE, stage, FALSE)]]]
       ELSE No

-----------------------------------------------------------------------------
(***************************************************************************)
(* parse_offset_table_snapshot, parse_calibration_sources and              *)
(* parse_offset_configuration_selection: what a dump reports.              *)
(***************************************************************************)

OtherStage(stage) == IF stage = "power" THEN "offset" ELSE "power"

\* A table that is missing is no table, and never one of zeroes.
Snapshot(lines, chip, stage) ==
  LET w == Fresh(lines)
      ls == OfChip(w, chip)
      tables == {"restored", "differs", "columns", "loaded"}
      orphans == \E i \in DOMAIN ls : ls[i].kind \in {"row", "compare"}
  IN CASE \E i \in DOMAIN w :
            \/ w[i].kind = "spi"
            \/ w[i].tag = None /\ (w[i].kind \in {"row", "compare"} \/ w[i].stage = stage)
            -> No
       [] /\ Has(ls, stage, {"fallback"})
          /\ Has(ls, stage, {"restored", "differs", "loaded", "refuted"}) -> No
       [] Has(ls, stage, tables) -> OffsetTable(ls, TRUE, stage, TRUE)
       [] Has(ls, stage, {"refuted"}) -> No
       [] orphans /\ ~Has(ls, OtherStage(stage), tables) -> No
       [] OTHER -> NoTable

\* The source that was reported last.
Source(lines, chip, stage) ==
  LET ls == OfChip(lines, chip)
      flash == IF stage = "gain" THEN {"restored", "differs", "loaded"} ELSE {"restored", "differs"}
      said == Says(ls, 1, Len(ls), stage, flash \cup {"fallback", "disabled"})
              \cup {i \in DOMAIN ls : ls[i].kind = "off" /\ stage # "gain"}
  IN IF said = {} THEN "unknown"
     ELSE IF ls[Max(said)].kind \in flash THEN "flash" ELSE "configuration"

\* Every chip reports that its offsets are those of the configuration, once,
\* and nothing else about offsets.
Selected(lines, chips) ==
  LET w == Fresh(lines)
      offsets == {i \in DOMAIN w : (w[i].kind = "off" \/ w[i].stage \in {"offset", "power"})
                                   /\ w[i].kind \notin {"row", "compare", "pairs", "end"}}
  IN /\ \A i \in DOMAIN w : w[i].kind \notin {"spi", "refuted", "failed", "rollback", "unsaved"}
     /\ \A i \in offsets : w[i].tag # None
     /\ \A i \in offsets : w[i].tag \in chips => w[i].kind = "off"
     /\ \A c \in chips : Single({i \in offsets : w[i].tag = c})

-----------------------------------------------------------------------------
(***************************************************************************)
(* The firmware, as the patterns and fixtures of the parser describe it.   *)
(***************************************************************************)

Results == [saved |-> <<"saved">>, mismatched |-> <<"saved", "mismatch">>,
            unsaved |-> <<"unsaved">>, verified |-> <<"saved", "completed">>,
            confirmed |-> <<"both">>, restored |-> <<"mismatch", "failed">>,
            undone |-> <<"unsaved", "failed">>, broken |-> <<"mismatch", "rollback">>,
            misread |-> <<"spi", "saved">>]

Outcomes(stage, kind) ==
  CASE kind = "clear" -> {"cleared", "nostored", "uncleared"}
    [] stage = "gain" -> (DOMAIN Results \ {"misread"}) \cup {"disabled"}
    [] OTHER -> DOMAIN Results \ {"mismatched", "undone"}

Saved(outcome) == outcome \in {"saved", "mismatched", "verified", "confirmed"}

Rows(chip, stage, n) ==
  [p \in Phases |-> [Say(chip, stage, IF stage = "gain" THEN "gainrow" ELSE "row")
                       EXCEPT !.phase = p, !.value = <<chip, stage, n>>]]

Result(chip, stage, kind) ==
  CASE kind = "spi" -> Say(None, "none", "spi")
    [] kind = "mismatch" -> [Say(chip, stage, kind) EXCEPT !.phase = 1]
    [] OTHER -> Say(chip, stage, kind)

\* What a press of a button prints; the number of the run is in its rows.
Printed(r) ==
  LET press == <<Pressed(r.chip, r.stage, r.kind)>>
      rows == Rows(r.chip, r.stage, r.id)
      says(kinds) == [i \in DOMAIN kinds |-> Result(r.chip, r.stage, kinds[i])]
  IN press \o
     CASE r.outcome = "disabled" -> says(<<"disabled">>)
       [] r.outcome = "cleared" -> says(<<"clearing", "columns">>) \o rows \o says(<<"cleared">>)
       [] r.outcome = "uncleared" -> says(<<"clearing", "columns">>) \o rows \o says(<<"uncleared">>)
       [] r.outcome = "nostored" -> says(<<"nostored", "columns">>) \o rows
       [] r.stage = "gain" -> says(<<"header">>) \o rows \o says(Results[r.outcome])
       [] OTHER -> <<[Line EXCEPT !.kind = "note"]>> \o says(<<"header", "columns">>)
                   \o rows \o says(Results[r.outcome])

\* What a dump prints of one table: the flash has version 1, the configuration 0.
States(stage) == {"restored", "differs", "fallback", "refuted", "silent"} \cup
                 (IF stage = "gain" THEN {"disabled"} ELSE {"stock"}) \cup
                 (IF stage = "offset" THEN {"off"} ELSE {})

Dumped(chip, stage, state) ==
  LET says(kinds) == [i \in DOMAIN kinds |-> Say(chip, stage, kinds[i])]
      shape(s, p) == [Say(chip, stage, s) EXCEPT !.phase = p, !.value = <<chip, stage, 1>>,
                                                 !.config = <<chip, stage, 0>>]
      rows(s) == [p \in Phases |-> shape(s, p)]
      plain == says(<<"restored", "columns">>) \o rows("row") \o says(<<"end">>)
  IN CASE state = "restored" -> plain \o says(<<"loaded">>)
       [] state = "stock" -> plain
       [] state = "differs" -> says(<<"differs", "columns", "pairs">>) \o rows("compare")
                               \o (IF stage = "gain" THEN <<>> ELSE says(<<"loaded">>))
       [] state = "refuted" -> plain \o says(<<"refuted">>)
       [] state = "silent" -> <<>>
       [] OTHER -> says(<<state>>)

-----------------------------------------------------------------------------

Ops == {o \in [kind : {"run", "clear", "dump"}, stage : Stages \cup {"none"}] :
          CASE o.kind = "run" -> o.stage \in Stages
            [] o.kind = "clear" -> o.stage \in {"offset", "power"}
            [] OTHER -> o.stage = "none"}

Run(chip, stage, kind, outcome, id) ==
  [chip |-> chip, stage |-> stage, kind |-> kind, outcome |-> outcome, id |-> id]

\* Late lines of an earlier run: the end of what it printed.
Late(o) ==
  LET all == Printed(Run(Target, o.stage, o.kind, IF o.kind = "run" THEN "saved" ELSE "cleared", 0))
      lines(k, fresh) == [i \in 1 .. Len(all) - k |-> [all[i + k] EXCEPT !.fresh = fresh]]
  IN {lines(k, TRUE) : k \in 1 .. Len(all) - 1} \cup {lines(0, FALSE)}

Init ==
  /\ op \in Ops
  /\ log = <<>> /\ ran = <<>>
  /\ \/ pending = <<>> /\ faults = 0
     \/ op.kind # "dump" /\ pending \in Late(op) /\ faults = 1 /\ MaxFaults > 0

Arrives ==
  /\ pending # <<>>
  /\ log' = Append(log, Head(pending)) /\ pending' = Tail(pending)
  /\ UNCHANGED <<op, ran, faults>>

Lose ==
  /\ pending # <<>> /\ faults < MaxFaults
  /\ pending' = Tail(pending) /\ faults' = faults + 1
  /\ UNCHANGED <<log, op, ran>>

Starts(r) ==
  /\ pending = <<>> /\ op.kind # "dump"
  /\ ran' = Append(ran, r)
  /\ pending' = Printed(r)
  /\ UNCHANGED <<log, op>>

Mine == {i \in DOMAIN ran : ran[i].id = 1}

\* The press of the helper, and one of somebody else.
Ask ==
  /\ Mine = {}
  /\ \E outcome \in Outcomes(op.stage, op.kind) : Starts(Run(Target, op.stage, op.kind, outcome, 1))
  /\ UNCHANGED faults

Disturb ==
  /\ faults < MaxFaults /\ faults' = faults + 1
  /\ \E chip \in Chips, o \in {o \in Ops : o.kind # "dump"} :
       Starts(Run(chip, o.stage, o.kind, IF o.kind = "run" THEN "saved" ELSE "cleared", 2 + Len(ran)))

\* The next table of a dump: the offsets of the target, then its gains.
DumpOrder == <<"offset", "power", "gain">>

Report ==
  /\ op.kind = "dump" /\ pending = <<>> /\ Len(ran) < 3
  /\ LET stage == DumpOrder[Len(ran) + 1] IN
     \E state \in States(stage) :
       /\ Len(ran) = 1 /\ ran[1].outcome = "off" => state = "silent"
       /\ ran' = Append(ran, Run(Target, stage, "dump", state, 1))
       /\ pending' = Dumped(Target, stage, state)
  /\ UNCHANGED <<log, op, faults>>

\* Another chip reports its own table first.
ReportOther ==
  /\ op.kind = "dump" /\ log = <<>> /\ pending = <<>> /\ ran = <<>> /\ faults < MaxFaults
  /\ \E chip \in Chips \ {Target}, stage \in Stages : pending' = Dumped(chip, stage, "restored")
  /\ faults' = faults + 1
  /\ UNCHANGED <<log, op, ran>>

Next == Arrives \/ Lose \/ Ask \/ Disturb \/ Report \/ ReportOther

Spec == Init /\ [][Next]_vars

-----------------------------------------------------------------------------
(***************************************************************************)
(* Properties.                                                             *)
(***************************************************************************)

\* Rows are those of one run or table of the target.
Of(rows, stage, id) == \A p \in Phases : rows[p] = <<Target, stage, id>>
Ran(kind, stage) == {ran[i] : i \in {j \in DOMAIN ran : ran[j].chip = Target
                                        /\ ran[j].stage = stage /\ ran[j].kind = kind}}

\* The evidence of a gain or offset run is one run of the target, started after
\* the dispatch, with its values and whether it was saved or verified.
RunEvidenceIsTrue ==
  /\ op.kind = "run" /\ op.stage = "gain" =>
       LET e == ParseGain(log, Target) IN e.ok =>
         \E r \in Ran("run", "gain") :
           /\ Of(e.rows, "gain", r.id) /\ e.saved = Saved(r.outcome)
           /\ e.mismatches # {} => r.outcome \notin {"saved", "verified", "confirmed"}
  /\ op.kind = "run" /\ op.stage # "gain" =>
       \A unverified \in BOOLEAN :
         LET e == ParseOffset(log, Target, op.stage, unverified) IN e.ok =>
           \E r \in Ran("run", op.stage) :
             /\ Of(e.rows, op.stage, r.id)
             /\ Saved(r.outcome) \/ (r.outcome = "misread" /\ faults > 0)
             /\ e.verified => r.outcome \in {"verified", "confirmed"}

\* The evidence of a clear is one clear of the target's stage, which reported
\* that it was done, or that there was nothing to clear.
ClearEvidenceIsTrue ==
  op.kind = "clear" =>
    LET e == ParseClear(log, Target, op.stage) IN e.ok =>
      \E r \in Ran("clear", op.stage) :
        Of(e.rows, op.stage, r.id) /\ r.outcome = (IF e.cleared THEN "cleared" ELSE "nostored")

Tabled == {"restored", "stock", "differs"}

\* Nothing disturbed the operation but what others pressed after it.
Undisturbed == pending = <<>> /\ ran # <<>> /\ ran[1].id = 1 /\ faults = Len(ran) - 1

TableIsTrue(e, stage) ==
  e.ok /\ e.some => \E r \in Ran("dump", stage) :
    /\ r.outcome \in Tabled \cup {"refuted"} /\ Of(e.rows, stage, 1)
    /\ e.verified => r.outcome \in {"restored", "differs"}
    /\ e.differs => r.outcome = "differs"
    /\ r.outcome = "refuted" => pending # <<>> \/ faults > 0

\* What a dump is taken to report is so: a table that is accepted is that of
\* the flash; one that is absent was not printed; a restore that is accepted
\* restored every category; the configuration is selected where all is off.
DumpEvidenceIsTrue ==
  op.kind = "dump" =>
    /\ \A stage \in {"offset", "power"} :
         LET e == Snapshot(log, Target, stage) IN
           /\ TableIsTrue(e, stage)
           /\ e.ok /\ ~e.some /\ pending = <<>> /\ Len(ran) = 3 /\ faults = 0 =>
                \A r \in Ran("dump", stage) : r.outcome \notin Tabled
    /\ \A cats \in {Stages} \cup kSubset(1, Stages) :
         LET e == ParseRestore(log, Target :> cats) IN e.ok =>
           \A stage \in cats : \E r \in Ran("dump", stage) :
             r.outcome \in {"restored", "differs"} /\ Of(e.tables[Target][stage].rows, stage, 1)
    /\ Selected(log, {Target}) => \E r \in Ran("dump", "offset") : r.outcome = "off"
    /\ \A stage \in Stages : faults = 0 /\ pending = <<>> =>
         LET src == Source(log, Target, stage)
         IN src = "flash" => \E r \in Ran("dump", stage) : r.outcome \in Tabled \cup {"refuted"}

\* Evidence that is accepted, whatever was asked for, is true.
EvidenceIsTrue == RunEvidenceIsTrue /\ ClearEvidenceIsTrue /\ DumpEvidenceIsTrue

\* The rows of a gain table look like those of an offset table, and are taken
\* for orphans if the dump has no table of either offset stage.
OffsetsOmitted ==
  /\ ran[3].outcome \notin {"silent", "fallback", "disabled"}
  /\ ran[1].outcome \notin Tabled \cup {"refuted"} /\ ran[2].outcome \notin Tabled \cup {"refuted"}

\* A good run, clear or dump is not refused: a gain run not even if somebody
\* runs the gains of any chip afterwards.  Nothing is said here of a snapshot
\* of a dump without offset tables (StockDumpMayOmitOffsets).
GoodEvidenceIsAccepted ==
  /\ Undisturbed /\ op = [kind |-> "run", stage |-> "gain"] /\ Saved(ran[1].outcome)
     /\ (\A i \in 2 .. Len(ran) : ran[i].stage = "gain") =>
       LET e == ParseGain(log, Target) IN e.ok /\ Of(e.rows, "gain", 1)
  /\ Undisturbed /\ op.kind = "run" /\ op.stage # "gain" /\ Len(ran) = 1 /\ Saved(ran[1].outcome) =>
       \A unverified \in BOOLEAN :
         ParseOffset(log, Target, op.stage, unverified).ok = (unverified \/ ran[1].outcome # "saved")
  /\ Undisturbed /\ op.kind = "clear" /\ Len(ran) = 1 =>
       ParseClear(log, Target, op.stage).ok = (ran[1].outcome # "uncleared")
  /\ op.kind = "dump" /\ pending = <<>> /\ Len(ran) = 3 /\ faults = 0 =>
       /\ ParseRestore(log, Target :> {s \in Stages : \E r \in Ran("dump", s) : r.outcome # "silent"}).ok
            = (\A i \in 1 .. 3 : ran[i].outcome \in {"restored", "differs", "silent"})
       /\ OffsetsOmitted \/ \A stage \in {"offset", "power"} :
            Snapshot(log, Target, stage).ok
              = \A r \in Ran("dump", stage) :
                  /\ r.outcome # "refuted"
                  /\ r.outcome \in Tabled => ran[1].outcome # "off"

\* "A stock dump can omit this table entirely" (log_parser.py:1223): a complete
\* dump that reports a restored gain table and no offset table is read as having
\* none.  The code takes the gain rows for an orphaned offset table.
StockDumpMayOmitOffsets ==
  op.kind = "dump" /\ pending = <<>> /\ Len(ran) = 3 /\ faults = 0
    /\ ran[3].outcome = "restored" /\ (\A i \in {1, 2} : ran[i].outcome = "silent") =>
      \A stage \in {"offset", "power"} : Snapshot(log, Target, stage) = NoTable
=============================================================================
