------------------------ MODULE MCCalibrationSession ------------------------
(***************************************************************************)
(* Two tasks and two sessions of one meter, on one of four courses.        *)
(***************************************************************************)
EXTENDS CalibrationSession, FiniteSets, TLC

\* Contents of the tables that a course leaves alone.  No other table has them, so
\* that they tell the course.
CONSTANTS Apart, Beside

Alone == {Apart, Beside}
Measured == Values \ Alone
Symmetry == Permutations(Tasks) \cup Permutations(Sessions)
            \cup Permutations(GainTables) \cup Permutations(Measured)

Are(xs, v) == \A x \in xs : flash[x] = v

\* A course bounds the operations, says whether sessions run out and whether a config
\* transaction shares the lock, and how many contents are told apart at a time.
Course ==
  CASE Are(GainTables, Apart) ->
         [ops |-> {"offsets", "prepare", "resume", "capture", "review", "reconcile",
                   "cycle"}, late |-> FALSE, shared |-> TRUE, contents |-> 2]
    [] Are(OffsetTables, Apart) ->
         [ops |-> {"gains", "verify", "clear", "recover"},
          late |-> FALSE, shared |-> TRUE, contents |-> 1]
    [] Are(OffsetTables, Beside) ->
         [ops |-> {"gains", "prepare", "verify_gains"},
          late |-> TRUE, shared |-> TRUE, contents |-> 1]
    [] OTHER ->
         [ops |-> {"gains", "offsets", "verify", "check"},
          late |-> TRUE, shared |-> FALSE, contents |-> 2]

Seen == {v \in Measured : \E x \in Tables :
           \/ v \in {flash[x], record[x]}
           \/ origin # None /\ origin.tables[x] = v
           \/ \E t \in Tasks : job[t].got[x] = v}

OnCourse ==
  /\ \A t \in Tasks : job[t].op \in Course.ops \cup {"none", "start"}
  /\ tx # "idle" => Course.shared
  /\ (\E h \in Sessions : handle[h].due) => Course.late
  /\ Cardinality(Seen) <= Course.contents

\* What is left alone stays as it is.
LeavesAlone ==
  /\ \A x \in Tables : (flash[x] \in Alone \/ flash'[x] \in Alone) => flash'[x] = flash[x]
  /\ \A t \in Tasks : \A x \in job'[t].todo : flash[x] \notin Alone

Keep == OnCourse' /\ LeavesAlone

\* One table at most is left alone, a gain table only apart.
CourseInit ==
  /\ Init /\ OnCourse
  /\ \A x \in GainTables : flash[x] # Beside
  /\ \A x, y \in Tables : {flash[x], flash[y]} \subseteq Alone => x = y
CourseSpec == CourseInit /\ [][Next]_vars
=============================================================================
