------------------------------ MODULE TotalGraph ------------------------------
(***************************************************************************)
(* The totals a meter's configuration asks for (total_graph.py): sums of   *)
(* CTs, of the totals the firmware has, and of other totals, some of them  *)
(* suggested by the roles and names of the CTs.  The graph of a request is *)
(* validated by a depth-first search and then planned children first.      *)
(***************************************************************************)
EXTENDS Naturals, FiniteSets, Sequences, SequencesExt

CONSTANTS
  Board,     \* the board of each CT
  Layouts,   \* roles and names of the CTs that are tried
  Explicit,  \* IDs of the totals that are tried, in their order
  Unnamed    \* a name that says nothing of a leg

VARIABLES channels, totals, chosen
request == <<channels, totals, chosen>>

-----------------------------------------------------------------------------
(* The automatic totals.  An ID is a tuple; "off" is a disabled CT.        *)

Enabled == {c \in DOMAIN Board : channels[c].role # "off"}
OfRole(role) == {c \in Enabled : channels[c].role = role}

\* _named_two_pole_pair: what is left of a name, and the leg it names.
Named == {c \in Enabled : /\ channels[c].role \in {"branch", "custom", "two_pole"}
                          /\ channels[c].name # Unnamed}
Base(c) == channels[c].name[1]
Leg(c) == channels[c].name[2]

\* Two legs of one name, of which there is no third.
NamedPairs(cts) ==
  {p \in SUBSET cts :
     /\ Cardinality(p) = 2 /\ \A c, d \in p : c # d => Leg(c) # Leg(d)
     /\ \A c \in p : {d \in cts : Base(d) = Base(c)} = p}

\* The only two-pole CTs, unless their names say they are no pair.
TwoPoles ==
  {two \in {OfRole("two_pole")} :
     /\ Cardinality(two) = 2
     /\ two \subseteq Named => two \in NamedPairs(two)}

\* automatic_total_candidates: a candidate is a role and its two CTs.
Suggested ==
  {<<role, OfRole(role)>> : role \in {"grid", "solar", "subpanel"}}
  \cup {<<"two_pole", p>> : p \in NamedPairs(Named) \cup TwoPoles}

IdOf(key) == IF key[1] = "two_pole" THEN key ELSE <<key[1]>>

\* _duplicates_automatic_total: somebody has that sum already, and made no
\* choice about the suggestion.
Duplicates(key) ==
  /\ key \notin DOMAIN chosen
  /\ \E i \in DOMAIN totals :
       /\ totals[i].method \in {"direct", "sum"}
       /\ ToSet(totals[i].sources) = {<<"channel", c>> : c \in key[2]}

Candidates ==
  {key \in Suggested : /\ Cardinality(key[2]) = 2 /\ ~Duplicates(key)
                  /\ \A i \in DOMAIN totals : totals[i].id # IdOf(key)}

\* resolve_automatic_totals: a pair of legs is offered, not taken.
Automatic ==
  {key \in Candidates : IF key \in DOMAIN chosen THEN chosen[key]
                        ELSE key[1] # "two_pole"}

\* _active_aggregates: the totals of a request, by their IDs.
Suggestions ==
  {[id |-> IdOf(key), method |-> "sum",
    sources |-> SetToSeq({<<"channel", c>> : c \in key[2]})] : key \in Automatic}
Active == totals \o SetToSeq(Suggestions)
Graph == [id \in {t.id : t \in ToSet(Active)} |->
            CHOOSE t \in ToSet(Active) : t.id = id]

-----------------------------------------------------------------------------
(* Validation.                                                             *)

\* native_total_sources: the boards, if there are several, and the meter.
Boards == {Board[c] : c \in DOMAIN Board}
Natives == {"overall"} \cup IF Cardinality(Boards) = 1 THEN {} ELSE Boards
Native(n) == {c \in DOMAIN Board : n \in {"overall", Board[c]}}

OfKind(t, kind) == {i \in DOMAIN t.sources : t.sources[i][1] = kind}
Nested(t) == OfKind(t, "native") \cup OfKind(t, "total")

\* validate_meter_configuration, of one total: its CTs are enabled and
\* different, its native totals exist, and a special method has CTs, of its
\* number.
Valid(t) ==
  LET cts == {t.sources[i][2] : i \in OfKind(t, "channel")} IN
  /\ t.sources # <<>> /\ cts \subseteq Enabled
  /\ Cardinality(cts) = Cardinality(OfKind(t, "channel"))
  /\ \A i \in OfKind(t, "native") : t.sources[i][2] \in Natives
  /\ t.method # "direct" =>
       /\ Nested(t) = {}
       /\ Len(t.sources) = IF t.method = "sum" THEN 2 ELSE 1

\* What is refused before the search: by the above, by _active_aggregates (a
\* choice must be about a current candidate) and by _graph_parts.
IsRequest ==
  /\ \A i \in DOMAIN totals : Valid(totals[i])
  /\ DOMAIN chosen \subseteq Candidates
  /\ IsInjective([i \in DOMAIN Active |-> Active[i].id])
  /\ DOMAIN Graph \cap {<<n>> : n \in Natives} = {}

\* Variant: sources are refused only if they have the same CTs.
SameLeaves(left, right) == left = right

Overlap(left, right) == left \cap right # {}

\* A total sums CTs or other totals, and the latter by no special method.
Pure(t) ==
  Nested(t) # {} => OfKind(t, "channel") = {} /\ t.method = "direct"

\* visit: fed are the totals that have a parent, leaves the CTs of those that
\* are done, sum the CTs of the one that is visited.
Refusal == [ok |-> FALSE]
Add(s, sum, leaves) ==
  IF Overlap(sum, leaves) THEN Refusal ELSE [s EXCEPT !.sum = sum \cup leaves]

RECURSIVE Visit(_, _, _, _)
Visit(g, s, path, id) ==
  LET Feed(u, source) ==
        CASE ~u.ok -> Refusal
          [] u.ok /\ source[1] = "channel" -> Add(u, u.sum, {source[2]})
          [] u.ok /\ source[1] = "native" -> Add(u, u.sum, Native(source[2]))
          [] u.ok /\ source[1] = "total" ->
               IF source[2] \notin DOMAIN g \ u.fed THEN Refusal
               ELSE LET v == Visit(g, [u EXCEPT !.fed = @ \cup {source[2]}],
                                   path \cup {id}, source[2])
                    IN IF v.ok THEN Add(v, u.sum, v.leaves[source[2]]) ELSE Refusal
      end == FoldLeft(Feed, [s EXCEPT !.sum = {}], g[id].sources)
  IN CASE ~s.ok \/ id \in path -> Refusal
       [] s.ok /\ id \notin path /\ id \in DOMAIN s.leaves -> s
       [] OTHER -> IF Pure(g[id]) /\ end.ok
                   THEN [end EXCEPT !.leaves = (id :> end.sum) @@ @]
                   ELSE Refusal

\* validate_total_graph
Visited(g) ==
  FoldLeft(LAMBDA s, t : Visit(g, s, {}, t.id),
           [ok |-> TRUE, fed |-> {}, leaves |-> <<>>, sum |-> {}], Active)

-----------------------------------------------------------------------------
(* The plan of an accepted request.                                        *)

Children(t) ==
  LET nested == SelectSeq(t.sources, LAMBDA source : source[1] = "total")
  IN [i \in DOMAIN nested |-> nested[i][2]]
Parts(t) == ToSet(Children(t))

\* resolve: a total follows the totals it sums.
RECURSIVE Resolve(_, _, _)
Resolve(g, order, id) ==
  IF id \in ToSet(order) THEN order
  ELSE Append(FoldLeft(LAMBDA o, x : Resolve(g, o, x),
                       order, Children(g[id])), id)
Order(g) == FoldLeft(LAMBDA o, t : Resolve(g, o, t.id), <<>>, Active)

\* The sensors needed for those that are wanted.
Required(g, order, wanted) ==
  FoldLeft(LAMBDA need, id :
             IF id \in need THEN need \cup Parts(g[id]) ELSE need,
           wanted, Reverse(order))

\* independent_overlap_warnings
Roots(g) == DOMAIN g \ UNION {Parts(g[x]) : x \in DOMAIN g}
Warned(g, leaves) ==
  {<<x, y>> \in Roots(g) \X Roots(g) : x # y /\ Overlap(leaves[x], leaves[y])}

-----------------------------------------------------------------------------
(* A request grows.                                                        *)

RequestInit == channels \in Layouts /\ totals = <<>> /\ chosen = <<>>

Sources ==
  {<<"channel", c>> : c \in Enabled} \cup {<<"native", n>> : n \in Natives}
  \cup {<<"total", id>> : id \in ToSet(Explicit) \cup {IdOf(key) : key \in Suggested}}

\* One source, two, or a total twice; other sources are refused at once.
AddTotal ==
  /\ Len(totals) < Len(Explicit)
  /\ \E sources \in {SetToSeq(set) : set \in kSubset(1, Sources) \cup kSubset(2, Sources)}
                   \cup {<<x, x>> : x \in {x \in Sources : x[1] = "total"}},
        method \in {"direct", "sum", "single"} :
       LET t == [id |-> Explicit[Len(totals) + 1], method |-> method, sources |-> sources] IN
       Valid(t) /\ totals' = Append(totals, t)
  /\ UNCHANGED <<channels, chosen>>

Choose(key) ==
  /\ chosen = <<>>
  /\ \E take \in BOOLEAN : chosen' = [k \in {key} |-> take]
  /\ UNCHANGED <<channels, totals>>

RequestNext ==
  \/ AddTotal
  \/ \E key \in Candidates : Choose(key)

-----------------------------------------------------------------------------
(* Properties.                                                             *)

\* The totals inside each total, and the CTs it sums through them.
Inside(g) ==
  LET Further(f, n) ==
        [x \in DOMAIN g |-> f[x] \cup UNION {f[y] : y \in f[x] \cap DOMAIN g}]
  IN FoldLeft(Further, [x \in DOMAIN g |-> Parts(g[x]) \cap DOMAIN g],
              [n \in 1 .. Cardinality(DOMAIN g) |-> n])
Direct(source) ==
  CASE source[1] = "channel" -> {source[2]}
    [] source[1] = "native" -> Native(source[2])
    [] source[1] = "total" -> {}
Leaves(g, inside) ==
  [x \in DOMAIN g |->
     UNION {Direct(source) : source \in
              UNION {ToSet(g[y].sources) : y \in {x} \cup inside[x]}}]

\* Every total is a tree of totals with disjoint parts.
AreTrees(g, inside, leaves) ==
  LET links == UNION {{<<x, i>> : i \in OfKind(g[x], "total")} : x \in DOMAIN g}
      target == [l \in links |-> g[l[1]].sources[l[2]][2]]
      Part(x, i) == IF <<x, i>> \in links THEN leaves[target[<<x, i>>]]
                    ELSE Direct(g[x].sources[i])
  IN /\ IsInjective(target) /\ \A l \in links : target[l] \in DOMAIN g
     /\ \A x \in DOMAIN g :
          /\ x \notin inside[x] /\ Pure(g[x])
          /\ \A i, j \in DOMAIN g[x].sources :
               i # j => Part(x, i) \cap Part(x, j) = {}

\* A request whose parts are valid is accepted when its totals are trees, so
\* that no CT is counted twice in a total, whatever the order in which the
\* search meets them.  Its plan has every total after those it sums, and the
\* sensors of all that is wanted and of what is inside; and two totals count
\* the same CT only if one is inside the other or the administrator is warned
\* of their roots (validate_total_graph, plan_total_graph).
TotalsAreExact ==
  LET g == Graph
      inside == Inside(g)
      leaves == Leaves(g, inside)
      order == Order(g)
      v == Visited(g)
  IN IsRequest =>
       /\ v.ok <=> AreTrees(g, inside, leaves)
       /\ v.ok =>
            /\ v.leaves = leaves
            /\ IsInjective(order) /\ ToSet(order) = DOMAIN g
            /\ \A i, j \in DOMAIN order :
                 order[j] \in inside[order[i]] => j < i
            /\ \A wanted \in SUBSET DOMAIN g :
                 Required(g, order, wanted)
                   = wanted \cup UNION {inside[x] : x \in wanted}
            /\ \A x, y \in DOMAIN g : leaves[x] \cap leaves[y] # {} =>
                 \/ x = y \/ x \in inside[y] \/ y \in inside[x]
                 \/ \E pair \in Warned(g, v.leaves) :
                      /\ x \in {pair[1]} \cup inside[pair[1]]
                      /\ y \in {pair[2]} \cup inside[pair[2]]
=============================================================================
