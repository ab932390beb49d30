---------------------------- MODULE MCAlgorithms ----------------------------
EXTENDS LogParser, TotalGraph

MCBoard == [c \in 1 .. 3 |-> IF c = 3 THEN "addon" ELSE "main"]
\* Two mains; a disabled CT; two-pole CTs of which one has a named other leg.
MCLayouts ==
  LET CT(role, name) == [role |-> role, name |-> name] IN
  {<<CT("grid", Unnamed), CT("grid", Unnamed), CT("branch", Unnamed)>>,
   <<CT("branch", Unnamed), CT("off", <<"A", "b">>), CT("branch", <<"A", "a">>)>>,
   <<CT("two_pole", <<"A", "a">>), CT("two_pole", Unnamed), CT("branch", <<"A", "b">>)>>}
MCExplicit == <<<<"grid">>, <<"house">>>>

\* The log parser and the totals share no state: a behaviour is of one of them.
Reading == op.kind # "none"
MCInit ==
  \/ /\ Init /\ totals = <<>> /\ chosen = <<>>
     /\ channels = [c \in DOMAIN Board |-> [role |-> "off", name |-> Unnamed]]
  \/ /\ RequestInit /\ log = <<>> /\ pending = <<>> /\ ran = <<>> /\ faults = 0
     /\ op = [kind |-> "none", stage |-> "none"]
MCNext ==
  \/ Reading /\ Next /\ UNCHANGED request
  \/ ~Reading /\ RequestNext /\ UNCHANGED vars
MCSpec == MCInit /\ [][MCNext]_<<vars, request>>
=============================================================================
