------------------------- MODULE MCEntryLifeCycle -------------------------
(***************************************************************************)
(* A small instance of EntryLifeCycle for TLC: two calls that use the      *)
(* meter, or one call of the discovery, which meet set-up and unload.      *)
(***************************************************************************)
EXTENDS EntryLifeCycle, TLC

OfDiscovery == {"rescan", "intent"}
UnderWay == {c \in Calls : job[c].kind # "none"}

\* A bound: from the first change of the entries or choice of the installer on, and
\* while a rescan is under way, there is at most one call, of the discovery, and no
\* work.
Separate ==
  (entries > 0 \/ snapshot # Listing(0) \/ \E c \in UnderWay : job[c].kind \in OfDiscovery)
    => /\ Cardinality(UnderWay) <= 1
       /\ \A c \in UnderWay : job[c].kind \in OfDiscovery
       /\ \A w \in Works : work[w].pc = "none"

KeptSeparate == Separate'
=============================================================================
