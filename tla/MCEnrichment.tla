---------------------------- MODULE MCEnrichment ----------------------------
(* Instances of Enrichment for TLC. *)
EXTENDS Enrichment, TLC
CONSTANTS r1, r2, j1, j2, p1, p2

\* One process with two task slots.
OneProcess == (r1 :> p1) @@ (j1 :> p1) @@ (j2 :> p1)
\* Two processes with a request and a task slot each, which may change places.
TwoProcesses == (r1 :> p1) @@ (r2 :> p2) @@ (j1 :> p1) @@ (j2 :> p2)
Swap == {(r1 :> r2) @@ (r2 :> r1) @@ (j1 :> j2) @@ (j2 :> j1) @@ (p1 :> p2) @@ (p2 :> p1)}
\* Each version has one more wheel than the one before.
Uploads == [v \in 1..MaxVersion |-> 1..v]
==============================================================================
