---------------------------- MODULE MCBackground ----------------------------
(* Instances of BackgroundTasks for TLC. *)
EXTENDS BackgroundTasks, TLC
CONSTANTS t1, t2, d1, d2, e1, e2, r1

\* Two projects, and the body that discovery of each leaves to extraction.
TwoProjects ==
    (d1 :> "discovery") @@ (d2 :> "discovery") @@ (e1 :> "extraction") @@ (e2 :> "extraction")
TwoAfter == (d1 :> {e1}) @@ (d2 :> {e2})

One == [k \in {"discovery", "extraction"} |-> 1]
\* Discovery waits for a shorter idle window than extraction.
Delays == ("discovery" :> 1) @@ ("extraction" :> 2)
==============================================================================
