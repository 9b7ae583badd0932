------------------------------- MODULE MCCache -------------------------------
(* Cache for TLC: two entries that are written together, such as a fresh    *)
(* and a stale copy, and what the handlers do with them.                    *)
EXTENDS Cache, TLC

CONSTANTS k1, k2, v1, v2

Nothing == [k \in {} |-> None]
Operation(name, keys, expect, values) ==
    [name |-> name, keys |-> keys, expect |-> expect, values |-> values]
Both(v) == [k \in Keys |-> v]

HandlerOps ==
    {Operation("read", Keys, Nothing, Nothing),
     Operation("exists", Keys, Nothing, Nothing),
     Operation("ttl", {k1}, Nothing, Nothing),
     Operation("check", {}, Both(v1), Nothing),
     Operation("write", {}, Nothing, Both(v1)),
     Operation("cas", {}, k1 :> v1, Both(v2))}
==============================================================================
