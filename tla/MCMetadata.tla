----------------------------- MODULE MCMetadata -----------------------------
(* An instance of MetadataStore for TLC. *)
EXTENDS MetadataStore, TLC
CONSTANTS extraction, request, u1, m1

\* Background extraction and a client's request.
TwoRoles == (extraction :> "extraction") @@ (request :> "recovery")
OneMetadata == (u1 :> m1)
\* One permit of each kind.
OneEach == [s \in Semaphores |-> 1]
==============================================================================
