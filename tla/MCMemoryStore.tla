--------------------------- MODULE MCMemoryStore ----------------------------
(***************************************************************************)
(* Two writes and a read of one key, two appends of one event id and a     *)
(* query, invoked in every order around two calls of close().              *)
(***************************************************************************)
EXTENDS MemoryStore

CONSTANTS s1, s2, g1, e1, e2, q1, k1, id1, c1, c2

MCOps == {s1, s2, g1, e1, e2, q1}
MCKind == [o \in MCOps |-> CASE o \in {s1, s2} -> "set"
                             [] o = g1 -> "get"
                             [] o \in {e1, e2} -> "append"
                             [] o = q1 -> "query"]
MCKeyOf   == [o \in MCOps |-> k1]
MCEventOf == [o \in MCOps |-> id1]
MCClosers == {c1, c2}
MCSymmetry ==
    Permutations({s1, s2}) \cup Permutations({e1, e2}) \cup Permutations(MCClosers)

=============================================================================
