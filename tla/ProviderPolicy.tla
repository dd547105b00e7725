--------------------------- MODULE ProviderPolicy ---------------------------
(***************************************************************************)
(* The order in which ModelRouter tries the registered providers           *)
(* (src/src/router/policy.ts).  Array.prototype.sort is stable, so a sort  *)
(* on a two-valued rank is a partition that keeps the registration order.  *)
(* The keys of a Map are different, and so a selection is given by what it *)
(* selects and the ranks that put it in order.                             *)
(***************************************************************************)
EXTENDS Naturals, Sequences, SequencesExt

CONSTANTS
    Providers,   \* provider ids
    Kind,        \* Kind[p] is "local" or "cloud"
    IdRank       \* IdRank[p] is the place of p's id in localeCompare order

ASSUME ProviderAssumption ==
    /\ Kind \in [Providers -> {"local", "cloud"}]
    /\ IdRank \in [Providers -> Nat]
    /\ \A p, q \in Providers : IdRank[p] = IdRank[q] => p = q

Policies == {"local-first", "cloud-first", "cost", "manual"}

(* RouteHints: an optional hint is a set of at most one value.             *)
Hints == [preferId : {{}} \cup {{p} : p \in Providers},
          preferKind : {{}, {"local"}, {"cloud"}}]

(* The elements of S by their rank, which is different for each of them.   *)
Sorted(S, rank) ==
    [i \in 1 .. Cardinality(S) |->
        CHOOSE p \in S : Cardinality({q \in S : rank[q] < rank[p]}) = i - 1]

(* filter: what the registration order is among the elements of S.         *)
Place(reg) == [p \in ToSet(reg) |-> CHOOSE i \in DOMAIN reg : reg[i] = p]
Filtered(reg, S) == Sorted(S \cap ToSet(reg), Place(reg))

OfKind(kinds) == {p \in Providers : Kind[p] \in kinds}

(* rankKind: the preferred kind first, each part in registration order.    *)
KindFirst(reg, kind) ==
    Filtered(reg, OfKind({kind})) \o Filtered(reg, Providers \ OfKind({kind}))

ById(S) == Sorted(S, IdRank)

SelectManual(reg, hints) ==
    CASE hints.preferId # {} ->
           Filtered(reg, hints.preferId)
      [] hints.preferId = {} /\ hints.preferKind # {} ->
           Filtered(reg, OfKind(hints.preferKind))
      [] OTHER -> reg

SelectProviders(reg, policy, hints) ==
    CASE policy = "manual"      -> SelectManual(reg, hints)
      [] policy = "local-first" -> KindFirst(reg, "local")
      [] policy = "cloud-first" -> KindFirst(reg, "cloud")
      [] policy = "cost"        -> ById(OfKind({"local"}) \cap ToSet(reg))
                                     \o ById(OfKind({"cloud"}) \cap ToSet(reg))
=============================================================================
