--------------------------- MODULE MCHashMapRating ---------------------------
(***************************************************************************)
(* Small instances of HashMapRating.                                       *)
(***************************************************************************)
EXTENDS HashMapRating

CONSTANTS s, f, g

Mapping(parent, key, tenant, group, type, cost, start, end) ==
  [kind |-> "mappings", parent |-> parent, key |-> key, tenant |-> tenant,
   group |-> group, type |-> type, cost |-> cost, start |-> start, end |-> end]

Threshold(parent, key, tenant, group, type, cost) ==
  [Mapping(parent, key, tenant, group, type, cost, 0, Forever)
     EXCEPT !.kind = "thresholds"]

MCUsage == <<[service |-> s, qty |-> 2, price |-> 1, desc |-> (f :> 2)],
             [service |-> s, qty |-> 1, price |-> 0, desc |-> (f :> Word)]>>

MCCatalogue ==
  {Mapping(<<s>>, NoValue, Global, g, "flat", 3, 0, Forever),
   Mapping(<<s>>, NoValue, Tenant, g, "flat", 5, 1, Forever),
   Mapping(<<s, f>>, 2, Global, g, "rate", 7, 0, 1),
   Mapping(<<s, f>>, 2, Global, NoGroup, "flat", 4, 0, Forever),
   Threshold(<<s>>, 1, Global, g, "rate", 3),
   Threshold(<<s>>, 2, Tenant, g, "flat", -1),
   Threshold(<<s, f>>, 2, Global, g, "flat", 2),
   Threshold(<<s, f>>, 1, Tenant, NoGroup, "rate", 5)}
=============================================================================
