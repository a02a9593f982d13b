------------------------------ MODULE MCV1Storage ------------------------------
(***************************************************************************)
(* A small instance of V1Storage: a scope with points of two services, a   *)
(* period whose points were all filtered out, one without usage, a         *)
(* resource that both scopes use, one used in two periods that have one    *)
(* state, and a point without an id.                                       *)
(***************************************************************************)
EXTENDS V1Storage, TLC

CONSTANTS s1, s2, v1, v2, r1, r2

Of(service, price, groupby, metadata) ==
  [service |-> service, price |-> price, groupby |-> groupby,
   metadata |-> metadata]

Id(r) == "id" :> r
In(s) == "project_id" :> s

MCUsage ==
  (<<s1, 0>> :> <<Of(v1, 1, Id(r1) @@ In(s1), <<>>),
                  Of(v2, 2, In(s1), Id(r1))>>) @@
  (<<s1, 1>> :> <<>>) @@
  (<<s1, 2>> :> <<Of(v1, 4, In(s1), <<>>)>>) @@
  (<<s2, 0>> :> None) @@
  (<<s2, 1>> :> <<Of(v2, 8, Id(r2), <<>>)>>) @@
  (<<s2, 2>> :> <<Of(v1, 16, Id(r1) @@ In(s2), Id(r2)),
                  Of(v2, 32, Id(r2), <<>>)>>)

MCMetrics ==
  v1 :> [groupby |-> {"id", "project_id"}, metadata |-> {}] @@
  v2 :> [groupby |-> {"project_id"}, metadata |-> {"id"}]

Symmetry == Permutations(Processors)
=============================================================================
