----------------------------- MODULE MCCollection -----------------------------
(***************************************************************************)
(* A small instance of Collection: two metrics of instances, of one name,  *)
(* and images, one of the scope that has two instances and one of none.    *)
(***************************************************************************)
EXTENDS Collection, TLC

CONSTANTS s1, s2

vm1 == [id |-> 1, type |-> "instance", scope |-> s1]
vm2 == [id |-> 2, type |-> "instance", scope |-> s1]
vm3 == [id |-> 3, type |-> "instance", scope |-> s2]
image1 == [id |-> 4, type |-> "image", scope |-> NoScope]
image2 == [id |-> 5, type |-> "image", scope |-> s1]

MCResources == {vm1, vm2, vm3, image1, image2}
MCTypes == <<"image", "instance">>

Metric(metric, alt, type, metadata, all, mutate, place) ==
  [metric |-> metric, alt |-> alt, type |-> type, key |-> "id",
   groupby |-> {"flavor_id"},
   metadata |-> metadata, all |-> all, factor |-> 1, offset |-> 0,
   mutate |-> mutate, map |-> None, skip |-> TRUE, place |-> place]

MCMetrics ==
  <<Metric("cpu", "instance", "instance", {"flavor"}, FALSE, "CEIL", 2),
    Metric("status", "instance", "instance", {}, TRUE, "NUMBOOL", 1)>>

MCMeasures ==
  "cpu" :> <<<<1, 2>>, <<3>>, <<1, Empty>>>> @@
  "status" :> <<<<Empty>>, <<Empty>>, <<1>>>>
=============================================================================
