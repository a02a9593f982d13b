---------------------------- MODULE MCStorageReads ----------------------------
(***************************************************************************)
(* A small instance of StorageReads: five points of two periods, two of    *)
(* which InfluxDB cannot hold both, and two whose groups it may confuse.   *)
(***************************************************************************)
EXTENDS StorageReads

a == <<"a">>
ab == <<"a", "b">>
b == <<"b">>
bc == <<"b", "c">>
c == <<"c">>
cpu == <<"cpu">>
net == <<"net">>

Point(start, type, project, flavor, image, price) ==
  [start |-> start, type |-> type,
   groupby |-> [project |-> project, flavor |-> flavor],
   metadata |-> [image |-> image], price |-> price]

p1 == Point(0, cpu, a, bc, a, 1)
p2 == Point(0, cpu, ab, c, b, 2)
p3 == Point(1, cpu, a, b, a, 4)
p4 == [Point(1, net, a, b, b, 8) EXCEPT !.groupby = @ @@ [size |-> a]]
p5 == Point(1, cpu, a, b, b, 16)

MCPoints == {p1, p2, p3, p4, p5}
MCFrames == {{p1, p2}, {p3, p4, p5}}

Request(begin, tokens) == [begin |-> begin, end |-> 3, tokens |-> tokens]

MCRequests ==
  {Request(0, <<>>),
   Request(1, <<<<"type", cpu>>, <<"flavor", b>>>>),
   Request(0, <<<<"project", a>>, <<"type", cpu>>, <<"project", ab>>, <<"type", net>>>>),
   Request(0, <<<<"image", b>>, <<"flavor", b>>>>)}

MCGroupbys ==
  {<<>>, <<"project", "flavor">>, <<"type", "size">>}

MCValues == {a, ab, b, bc, c}
MCUsers == {"admin", a}
MCBudget == [push |-> 2, other |-> 1]
=============================================================================
