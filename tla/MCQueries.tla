------------------------------ MODULE MCQueries ------------------------------
(* Every mix of tenant, deletion and rank; condition lists of each kind, with  *)
(* values that tell the parameters of a statement apart.                       *)
EXTENDS Queries

MCRows ==
  {[id |-> n, rank_no |-> 1 + (n % 2), deleted_at |-> IF (n \div 2) % 2 = 0 THEN None ELSE 60,
    tenant_id |-> IF n > 4 THEN 50 ELSE 51] : n \in 1..8}

MCColumns == [rank |-> "rank_no"]

Grouped12 == Group(<<Eq("rank", 1), Or(Eq("id", 6))>>)

MCWheres ==
  {<<Eq("rank", 1)>>,
   <<Eq("rank", 2), Or(Gt("id", 6))>>,
   <<Grouped12>>,
   <<InList("id", <<>>)>>,
   <<Between("id", 3, 6), Raw("rank", <<2, 9>>)>>,
   <<Exists(<<Eq("rank", 7)>>, <<8>>), InList("id", <<6, 7>>)>>,
   <<Search("rank", <<2>>)>>,
   <<Search("rank", <<>>), Gt("id", 2)>>}

MCOrless == {<<Eq("rank", 1)>>, <<Grouped12>>}

MCCtes == {<<Eq("rank", 3), Gt("id", 4)>>}

MCWrites == {<<<<"id", 1>>, <<"rank_no", 2>>>>, <<<<"rank_no", 3>>, <<"tenant_id", 51>>>>}

MCFormals == <<"a", "b", "total">>
MCCalls ==
  {<<Arg("in", "a", 11), Arg("in", "b", 12), Arg("in", "total", 13)>>,
   <<Arg("in", "a", 10), Arg("in", "b", 12), Arg("in", "a", 11), Arg("output", "total", None), Arg("return", "__returnValue", None)>>,
   <<Arg("return", "__returnValue", None), Arg("in", "a", 11), Arg("inout", "b", 12), Arg("in", "total", 13)>>,
   <<Arg("out", "total", None), Arg("in", "b", 12), Arg("in", "a", 11)>>,
   <<Arg("in", "a", 11), Arg("in", "b", 12), Arg("in", "total", 13), Arg("output", "b", None)>>}

MCGlobal == <<Gt("id", 1)>>

MCCursors == {<<1, 2>>}
=============================================================================
