----------------------------- MODULE MCDecisions -----------------------------
(***************************************************************************)
(* Documents of up to two statements, in which everything varies that      *)
(* matters to the predicate at hand; up to two keys, created an hour to    *)
(* either side of each threshold and at it; pauses of an hour and a day.   *)
(***************************************************************************)
EXTENDS Decisions, FiniteSets

UpToTwo(S) == {<<>>} \union {<<s>> : s \in S} \union (S \X S)

Everything == {"*"}

MCPublic == {s \in Statement :
  s.conditions \subseteq {"trusted"} /\ s.actions = {"read"} /\ s.resources = Everything}
MCTls == {s \in Statement : s.resources = Everything /\ Cardinality(s.who) = 1 /\
  Cardinality(s.actions) = 1}
MCAdmin == {s \in Statement : s.who = Everything /\ s.conditions \subseteq {"trusted"}}

MCDocuments == [p \in Predicate |->
  UpToTwo(CASE p = "public" -> MCPublic [] p = "tls" -> MCTls [] p = "admin" -> MCAdmin)]

MCMaxAges == {0, 1, 2}
MCCreated == {-49, -48, -47, -25, -24, -23, -1, 0}
MCKeyLists == UpToTwo([active : BOOLEAN, created : MCCreated])
=============================================================================
