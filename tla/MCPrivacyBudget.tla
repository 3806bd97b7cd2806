--------------------------- MODULE MCPrivacyBudget ---------------------------
(* One device contacts two companies and a country with each of two kinds  *)
(* of query, so that both together spend the budget and neither does; the  *)
(* queries of another fail. A day has two ticks.                           *)
EXTENDS PrivacyBudget, TLC

MCKind == [e \in Edge |-> IF e <= 4 THEN "company" ELSE "country"]

MCWhat ==
  << [dev |-> "d1", dom |-> "a", failed |-> FALSE, edges |-> <<1, 2, 5>>],
     [dev |-> "d1", dom |-> "b", failed |-> FALSE, edges |-> <<3, 4, 6>>],
     [dev |-> "d2", dom |-> "a", failed |-> TRUE, edges |-> <<>>] >>
=============================================================================
