----------------------------- MODULE MCEdgeIntake -----------------------------
(***************************************************************************)
(* Three requests about one alert, and one job, forwarded without a token  *)
(* or with an analyst's.  The tokens: an analyst's, a commander's with     *)
(* another client's role, an analyst's who is a logistics officer too, an  *)
(* expired one, and those of a logistics officer and of a field operator.  *)
(***************************************************************************)
EXTENDS EdgeIntake, TLC

CONSTANTS op1, op2, a1, j1

Token(good, subject, roles) == [good |-> good, subject |-> subject, roles |-> roles]
MCTokens ==
    {Token(TRUE, op1, {"Analyst"}), Token(TRUE, op2, {"Commander", "offline_access"}),
     Token(TRUE, op2, {"Analyst", "LogisticsOfficer"}), Token(FALSE, op1, {"Commander"}),
     Token(TRUE, op2, {"LogisticsOfficer"}), Token(TRUE, op1, {"FieldOperator"}),
     Token(TRUE, op1, {"offline_access"})}

MCWorkerTokens == {None, Token(TRUE, op1, {"Analyst"})}
MCOffline == j1 :> [alert |-> a1, action |-> "ACKNOWLEDGE"]

Symmetry == Permutations(Requests)
===============================================================================
