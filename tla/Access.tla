-------------------------------- MODULE Access --------------------------------
(***************************************************************************)
(* packages/auth: who may do what.  A Keycloak token carries a set of realm *)
(* roles; its bearer acts as the one that ranks highest, and a requirement *)
(* lists the roles it lets pass.                                           *)
(*                                                                         *)
(* A token is a record: whether it is good, that is, signed, issued for    *)
(* this audience, not expired and naming a subject; that subject; and its  *)
(* realm roles, which may be another client's.                             *)
(***************************************************************************)
EXTENDS Naturals

\* "Field Operator" and "Logistics Officer" are written without the space.
Roles == {"Viewer", "FieldOperator", "Analyst", "LogisticsOfficer", "Commander", "SuperAdmin"}
Requirements == {"all", "analyst+", "logistics+", "commander", "superadmin"}

\* Bug: analyst+ is taken for any role from Analyst upwards.
AllowsByRank(requirement) ==
    {r \in Roles : \/ requirement = "all" \/ r = "SuperAdmin"
                   \/ r = "Commander" /\ requirement # "superadmin"
                   \/ r = "LogisticsOfficer" /\ requirement \in {"logistics+", "analyst+"}
                   \/ r = "Analyst" /\ requirement = "analyst+"}

\* REQUIREMENT_ALLOWS.
Allows(requirement) ==
    {r \in Roles : \/ requirement = "all" \/ r = "SuperAdmin"
                   \/ r = "Commander" /\ requirement # "superadmin"
                   \/ r = "LogisticsOfficer" /\ requirement = "logistics+"
                   \/ r = "Analyst" /\ requirement = "analyst+"}

\* RANK, the highest first.
Rank(role) ==
    IF role = "SuperAdmin" THEN 1
    ELSE IF role = "Commander" THEN 2
    ELSE IF role = "LogisticsOfficer" THEN 3
    ELSE IF role = "Analyst" THEN 4
    ELSE IF role = "FieldOperator" THEN 5 ELSE 6

NoRole == "none"

\* pickPrimaryRole.
Primary(realmRoles) ==
    LET held == realmRoles \cap Roles
    IN  IF held = {} THEN NoRole ELSE CHOOSE r \in held : \A q \in held : Rank(r) <= Rank(q)

\* verify(): the token is good and holds a role of VEKTOR's.
Verified(token) == token.good /\ Primary(token.roles) # NoRole

\* requireRole(): what a request with this Authorization header is told before
\* its handler runs.
Admission(hasToken, token, requirement) ==
    IF ~hasToken \/ ~Verified(token) THEN "401"
    ELSE IF Primary(token.roles) \notin Allows(requirement) THEN "403"
    ELSE "pass"
===============================================================================
