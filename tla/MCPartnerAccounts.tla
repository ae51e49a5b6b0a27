------------------------- MODULE MCPartnerAccounts --------------------------
(***************************************************************************)
(* A small instance of PartnerAccounts for TLC.                            *)
(***************************************************************************)
EXTENDS PartnerAccounts, TLC

CONSTANTS r1, r2, school, academy, a, b, c, d

Account(email, role, p, status) ==
  [email |-> email, role |-> role, partner |-> p, status |-> status,
   isActive |-> status = "active", temporary |-> FALSE, mustChange |-> FALSE]

\* The school has its login and one member, who is disabled.
SchoolOnly   == school :> [email |-> a, status |-> "active"] @@ academy :> None
SchoolLogins == 1 :> Account(a, "partner", school, "active")
                @@ 2 :> Account(b, "partner", school, "disabled")
                @@ 3 :> None @@ 4 :> None

\* c and d are nobody's yet.
RequestSymmetry == Permutations(Requests) \cup Permutations({c, d})
=============================================================================
