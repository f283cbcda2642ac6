----------------------------- MODULE MCRoleGrants -----------------------------
(* Small instances of RoleGrants. *)
EXTENDS RoleGrants

CONSTANTS r1, r2, r3, u1, u2

MCRequests == {r1, r2, r3}
TwoRequests == {r1, r2}
TwoUsers == {u1, u2}
Founder == {u1}

\* The two roles that a grantor may have or not have.
MCRoles == {"owner_admin", "bookkeeper"}
OwnerOnly == {"owner_admin"}
=============================================================================
