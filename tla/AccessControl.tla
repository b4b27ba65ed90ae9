---------------------------- MODULE AccessControl ----------------------------
(***************************************************************************)
(* Role-based access control as both contracts inherit it.  No contract of *)
(* the repository calls _setRoleAdmin, so DEFAULT_ADMIN_ROLE administers   *)
(* every role, itself included.                                            *)
(***************************************************************************)
CONSTANTS Accounts,  (* addresses that send transactions                   *)
          Roles,     (* the roles of the inheriting contract               *)
          AdminRole  (* DEFAULT_ADMIN_ROLE                                 *)

VARIABLE roles       (* roles[r]: the accounts that hold r                 *)

RolesTypeOK == roles \in [Roles -> SUBSET Accounts]

HasRole(role, account) == account \in roles[role]

(* Granting a role that is already held is a no-op, not a revert.          *)
GrantRole(caller, role, account) ==
    /\ HasRole(AdminRole, caller)
    /\ roles' = [roles EXCEPT ![role] = @ \cup {account}]

RevokeRole(caller, role, account) ==
    /\ HasRole(AdminRole, caller)
    /\ roles' = [roles EXCEPT ![role] = @ \ {account}]

(* The caller can only renounce a role of its own.                         *)
RenounceRole(caller, role) ==
    roles' = [roles EXCEPT ![role] = @ \ {caller}]

ChangeRolesBy(caller) ==
    \E role \in Roles :
        \/ \E account \in Accounts : \/ GrantRole(caller, role, account)
                                     \/ RevokeRole(caller, role, account)
        \/ RenounceRole(caller, role)

ChangeRoles == \E caller \in Accounts : ChangeRolesBy(caller)
=============================================================================
