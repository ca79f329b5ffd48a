--------------------------------- MODULE Roles ---------------------------------
(* The four membership roles, the exact permissions each one carries, and the  *)
(* rules that bound what an actor may do to another member.  The rules are     *)
(* inline in the handlers of repository.py; they are named here so that each   *)
(* handler's guard reads as one predicate.                                     *)

Role == {"owner", "admin", "member", "viewer"}

ViewerPermissions == {"workspace:read", "content:read"}
MemberPermissions == ViewerPermissions \cup {"content:write", "actions:run"}
AdminPermissions  == MemberPermissions \cup
    {"members:invite", "members:manage", "members:roles:change",
     "workspace:configure", "audit:read"}
OwnerPermissions  == AdminPermissions \cup {"owners:manage", "workspace:delete"}

Permission == OwnerPermissions

\* Anything that is not a role (no membership, an unknown string) grants nothing.
PermissionsForRole(role) ==
    CASE role = "owner"  -> OwnerPermissions
      [] role = "admin"  -> AdminPermissions
      [] role = "member" -> MemberPermissions
      [] role = "viewer" -> ViewerPermissions
      [] OTHER -> {}

HasPermission(role, permission) == permission \in PermissionsForRole(role)

\* The roles an administrator who is not an owner may neither touch nor grant.
Privileged == {"owner", "admin"}

MayChangeRole(actorRole, targetRole, newRole) ==
    actorRole # "owner" => {targetRole, newRole} \cap Privileged = {}

\* Variant: looks at the target's present role only.
MayRemoveWithoutOwnerRule(actorRole, targetRole) == TRUE

MayRemove(actorRole, targetRole) ==
    actorRole # "owner" => targetRole \notin Privileged

MayInvite(actorRole, role) ==
    /\ role # "owner"
    /\ role = "admin" => actorRole = "owner"
================================================================================
