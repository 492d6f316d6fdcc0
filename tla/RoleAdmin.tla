----------------------------- MODULE RoleAdmin -----------------------------
(***************************************************************************)
(* RolesService create, update and remove, and PermissionsService create,  *)
(* update and remove: the catalogue that cached identities are built from. *)
(* A fresh uuid is a row id never used before: rows are created from None, *)
(* and a deleted row is Gone for good.                                     *)
(***************************************************************************)
EXTENDS Store

IdentityKeys(users) == {UserCache(u) : u \in users}

(* prisma.role.findFirst({ where: { id } }) answers 404 when it is null.   *)
FindsRole(r, pc) ==
    /\ \E g \in Roles : IF g \in Existing(Roles)
                        THEN Serve(r, [Idle EXCEPT !.pc = pc, !.id = g])
                        ELSE Answer(r)
    /\ UNCHANGED <<database, redis, tokens>>

Taken(name, others) == \E g \in others : role[g].name = name

(* 422 unless every permission id names a row.                             *)
ChecksPermissions(r, pc) ==
    /\ \E ids \in SUBSET Permissions :
        IF ids \subseteq ExistingPermissions
        THEN Serve(r, [req[r] EXCEPT !.pc = pc, !.ids = ids])
        ELSE Answer(r)
    /\ UNCHANGED <<database, redis, tokens>>

(* A transaction commits when the unique index on the name and the foreign *)
(* keys of role_permissions still accept what the checks accepted.         *)
Accepts(g, name, ids) ==
    /\ ~Taken(name, Roles \ {g})
    /\ ids \subseteq ExistingPermissions

---------------------------------------------------------------------------
(* roles: create *)

RoleCreateBegin(r) ==
    /\ Takes(r, "role.create")
    /\ \E name \in RoleNames :
        IF Taken(name, Roles)
        THEN Answer(r)
        ELSE Serve(r, [Idle EXCEPT !.pc = "create.permissions", !.name = name])
    /\ UNCHANGED <<database, redis, tokens>>

RoleCreatePermissions(r) ==
    /\ req[r].pc = "create.permissions"
    /\ ChecksPermissions(r, "create.write")

RoleCreateWrite(r) ==
    /\ req[r].pc = "create.write"
    /\ \E g \in Roles :
        /\ role[g].name = None
        /\ role' = IF Accepts(g, req[r].name, req[r].ids)
                   THEN [role EXCEPT ![g] = [name |-> req[r].name,
                                             grants |-> req[r].ids]]
                   ELSE role
    /\ Answer(r)
    /\ UNCHANGED <<account, permission, redis, tokens>>

---------------------------------------------------------------------------
(* roles: update *)

RoleUpdateBegin(r) ==
    /\ Takes(r, "role.update")
    /\ FindsRole(r, "role.name")

RoleUpdateName(r) ==
    /\ req[r].pc = "role.name"
    /\ \E name \in RoleNames :
        IF Taken(name, Roles \ {req[r].id})
        THEN Answer(r)
        ELSE Serve(r, [req[r] EXCEPT !.pc = "role.permissions", !.name = name])
    /\ UNCHANGED <<database, redis, tokens>>

RoleUpdatePermissions(r) ==
    /\ req[r].pc = "role.permissions"
    /\ ChecksPermissions(r, "role.write")

(* The update of a role deleted since the check finds no row and rolls back.*)
RoleUpdateWrite(r) ==
    /\ req[r].pc = "role.write"
    /\ LET g == req[r].id
       IN  \/ /\ g \in Existing(Roles)
              /\ Accepts(g, req[r].name, req[r].ids)
              /\ role' = [role EXCEPT ![g] = [name |-> req[r].name,
                                              grants |-> req[r].ids]]
              /\ Serve(r, [Idle EXCEPT !.pc = "role.holders", !.id = g])
           \/ /\ ~(g \in Existing(Roles) /\ Accepts(g, req[r].name, req[r].ids))
              /\ Answer(r)
              /\ UNCHANGED role
    /\ UNCHANGED <<account, permission, redis, tokens>>

(* Mutant: one holder is read, as by findFirst.                            *)
RoleUpdateHoldersFirst(r) ==
    /\ req[r].pc = "role.holders"
    /\ IF Holders(req[r].id) = {} THEN Answer(r)
       ELSE \E u \in Holders(req[r].id) : Invalidate(r, IdentityKeys({u}))
    /\ UNCHANGED <<database, redis, tokens>>

(* invalidateRoleHolders reads the holders after the commit.               *)
RoleUpdateHolders(r) ==
    /\ req[r].pc = "role.holders"
    /\ Invalidate(r, IdentityKeys(Holders(req[r].id)))
    /\ UNCHANGED <<database, redis, tokens>>

---------------------------------------------------------------------------
(* roles: remove *)

RoleRemoveBegin(r) ==
    /\ Takes(r, "role.remove")
    /\ FindsRole(r, "role.collect")

(* The holders are read before the delete and kept for after it.           *)
RoleRemoveCollect(r) ==
    /\ req[r].pc = "role.collect"
    /\ Serve(r, [req[r] EXCEPT !.pc = "role.delete",
                               !.todo = IdentityKeys(Holders(req[r].id))])
    /\ UNCHANGED <<database, redis, tokens>>

(* Mutant: no foreign key restricts the delete.                            *)
RoleRemoveDeleteAnyway(r) ==
    /\ req[r].pc = "role.delete"
    /\ role' = [role EXCEPT ![req[r].id] = [name |-> Gone, grants |-> {}]]
    /\ Invalidate(r, req[r].todo)
    /\ UNCHANGED <<account, permission, redis, tokens>>

(* user_roles rows are not deleted, and their foreign key restricts: the   *)
(* transaction rolls back while any user, deleted ones included, still     *)
(* holds the role.                                                         *)
RoleRemoveDelete(r) ==
    /\ req[r].pc = "role.delete"
    /\ LET g == req[r].id
       IN  IF g \in Existing(Roles) /\ Holders(g) = {}
           THEN /\ role' = [role EXCEPT ![g] = [name |-> Gone, grants |-> {}]]
                /\ Invalidate(r, req[r].todo)
           ELSE Answer(r) /\ UNCHANGED role
    /\ UNCHANGED <<account, permission, redis, tokens>>

---------------------------------------------------------------------------
(* permissions: each handler is one transaction and awaits nothing else    *)

(* createMany with skipDuplicates inserts the names not there yet.         *)
PermissionCreate(names) ==
    LET fresh == {n \in names : \A p \in Permissions : permission[p] # n}
        free == {p \in Permissions : permission[p] = None}
    IN  \E f \in [fresh -> free] :
            /\ \A m, n \in fresh : f[m] = f[n] => m = n
            /\ permission' = [p \in Permissions |->
                                IF \E n \in fresh : f[n] = p
                                THEN CHOOSE n \in fresh : f[n] = p
                                ELSE permission[p]]
            /\ UNCHANGED <<account, role, redis, tokens, req>>

(* A name another row has is refused by the unique index.                  *)
PermissionUpdate(p, name) ==
    /\ p \in ExistingPermissions
    /\ \A q \in Permissions \ {p} : permission[q] # name
    /\ permission' = [permission EXCEPT ![p] = name]
    /\ UNCHANGED <<account, role, redis, tokens, req>>

(* A permission some role grants is kept by the restricting foreign key.   *)
PermissionRemove(p) ==
    /\ p \in ExistingPermissions
    /\ \A g \in Roles : p \notin role[g].grants
    /\ permission' = [permission EXCEPT ![p] = Gone]
    /\ UNCHANGED <<account, role, redis, tokens, req>>

---------------------------------------------------------------------------

RoleAdminStep(r) ==
    \/ RoleCreateBegin(r) \/ RoleCreatePermissions(r) \/ RoleCreateWrite(r)
    \/ RoleUpdateBegin(r) \/ RoleUpdateName(r) \/ RoleUpdatePermissions(r)
    \/ RoleUpdateWrite(r) \/ RoleUpdateHolders(r)
    \/ RoleRemoveBegin(r) \/ RoleRemoveCollect(r) \/ RoleRemoveDelete(r)

PermissionStep ==
    \/ /\ "permission.create" \in Traffic
       /\ \E names \in (SUBSET PermissionNames) \ {{}} : PermissionCreate(names)
    \/ /\ "permission.update" \in Traffic
       /\ \E p \in Permissions, name \in PermissionNames :
            PermissionUpdate(p, name)
    \/ /\ "permission.remove" \in Traffic
       /\ \E p \in Permissions : PermissionRemove(p)

=============================================================================
