------------------------------- MODULE Access -------------------------------
(***************************************************************************)
(* Which routes exist, what each asks of the caller, and how the global    *)
(* guards decide: AuthGuard, PermissionGuard and RoleGuard, in the order   *)
(* in which AppModule registers them.                                      *)
(*                                                                         *)
(* A caller is the identity AuthStrategy resolved, or Nobody.  A permission*)
(* <group>:<action> is the pair of the two.                                *)
(***************************************************************************)

Nobody == [roles |-> {}, permissions |-> {}, signedIn |-> FALSE]

(* The metadata of a handler or of a controller class; {} is no decorator. *)
Open == [public |-> TRUE, permissions |-> {}, roles |-> {}]
Undecorated == [public |-> FALSE, permissions |-> {}, roles |-> {}]
PermissionAuth(group, action) ==
    [Undecorated EXCEPT !.permissions = {<<group, action>>}]
RoleAuth(name) == [Undecorated EXCEPT !.roles = {name}]

(* Reflector.getAllAndOverride([handler, class]), for each of the keys.    *)
Override(handler, class) ==
    [public |-> handler.public \/ class.public,
     permissions |-> IF handler.permissions # {} THEN handler.permissions
                                                 ELSE class.permissions,
     roles |-> IF handler.roles # {} THEN handler.roles ELSE class.roles]

---------------------------------------------------------------------------
(* The controllers: which gate each of their handlers stands behind *)

Gated(handlers, gate) == {[handler |-> h, gate |-> gate] : h \in handlers}

SessionRoutes == Gated({"login", "refresh"}, Open)

SignUpRoutes ==
    Gated({"register", "resendVerificationEmail", "verifyEmail"}, Open)

RecoveryRoutes ==
    Gated({"forgotPassword", "validateResetPasswordToken", "resetPassword"}, Open)

AuthController ==
    SessionRoutes \cup SignUpRoutes \cup RecoveryRoutes
    \cup Gated({"profile"}, Undecorated)

ProfileController == Gated({"changePassword"}, Undecorated)

(* The two handlers that send a mail.                                      *)
UsersMailing ==
    Gated({"users.create"}, PermissionAuth("user", "create"))
    \cup Gated({"users.resendVerifyEmail"}, PermissionAuth("user", "update"))

UsersReads ==
    Gated({"users.findAll"}, PermissionAuth("user", "list"))
    \cup Gated({"users.findOne"}, PermissionAuth("user", "view"))

UsersWrites ==
    Gated({"users.update", "users.updateStatus"}, PermissionAuth("user", "update"))
    \cup Gated({"users.updatePassword"}, RoleAuth("superuser"))
    \cup Gated({"users.remove"}, PermissionAuth("user", "delete"))

RolesCollection ==
    Gated({"roles.create"}, PermissionAuth("role", "create"))
    \cup Gated({"roles.findAll"}, PermissionAuth("role", "list"))

RolesItem ==
    Gated({"roles.findOne"}, PermissionAuth("role", "view"))
    \cup Gated({"roles.update"}, PermissionAuth("role", "update"))
    \cup Gated({"roles.remove"}, PermissionAuth("role", "delete"))

(* Handlers without a decorator: the one on the class gates them all.      *)
BySuperuser(handlers) == Gated(handlers, Override(Undecorated, RoleAuth("superuser")))

PermissionsCollection == BySuperuser({"permissions.create", "permissions.findAll"})

PermissionsItem ==
    BySuperuser({"permissions.findOne", "permissions.update", "permissions.remove"})

PublicControllers ==
    Gated({"app.root", "health.check", "health.live"}, Override(Undecorated, Open))

Routes ==
    AuthController \cup ProfileController \cup PublicControllers
    \cup UsersMailing \cup UsersReads \cup UsersWrites
    \cup RolesCollection \cup RolesItem
    \cup PermissionsCollection \cup PermissionsItem

---------------------------------------------------------------------------
(* The guards *)

(* request.user once AuthGuard has run: a public route resolves nobody.    *)
User(gate, caller) == IF gate.public THEN Nobody ELSE caller

AuthGuard(gate, caller) == gate.public \/ caller.signedIn

PermissionGuard(gate, user) ==
    \/ gate.permissions = {}
    \/ /\ user.signedIn
       /\ \/ "superuser" \in user.roles
          \/ gate.permissions \subseteq user.permissions

RoleGuard(gate, user) ==
    \/ gate.roles = {}
    \/ /\ user.signedIn
       /\ \/ "superuser" \in user.roles
          \/ gate.roles \cap user.roles # {}

Admits(gate, caller) ==
    /\ AuthGuard(gate, caller)
    /\ PermissionGuard(gate, User(gate, caller))
    /\ RoleGuard(gate, User(gate, caller))

=============================================================================
