------------------------------ MODULE Seeding ------------------------------
(***************************************************************************)
(* prisma/seed: the script that fills an empty database with the permission*)
(* catalogue, three roles and an account for each, and that is run again   *)
(* on every deployment, by several hosts at once if need be.               *)
(*                                                                         *)
(* The scripts await one statement after the other, in no transaction, so  *)
(* each statement that writes, and each read a later write depends on, is  *)
(* a step.  No administrator works on the database while they run.         *)
(***************************************************************************)
EXTENDS Integers, Access

CONSTANTS
    Seeders,  \* the processes that may run the seeder
    MaxRuns   \* bound: how often one of them is started

ASSUME SeedingAssumption == Seeders # {} /\ MaxRuns \in Nat

VARIABLES
    permissions,  \* the permission rows
    roles,        \* the role rows, by name
    grants,       \* grants[name]: the role_permissions of that role
    accounts,     \* the user rows, each with its user_roles
    seeder,       \* seeder[s]: what process s awaits next
    runs,         \* runs[s]: how often s has been started
    orphans       \* history: the accounts whose seeder died before it gave
                  \* them their role

vars == <<permissions, roles, grants, accounts, seeder, runs, orphans>>
rows == <<permissions, roles, grants, accounts>>

Groups == <<"user", "role", "permission">>
Actions == <<"list", "create", "view", "update", "delete", "restore">>

(* The catalogue in the order of the two loops.                            *)
Catalogue == [i \in 1..18 |->
                <<Groups[1 + ((i - 1) \div 6)], Actions[1 + ((i - 1) % 6)]>>]

(* The names of the roles, and of the users in the local part of their     *)
(* addresses.                                                              *)
Names == <<"superuser", "admin", "user">>
Name == {Names[k] : k \in 1..3}
Granting == {"superuser", "admin"}

(* The end of a run, and what a run may await: permission k, role k and its*)
(* grant j, or user k.                                                     *)
Stopped == {"idle", "done", "died", "conflict"}

Await == [at : Stopped, k : {0}, j : {0}]
         \cup [at : {"permission"}, k : 1..18, j : {0}]
         \cup [at : {"check", "grant"}, k : {k \in 1..3 : Names[k] \in Granting}, j : 1..18]
         \cup [at : {"role", "user", "create", "attach"}, k : 1..3, j : {0}]

At(a, k, j) == [at |-> a, k |-> k, j |-> j]

Init ==
    /\ permissions = {}
    /\ roles = {}
    /\ grants = [name \in Name |-> {}]
    /\ accounts = {}
    /\ seeder = [s \in Seeders |-> At("idle", 0, 0)]
    /\ runs = [s \in Seeders |-> 0]
    /\ orphans = {}

TypeOK ==
    /\ permissions \subseteq {Catalogue[i] : i \in 1..18}
    /\ roles \subseteq Name
    /\ grants \in [Name -> SUBSET {Catalogue[i] : i \in 1..18}]
    /\ accounts \subseteq [name : Name, by : Seeders, run : 0..MaxRuns,
                          roles : SUBSET Name]
    /\ orphans \subseteq [name : Name, by : Seeders, run : 0..MaxRuns,
                         roles : {{}}]
    /\ seeder \in [Seeders -> Await]
    /\ runs \in [Seeders -> 0..MaxRuns]

Goto(s, await) == seeder' = [seeder EXCEPT ![s] = await]

NextUser(s, k) == Goto(s, IF k < 3 THEN At("user", k + 1, 0) ELSE At("done", 0, 0))

(* Mutant: one role too many.                                              *)
NextRoleBeyondLast(s, k) ==
    Goto(s, IF k <= 3 THEN At("role", k + 1, 0) ELSE At("user", 1, 0))

NextRole(s, k) == Goto(s, IF k < 3 THEN At("role", k + 1, 0) ELSE At("user", 1, 0))

NextGrant(s, k, j) == IF j < 18 THEN Goto(s, At("check", k, j + 1))
                                ELSE NextRole(s, k)

Start(s) ==
    /\ seeder[s].at \in Stopped
    /\ runs[s] < MaxRuns
    /\ runs' = [runs EXCEPT ![s] = @ + 1]
    /\ Goto(s, At("permission", 1, 0))
    /\ UNCHANGED <<rows, orphans>>

---------------------------------------------------------------------------

(* Mutant: a plain create, refused by the unique index for a name that is  *)
(* there.                                                                  *)
SeedPermissionByCreate(s) ==
    LET i == seeder[s].k IN
    /\ seeder[s].at = "permission"
    /\ permissions' = permissions \cup {Catalogue[i]}
    /\ Goto(s, IF Catalogue[i] \in permissions THEN At("conflict", 0, 0)
               ELSE IF i < 18 THEN At("permission", i + 1, 0)
               ELSE At("role", 1, 0))
    /\ UNCHANGED <<roles, grants, accounts, runs, orphans>>

(* upsert on the unique name.                                              *)
SeedPermission(s) ==
    LET i == seeder[s].k IN
    /\ seeder[s].at = "permission"
    /\ permissions' = permissions \cup {Catalogue[i]}
    /\ Goto(s, IF i < 18 THEN At("permission", i + 1, 0) ELSE At("role", 1, 0))
    /\ UNCHANGED <<roles, grants, accounts, runs, orphans>>

(* Mutant: a role that is there is taken to have its permissions.          *)
SeedRoleOnce(s) ==
    LET k == seeder[s].k IN
    /\ seeder[s].at = "role"
    /\ roles' = roles \cup {Names[k]}
    /\ IF Names[k] \in Granting \ roles THEN Goto(s, At("check", k, 1))
                                        ELSE NextRole(s, k)
    /\ UNCHANGED <<permissions, grants, accounts, runs, orphans>>

(* Mutant: a role that grants nothing is not worth a row.                  *)
SeedRoleGranting(s) ==
    LET k == seeder[s].k IN
    /\ seeder[s].at = "role"
    /\ roles' = roles \cup (Granting \cap {Names[k]})
    /\ IF Names[k] \in Granting THEN Goto(s, At("check", k, 1))
                                ELSE NextRole(s, k)
    /\ UNCHANGED <<permissions, grants, accounts, runs, orphans>>

(* upsert, and the two reads that follow: every permission this process has*)
(* upserted and the role are there, for nothing deletes a row.             *)
SeedRole(s) ==
    LET k == seeder[s].k IN
    /\ seeder[s].at = "role"
    /\ roles' = roles \cup {Names[k]}
    /\ IF Names[k] \in Granting THEN Goto(s, At("check", k, 1))
                                ELSE NextRole(s, k)
    /\ UNCHANGED <<permissions, grants, accounts, runs, orphans>>

CheckGrant(s) ==
    LET k == seeder[s].k  j == seeder[s].j IN
    /\ seeder[s].at = "check"
    /\ IF Catalogue[j] \in grants[Names[k]] THEN NextGrant(s, k, j)
                                            ELSE Goto(s, At("grant", k, j))
    /\ UNCHANGED <<rows, runs, orphans>>

(* The unique index on role and permission refuses a row another process   *)
(* has inserted since the check, and the script fails.                     *)
CreateGrant(s) ==
    LET k == seeder[s].k  j == seeder[s].j IN
    /\ seeder[s].at = "grant"
    /\ IF Catalogue[j] \in grants[Names[k]]
       THEN Goto(s, At("conflict", 0, 0)) /\ UNCHANGED grants
       ELSE /\ grants' = [grants EXCEPT ![Names[k]] = @ \cup {Catalogue[j]}]
            /\ NextGrant(s, k, j)
    /\ UNCHANGED <<permissions, roles, accounts, runs, orphans>>

(* A user whose address is there is left as he is.                         *)
FindUser(s) ==
    LET k == seeder[s].k IN
    /\ seeder[s].at = "user"
    /\ IF \E a \in accounts : a.name = Names[k]
       THEN NextUser(s, k)
       ELSE Goto(s, At("create", k, 0))
    /\ UNCHANGED <<rows, runs, orphans>>

(* The user row number k this run creates; its id is that of its creation. *)
Created(s, k) == [name |-> Names[k], by |-> s, run |-> runs[s], roles |-> {}]

(* The address has no unique index.                                        *)
CreateUser(s) ==
    LET k == seeder[s].k IN
    /\ seeder[s].at = "create"
    /\ accounts' = accounts \cup {Created(s, k)}
    /\ Goto(s, At("attach", k, 0))
    /\ UNCHANGED <<permissions, roles, grants, runs, orphans>>

(* The role of that name, unless it is missing or assigned.                *)
AttachRole(s) ==
    LET k == seeder[s].k  own == Created(s, k) IN
    /\ seeder[s].at = "attach"
    /\ accounts' = (accounts \ {own}) \cup
            {[own EXCEPT !.roles = roles \cap {Names[k]}]}
    /\ NextUser(s, k)
    /\ UNCHANGED <<permissions, roles, grants, runs, orphans>>

(* The process is killed, or loses the database.                           *)
Die(s) ==
    /\ seeder[s].at \notin Stopped
    /\ orphans' = IF seeder[s].at = "attach"
                  THEN orphans \cup {Created(s, seeder[s].k)} ELSE orphans
    /\ Goto(s, At("died", 0, 0))
    /\ UNCHANGED <<rows, runs>>

---------------------------------------------------------------------------

Next == \E s \in Seeders :
    \/ Start(s) \/ Die(s)
    \/ SeedPermission(s) \/ SeedRole(s) \/ CheckGrant(s) \/ CreateGrant(s)
    \/ FindUser(s) \/ CreateUser(s) \/ AttachRole(s)

Spec == Init /\ [][Next]_vars

Done == \E s \in Seeders : seeder[s].at = "done"

(* The caller whose only role is the seeded one of that name.              *)
Holder(name) == [roles |-> {name}, permissions |-> grants[name], signedIn |-> TRUE]

(* Once one run of the seeder has completed, whatever runs died, failed or *)
(* were under way before and beside it, every guard string in the          *)
(* controllers is held: the superuser is admitted to every route, and the  *)
(* admin to every route that is not reserved for a role (no guard fails    *)
(* closed, audit-findings.md).                                             *)
SeededRolesOpenTheirRoutes ==
    Done => \A route \in Routes :
        /\ Admits(route.gate, Holder("superuser"))
        /\ route.gate.roles = {} => Admits(route.gate, Holder("admin"))

(* Two seeders that meet may fail on each other's rows, but never both: a  *)
(* run is refused only what another run, still going or done, has written. *)
RacesHaveAWinner == \E s \in Seeders : seeder[s].at # "conflict"

(* Once a run has completed, each of the three users is there, and has the *)
(* role of his name unless a seeder died between creating him and giving   *)
(* it, or is yet to.  No rerun repairs the former: it skips users who      *)
(* exist (user.seed.ts).                                                   *)
OnlyDeathsOrphan ==
    Done => \A name \in Name : \E a \in accounts :
        /\ a.name = name
        /\ \/ name \in a.roles
           \/ a \in orphans
           \/ seeder[a.by].at = "attach" /\ runs[a.by] = a.run

=============================================================================
