--------------------------- MODULE Seeding_proofs ---------------------------
(***************************************************************************)
(* That any number of seeders, started as often as one likes, leave roles, *)
(* users and a winner.                                                     *)
(***************************************************************************)
EXTENDS Seeding, TLAPS

AllPermissions == {Catalogue[i] : i \in 1..18}

LEMMA NamesOf ==
  /\ Names[1] = "superuser" /\ Names[2] = "admin" /\ Names[3] = "user"
  /\ Name = {"superuser", "admin", "user"}
  /\ \A k \in 1..3 : Names[k] \in Name
  /\ {k \in 1..3 : Names[k] \in Granting} = {1, 2}
  BY DEF Names, Name, Granting

(* What an await says of its process.                                      *)
LEMMA Awaiting ==
  ASSUME NEW a \in Await
  PROVE  /\ a.at \in Stopped => a.k = 0 /\ a.j = 0
         /\ a.at = "permission" => a.k \in 1..18 /\ a.j = 0
         /\ a.at \in {"check", "grant"} => a.k \in {1, 2} /\ a.j \in 1..18
         /\ a.at \in {"role", "user", "create", "attach"} => a.k \in 1..3 /\ a.j = 0
  BY NamesOf DEF Await, Stopped

LEMMA Awaits ==
  /\ \A a \in Stopped : At(a, 0, 0) \in Await
  /\ \A i \in 1..18 : At("permission", i, 0) \in Await
  /\ \A a \in {"check", "grant"}, k \in {1, 2}, j \in 1..18 : At(a, k, j) \in Await
  /\ \A a \in {"role", "user", "create", "attach"}, k \in 1..3 : At(a, k, 0) \in Await
  BY NamesOf DEF Await, At, Stopped

(* Where the three continuations lead.                                     *)
LEMMA Continues ==
  ASSUME TypeOK, NEW s \in Seeders
  PROVE  /\ \A k \in 1..3 : NextUser(s, k) => seeder' \in [Seeders -> Await]
         /\ \A k \in 1..3 : NextRole(s, k) => seeder' \in [Seeders -> Await]
         /\ \A k \in {1, 2}, j \in 1..18 :
                NextGrant(s, k, j) => seeder' \in [Seeders -> Await]
         /\ \A a \in Await : Goto(s, a) => seeder' \in [Seeders -> Await]
<1> USE DEF TypeOK
<1>1. \A a \in Await : Goto(s, a) => seeder' \in [Seeders -> Await]
  BY DEF Goto
<1>2. \A k \in 1..3 : NextUser(s, k) => seeder' \in [Seeders -> Await]
  BY <1>1, Awaits DEF NextUser, Stopped
<1>3. \A k \in 1..3 : NextRole(s, k) => seeder' \in [Seeders -> Await]
  BY <1>1, Awaits DEF NextRole
<1>4. \A k \in {1, 2}, j \in 1..18 :
         NextGrant(s, k, j) => seeder' \in [Seeders -> Await]
  BY <1>1, <1>3, Awaits DEF NextGrant
<1> QED
  BY <1>1, <1>2, <1>3, <1>4

LEMMA InitType ==
  ASSUME Init
  PROVE  TypeOK
<1>1. MaxRuns \in Nat
  BY SeedingAssumption
<1> QED
  BY <1>1, Awaits DEF Init, TypeOK, Stopped

LEMMA StepType ==
  ASSUME TypeOK, [Next]_vars
  PROVE  TypeOK'
<1> USE DEF TypeOK
<1>0. CASE UNCHANGED vars
  BY <1>0 DEF vars
<1> SUFFICES ASSUME NEW s \in Seeders,
                    \/ Start(s) \/ Die(s)
                    \/ SeedPermission(s) \/ SeedRole(s) \/ CheckGrant(s)
                    \/ CreateGrant(s)
                    \/ FindUser(s) \/ CreateUser(s) \/ AttachRole(s)
             PROVE  TypeOK'
  BY <1>0 DEF Next
<1> USE DEF rows
<1> DEFINE k == seeder[s].k
           j == seeder[s].j
<1>1. /\ seeder[s] \in Await
      /\ runs[s] \in 0..MaxRuns /\ MaxRuns \in Nat
      /\ seeder[s].at \in {"role", "user", "create", "attach"} => k \in 1..3 /\ Names[k] \in Name
      /\ seeder[s].at \in {"check", "grant"} =>
            k \in {1, 2} /\ k \in 1..3 /\ j \in 1..18 /\ Names[k] \in Name
      /\ seeder[s].at = "permission" => k \in 1..18
  BY Awaiting, NamesOf, SeedingAssumption
<1> HIDE DEF k, j
<1>2. CASE Start(s)
  <2>1. seeder' \in [Seeders -> Await]
    BY <1>2, Continues, Awaits DEF Start
  <2>2. runs' \in [Seeders -> 0..MaxRuns]
    BY <1>1, <1>2 DEF Start
  <2> QED
    BY <1>2, <2>1, <2>2 DEF Start
<1>3. CASE Die(s)
  <2>1. seeder' \in [Seeders -> Await]
    BY <1>3, Continues, Awaits DEF Die, Stopped
  <2>2. seeder[s].at = "attach" =>
          Created(s, k) \in [name : Name, by : Seeders, run : 0..MaxRuns,
                             roles : {{}}]
    BY <1>1 DEF Created
  <2>3. orphans' \subseteq [name : Name, by : Seeders, run : 0..MaxRuns,
                           roles : {{}}]
    BY <1>3, <2>2 DEF Die, k
  <2> QED
    BY <1>3, <2>1, <2>3 DEF Die
<1>4. CASE SeedPermission(s)
  <2>1. seeder[s].at = "permission" /\ k \in 1..18
    BY <1>1, <1>4 DEF SeedPermission
  <2>2. seeder' \in [Seeders -> Await]
    BY <1>4, <2>1, Continues, Awaits DEF SeedPermission, k
  <2> QED
    BY <1>4, <2>1, <2>2 DEF SeedPermission, k
<1>5. CASE SeedRole(s)
  <2>1. seeder[s].at = "role" /\ k \in 1..3 /\ Names[k] \in Name
    BY <1>1, <1>5 DEF SeedRole
  <2>2. Names[k] \in Granting => k \in {1, 2}
    BY <2>1, NamesOf
  <2>3. seeder' \in [Seeders -> Await]
    BY <1>5, <2>1, <2>2, Continues, Awaits DEF SeedRole, k
  <2> QED
    BY <1>5, <2>1, <2>3 DEF SeedRole, k
<1>6. CASE CheckGrant(s)
  <2>1. k \in {1, 2} /\ j \in 1..18
    BY <1>1, <1>6 DEF CheckGrant
  <2>2. seeder' \in [Seeders -> Await]
    BY <1>6, <2>1, Continues, Awaits DEF CheckGrant, k, j
  <2> QED
    BY <1>6, <2>2 DEF CheckGrant
<1>7. CASE CreateGrant(s)
  <2>1. k \in {1, 2} /\ j \in 1..18 /\ Names[k] \in Name
    BY <1>1, <1>7 DEF CreateGrant
  <2>2. seeder' \in [Seeders -> Await]
    BY <1>7, <2>1, Continues, Awaits DEF CreateGrant, k, j, Stopped
  <2>3. grants' \in [Name -> SUBSET {Catalogue[i] : i \in 1..18}]
    BY <1>7, <2>1 DEF CreateGrant, k, j
  <2> QED
    BY <1>7, <2>2, <2>3 DEF CreateGrant
<1>8. CASE FindUser(s)
  <2>1. k \in 1..3
    BY <1>1, <1>8 DEF FindUser
  <2>2. seeder' \in [Seeders -> Await]
    BY <1>8, <2>1, Continues, Awaits DEF FindUser, k
  <2> QED
    BY <1>8, <2>2 DEF FindUser
<1>9. CASE CreateUser(s) \/ AttachRole(s)
  <2>1. k \in 1..3 /\ Names[k] \in Name
    BY <1>1, <1>9 DEF CreateUser, AttachRole
  <2>2. seeder' \in [Seeders -> Await]
    BY <1>9, <2>1, Continues, Awaits DEF CreateUser, AttachRole, k
  <2>3. \A given \in SUBSET Name :
          [Created(s, k) EXCEPT !.roles = given] \in
              [name : Name, by : Seeders, run : 0..MaxRuns, roles : SUBSET Name]
    BY <1>1, <2>1 DEF Created
  <2>4. Created(s, k) \in
              [name : Name, by : Seeders, run : 0..MaxRuns, roles : SUBSET Name]
    BY <1>1, <2>1 DEF Created
  <2>5. accounts' \subseteq
              [name : Name, by : Seeders, run : 0..MaxRuns, roles : SUBSET Name]
    BY <1>9, <2>3, <2>4 DEF CreateUser, AttachRole, k
  <2> QED
    BY <1>9, <2>2, <2>5 DEF CreateUser, AttachRole
<1> QED
  BY <1>2, <1>3, <1>4, <1>5, <1>6, <1>7, <1>8, <1>9

(* Every variable of Seeding keeps its type.                               *)
THEOREM TypeCorrect == Spec => []TypeOK
<1>1. Init => TypeOK
  BY InitType
<1>2. TypeOK /\ [Next]_vars => TypeOK'
  BY StepType
<1> QED
  BY <1>1, <1>2, PTL DEF Spec

---------------------------------------------------------------------------
(* Somebody wins *)

(* Process s has not failed, and is not about to: the row it is to insert  *)
(* is not there.  The last process to insert a grant is such a one, for    *)
(* only another insertion can spoil its next.                              *)
Wins(s) ==
    /\ seeder[s].at # "conflict"
    /\ seeder[s].at = "grant" =>
            Catalogue[seeder[s].j] \notin grants[Names[seeder[s].k]]

SomebodyWins == \E s \in Seeders : Wins(s)

(* Where process s is sent.                                                *)
LEMMA Sent ==
  ASSUME TypeOK, NEW s \in Seeders, NEW a, Goto(s, a)
  PROVE  /\ seeder'[s] = a
         /\ \A t \in Seeders \ {s} : seeder'[t] = seeder[t]
  BY DEF TypeOK, Goto

LEMMA SentOn ==
  ASSUME TypeOK, NEW s \in Seeders, NEW k, NEW j,
         NextGrant(s, k, j) \/ NextRole(s, k) \/ NextUser(s, k)
  PROVE  /\ seeder'[s].at \notin {"conflict", "grant"}
         /\ \A t \in Seeders \ {s} : seeder'[t] = seeder[t]
  BY Sent DEF NextGrant, NextRole, NextUser, At

LEMMA WinnerStays ==
  ASSUME TypeOK, SomebodyWins, NEW s \in Seeders,
         \/ Start(s) \/ Die(s)
         \/ SeedPermission(s) \/ SeedRole(s) \/ CheckGrant(s)
         \/ CreateGrant(s)
         \/ FindUser(s) \/ CreateUser(s) \/ AttachRole(s)
  PROVE  SomebodyWins'
<1> USE DEF rows
<1>1. PICK w \in Seeders : Wins(w)
  BY DEF SomebodyWins
<1>2. CASE CreateGrant(s) /\ ~Wins(s)
  <2>1. w # s /\ UNCHANGED grants
    BY <1>1, <1>2 DEF CreateGrant, Wins
  <2>2. seeder'[w] = seeder[w]
    BY <1>2, <2>1, Sent, SentOn DEF CreateGrant
  <2> QED
    BY <1>1, <2>1, <2>2 DEF SomebodyWins, Wins
<1>3. CASE CreateGrant(s) /\ Wins(s)
  BY <1>3, SentOn DEF CreateGrant, SomebodyWins, Wins
<1>4. CASE ~CreateGrant(s)
  <2>1. UNCHANGED grants
    BY <1>4 DEF Start, Die, SeedPermission, SeedRole, CheckGrant, FindUser,
                CreateUser, AttachRole
  <2>2. \A t \in Seeders \ {s} : seeder'[t] = seeder[t]
    BY <1>4, Sent, SentOn
       DEF Start, Die, SeedPermission, SeedRole, CheckGrant, FindUser,
           CreateUser, AttachRole
  <2>3. /\ seeder'[s].at # "conflict"
        /\ seeder'[s].at = "grant" =>
              Catalogue[seeder'[s].j] \notin grants[Names[seeder'[s].k]]
    BY <1>4, Sent, SentOn
       DEF Start, Die, SeedPermission, SeedRole, CheckGrant, FindUser,
           CreateUser, AttachRole, At
  <2> QED
    BY <1>1, <2>1, <2>2, <2>3 DEF SomebodyWins, Wins
<1> QED
  BY <1>2, <1>3, <1>4

(* Two seeders that meet may fail on each other's rows, but never all of   *)
(* them: at any time there is a process whose run has not been refused.    *)
THEOREM SeedersHaveAWinner == Spec => []RacesHaveAWinner
<1>1. Init => SomebodyWins
  BY SeedingAssumption DEF Init, SomebodyWins, Wins, At
<1>2. TypeOK /\ SomebodyWins /\ [Next]_vars => SomebodyWins'
  <2>1. SomebodyWins /\ UNCHANGED vars => SomebodyWins'
    BY DEF SomebodyWins, Wins, vars
  <2> QED
    BY <2>1, WinnerStays DEF Next
<1>3. SomebodyWins => RacesHaveAWinner
  BY DEF SomebodyWins, Wins, RacesHaveAWinner
<1> QED
  BY <1>1, <1>2, <1>3, TypeCorrect, PTL DEF Spec

---------------------------------------------------------------------------
(* What a run leaves behind it *)

Step(s) ==
    \/ Start(s) \/ Die(s)
    \/ SeedPermission(s) \/ SeedRole(s) \/ CheckGrant(s) \/ CreateGrant(s)
    \/ FindUser(s) \/ CreateUser(s) \/ AttachRole(s)

(* The roles, and the users, that process s is through with.               *)
RolesBehind(s) ==
    {k \in 1..3 : \/ seeder[s].at \in {"role", "check", "grant"} /\ k < seeder[s].k
                  \/ seeder[s].at \in {"user", "create", "attach", "done"}}

UsersBehind(s) ==
    {k \in 1..3 : \/ seeder[s].at \in {"user", "create", "attach"} /\ k < seeder[s].k
                  \/ seeder[s].at = "done"}

Granted(k) == Names[k] \in Granting => AllPermissions \subseteq grants[Names[k]]

There(k) == \E a \in accounts : a.name = Names[k]

RolesOf(s) ==
    /\ \A k \in RolesBehind(s) : Names[k] \in roles /\ Granted(k)
    /\ seeder[s].at \in {"check", "grant"} =>
          /\ Names[seeder[s].k] \in roles
          /\ \A i \in 1..(seeder[s].j - 1) : Catalogue[i] \in grants[Names[seeder[s].k]]

UsersOf(s) == \A k \in UsersBehind(s) : There(k)

(* An account without the role of its name: its seeder died, or is about to*)
(* give it the role.                                                       *)
Settled(a) ==
    \/ a.name \in a.roles
    \/ a \in orphans
    \/ seeder[a.by].at = "attach" /\ a = Created(a.by, seeder[a.by].k)

Behind ==
    /\ \A s \in Seeders : RolesOf(s) /\ UsersOf(s)
    /\ \A a \in accounts : Settled(a)

(* Nothing is ever deleted, and a process moves itself only.               *)
Grows(s) ==
    /\ \A t \in Seeders \ {s} : seeder'[t] = seeder[t] /\ runs'[t] = runs[t]
    /\ roles \subseteq roles'
    /\ orphans \subseteq orphans'
    /\ \A name \in Name : grants[name] \subseteq grants'[name]
    /\ \A k \in 1..3 : There(k) => There(k)'

LEMMA StepGrows ==
  ASSUME TypeOK, NEW s \in Seeders, Step(s)
  PROVE  Grows(s)
<1> USE DEF rows
<1>1. \A t \in Seeders \ {s} : seeder'[t] = seeder[t]
  BY Sent, SentOn
     DEF Step, Start, Die, SeedPermission, SeedRole, CheckGrant, CreateGrant,
         FindUser, CreateUser, AttachRole
<1>2. \A t \in Seeders \ {s} : runs'[t] = runs[t]
  BY DEF Step, Start, Die, SeedPermission, SeedRole, CheckGrant, CreateGrant,
         FindUser, CreateUser, AttachRole, TypeOK
<1>3. roles \subseteq roles' /\ orphans \subseteq orphans'
  BY DEF Step, Start, Die, SeedPermission, SeedRole, CheckGrant, CreateGrant,
         FindUser, CreateUser, AttachRole
<1>4. \A name \in Name : grants[name] \subseteq grants'[name]
  BY DEF Step, Start, Die, SeedPermission, SeedRole, CheckGrant, CreateGrant,
         FindUser, CreateUser, AttachRole, TypeOK
<1>5. ASSUME NEW n \in 1..3, There(n) PROVE There(n)'
  <2>1. CASE ~AttachRole(s)
    <3>1. accounts \subseteq accounts'
      BY <2>1 DEF Step, Start, Die, SeedPermission, SeedRole, CheckGrant,
                  CreateGrant, FindUser, CreateUser
    <3> QED
      BY <1>5, <3>1 DEF There
  <2>2. CASE AttachRole(s)
    <3> DEFINE own == Created(s, seeder[s].k)
               given == [own EXCEPT !.roles = roles \cap {Names[seeder[s].k]}]
    <3>1. accounts' = (accounts \ {own}) \cup {given}
      BY <2>2 DEF AttachRole
    <3>2. own.name = given.name
      BY DEF Created
    <3> HIDE DEF own, given
    <3> QED
      BY <1>5, <3>1, <3>2 DEF There
  <2> QED
    BY <2>1, <2>2
<1> QED
  BY <1>1, <1>2, <1>3, <1>4, <1>5 DEF Grows

(* The other processes keep what they have.                                *)
LEMMA OthersKeep ==
  ASSUME NEW s \in Seeders, Grows(s), NEW t \in Seeders \ {s},
         TypeOK, RolesOf(t), UsersOf(t)
  PROVE  RolesOf(t)' /\ UsersOf(t)'
<1>1. seeder'[t] = seeder[t]
  BY DEF Grows
<1>2. RolesBehind(t)' = RolesBehind(t) /\ UsersBehind(t)' = UsersBehind(t)
  BY <1>1 DEF RolesBehind, UsersBehind
<1>3. \A k \in 1..3 : Granted(k) => Granted(k)'
  BY NamesOf DEF Granted, Grows
<1>4. \A k \in RolesBehind(t) \cup UsersBehind(t) : k \in 1..3
  BY DEF RolesBehind, UsersBehind
<1>5. seeder[t].at \in {"check", "grant"} => Names[seeder[t].k] \in Name
  BY Awaiting, NamesOf DEF TypeOK
<1>6. UsersOf(t)'
  BY <1>2, <1>4 DEF UsersOf, Grows
<1>7. \A k \in RolesBehind(t)' : Names[k] \in roles' /\ Granted(k)'
  BY <1>2, <1>3, <1>4 DEF RolesOf, Grows
<1>8. seeder[t].at \in {"check", "grant"} =>
        /\ Names[seeder[t].k] \in roles'
        /\ \A i \in 1..(seeder[t].j - 1) :
               Catalogue[i] \in grants'[Names[seeder[t].k]]
  BY <1>5 DEF RolesOf, Grows
<1> QED
  BY <1>1, <1>6, <1>7, <1>8 DEF RolesOf

(* What a process must have left behind it to go on to the next role or    *)
(* user.                                                                   *)
LEMMA OnToRole ==
  ASSUME TypeOK, NEW s \in Seeders, NEW k \in 1..3, NextRole(s, k),
         \A i \in 1..k : Names[i] \in roles' /\ Granted(i)'
  PROVE  RolesOf(s)' /\ UsersOf(s)'
<1>1. seeder'[s] = IF k < 3 THEN At("role", k + 1, 0) ELSE At("user", 1, 0)
  BY Sent DEF NextRole
<1>2. RolesBehind(s)' \subseteq 1..k /\ UsersBehind(s)' = {}
  BY <1>1 DEF RolesBehind, UsersBehind, At
<1>3. seeder'[s].at \notin {"check", "grant"}
  BY <1>1 DEF At
<1> QED
  BY <1>2, <1>3 DEF RolesOf, UsersOf

LEMMA OnToUser ==
  ASSUME TypeOK, NEW s \in Seeders, NEW k \in 1..3, NextUser(s, k),
         \A i \in 1..3 : Names[i] \in roles' /\ Granted(i)',
         \A i \in 1..k : There(i)'
  PROVE  RolesOf(s)' /\ UsersOf(s)'
<1>1. seeder'[s] = IF k < 3 THEN At("user", k + 1, 0) ELSE At("done", 0, 0)
  BY Sent DEF NextUser
<1>2. RolesBehind(s)' \subseteq 1..3 /\ UsersBehind(s)' \subseteq 1..k
  BY <1>1 DEF RolesBehind, UsersBehind, At
<1>3. seeder'[s].at \notin {"check", "grant"}
  BY <1>1 DEF At
<1> QED
  BY <1>2, <1>3 DEF RolesOf, UsersOf

(* Permission j of role k is there: on to the next, or to the next role.   *)
LEMMA OnToGrant ==
  ASSUME TypeOK, NEW s \in Seeders, NEW k \in {1, 2}, NEW j \in 1..18,
         NextGrant(s, k, j),
         \A i \in 1..k : Names[i] \in roles',
         \A i \in 1..(k - 1) : Granted(i)',
         \A i \in 1..j : Catalogue[i] \in grants'[Names[k]]
  PROVE  RolesOf(s)' /\ UsersOf(s)'
<1>1. CASE j < 18
  <2>1. seeder'[s] = At("check", k, j + 1)
    BY <1>1, Sent DEF NextGrant
  <2>2. /\ RolesBehind(s)' \subseteq 1..(k - 1) /\ UsersBehind(s)' = {}
        /\ k \in 1..k /\ 1..(k - 1) \subseteq 1..k
    BY <2>1 DEF RolesBehind, UsersBehind, At
  <2>3. seeder'[s].k = k /\ seeder'[s].j - 1 = j
    BY <2>1 DEF At
  <2> QED
    BY <2>2, <2>3 DEF RolesOf, UsersOf
<1>2. CASE ~(j < 18)
  <2>1. j = 18 /\ NextRole(s, k) /\ k \in 1..3
    BY <1>2 DEF NextGrant
  <2>2. Granted(k)'
    BY <2>1 DEF Granted, AllPermissions
  <2>3. \A i \in 1..k : i = k \/ i \in 1..(k - 1)
    OBVIOUS
  <2> QED
    BY <2>1, <2>2, <2>3, OnToRole
<1> QED
  BY <1>1, <1>2

(* A process that is past the roles has them all behind it.                *)
LEMMA PastRoles ==
  ASSUME TypeOK, NEW s \in Seeders, RolesOf(s), Grows(s)
  PROVE  /\ seeder[s].at \in {"user", "create", "attach"} =>
              \A i \in 1..3 : Names[i] \in roles' /\ Granted(i)'
         /\ seeder[s].at \in {"role", "check", "grant"} =>
              \A i \in 1..(seeder[s].k - 1) : Names[i] \in roles' /\ Granted(i)'
<1>1. \A i \in 1..3 : Granted(i) => Granted(i)'
  BY NamesOf DEF Granted, Grows
<1>2. seeder[s].at \in {"user", "create", "attach"} => RolesBehind(s) = 1..3
  BY DEF RolesBehind
<1>3. seeder[s].at \in {"role", "check", "grant"} =>
        1..(seeder[s].k - 1) \subseteq RolesBehind(s) \cap 1..3
  BY Awaiting DEF RolesBehind, TypeOK
<1> QED
  BY <1>1, <1>2, <1>3 DEF RolesOf, Grows

LEMMA OwnKept ==
  ASSUME TypeOK, NEW s \in Seeders, Step(s), RolesOf(s), UsersOf(s)
  PROVE  RolesOf(s)' /\ UsersOf(s)'
<1> USE DEF rows
<1>0. Grows(s) /\ seeder[s] \in Await
  BY StepGrows DEF TypeOK
<1>kj. PICK k, j : k = seeder[s].k /\ j = seeder[s].j
  OBVIOUS
<1>1. CASE Start(s) \/ Die(s) \/ SeedPermission(s)
  <2>1. \/ seeder'[s].at \in {"permission", "died"}
        \/ seeder'[s] = At("role", 1, 0)
    BY <1>1, Sent DEF Start, Die, SeedPermission, At
  <2>2. RolesBehind(s)' = {} /\ UsersBehind(s)' = {}
    BY <2>1 DEF RolesBehind, UsersBehind, At
  <2>3. seeder'[s].at \notin {"check", "grant"}
    BY <2>1 DEF At
  <2> QED
    BY <2>2, <2>3 DEF RolesOf, UsersOf
<1>2. CASE SeedRole(s)
  <2>1. seeder[s].at = "role" /\ k \in 1..3
    BY <1>kj, <1>0, <1>2, Awaiting DEF SeedRole
  <2>2. /\ Names[k] \in roles'
        /\ \A i \in 1..(k - 1) : Names[i] \in roles' /\ Granted(i)'
    BY <1>kj, <1>0, <1>2, <2>1, PastRoles DEF SeedRole
  <2>3. \A i \in 1..k : i = k \/ i \in 1..(k - 1)
    BY <2>1
  <2>4. CASE Names[k] \in Granting
    <3>1. seeder'[s] = At("check", k, 1)
      BY <1>kj, <1>2, <2>4, Sent DEF SeedRole
    <3>2. RolesBehind(s)' \subseteq 1..(k - 1) /\ UsersBehind(s)' = {}
      BY <2>1, <3>1 DEF RolesBehind, UsersBehind, At
    <3>3. seeder'[s].k = k /\ 1..(seeder'[s].j - 1) = {}
      BY <3>1 DEF At
    <3> QED
      BY <2>2, <3>2, <3>3 DEF RolesOf, UsersOf
  <2>5. CASE Names[k] \notin Granting
    <3>1. NextRole(s, k) /\ Granted(k)'
      BY <1>kj, <1>2, <2>5 DEF SeedRole, Granted
    <3>2. \A i \in 1..k : Names[i] \in roles' /\ Granted(i)'
      BY <2>2, <2>3, <3>1
    <3> QED
      BY <2>1, <3>1, <3>2, OnToRole
  <2> QED
    BY <2>4, <2>5
<1>3. CASE CheckGrant(s) \/ CreateGrant(s)
  <2>1. seeder[s].at \in {"check", "grant"} /\ k \in {1, 2} /\ j \in 1..18
    BY <1>kj, <1>0, <1>3, Awaiting DEF CheckGrant, CreateGrant
  <2>2. /\ \A i \in 1..(k - 1) : Names[i] \in roles' /\ Granted(i)'
        /\ Names[k] \in roles'
        /\ \A i \in 1..(j - 1) : Catalogue[i] \in grants'[Names[k]]
    BY <1>kj, <1>0, <2>1, PastRoles, NamesOf DEF RolesOf, Grows
  <2>3. /\ \A i \in 1..k : i = k \/ i \in 1..(k - 1)
        /\ \A i \in 1..j : i = j \/ i \in 1..(j - 1)
        /\ k \in 1..3 /\ Names[k] \in Name
    BY <2>1, NamesOf
  <2>4. CASE NextGrant(s, k, j) /\ Catalogue[j] \in grants'[Names[k]]
    BY <2>1, <2>2, <2>3, <2>4, OnToGrant
  <2>5. CASE seeder'[s] = At("grant", k, j)
    <3>1. RolesBehind(s)' \subseteq 1..(k - 1) /\ UsersBehind(s)' = {}
      BY <2>1, <2>5 DEF RolesBehind, UsersBehind, At
    <3>2. seeder'[s].k = k /\ seeder'[s].j = j
      BY <2>5 DEF At
    <3> QED
      BY <2>2, <3>1, <3>2 DEF RolesOf, UsersOf
  <2>6. CASE seeder'[s] = At("conflict", 0, 0)
    <3>1. RolesBehind(s)' = {} /\ UsersBehind(s)' = {}
      BY <2>6 DEF RolesBehind, UsersBehind, At
    <3>2. seeder'[s].at \notin {"check", "grant"}
      BY <2>6 DEF At
    <3> QED
      BY <3>1, <3>2 DEF RolesOf, UsersOf
  <2>7. CreateGrant(s) => \/ seeder'[s] = At("conflict", 0, 0)
                          \/ NextGrant(s, k, j) /\ Catalogue[j] \in grants'[Names[k]]
    BY <1>kj, <2>3, Sent DEF CreateGrant, TypeOK
  <2>8. CheckGrant(s) => \/ seeder'[s] = At("grant", k, j)
                         \/ NextGrant(s, k, j) /\ Catalogue[j] \in grants'[Names[k]]
    BY <1>kj, Sent DEF CheckGrant
  <2> QED
    BY <1>3, <2>4, <2>5, <2>6, <2>7, <2>8
<1>4. CASE FindUser(s) \/ CreateUser(s) \/ AttachRole(s)
  <2>1. seeder[s].at \in {"user", "create", "attach"} /\ k \in 1..3
    BY <1>kj, <1>0, <1>4, Awaiting DEF FindUser, CreateUser, AttachRole
  <2>2. /\ \A i \in 1..3 : Names[i] \in roles' /\ Granted(i)'
        /\ \A i \in 1..(k - 1) : There(i)'
    <3>1. 1..(k - 1) \subseteq UsersBehind(s) \cap 1..3
      BY <1>kj, <2>1 DEF UsersBehind
    <3> QED
      BY <1>kj, <1>0, <2>1, <3>1, PastRoles DEF UsersOf, Grows
  <2>3. \A i \in 1..k : i = k \/ i \in 1..(k - 1)
    BY <2>1
  <2>4. CASE NextUser(s, k) /\ There(k)'
    <3>1. \A i \in 1..k : There(i)'
      BY <2>2, <2>3, <2>4
    <3> QED
      BY <2>1, <2>2, <2>4, <3>1, OnToUser
  <2>5. CASE seeder'[s] \in {At("create", k, 0), At("attach", k, 0)}
    <3>1. RolesBehind(s)' \subseteq 1..3 /\ UsersBehind(s)' \subseteq 1..(k - 1)
      BY <2>1, <2>5 DEF RolesBehind, UsersBehind, At
    <3>2. seeder'[s].at \notin {"check", "grant"}
      BY <2>5 DEF At
    <3> QED
      BY <2>2, <3>1, <3>2 DEF RolesOf, UsersOf
  <2>6. FindUser(s) => \/ NextUser(s, k) /\ There(k)'
                       \/ seeder'[s] = At("create", k, 0)
    BY <1>kj, Sent DEF FindUser, There
  <2>7. CreateUser(s) => seeder'[s] = At("attach", k, 0)
    BY <1>kj, Sent DEF CreateUser
  <2>8. AttachRole(s) => NextUser(s, k) /\ There(k)'
    <3> SUFFICES ASSUME AttachRole(s) PROVE NextUser(s, k) /\ There(k)'
      OBVIOUS
    <3> DEFINE given == [Created(s, k) EXCEPT !.roles = roles \cap {Names[k]}]
    <3>1. given \in accounts'
      BY <1>kj DEF AttachRole
    <3>2. given.name = Names[k]
      BY <1>kj DEF Created
    <3> QED
      BY <1>kj, <3>1, <3>2 DEF AttachRole, There
  <2> QED
    BY <1>4, <2>4, <2>5, <2>6, <2>7, <2>8
<1> QED
  BY <1>1, <1>2, <1>3, <1>4 DEF Step

(* Every account stays settled, and so is the one that is created.         *)
LEMMA AccountsSettled ==
  ASSUME TypeOK, NEW s \in Seeders, Step(s), RolesOf(s),
         \A a \in accounts : Settled(a)
  PROVE  \A a \in accounts' : Settled(a)'
<1> USE DEF rows
<1>0. /\ Grows(s) /\ seeder[s] \in Await
      /\ \A a \in accounts : a.by \in Seeders
  BY StepGrows DEF TypeOK
<1> SUFFICES ASSUME NEW a \in accounts' PROVE Settled(a)'
  OBVIOUS
<1>kept. ASSUME a \in accounts, a.by # s PROVE Settled(a)'
  BY <1>0, <1>kept DEF Settled, Grows, Created
<1>own. ASSUME a \in accounts, a.by = s, seeder[s].at # "attach"
        PROVE  Settled(a)'
  BY <1>0, <1>own DEF Settled, Grows
<1>1. CASE Start(s) \/ SeedPermission(s) \/ SeedRole(s) \/ CheckGrant(s)
           \/ CreateGrant(s) \/ FindUser(s)
  <2>1. a \in accounts /\ seeder[s].at # "attach"
    BY <1>1 DEF Start, SeedPermission, SeedRole, CheckGrant, CreateGrant,
                FindUser, Stopped
  <2> QED
    BY <1>kept, <1>own, <2>1
<1>2. CASE Die(s)
  <2>1. a \in accounts
    BY <1>2 DEF Die
  <2>2. CASE a.by = s /\ seeder[s].at = "attach"
    BY <1>0, <1>2, <2>1, <2>2 DEF Die, Settled, Grows
  <2> QED
    BY <1>kept, <1>own, <2>1, <2>2
<1>3. CASE CreateUser(s)
  <2>1. seeder'[s] = At("attach", seeder[s].k, 0)
    BY <1>3, Sent DEF CreateUser
  <2>2. CASE a = Created(s, seeder[s].k)
    <3>1. a.by = s
      BY <2>2 DEF Created
    <3>2. a = [name |-> Names[seeder'[s].k], by |-> s, run |-> runs'[s], roles |-> {}]
      BY <1>3, <2>1, <2>2 DEF CreateUser, Created, At
    <3> QED
      BY <2>1, <3>1, <3>2 DEF Settled, Created, At
  <2>3. CASE a \in accounts
    <3>1. seeder[s].at # "attach"
      BY <1>3 DEF CreateUser
    <3> QED
      BY <1>kept, <1>own, <2>3, <3>1
  <2> QED
    BY <1>3, <2>2, <2>3 DEF CreateUser
<1>4. CASE AttachRole(s)
  <2>1. PICK k \in 1..3 : k = seeder[s].k
    BY <1>0, <1>4, Awaiting DEF AttachRole
  <2> DEFINE own == Created(s, k)
             given == [own EXCEPT !.roles = roles \cap {Names[k]}]
  <2>2. Names[k] \in roles
    BY <1>4, <2>1 DEF AttachRole, RolesOf, RolesBehind
  <2>3. given.name = Names[k] /\ given.roles = {Names[k]}
    BY <2>2 DEF Created
  <2>4. accounts' = (accounts \ {own}) \cup {given}
    BY <1>4, <2>1 DEF AttachRole
  <2> HIDE DEF given
  <2>5. CASE a = given
    BY <2>3, <2>5 DEF Settled
  <2>6. CASE a \in accounts /\ a # own
    <3>1. a.by = s => a.name \in a.roles \/ a \in orphans
      BY <2>1, <2>6 DEF Settled
    <3> QED
      BY <1>0, <1>kept, <2>6, <3>1 DEF Settled, Grows
  <2> QED
    BY <2>4, <2>5, <2>6
<1> QED
  BY <1>1, <1>2, <1>3, <1>4 DEF Step

LEMMA BehindHolds == Spec => []Behind
<1>1. Init => Behind
  BY DEF Init, Behind, RolesOf, UsersOf, RolesBehind, UsersBehind, At
<1>2. TypeOK /\ Behind /\ [Next]_vars => Behind'
  <2>1. CASE UNCHANGED vars
    BY <2>1 DEF vars, Behind, RolesOf, UsersOf, RolesBehind, UsersBehind,
                Granted, There, Settled, Created
  <2>2. ASSUME TypeOK, Behind, NEW s \in Seeders, Step(s) PROVE Behind'
    <3>1. \A t \in Seeders \ {s} : RolesOf(t)' /\ UsersOf(t)'
      BY <2>2, StepGrows, OthersKeep DEF Behind
    <3>2. RolesOf(s)' /\ UsersOf(s)'
      BY <2>2, OwnKept DEF Behind
    <3>3. \A a \in accounts' : Settled(a)'
      BY <2>2, AccountsSettled DEF Behind
    <3> QED
      BY <3>1, <3>2, <3>3 DEF Behind
  <2> QED
    BY <2>1, <2>2 DEF Next, Step
<1> QED
  BY <1>1, <1>2, TypeCorrect, PTL DEF Spec

(* Once a run has completed, each of the three users is there, and has the *)
(* role of his name unless a seeder died between creating him and giving   *)
(* it, or is yet to: whatever other runs did before and beside it.         *)
THEOREM OrphansAreOfTheDead == Spec => []OnlyDeathsOrphan
<1>1. Behind => OnlyDeathsOrphan
  <2> SUFFICES ASSUME Behind, NEW s \in Seeders, seeder[s].at = "done",
                      NEW k \in 1..3
               PROVE  \E a \in accounts :
                        /\ a.name = Names[k]
                        /\ \/ Names[k] \in a.roles
                           \/ a \in orphans
                           \/ seeder[a.by].at = "attach" /\ runs[a.by] = a.run
    BY DEF OnlyDeathsOrphan, Done, Name
  <2>1. There(k)
    BY DEF Behind, UsersOf, UsersBehind
  <2>2. PICK a \in accounts : a.name = Names[k]
    BY <2>1 DEF There
  <2>3. a = Created(a.by, seeder[a.by].k) => a.run = runs[a.by]
    BY DEF Created
  <2> QED
    BY <2>2, <2>3 DEF Behind, Settled
<1> QED
  BY <1>1, BehindHolds, PTL

---------------------------------------------------------------------------
(* The guards' strings and the seeded ones *)

(* What the two loops produce.                                             *)
LEMMA TheCatalogue == AllPermissions = {<<g, a>> : g \in {"user", "role", "permission"},
                              a \in {"list", "create", "view", "update", "delete", "restore"}}
  BY DEF AllPermissions, Catalogue, Groups, Actions

(* A gate asks for nothing the seeder does not produce, and a public one   *)
(* asks for nothing.                                                       *)
Met(gate) ==
    /\ gate.permissions \subseteq AllPermissions
    /\ gate.public => gate.permissions = {} /\ gate.roles = {}

LEMMA GatedMeets ==
  ASSUME NEW handlers, NEW gate, Met(gate)
  PROVE  \A route \in Gated(handlers, gate) : Met(route.gate)
  BY DEF Gated

LEMMA GatesMet == \A route \in Routes : Met(route.gate)
<1>1. Met(Open) /\ Met(Undecorated) /\ Met(RoleAuth("superuser"))
  BY DEF Met, Open, Undecorated, RoleAuth
<1>2. \A g \in {"user", "role", "permission"},
         a \in {"list", "create", "view", "update", "delete", "restore"} :
            Met(PermissionAuth(g, a))
  BY TheCatalogue DEF Met, PermissionAuth, Undecorated
<1>3. /\ Met(Override(Undecorated, RoleAuth("superuser")))
      /\ Met(Override(Undecorated, Open))
  BY DEF Met, Override, Open, Undecorated, RoleAuth
<1>4. \A route \in AuthController \cup ProfileController \cup PublicControllers :
         Met(route.gate)
  BY <1>1, <1>3, GatedMeets
     DEF AuthController, SessionRoutes, SignUpRoutes, RecoveryRoutes,
         ProfileController, PublicControllers
<1>5. \A route \in UsersMailing \cup UsersReads \cup UsersWrites : Met(route.gate)
  BY <1>1, <1>2, GatedMeets DEF UsersMailing, UsersReads, UsersWrites
<1>6. \A route \in RolesCollection \cup RolesItem : Met(route.gate)
  BY <1>2, GatedMeets DEF RolesCollection, RolesItem
<1>7. \A route \in PermissionsCollection \cup PermissionsItem : Met(route.gate)
  BY <1>3, GatedMeets DEF PermissionsCollection, PermissionsItem, BySuperuser
<1> QED
  BY <1>4, <1>5, <1>6, <1>7 DEF Routes

(* Once one run of the seeder has completed, whatever runs died, failed or *)
(* went on before and beside it, the superuser is admitted to every route  *)
(* and the admin to every route that is not reserved for a role.           *)
THEOREM NoRouteIsClosed == Spec => []SeededRolesOpenTheirRoutes
<1>1. Behind => SeededRolesOpenTheirRoutes
  <2> SUFFICES ASSUME Behind, NEW s \in Seeders, seeder[s].at = "done",
                      NEW route \in Routes
               PROVE  /\ Admits(route.gate, Holder("superuser"))
                      /\ route.gate.roles = {} => Admits(route.gate, Holder("admin"))
    BY DEF SeededRolesOpenTheirRoutes, Done
  <2>1. Met(route.gate)
    BY GatesMet
  <2>2. AllPermissions \subseteq grants["admin"]
    <3>1. 2 \in RolesBehind(s)
      BY DEF RolesBehind
    <3> QED
      BY <3>1, NamesOf DEF Behind, RolesOf, Granted, Granting
  <2>3. Admits(route.gate, Holder("superuser"))
    BY <2>1 DEF Met, Admits, AuthGuard, PermissionGuard, RoleGuard, User, Holder
  <2>4. route.gate.roles = {} => Admits(route.gate, Holder("admin"))
    BY <2>1, <2>2
       DEF Met, Admits, AuthGuard, PermissionGuard, RoleGuard, User, Holder
  <2> QED
    BY <2>3, <2>4
<1> QED
  BY <1>1, BehindHolds, PTL

=============================================================================
