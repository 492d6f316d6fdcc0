--------------------------- MODULE AddressHistory ---------------------------
(***************************************************************************)
(* Backend with history variables about addresses.  No index makes them    *)
(* unique: register, create and update each look an address up in one      *)
(* await and write it in a later one.                                      *)
(***************************************************************************)
EXTENDS Backend

VARIABLES
    overtaken,  \* overtaken[r]: what r learnt from its look-up is no longer so
    contested   \* the accounts that were given their address all the same

ahistory == <<overtaken, contested>>
avars == <<vars, ahistory>>

(* The requests here have looked an address up, and keep it in name.       *)
LookedUpPc == {"register.write", "user.roles", "user.write",
               "update.roles", "update.write"}

AddressOf(u) == IF IsLive(u) THEN account[u].email ELSE None

(* In this step r writes the row of u with the address it looked up.       *)
Addresses(r, u) ==
    /\ req[r].pc \in LookedUpPc
    /\ req'[r].pc \notin LookedUpPc
    /\ account'[u] # account[u]

(* The address of r reaches an account it is not for, or was shared by two *)
(* when r looked it up: findFirst answers with either of them.             *)
Overtakes(r) ==
    IF req[r].pc \in LookedUpPc
    THEN \/ overtaken[r]
         \/ \E u \in Users \ {req[r].id} :
                /\ AddressOf(u) # req[r].name
                /\ AddressOf(u)' = req[r].name
    ELSE \E u, v \in Users : /\ u # v
                             /\ AddressOf(u) = req'[r].name
                             /\ AddressOf(v) = req'[r].name

AInit ==
    /\ Init
    /\ overtaken = [r \in Requests |-> FALSE]
    /\ contested = {}

Record ==
    /\ overtaken' = [r \in Requests |->
            req'[r].pc \in LookedUpPc /\ Overtakes(r)]
    /\ contested' =
            {u \in contested : AddressOf(u)' = AddressOf(u)} \cup
            {u \in Users : \E r \in Requests : overtaken[r] /\ Addresses(r, u)}

ANext == Next /\ Record

ASpec == AInit /\ [][ANext]_avars

(* Whatever sequence of registrations, creations, updates and removals the *)
(* API has served, two live accounts share an address only after a race:   *)
(* one of them was written by a request that another write overtook after  *)
(* its look-up.  (Uniqueness among live users is a service check only,     *)
(* audit-findings.md.)                                                     *)
SharedOnlyAfterRace ==
    \A u, v \in Users :
        /\ u # v
        /\ IsLive(u)
        /\ AddressOf(u) = AddressOf(v)
        => u \in contested \/ v \in contested

=============================================================================
