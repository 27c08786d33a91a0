---------------------------- MODULE AddressPool ----------------------------
(***************************************************************************)
(* What the VMS Manager promises about addresses, with no database, lock   *)
(* or router in sight: an instance is given one address when it is         *)
(* recorded, nobody else has it, and it keeps it until it is deleted.      *)
(* InstanceLifecycle is shown to implement this module.                    *)
(***************************************************************************)
CONSTANTS
    Vm,         \* instance identifiers
    Address,    \* the addresses of the laboratory network
    NoAddress   \* what an instance that is not recorded has

VARIABLE addressOf  \* addressOf[v]: the address of instance v

Free(a) == \A v \in Vm : addressOf[v] # a

Init == addressOf = [v \in Vm |-> NoAddress]

(* An instance is recorded with an address nobody has. *)
Claim(v, a) ==
    /\ addressOf[v] = NoAddress
    /\ a # NoAddress
    /\ Free(a)
    /\ addressOf' = [addressOf EXCEPT ![v] = a]

(* An instance is deleted: its address may be claimed again. *)
Release(v) ==
    /\ addressOf[v] # NoAddress
    /\ addressOf' = [addressOf EXCEPT ![v] = NoAddress]

Next == \E v \in Vm : Release(v) \/ \E a \in Address : Claim(v, a)

Spec == Init /\ [][Next]_addressOf
=============================================================================
