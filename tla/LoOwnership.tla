----------------------------- MODULE LoOwnership -----------------------------
(***************************************************************************)
(* Who owns what the application hands to liblo: messages and bundles, and *)
(* the closures of the C++ classes.  The two share no state; a behaviour   *)
(* follows one of them.                                                    *)
(***************************************************************************)
EXTENDS LoBundle, LoHandlers

ObjectsIdle == status = [o \in Object |-> "free"]
ClosuresIdle == server.at = "none"

OwnershipInit == Init /\ CppInit

OwnershipNext ==
    \/ ClosuresIdle /\ Next /\ UNCHANGED cppVars
    \/ ObjectsIdle /\ CppNext /\ UNCHANGED vars

OwnershipSpec == OwnershipInit /\ [][OwnershipNext]_<<vars, cppVars>>
==============================================================================
