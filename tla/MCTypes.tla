------------------------------- MODULE MCTypes -------------------------------
(***************************************************************************)
(* Both halves of the types in one run: how they are compared in checks    *)
(* (MCTypeChecks), and how a module comes to have them (MCTypeStore).      *)
(***************************************************************************)
EXTENDS MCTypeChecks, MCTypeStore

Compares == pass = "none" /\ ~store.newestFirst /\ Next /\ UNCHANGED storeVars
Stores == body = "statements" /\ done = 0 /\ StoreNext /\ UNCHANGED vars

InitTypes == Init /\ InitStore
NextTypes == Compares \/ Stores
SpecTypes == InitTypes /\ [][NextTypes]_<<vars, storeVars>>
=============================================================================
