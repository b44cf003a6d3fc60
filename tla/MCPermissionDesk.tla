-------------------------- MODULE MCPermissionDesk --------------------------
(* Small instances of PermissionDesk for TLC.                              *)
EXTENDS PermissionDesk

CONSTANTS r1, r2, t1

MCTools == {"Bash"}

\* One shell program, and the empty name of a grant for a whole tool.
MCCommands == {"", "docker"}
MCVerb == [c \in MCCommands |-> c]

Docker == [tool |-> "Bash", command |-> "docker"]
Shell  == [tool |-> "Bash", command |-> ""]

MCOwner == [r \in {r1, r2} |-> t1]
TwoUses == [r \in {r1, r2} |-> IF r = r1 THEN Docker ELSE Shell]
=============================================================================
