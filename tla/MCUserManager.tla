---------------------------- MODULE MCUserManager ----------------------------
(* One user beside the administrator, a role that is not built in and may   *)
(* have the user's name, and a privilege on one table together with ALL.    *)
EXTENDS UserManager

MCTargets == {Target("d", "t", "SELECT"), Target("d", "t", "ALL")}
=============================================================================
