----------------------------- MODULE UserManager -----------------------------
(***************************************************************************)
(* src/sql_executor/user_manager.cpp: users, roles and permissions, the    *)
(* permission matrix and the current roles kept beside them to answer      *)
(* CheckPermission, and the three files they are saved to.  One mutex      *)
(* covers every call, so a call is one step; a refused call changes        *)
(* nothing and is no step.                                                 *)
(*                                                                         *)
(* A permission is a grantee, a target and is_role: a user and a role may  *)
(* have the same name.  The list of permissions is a set: a repeated entry *)
(* is found, saved and revoked with the first, and the order matters only  *)
(* to a restart, which tries every order.  Left out: passwords, is_active  *)
(* and times, which no other state depends on, and sys_db_, which is not   *)
(* set unless the caller provides it.                                      *)
(***************************************************************************)
EXTENDS Integers, FiniteSets

CONSTANTS Users, Roles,    \* names
          BuiltinRoles,    \* roles of the first start
          Targets,         \* what is granted: database, table and privilege
          NoRole,          \* no entry in user_current_roles_
          NoUser,          \* no entry in users_
          MaxCalls,        \* bound: calls since the first start
          MaxFailures      \* bound: saves that fail

ASSUME NamesAssumption ==
    /\ BuiltinRoles \subseteq Roles
    /\ "admin" \in Users /\ "SUPERUSER" \in BuiltinRoles

\* What stands for an entry that is not there is not an entry.
ASSUME NoEntryAssumption == NoUser \notin [role : Roles, current : Roles]

VARIABLES users_,              \* each user's role and current_role, or NoUser
          roles_,              \* the roles there are
          permissions_,        \* grantees, what they were granted, is_role
          permission_matrix_,  \* the same, as CheckPermission sees it
          user_current_roles_, \* current roles, as CheckPermission sees them
          files                \* contents of users.dat, roles.dat, permissions.dat

VARIABLES calls, failures,     \* counters that MaxCalls and MaxFailures bound
          mixed,               \* history: the files are from different saves
          torn,                \* history: they were when last loaded
          gone,                \* history: names dropped or renamed since then
          unsynced             \* history: users given a role behind the matrix

tables == <<users_, roles_, permissions_>>
cache == <<permission_matrix_, user_current_roles_>>
vars == <<tables, cache, files, calls, failures, mixed, torn, gone, unsynced>>

UserEntry == [role : Roles, current : Roles]
Permission ==
    {e \in (Users \cup Roles) \X Targets \X BOOLEAN :
        e[1] \in (IF e[3] THEN Roles ELSE Users)}
Exists(u) == users_[u] # NoUser

Target(d, t, p) == [database |-> d, table |-> t, privilege |-> p]
Everything == Target("*", "*", "ALL")
AllToAdmin == <<"admin", Everything, FALSE>>

-----------------------------------------------------------------------------
(* The matrix: its key is the grantee and the target, is_role is a value.  *)

SameKey(e, f) == e[1] = f[1] /\ e[2] = f[2]

\* AddPermissionToMatrix: the last one added under a key stays.
AddPermissionToMatrix(m, e) == {f \in m : ~SameKey(e, f)} \cup {e}

\* What a list of the permissions perms, in some order, leaves in the matrix.
Matrices(perms) ==
    {m \in SUBSET perms : /\ \A e \in perms : \E f \in m : SameKey(e, f)
                          /\ \A e, f \in m : SameKey(e, f) => e = f}

-----------------------------------------------------------------------------
(* CheckPermission.                                                        *)

\* CheckPermissionInMatrix, for a matrix m and current roles cur: wildcards
\* count for the user's own permissions only, and not together with ALL.
Allowed(m, cur, u, d, t, p) ==
    LET user(x, y, z) == <<u, Target(x, y, z), FALSE>> \in m
        role(x, y, z) == <<cur[u], Target(x, y, z), TRUE>> \in m
    IN  /\ Exists(u)
        /\ \/ users_[u].role = "SUPERUSER"
           \/ user(d, t, p) \/ user(d, t, "ALL")
           \/ role(d, t, p) \/ role(d, t, "ALL")
           \/ user("*", t, p) \/ user(d, "*", p) \/ user("*", "*", p)

CheckPermission(u, d, t, p) ==
    Allowed(permission_matrix_, user_current_roles_, u, d, t, p)

\* The current roles that users_ has, and that a restart loads.
CurrentRoles(us) ==
    [u \in Users |-> IF us[u] = NoUser THEN NoRole ELSE us[u].current]

-----------------------------------------------------------------------------
(* Saving.                                                                 *)

\* SaveToFileInternal writes the files one after the other and stops at the
\* first that it cannot open; no caller looks at the result.
SaveTables(users, roles, permissions) ==
    \E n \in 0..3 :
        /\ n < 3 => failures < MaxFailures
        /\ failures' = IF n < 3 THEN failures + 1 ELSE failures
        /\ files' = [users       |-> IF n > 0 THEN users ELSE files.users,
                     roles       |-> IF n > 1 THEN roles ELSE files.roles,
                     permissions |-> IF n > 2 THEN permissions
                                     ELSE files.permissions]
        /\ mixed' = (n \in {1, 2} \/ (n = 0 /\ mixed))

\* Every call saves what it leaves.
Save == SaveTables(users_', roles_', permissions_')

\* Every call counts, and leaves alone what says how the tables were loaded.
Called ==
    /\ calls < MaxCalls
    /\ calls' = calls + 1
    /\ UNCHANGED torn

Init ==
    /\ users_ = [u \in Users |->
                    IF u = "admin"
                    THEN [role |-> "SUPERUSER", current |-> "SUPERUSER"]
                    ELSE NoUser]
    /\ roles_ = BuiltinRoles
    /\ permissions_ = {AllToAdmin}
    /\ permission_matrix_ = permissions_
    /\ user_current_roles_ = CurrentRoles(users_)
    /\ files = [users |-> users_, roles |-> roles_, permissions |-> permissions_]
    /\ calls = 0 /\ failures = 0
    /\ mixed = FALSE /\ torn = FALSE /\ gone = {} /\ unsynced = {}

-----------------------------------------------------------------------------
(* Users.                                                                  *)

\* Fault: the new user's current role is not set.
CreateWithoutRole(u, r) ==
    /\ Called
    /\ ~Exists(u) /\ r \in roles_
    /\ users_' = [users_ EXCEPT ![u] = [role |-> r, current |-> NoRole]]
    /\ unsynced' = unsynced \cup {u}
    /\ UNCHANGED <<roles_, permissions_, cache, gone>>
    /\ Save

\* user_current_roles_ gets no entry for the new user.
CreateUser(u, r) ==
    /\ Called
    /\ ~Exists(u) /\ r \in roles_
    /\ users_' = [users_ EXCEPT ![u] = [role |-> r, current |-> r]]
    /\ unsynced' = unsynced \cup {u}
    /\ UNCHANGED <<roles_, permissions_, cache, gone>>
    /\ Save

\* The matrix keeps what the list loses.
DropUser(u) ==
    /\ Called
    /\ Exists(u)
    /\ users_' = [users_ EXCEPT ![u] = NoUser]
    /\ permissions_' = permissions_ \ {e \in permissions_ : e[1] = u /\ ~e[3]}
    /\ gone' = gone \cup {u}
    /\ UNCHANGED <<roles_, cache, unsynced>>
    /\ Save

AlterUserRole(u, r) ==
    /\ Called
    /\ Exists(u) /\ r \in roles_
    /\ users_' = [users_ EXCEPT ![u] = [role |-> r, current |-> r]]
    /\ unsynced' = unsynced \cup {u}
    /\ UNCHANGED <<roles_, permissions_, cache, gone>>
    /\ Save

\* Any role that there is: it need not be one the user was given.
SetCurrentRole(u, r) ==
    /\ Called
    /\ Exists(u) /\ r \in roles_
    /\ users_' = [users_ EXCEPT ![u].current = r]
    /\ user_current_roles_' = [user_current_roles_ EXCEPT ![u] = r]
    /\ unsynced' = unsynced \ {u}
    /\ UNCHANGED <<roles_, permissions_, permission_matrix_, gone>>
    /\ Save

-----------------------------------------------------------------------------
(* Roles.                                                                  *)

CreateRole(r) ==
    /\ Called
    /\ r \notin roles_
    /\ roles_' = roles_ \cup {r}
    /\ UNCHANGED <<users_, permissions_, cache, gone, unsynced>>
    /\ Save

\* Users who have the role keep it by name.
DropRole(r) ==
    /\ Called
    /\ r \in roles_
    /\ roles_' = roles_ \ {r}
    /\ permissions_' = permissions_ \ {e \in permissions_ : e[1] = r /\ e[3]}
    /\ gone' = gone \cup {r}
    /\ UNCHANGED <<users_, cache, unsynced>>
    /\ Save

\* Fault: the permissions keep the role's old name.
AlterRoleKeeping(r, s, perms) == perms

\* The permissions once role r is called s.
RenamedGrantee(r, s, perms) ==
    {IF e[1] = r /\ e[3] THEN <<s, e[2], TRUE>> ELSE e : e \in perms}

\* The list and the users follow, the matrix and the current roles do not.
AlterRole(r, s) ==
    LET renamed(x) == IF x = r THEN s ELSE x
    IN  /\ Called
        /\ r \in roles_ /\ s \notin roles_
        /\ roles_' = (roles_ \ {r}) \cup {s}
        /\ permissions_' = RenamedGrantee(r, s, permissions_)
        /\ users_' = [u \in Users |->
                         IF ~Exists(u) THEN NoUser
                         ELSE [role    |-> renamed(users_[u].role),
                               current |-> renamed(users_[u].current)]]
        /\ unsynced' = unsynced
               \cup {u \in Users : Exists(u) /\ users_[u].current = r}
        /\ gone' = gone \cup {r, s}
        /\ UNCHANGED cache
        /\ Save

-----------------------------------------------------------------------------
(* Permissions.                                                            *)

GranteeExists(g, is_role) == IF is_role THEN g \in roles_ ELSE g \in Users /\ Exists(g)

\* A name that both a user and a role have is taken for the user's.
IsRole(g) == ~GranteeExists(g, FALSE)

\* Fault: a grant is saved before it is made, so the file misses it.
GrantUnsaved(g, x) ==
    LET e == <<g, x, IsRole(g)>>
    IN  /\ Called
        /\ GranteeExists(g, IsRole(g))
        /\ permissions_' = permissions_ \cup {e}
        /\ permission_matrix_' = AddPermissionToMatrix(permission_matrix_, e)
        /\ UNCHANGED <<users_, roles_, user_current_roles_, gone, unsynced,
                       files, failures, mixed>>

GrantPrivilege(g, x) ==
    LET e == <<g, x, IsRole(g)>>
    IN  /\ Called
        /\ GranteeExists(g, IsRole(g))
        /\ permissions_' = permissions_ \cup {e}
        /\ permission_matrix_' = AddPermissionToMatrix(permission_matrix_, e)
        /\ UNCHANGED <<users_, roles_, user_current_roles_, gone, unsynced>>
        /\ Save

\* The entries with grantee g and target x, a user's and a role's.
Entries(g, x) == {<<g, x, FALSE>>, <<g, x, TRUE>>}

\* Fault: the matrix keeps what was revoked.
RevokeFromList(g, x) ==
    /\ Called
    /\ Entries(g, x) \cap permissions_ # {}
    /\ permissions_' = permissions_ \ Entries(g, x)
    /\ UNCHANGED <<users_, roles_, cache, gone, unsynced>>
    /\ Save

\* A name's permission is revoked from the user and from the role; what is
\* not in the list is not found, even if the matrix has it.
RevokePrivilege(g, x) ==
    /\ Called
    /\ Entries(g, x) \cap permissions_ # {}
    /\ permissions_' = permissions_ \ Entries(g, x)
    /\ permission_matrix_' = permission_matrix_ \ Entries(g, x)
    /\ UNCHANGED <<users_, roles_, user_current_roles_, gone, unsynced>>
    /\ Save

-----------------------------------------------------------------------------
\* A crash between two calls, or an exit, whose destructor saves once more;
\* then the constructor of the next run loads what the files hold, and builds
\* the matrix and the current roles from it.
Restart ==
    /\ calls < MaxCalls
    /\ calls' = calls + 1
    /\ \/ UNCHANGED <<files, failures, mixed>>
       \/ SaveTables(users_, roles_, permissions_)
    /\ users_' = files'.users
    /\ roles_' = files'.roles
    /\ permissions_' = files'.permissions
    /\ permission_matrix_' \in Matrices(permissions_')
    /\ user_current_roles_' = CurrentRoles(users_')
    /\ torn' = (torn \/ mixed')
    /\ gone' = {} /\ unsynced' = {}

Next ==
    \/ Restart
    \/ \E u \in Users :
           \/ DropUser(u)
           \/ \E r \in Roles : CreateUser(u, r) \/ AlterUserRole(u, r)
                               \/ SetCurrentRole(u, r)
    \/ \E r \in Roles : CreateRole(r) \/ DropRole(r)
                        \/ \E s \in Roles : AlterRole(r, s)
    \/ \E g \in Users \cup Roles, x \in Targets :
           GrantPrivilege(g, x) \/ RevokePrivilege(g, x)

Spec == Init /\ [][Next]_vars

-----------------------------------------------------------------------------
(* Properties.                                                             *)

\* Types; an unlisted target can only be the administrator's first grant.
TypeOK ==
    /\ users_ \in [Users -> UserEntry \cup {NoUser}]
    /\ roles_ \subseteq Roles
    /\ permissions_ \cup permission_matrix_ \subseteq Permission \cup {AllToAdmin}
    /\ user_current_roles_ \in [Users -> Roles \cup {NoRole}]

\* Every permission in the list belongs to a user or role that exists, so a
\* name that is used again starts without permissions: unless the tables were
\* loaded from files of different saves.
GranteesExist ==
    torn \/ \A e \in permissions_ : GranteeExists(e[1], e[3])

\* One of the names has a permission both as a user's and as a role's: there
\* is one row for the two in the matrix.
Shared(names) ==
    \E e \in permissions_ : e[1] \in names /\ <<e[1], e[2], ~e[3]>> \in permissions_

\* CheckPermission answers from the matrix what the tables say, for every
\* user who got the current role through SetCurrentRole or a restart, when
\* neither the user's name nor the role's was dropped or renamed since then.
\* A name shared by a user and a role may cost one of them the permission
\* granted to both, but never gives either what it was not granted.
AnswersExplained ==
    \A u \in Users, x \in Targets :
        LET names == {u, users_[u].current}
            answer == CheckPermission(u, x.database, x.table, x.privilege)
            listed == Allowed(permissions_, CurrentRoles(users_),
                              u, x.database, x.table, x.privilege)
        IN  Exists(u) =>
                \/ u \in unsynced
                \/ names \cap gone # {}
                \/ (answer => listed) /\ (listed => answer \/ Shared(names))

\* Nothing is lost by a restart: as long as every save succeeded, the files
\* hold the tables as the last call left them.
RestartKeeps ==
    failures = 0 => files = [users |-> users_, roles |-> roles_,
                             permissions |-> permissions_]
=============================================================================
