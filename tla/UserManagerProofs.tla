--------------------------- MODULE UserManagerProofs ---------------------------
(***************************************************************************)
(* Theorems about UserManager, for every set of users, roles and targets   *)
(* and every number of calls, restarts and failed saves.                   *)
(***************************************************************************)
EXTENDS UserManager, TLAPS

AnyPermission == Permission \cup {AllToAdmin}
UserTable == [Users -> UserEntry \cup {NoUser}]

\* The types of what TypeOK leaves out.
FileTypes ==
    /\ files \in [users : UserTable, roles : SUBSET Roles,
                  permissions : SUBSET AnyPermission]
    /\ failures \in Nat
    /\ mixed \in BOOLEAN
SavedTypes == FileTypes /\ torn \in BOOLEAN

\* The grantees of the permissions ps exist in the tables us and rs.
Consistent(us, rs, ps) ==
    \A e \in ps : IF e[3] THEN e[1] \in rs ELSE e[1] \in Users /\ us[e[1]] # NoUser

\* The grantees in files of one save exist in the files, unless the tables
\* that were saved came from files of different saves.
FilesConsistent ==
    torn \/ mixed \/ Consistent(files.users, files.roles, files.permissions)

\* Without a failure the files are of one save, which is the last.
SavedWhole ==
    failures = 0 =>
        /\ ~mixed
        /\ files = [users |-> users_, roles |-> roles_,
                    permissions |-> permissions_]

\* The entry for the role of the name, when e is the user's, and conversely.
Other(e) == <<e[1], e[2], ~e[3]>>

\* List and matrix differ in dropped or renamed grantees, and in what is
\* granted both to a user and to a role of the same name.
MatrixAgrees ==
    /\ \A e \in permission_matrix_ : e[1] \notin gone => e \in permissions_
    /\ \A e \in permissions_ :
           e[1] \notin gone => e \in permission_matrix_ \/ Other(e) \in permissions_

\* The current roles that the matrix goes with are those of users_, but for
\* the users who were given a role behind it.
CurrentAgrees ==
    \A u \in Users :
        Exists(u) /\ u \notin unsynced
            => user_current_roles_[u] = users_[u].current

\* The inductive invariant.  GranteesExist needs FilesConsistent, for a
\* restart loads the files; AnswersExplained follows from the last two.
UsersInv ==
    /\ TypeOK /\ SavedTypes
    /\ GranteesExist /\ FilesConsistent
    /\ SavedWhole
    /\ MatrixAgrees /\ CurrentAgrees

USE NamesAssumption, NoEntryAssumption

\* An entry is a grantee, a target and is_role; a role's names a role.
LEMMA Entry ==
    ASSUME NEW e \in AnyPermission
    PROVE  /\ e = <<e[1], e[2], e[3]>> /\ e[3] \in BOOLEAN
           /\ e[3] => e[2] \in Targets
<1>1. CASE e \in Permission
  BY <1>1 DEF Permission
<1>2. CASE e = AllToAdmin
  BY <1>2 DEF AllToAdmin
<1> QED
  BY <1>1, <1>2 DEF AnyPermission

LEMMA IsRoleBoolean == \A g : IsRole(g) \in BOOLEAN
  BY Zenon DEF IsRole

\* The invariant holds at the first start.
LEMMA InitUsers == Init => UsersInv
<1> SUFFICES ASSUME Init PROVE UsersInv
    OBVIOUS
<1> USE DEF Init, AnyPermission, UserTable, UserEntry, CurrentRoles
<1>1. users_ \in UserTable /\ roles_ \subseteq Roles
      /\ permissions_ \subseteq AnyPermission
  OBVIOUS
<1>2. TypeOK
  BY <1>1 DEF TypeOK
<1>3. SavedTypes
  BY <1>1 DEF SavedTypes, FileTypes
<1>4. GranteesExist /\ FilesConsistent
  <2>1. AllToAdmin[1] = "admin" /\ AllToAdmin[3] = FALSE
    BY DEF AllToAdmin
  <2>2. users_["admin"] # NoUser
    OBVIOUS
  <2>3. Consistent(users_, roles_, permissions_)
    BY <2>1, <2>2 DEF Consistent
  <2>4. FilesConsistent
    BY <2>3 DEF FilesConsistent, Consistent
  <2> QED
    BY <2>3, <2>4 DEF GranteesExist, GranteeExists, Exists, Consistent
<1>5. SavedWhole /\ MatrixAgrees
  BY DEF SavedWhole, MatrixAgrees
<1>6. CurrentAgrees
  BY DEF CurrentAgrees, Exists
<1> QED
  BY <1>2, <1>3, <1>4, <1>5, <1>6 DEF UsersInv

-----------------------------------------------------------------------------
(* Saving, which ends every call.                                          *)

\* What a save does, with the number of files that it writes.
LEMMA SaveWrites ==
    ASSUME NEW us, NEW rs, NEW ps, SaveTables(us, rs, ps)
    PROVE  \E n \in 0..3 :
               /\ failures' = IF n < 3 THEN failures + 1 ELSE failures
               /\ files' = [users       |-> IF n > 0 THEN us ELSE files.users,
                            roles       |-> IF n > 1 THEN rs ELSE files.roles,
                            permissions |-> IF n > 2 THEN ps
                                            ELSE files.permissions]
               /\ mixed' = (n \in {1, 2} \/ (n = 0 /\ mixed))
  BY Zenon DEF SaveTables

\* A save keeps the types of the files, whichever of them it writes.
LEMMA SaveTypes ==
    ASSUME NEW us \in UserTable, NEW rs \in SUBSET Roles,
           NEW ps \in SUBSET AnyPermission, FileTypes, SaveTables(us, rs, ps)
    PROVE  FileTypes'
<1>1. PICK n \in 0..3 :
         /\ failures' = IF n < 3 THEN failures + 1 ELSE failures
         /\ files' = [users       |-> IF n > 0 THEN us ELSE files.users,
                      roles       |-> IF n > 1 THEN rs ELSE files.roles,
                      permissions |-> IF n > 2 THEN ps ELSE files.permissions]
         /\ mixed' = (n \in {1, 2} \/ (n = 0 /\ mixed))
  BY SaveWrites
<1>2. files' \in [users : UserTable, roles : SUBSET Roles,
                  permissions : SUBSET AnyPermission]
  BY <1>1 DEF FileTypes
<1>3. failures' \in Nat
  BY <1>1 DEF FileTypes
<1>4. mixed' \in BOOLEAN
  BY <1>1 DEF FileTypes
<1> QED
  BY <1>2, <1>3, <1>4 DEF FileTypes

\* What a save writes is consistent if the tables are; a save that succeeds
\* leaves the files as the tables are, one that fails is counted.
LEMMA SaveConsistent ==
    ASSUME NEW us, NEW rs, NEW ps, FileTypes, FilesConsistent, SavedWhole,
           SaveTables(us, rs, ps), torn \/ Consistent(us, rs, ps)
    PROVE  /\ \/ torn \/ mixed'
              \/ Consistent(files'.users, files'.roles, files'.permissions)
           /\ failures' = 0 =>
                  /\ ~mixed'
                  /\ files' = [users |-> us, roles |-> rs, permissions |-> ps]
<1>1. PICK n \in 0..3 :
         /\ failures' = IF n < 3 THEN failures + 1 ELSE failures
         /\ files' = [users       |-> IF n > 0 THEN us ELSE files.users,
                      roles       |-> IF n > 1 THEN rs ELSE files.roles,
                      permissions |-> IF n > 2 THEN ps ELSE files.permissions]
         /\ mixed' = (n \in {1, 2} \/ (n = 0 /\ mixed))
  BY SaveWrites
<1>2. CASE n = 0
  <2>1. files' = files /\ mixed' = mixed
    BY <1>1, <1>2 DEF FileTypes
  <2>2. failures' # 0
    BY <1>1, <1>2 DEF FileTypes
  <2> QED
    BY <2>1, <2>2 DEF FilesConsistent
<1>3. CASE n \in {1, 2}
  <2>1. mixed'
    BY <1>1, <1>3, Zenon
  <2>2. failures' # 0
    BY <1>1, <1>3 DEF FileTypes
  <2> QED
    BY <2>1, <2>2, Zenon
<1>4. CASE n = 3
  <2>1. n \notin {1, 2} /\ n # 0
    BY <1>4
  <2>2. ~mixed'
    BY <1>1, <2>1, Zenon
  <2>3. files' = [users |-> us, roles |-> rs, permissions |-> ps]
    BY <1>1, <1>4
  <2>4. Consistent(us, rs, ps)
            => Consistent(files'.users, files'.roles, files'.permissions)
    BY <2>3
  <2> QED
    BY <2>2, <2>3, <2>4
<1> QED
  BY <1>2, <1>3, <1>4

\* The grantees exist when the tables are consistent.
LEMMA GranteesConsistent ==
    GranteesExist <=> torn \/ Consistent(users_, roles_, permissions_)
  BY DEF GranteesExist, GranteeExists, Exists, Consistent

\* What a restart finds in the files, after a crash or after an exit.
LEMMA RestartFiles ==
    ASSUME UsersInv, users_ \in UserTable, roles_ \in SUBSET Roles,
           permissions_ \in SUBSET AnyPermission, Restart
    PROVE  /\ FileTypes'
           /\ \/ torn \/ mixed'
              \/ Consistent(files'.users, files'.roles, files'.permissions)
           /\ failures' = 0 => ~mixed'
<1> FileTypes /\ FilesConsistent /\ SavedWhole /\ GranteesExist
  BY DEF UsersInv, SavedTypes
<1>1. CASE UNCHANGED <<files, failures, mixed>>
  BY <1>1 DEF FileTypes, FilesConsistent, SavedWhole
<1>2. CASE SaveTables(users_, roles_, permissions_)
  <2>1. torn \/ Consistent(users_, roles_, permissions_)
    BY GranteesConsistent
  <2> QED
    BY <1>2, <2>1, SaveTypes, SaveConsistent
<1> QED
  BY <1>1, <1>2 DEF Restart

-----------------------------------------------------------------------------
\* The types of the tables and of what is kept beside them.
TableTypes ==
    /\ users_ \in UserTable /\ roles_ \subseteq Roles
    /\ permissions_ \subseteq AnyPermission
    /\ permission_matrix_ \subseteq AnyPermission
    /\ user_current_roles_ \in [Users -> Roles \cup {NoRole}]

\* TypeOK in the parts that the proofs below look at.
LEMMA TypesAreTables == TypeOK <=> TableTypes
  BY DEF TypeOK, TableTypes, UserTable, AnyPermission

\* A grantee that is taken for a role is one, any other is a user.
LEMMA IsRoleIs ==
    ASSUME NEW g, GranteeExists(g, IsRole(g))
    PROVE  /\ IsRole(g) \in BOOLEAN
           /\ IF IsRole(g) THEN g \in roles_ ELSE g \in Users /\ Exists(g)
  BY DEF IsRole, GranteeExists

\* No action takes a table out of its type.
LEMMA TableStep == UsersInv /\ [Next]_vars => TableTypes'
<1> SUFFICES ASSUME UsersInv, [Next]_vars PROVE TableTypes'
    OBVIOUS
<1> TableTypes
  BY TypesAreTables DEF UsersInv
<1> USE DEF TableTypes, UserTable, UserEntry, cache
<1>1. ASSUME NEW u \in Users, NEW r \in Roles, CreateUser(u, r)
      PROVE  TableTypes'
  BY <1>1 DEF CreateUser
<1>2. ASSUME NEW u \in Users, DropUser(u) PROVE TableTypes'
  BY <1>2 DEF DropUser
<1>3. ASSUME NEW u \in Users, NEW r \in Roles, AlterUserRole(u, r)
      PROVE  TableTypes'
  BY <1>3 DEF AlterUserRole
<1>4. ASSUME NEW u \in Users, NEW r \in Roles, SetCurrentRole(u, r)
      PROVE  TableTypes'
  <2>1. users_[u] \in UserEntry
    BY <1>4 DEF SetCurrentRole, Exists
  <2>2. [users_[u] EXCEPT !.current = r] \in UserEntry
    BY <2>1
  <2>3. users_' = [users_ EXCEPT ![u] = [users_[u] EXCEPT !.current = r]]
    BY <1>4 DEF SetCurrentRole
  <2>4. users_' \in UserTable
    BY <2>2, <2>3
  <2> QED
    BY <1>4, <2>4 DEF SetCurrentRole
<1>5. ASSUME NEW r \in Roles, CreateRole(r) PROVE TableTypes'
  BY <1>5 DEF CreateRole
<1>6. ASSUME NEW r \in Roles, DropRole(r) PROVE TableTypes'
  BY <1>6 DEF DropRole
<1>7. ASSUME NEW r \in Roles, NEW s \in Roles, AlterRole(r, s)
      PROVE  TableTypes'
  <2>1. permissions_' \subseteq AnyPermission
    <3>1. permissions_' = {IF e[1] = r /\ e[3] THEN <<s, e[2], TRUE>> ELSE e :
                               e \in permissions_}
      BY <1>7 DEF AlterRole, RenamedGrantee
    <3>2. ASSUME NEW e \in permissions_, e[3] PROVE <<s, e[2], TRUE>> \in AnyPermission
      BY <3>2, Entry DEF AnyPermission, Permission
    <3> QED
      BY <3>1, <3>2
  <2>2. users_' \in UserTable /\ roles_' \subseteq Roles
    BY <1>7 DEF AlterRole, Exists
  <2> QED
    BY <1>7, <2>1, <2>2 DEF AlterRole
<1>8. ASSUME NEW g \in Users \cup Roles, NEW x \in Targets, GrantPrivilege(g, x)
      PROVE  TableTypes'
  <2>1. <<g, x, IsRole(g)>> \in AnyPermission
    <3>1. IF IsRole(g) THEN g \in Roles /\ IsRole(g) = TRUE
                       ELSE g \in Users /\ IsRole(g) = FALSE
      BY <1>8, IsRoleIs DEF GrantPrivilege
    <3> QED
      BY <3>1 DEF AnyPermission, Permission
  <2>2. /\ permissions_' = permissions_ \cup {<<g, x, IsRole(g)>>}
        /\ permission_matrix_' \subseteq permission_matrix_ \cup {<<g, x, IsRole(g)>>}
    BY <1>8 DEF GrantPrivilege, AddPermissionToMatrix
  <2> QED
    BY <1>8, <2>1, <2>2 DEF GrantPrivilege
<1>9. ASSUME NEW g \in Users \cup Roles, NEW x \in Targets, RevokePrivilege(g, x)
      PROVE  TableTypes'
  BY <1>9 DEF RevokePrivilege
<1>10. CASE Restart
  <2>1. FileTypes'
    BY <1>10, RestartFiles
  <2>2. permission_matrix_' \subseteq permissions_'
    BY <1>10 DEF Restart, Matrices
  <2> QED
    BY <1>10, <2>1, <2>2 DEF Restart, FileTypes, CurrentRoles
<1>11. CASE UNCHANGED vars
  BY <1>11 DEF vars, tables
<1> QED
  BY <1>1, <1>2, <1>3, <1>4, <1>5, <1>6, <1>7, <1>8, <1>9, <1>10, <1>11
     DEF Next

-----------------------------------------------------------------------------
\* A call saves the tables and leaves torn alone.
LEMMA CallOrRestart ==
    [Next]_vars => (UNCHANGED torn /\ Save) \/ Restart \/ UNCHANGED vars
<1> SUFFICES ASSUME [Next]_vars
             PROVE  (UNCHANGED torn /\ Save) \/ Restart \/ UNCHANGED vars
    OBVIOUS
<1>1. ASSUME NEW u \in Users, NEW r \in Roles, CreateUser(u, r)
      PROVE  UNCHANGED torn /\ Save
  BY <1>1, Zenon DEF CreateUser, Called
<1>2. ASSUME NEW u \in Users, DropUser(u) PROVE UNCHANGED torn /\ Save
  BY <1>2, Zenon DEF DropUser, Called
<1>3. ASSUME NEW u \in Users, NEW r \in Roles, AlterUserRole(u, r)
      PROVE  UNCHANGED torn /\ Save
  BY <1>3, Zenon DEF AlterUserRole, Called
<1>4. ASSUME NEW u \in Users, NEW r \in Roles, SetCurrentRole(u, r)
      PROVE  UNCHANGED torn /\ Save
  BY <1>4, Zenon DEF SetCurrentRole, Called
<1>5. ASSUME NEW r \in Roles, CreateRole(r) PROVE UNCHANGED torn /\ Save
  BY <1>5, Zenon DEF CreateRole, Called
<1>6. ASSUME NEW r \in Roles, DropRole(r) PROVE UNCHANGED torn /\ Save
  BY <1>6, Zenon DEF DropRole, Called
<1>7. ASSUME NEW r \in Roles, NEW s \in Roles, AlterRole(r, s)
      PROVE  UNCHANGED torn /\ Save
  BY <1>7, Zenon DEF AlterRole, Called
<1>8. ASSUME NEW g \in Users \cup Roles, NEW x \in Targets, GrantPrivilege(g, x)
      PROVE  UNCHANGED torn /\ Save
  BY <1>8, Zenon DEF GrantPrivilege, Called
<1>9. ASSUME NEW g \in Users \cup Roles, NEW x \in Targets, RevokePrivilege(g, x)
      PROVE  UNCHANGED torn /\ Save
  BY <1>9, Zenon DEF RevokePrivilege, Called
<1> QED
  BY <1>1, <1>2, <1>3, <1>4, <1>5, <1>6, <1>7, <1>8, <1>9, Zenon
     DEF Next

\* No call leaves a grantee behind, and a restart loads none unless the files
\* are of different saves.
LEMMA GranteesStep == UsersInv /\ [Next]_vars => GranteesExist'
<1> SUFFICES ASSUME UsersInv, [Next]_vars PROVE GranteesExist'
    OBVIOUS
<1> TableTypes /\ GranteesExist
  BY TypesAreTables DEF UsersInv
<1> torn \/ Consistent(users_, roles_, permissions_)
  BY GranteesConsistent
<1> SUFFICES torn' \/ Consistent(users_', roles_', permissions_')
  BY DEF GranteesExist, GranteeExists, Exists, Consistent
<1> DEFINE Kept == torn' \/ Consistent(users_', roles_', permissions_')
<1> USE DEF Consistent, Exists, Called
<1>1. ASSUME NEW u \in Users, NEW r \in Roles, CreateUser(u, r)
      PROVE  Kept
  BY <1>1 DEF CreateUser, UserEntry
<1>2. ASSUME NEW u \in Users, DropUser(u) PROVE Kept
  BY <1>2 DEF DropUser, UserEntry
<1>3. ASSUME NEW u \in Users, NEW r \in Roles, AlterUserRole(u, r)
      PROVE  Kept
  BY <1>3 DEF AlterUserRole, UserEntry
<1>4. ASSUME NEW u \in Users, NEW r \in Roles, SetCurrentRole(u, r)
      PROVE  Kept
  <2>1. \A v \in Users : users_[v] # NoUser => users_'[v] # NoUser
    <3>1. users_[u] \in UserEntry
      BY <1>4 DEF SetCurrentRole, TableTypes, UserTable
    <3>2. [users_[u] EXCEPT !.current = r] \in UserEntry
      BY <3>1 DEF UserEntry
    <3>3. users_' = [users_ EXCEPT ![u] = [users_[u] EXCEPT !.current = r]]
      BY <1>4 DEF SetCurrentRole
    <3> QED
      BY <3>2, <3>3 DEF UserEntry, TableTypes, UserTable
  <2> QED
    BY <1>4, <2>1 DEF SetCurrentRole
<1>5. ASSUME NEW r \in Roles, CreateRole(r) PROVE Kept
  BY <1>5 DEF CreateRole, UserEntry
<1>6. ASSUME NEW r \in Roles, DropRole(r) PROVE Kept
  BY <1>6 DEF DropRole, UserEntry
<1>7. ASSUME NEW r \in Roles, NEW s \in Roles, AlterRole(r, s)
      PROVE  Kept
  <2>1. \A v \in Users : users_[v] # NoUser => users_'[v] # NoUser
    BY <1>7 DEF AlterRole, UserEntry, TableTypes, UserTable
  <2>2. torn' = torn
    BY <1>7 DEF AlterRole
  <2>3. ASSUME NEW e \in permissions_', ~torn
        PROVE  IF e[3] THEN e[1] \in roles_' ELSE e[1] \in Users /\ users_'[e[1]] # NoUser
    <3>1. PICK f \in permissions_ :
                e = IF f[1] = r /\ f[3] THEN <<s, f[2], TRUE>> ELSE f
      BY <1>7 DEF AlterRole, RenamedGrantee
    <3>2. roles_' = (roles_ \ {r}) \cup {s}
      BY <1>7 DEF AlterRole
    <3> QED
      BY <2>1, <2>3, <3>1, <3>2
  <2> QED
    BY <2>2, <2>3
<1>8. ASSUME NEW g \in Users \cup Roles, NEW x \in Targets, GrantPrivilege(g, x)
      PROVE  Kept
  <2>1. /\ UNCHANGED <<torn, users_, roles_>>
        /\ permissions_' = permissions_ \cup {<<g, x, IsRole(g)>>}
        /\ GranteeExists(g, IsRole(g))
    BY <1>8 DEF GrantPrivilege
  <2> QED
    BY <2>1, IsRoleIs
<1>9. ASSUME NEW g \in Users \cup Roles, NEW x \in Targets, RevokePrivilege(g, x)
      PROVE  Kept
  BY <1>9 DEF RevokePrivilege, UserEntry
<1>10. CASE Restart
  <2>1. torn \/ mixed' \/ Consistent(files'.users, files'.roles, files'.permissions)
    BY <1>10, RestartFiles DEF TableTypes
  <2> QED
    BY <1>10, <2>1 DEF Restart
<1>11. CASE UNCHANGED vars
  BY <1>11 DEF vars, tables
<1> QED
  BY <1>1, <1>2, <1>3, <1>4, <1>5, <1>6, <1>7, <1>8, <1>9, <1>10, <1>11
     DEF Next

\* Every step keeps what the files and the tables have in common.
LEMMA FilesStep ==
    UsersInv /\ [Next]_vars => SavedTypes' /\ FilesConsistent' /\ SavedWhole'
<1> SUFFICES ASSUME UsersInv, [Next]_vars
             PROVE  SavedTypes' /\ FilesConsistent' /\ SavedWhole'
    OBVIOUS
<1> SavedTypes /\ FileTypes /\ FilesConsistent /\ SavedWhole
  BY DEF UsersInv, SavedTypes
<1>1. CASE UNCHANGED torn /\ Save
  <2>1. /\ users_' \in UserTable /\ roles_' \in SUBSET Roles
        /\ permissions_' \in SUBSET AnyPermission
    BY TableStep DEF TableTypes
  <2>2. torn \/ Consistent(users_', roles_', permissions_')
    BY <1>1, GranteesStep DEF GranteesExist, GranteeExists, Exists, Consistent
  <2>3. FileTypes' /\ torn' = torn
    BY <1>1, <2>1, SaveTypes DEF Save
  <2> QED
    BY <1>1, <2>2, <2>3, SaveConsistent
       DEF Save, SavedTypes, FilesConsistent, SavedWhole
<1>2. CASE Restart
  <2>0. /\ users_ \in UserTable /\ roles_ \in SUBSET Roles
        /\ permissions_ \in SUBSET AnyPermission
    BY TypesAreTables DEF UsersInv, TableTypes
  <2>1. /\ FileTypes' /\ torn' = (torn \/ mixed')
        /\ \/ torn \/ mixed'
           \/ Consistent(files'.users, files'.roles, files'.permissions)
        /\ failures' = 0 => ~mixed'
    BY <1>2, <2>0, RestartFiles DEF Restart
  <2>2. SavedTypes' /\ FilesConsistent'
    BY <2>1 DEF SavedTypes, FileTypes, FilesConsistent
  <2>3. files' = [users |-> files'.users, roles |-> files'.roles,
                  permissions |-> files'.permissions]
    BY <2>1 DEF FileTypes
  <2>4. SavedWhole'
    BY <1>2, <2>1, <2>3 DEF SavedWhole, Restart
  <2> QED
    BY <2>2, <2>4
<1>3. CASE UNCHANGED vars
  BY <1>3 DEF vars, tables, SavedTypes, FileTypes, FilesConsistent, SavedWhole
<1> QED
  BY <1>1, <1>2, <1>3, CallOrRestart

-----------------------------------------------------------------------------
\* List and matrix change together, or the grantee is gone.
LEMMA MatrixStep == UsersInv /\ [Next]_vars => MatrixAgrees'
<1> SUFFICES ASSUME UsersInv, [Next]_vars PROVE MatrixAgrees'
    OBVIOUS
<1> MatrixAgrees
  BY DEF UsersInv
<1> USE DEF MatrixAgrees, cache
<1>1. ASSUME NEW u \in Users, NEW r \in Roles, CreateUser(u, r)
      PROVE  MatrixAgrees'
  BY <1>1 DEF CreateUser
<1>2. ASSUME NEW u \in Users, DropUser(u) PROVE MatrixAgrees'
  BY <1>2 DEF DropUser, Other
<1>3. ASSUME NEW u \in Users, NEW r \in Roles, AlterUserRole(u, r)
      PROVE  MatrixAgrees'
  BY <1>3 DEF AlterUserRole
<1>4. ASSUME NEW u \in Users, NEW r \in Roles, SetCurrentRole(u, r)
      PROVE  MatrixAgrees'
  BY <1>4 DEF SetCurrentRole
<1>5. ASSUME NEW r \in Roles, CreateRole(r) PROVE MatrixAgrees'
  BY <1>5 DEF CreateRole
<1>6. ASSUME NEW r \in Roles, DropRole(r) PROVE MatrixAgrees'
  BY <1>6 DEF DropRole, Other
<1>7. ASSUME NEW r \in Roles, NEW s \in Roles, AlterRole(r, s)
      PROVE  MatrixAgrees'
  <2>1. /\ permission_matrix_' = permission_matrix_
        /\ gone' = gone \cup {r, s}
        /\ permissions_' = RenamedGrantee(r, s, permissions_)
    BY <1>7 DEF AlterRole
  <2>2. ASSUME NEW e \in permissions_', e[1] \notin gone'
        PROVE  e \in permissions_
    <3>1. PICK f \in permissions_ :
                e = IF f[1] = r /\ f[3] THEN <<s, f[2], TRUE>> ELSE f
      BY <2>1 DEF RenamedGrantee
    <3> QED
      BY <2>1, <2>2, <3>1
  <2>3. ASSUME NEW e \in permissions_, e[1] \notin gone' PROVE e \in permissions_'
    <3>1. e[1] # r
      BY <2>1, <2>3
    <3> QED
      BY <2>1, <3>1 DEF RenamedGrantee
  <2>4. ASSUME NEW e \in permissions_, e[1] \notin gone', Other(e) \in permissions_
        PROVE  Other(e) \in permissions_'
    BY <2>3, <2>4 DEF Other
  <2> QED
    BY <2>1, <2>2, <2>3, <2>4
<1>8. ASSUME NEW g \in Users \cup Roles, NEW x \in Targets, GrantPrivilege(g, x)
      PROVE  MatrixAgrees'
  <2> DEFINE e == <<g, x, IsRole(g)>>
  <2>1. /\ permissions_' = permissions_ \cup {e}
        /\ permission_matrix_' =
               {f \in permission_matrix_ : ~SameKey(e, f)} \cup {e}
        /\ gone' = gone
    BY <1>8 DEF GrantPrivilege, AddPermissionToMatrix
  <2>2. ASSUME NEW f \in permissions_, SameKey(e, f) PROVE f = e \/ Other(f) = e
    <3>1. f = <<f[1], f[2], f[3]>> /\ f[3] \in BOOLEAN
      BY TypesAreTables, Entry DEF UsersInv, TableTypes
    <3>2. f[1] = g /\ f[2] = x /\ IsRole(g) \in BOOLEAN
      BY <2>2, IsRoleBoolean DEF SameKey
    <3> QED
      BY <3>1, <3>2 DEF Other
  <2> HIDE DEF e
  <2>3. \A f \in permission_matrix_' : f[1] \notin gone' => f \in permissions_'
    BY <2>1
  <2>4. ASSUME NEW f \in permissions_', f[1] \notin gone'
        PROVE  f \in permission_matrix_' \/ Other(f) \in permissions_'
    BY <2>1, <2>2, <2>4
  <2> QED
    BY <2>3, <2>4
<1>9. ASSUME NEW g \in Users \cup Roles, NEW x \in Targets, RevokePrivilege(g, x)
      PROVE  MatrixAgrees'
  <2>1. /\ permissions_' = permissions_ \ Entries(g, x)
        /\ permission_matrix_' = permission_matrix_ \ Entries(g, x)
        /\ gone' = gone
    BY <1>9 DEF RevokePrivilege
  <2>2. ASSUME NEW e \in permissions_, Other(e) \in Entries(g, x)
        PROVE  e \in Entries(g, x)
    <3>1. e = <<e[1], e[2], e[3]>> /\ e[3] \in BOOLEAN
      BY TypesAreTables, Entry DEF UsersInv, TableTypes
    <3>2. e[1] = g /\ e[2] = x
      BY <2>2 DEF Other, Entries
    <3> QED
      BY <3>1, <3>2 DEF Entries
  <2> QED
    BY <2>1, <2>2
<1>10. CASE Restart
  <2>1. /\ permission_matrix_' \subseteq permissions_'
        /\ \A e \in permissions_' : \E f \in permission_matrix_' : SameKey(e, f)
    BY <1>10 DEF Restart, Matrices
  <2>2. ASSUME NEW e \in permissions_'
        PROVE  e \in permission_matrix_' \/ Other(e) \in permissions_'
    <3>1. PICK f \in permission_matrix_' : SameKey(e, f)
      BY <2>1
    <3>2. \A y \in permissions_' : y = <<y[1], y[2], y[3]>> /\ y[3] \in BOOLEAN
      BY TableStep, Entry DEF TableTypes
    <3>3. f = <<e[1], e[2], f[3]>> /\ f[3] \in BOOLEAN
      BY <2>1, <3>1, <3>2 DEF SameKey
    <3> QED
      BY <2>1, <3>2, <3>3 DEF Other
  <2> QED
    BY <2>1, <2>2
<1>11. CASE UNCHANGED vars
  BY <1>11 DEF vars, tables
<1> QED
  BY <1>1, <1>2, <1>3, <1>4, <1>5, <1>6, <1>7, <1>8, <1>9, <1>10, <1>11
     DEF Next

\* A user whose role changes gets it in both places or becomes unsynced.
LEMMA CurrentStep == UsersInv /\ [Next]_vars => CurrentAgrees'
<1> SUFFICES ASSUME UsersInv, [Next]_vars PROVE CurrentAgrees'
    OBVIOUS
<1> TableTypes /\ CurrentAgrees
  BY TypesAreTables DEF UsersInv
<1> USE DEF CurrentAgrees, Exists, TableTypes, UserTable, cache
<1>1. ASSUME NEW u \in Users, NEW r \in Roles, CreateUser(u, r)
      PROVE  CurrentAgrees'
  BY <1>1 DEF CreateUser
<1>2. ASSUME NEW u \in Users, DropUser(u) PROVE CurrentAgrees'
  BY <1>2 DEF DropUser
<1>3. ASSUME NEW u \in Users, NEW r \in Roles, AlterUserRole(u, r)
      PROVE  CurrentAgrees'
  BY <1>3 DEF AlterUserRole
<1>4. ASSUME NEW u \in Users, NEW r \in Roles, SetCurrentRole(u, r)
      PROVE  CurrentAgrees'
  <2>1. users_[u] \in UserEntry
    BY <1>4 DEF SetCurrentRole
  <2>2. [users_[u] EXCEPT !.current = r].current = r
    BY <2>1 DEF UserEntry
  <2>3. /\ users_' = [users_ EXCEPT ![u] = [users_[u] EXCEPT !.current = r]]
        /\ user_current_roles_' = [user_current_roles_ EXCEPT ![u] = r]
        /\ unsynced' = unsynced \ {u}
    BY <1>4 DEF SetCurrentRole
  <2> QED
    BY <2>2, <2>3
<1>5. ASSUME NEW r \in Roles, CreateRole(r) PROVE CurrentAgrees'
  BY <1>5 DEF CreateRole
<1>6. ASSUME NEW r \in Roles, DropRole(r) PROVE CurrentAgrees'
  BY <1>6 DEF DropRole
<1>7. ASSUME NEW r \in Roles, NEW s \in Roles, AlterRole(r, s)
      PROVE  CurrentAgrees'
  BY <1>7 DEF AlterRole
<1>8. ASSUME NEW g \in Users \cup Roles, NEW x \in Targets, GrantPrivilege(g, x)
      PROVE  CurrentAgrees'
  BY <1>8 DEF GrantPrivilege
<1>9. ASSUME NEW g \in Users \cup Roles, NEW x \in Targets, RevokePrivilege(g, x)
      PROVE  CurrentAgrees'
  BY <1>9 DEF RevokePrivilege
<1>10. CASE Restart
  BY <1>10 DEF Restart, CurrentRoles
<1>11. CASE UNCHANGED vars
  BY <1>11 DEF vars, tables
<1> QED
  BY <1>1, <1>2, <1>3, <1>4, <1>5, <1>6, <1>7, <1>8, <1>9, <1>10, <1>11
     DEF Next

\* The invariant holds throughout, for all the theorems below.
THEOREM UsersInvariant == Spec => []UsersInv
<1>1. UsersInv /\ [Next]_vars => UsersInv'
  <2> SUFFICES ASSUME UsersInv, [Next]_vars PROVE UsersInv'
      OBVIOUS
  <2>1. TypeOK'
    BY TableStep DEF TypeOK, TableTypes, UserTable, AnyPermission
  <2> QED
    BY <2>1, GranteesStep, FilesStep, MatrixStep, CurrentStep DEF UsersInv
<1> QED
  BY <1>1, InitUsers, PTL DEF Spec

-----------------------------------------------------------------------------
\* The variables keep their types.
THEOREM UserTypes == Spec => []TypeOK
<1>1. UsersInv => TypeOK
  BY DEF UsersInv
<1> QED
  BY <1>1, UsersInvariant, PTL

\* No permission is left to a name that does not exist: a name that is used
\* again starts with none.
THEOREM PermissionsHaveGrantees == Spec => []GranteesExist
<1>1. UsersInv => GranteesExist
  BY DEF UsersInv
<1> QED
  BY <1>1, UsersInvariant, PTL

\* As long as no save fails a restart loads what the last call left.
THEOREM UsersSurviveRestart == Spec => []RestartKeeps
<1>1. UsersInv => RestartKeeps
  BY DEF UsersInv, SavedWhole, RestartKeeps
<1> QED
  BY <1>1, UsersInvariant, PTL

\* CheckPermission answers from the matrix and the current roles what the
\* tables say, for every name that is neither gone nor unsynced: never more,
\* and less only if a user and a role of the same name have a permission both.
THEOREM PermissionAnswers == Spec => []AnswersExplained
<1>1. UsersInv => AnswersExplained
  <2> SUFFICES ASSUME UsersInv, NEW u \in Users, NEW x \in Targets, Exists(u),
                      u \notin unsynced, {u, users_[u].current} \cap gone = {}
               PROVE  LET answer == CheckPermission(u, x.database, x.table, x.privilege)
                          listed == Allowed(permissions_, CurrentRoles(users_),
                                            u, x.database, x.table, x.privilege)
                      IN  /\ answer => listed
                          /\ listed => answer \/ Shared({u, users_[u].current})
      BY DEF AnswersExplained
  <2> DEFINE r == users_[u].current
  <2>1. user_current_roles_[u] = r /\ CurrentRoles(users_)[u] = r
    BY DEF UsersInv, CurrentAgrees, CurrentRoles, Exists
  <2>2. \A g \in {u, r} : \A y, b :
            <<g, y, b>> \in permission_matrix_ => <<g, y, b>> \in permissions_
    BY DEF UsersInv, MatrixAgrees
  <2>3. \A g \in {u, r} : \A y, b :
            <<g, y, b>> \in permissions_
                => <<g, y, b>> \in permission_matrix_ \/ Shared({u, r})
    BY DEF UsersInv, MatrixAgrees, Other, Shared
  <2> HIDE DEF r
  <2>4. CheckPermission(u, x.database, x.table, x.privilege)
            => Allowed(permissions_, CurrentRoles(users_),
                       u, x.database, x.table, x.privilege)
    BY <2>1, <2>2, Zenon DEF CheckPermission, Allowed
  <2>5. Allowed(permissions_, CurrentRoles(users_),
                u, x.database, x.table, x.privilege)
            => \/ CheckPermission(u, x.database, x.table, x.privilege)
               \/ Shared({u, r})
    BY <2>1, <2>3, Zenon DEF CheckPermission, Allowed
  <2> QED
    BY <2>4, <2>5 DEF r
<1> QED
  BY <1>1, UsersInvariant, PTL
=============================================================================
