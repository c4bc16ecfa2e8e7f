------------------------------ MODULE Delegation ------------------------------
(***************************************************************************)
(* Who may hand out which authority: accounts, roles, their permissions    *)
(* and the default role of accounts provisioned at an OIDC sign-in.        *)
(*                                                                         *)
(* withPermission checks a request against what its credentials granted    *)
(* when it arrived; the handler changes the rows later, in one             *)
(* serializable transaction under lockAdminDelegation, and reads the       *)
(* actor's authority again.  Between the two, other requests may demote or *)
(* deactivate the actor.                                                   *)
(***************************************************************************)
EXTENDS Naturals, FiniteSets

CONSTANTS User, Role, Permission,
          AdminRole,      \* 'role-admin'
          SystemRole,     \* roles.system
          UsersWrite,     \* admin.users.write
          RbacWrite,      \* admin.rbac.write
          SettingsWrite,  \* admin.settings.write
          KeyScopes,      \* the scopes API keys are issued with
          Request,        \* requests in flight, sign-ins included
          Nobody, NoRole

ASSUME DelegationAssumption ==
    /\ IsFiniteSet(User) /\ User # {}
    /\ Nobody \notin User
    /\ NoRole \notin Role
    /\ AdminRole \in SystemRole
    /\ SystemRole \subseteq Role
    /\ {UsersWrite, RbacWrite, SettingsWrite} \subseteq Permission
    /\ KeyScopes \subseteq SUBSET Permission

VARIABLES
    account,   \* users: absent, or a local or OIDC account, active or not
    roles,     \* the roles that exist
    perms,     \* role_permissions
    member,    \* user_roles
    default,   \* oidc_settings.default_role_id
    named,     \* the account that has the bootstrap user name
    req        \* what each request in flight was authenticated as

vars == <<account, roles, perms, member, default, named, req>>

NoAccount == [source |-> "none", active |-> FALSE]

Account == [source : {"local", "oidc"}, active : BOOLEAN] \cup {NoAccount}

Idle == [kind |-> "idle", by |-> Nobody, has |-> {}, role |-> NoRole]

RequestState ==
    {Idle}
    \cup [kind : {"session", "key"}, by : User, has : SUBSET Permission, role : {NoRole}]
    \cup [kind : {"signin"}, by : {Nobody}, has : {{}}, role : Role \cup {NoRole}]

TypeOK ==
    /\ account \in [User -> Account]
    /\ roles \subseteq Role /\ SystemRole \subseteq roles
    /\ perms \in [Role -> SUBSET Permission]
    /\ member \in [User -> SUBSET roles]
    /\ default \in roles \cup {NoRole}
    /\ named \in User \cup {Nobody}
    /\ req \in [Request -> RequestState]

Exists(u) == account[u].source # "none"

Active(u) == account[u].active

Granted(u) == UNION {perms[r] : r \in member[u]}

IsAdmin(u) == AdminRole \in member[u]

ActiveAdmins == {u \in User : Active(u) /\ IsAdmin(u)}

\* After the migrations and the first BootstrapAdmin.  The Administrator role
\* has every permission; what the other system roles start with is left out,
\* an administrator may set it.
Init ==
    /\ roles = SystemRole
    /\ perms = [r \in Role |-> IF r = AdminRole THEN Permission ELSE {}]
    /\ \E u \in User :
          /\ account = [v \in User |->
                IF v = u THEN [source |-> "local", active |-> TRUE] ELSE NoAccount]
          /\ member = [v \in User |-> IF v = u THEN {AdminRole} ELSE {}]
          /\ named = u
    /\ default = NoRole
    /\ req = [q \in Request |-> Idle]

-------------------------------------------------------------------------------
(***************************************************************************)
(* Authentication, and the authority of the actor inside the transaction   *)
(***************************************************************************)

\* The permissions that guard the handlers below.
Writes == {UsersWrite, RbacWrite, SettingsWrite}

\* withAuth, AuthenticateSession and AuthenticateAPIKey, then withPermission:
\* for an API key Has needs the permission and a scope; of a session nothing
\* but the guards is looked at again.  A request that no handler lets through
\* ends here.
Authenticate(q, u, kind, scopes) ==
    /\ req[q].kind = "idle"
    /\ Active(u)
    /\ Granted(u) \cap scopes \cap Writes # {}
    /\ req' = [req EXCEPT ![q] =
                 [kind |-> kind, by |-> u, has |-> Granted(u) \cap scopes, role |-> NoRole]]
    /\ UNCHANGED <<account, roles, perms, member, default, named>>

\* Mutant: the authority the request arrived with.
AuthorityOnArrival(q) == req[q].has

\* actorAuthority and attenuateDelegatedAuthority: read again, for an active
\* account only, and no more than what an API key arrived with.
Authority(q) ==
    CASE ~Active(req[q].by)    -> {}
      [] req[q].kind = "key"   -> Granted(req[q].by) \cap req[q].has
      [] OTHER                 -> Granted(req[q].by)

\* Mutant: an administrator's key stands for the administrator.
ActsAsAdminByKey(q) == IsAdmin(req[q].by)

\* An API key is never an administrator.
ActsAsAdmin(q) == req[q].kind = "session" /\ IsAdmin(req[q].by)

\* The permission withPermission(...) names for the handler.
Passes(q, permission) ==
    /\ req[q].kind \in {"session", "key"}
    /\ permission \in req[q].has

validateDelegatedRoles(q, rs) ==
    /\ Active(req[q].by)
    /\ rs \subseteq roles
    /\ AdminRole \in rs => ActsAsAdmin(q)
    /\ \A r \in rs : perms[r] \subseteq Authority(q)

validateTargetUserAuthority(q, u) ==
    /\ Active(req[q].by)
    /\ IsAdmin(u) => ActsAsAdmin(q)
    /\ Granted(u) \subseteq Authority(q)

validateRoleMutationTarget(q, r) ==
    /\ Active(req[q].by)
    /\ r \in roles \ {AdminRole}
    /\ perms[r] \subseteq Authority(q)

protectLastActiveAdmin(u, active, rs) ==
    u \in ActiveAdmins /\ ~(active /\ AdminRole \in rs) => Cardinality(ActiveAdmins) > 1

\* Mutant: only the roles are looked at, not the active flag.
NoLockoutByRoles(q, u, active, rs) ==
    /\ u = req[q].by /\ IsAdmin(u) => AdminRole \in rs
    /\ protectLastActiveAdmin(u, TRUE, rs)

\* What an account may be turned into: a caller can neither deactivate itself
\* nor drop its own Administrator role, and the last one stays.
NoLockout(q, u, active, rs) ==
    /\ u = req[q].by => active                               \* self_deactivation
    /\ u = req[q].by /\ IsAdmin(u) => AdminRole \in rs       \* self_lockout
    /\ protectLastActiveAdmin(u, active, rs)

Close(q) == req' = [req EXCEPT ![q] = Idle]

\* A refusal, a failed statement or a serialization failure.
Refused(q) ==
    /\ req[q].kind # "idle"
    /\ Close(q)
    /\ UNCHANGED <<account, roles, perms, member, default, named>>

-------------------------------------------------------------------------------
(***************************************************************************)
(* Accounts                                                                *)
(***************************************************************************)

\* The user name a request gives an account: the bootstrap name or another.
\* users.username is unique.
Rename(u, bootstrapName) ==
    IF bootstrapName THEN named \in {u, Nobody} /\ named' = u
                     ELSE named' = IF named = u THEN Nobody ELSE named

createUser(q, u, active, rs, bootstrapName) ==
    /\ Passes(q, UsersWrite)
    /\ ~Exists(u)
    /\ validateDelegatedRoles(q, rs)
    /\ account' = [account EXCEPT ![u] = [source |-> "local", active |-> active]]
    /\ member' = [member EXCEPT ![u] = rs]
    /\ Rename(u, bootstrapName)
    /\ Close(q)
    /\ UNCHANGED <<roles, perms, default>>

\* PATCH: the active flag only.
updateUser(q, u, active) ==
    /\ Passes(q, UsersWrite)
    /\ Exists(u)
    /\ validateTargetUserAuthority(q, u)
    /\ NoLockout(q, u, active, member[u])
    /\ account' = [account EXCEPT ![u].active = active]
    /\ Close(q)
    /\ UNCHANGED <<roles, perms, member, default, named>>

\* PUT: active flag, roles and, for a local account, the name.
putUser(q, u, active, rs, bootstrapName) ==
    /\ Passes(q, UsersWrite)
    /\ validateDelegatedRoles(q, rs)
    /\ Exists(u)
    /\ validateTargetUserAuthority(q, u)
    /\ NoLockout(q, u, active, rs)
    /\ account' = [account EXCEPT ![u].active = active]
    /\ member' = [member EXCEPT ![u] = rs]
    /\ IF account[u].source = "local" THEN Rename(u, bootstrapName) ELSE UNCHANGED named
    /\ Close(q)
    /\ UNCHANGED <<roles, perms, default>>

replaceUserRoles(q, u, rs) ==
    /\ Passes(q, UsersWrite)
    /\ Exists(u)
    /\ validateTargetUserAuthority(q, u)
    /\ validateDelegatedRoles(q, rs)
    /\ NoLockout(q, u, Active(u), rs)
    /\ member' = [member EXCEPT ![u] = rs]
    /\ Close(q)
    /\ UNCHANGED <<account, roles, perms, default, named>>

-------------------------------------------------------------------------------
(***************************************************************************)
(* Roles and the OIDC default role                                         *)
(***************************************************************************)

assignRolePermissions(q, r, ps) ==
    /\ ps \subseteq Authority(q)
    /\ perms' = [perms EXCEPT ![r] = ps]
    /\ Close(q)
    /\ UNCHANGED <<account, member, default, named>>

createRoleCompat(q, r, ps) ==
    /\ Passes(q, RbacWrite)
    /\ Active(req[q].by)
    /\ r \notin roles
    /\ roles' = roles \cup {r}
    /\ assignRolePermissions(q, r, ps)

\* putRole and replaceRolePermissions.
putRole(q, r, ps) ==
    /\ Passes(q, RbacWrite)
    /\ validateRoleMutationTarget(q, r)
    /\ assignRolePermissions(q, r, ps)
    /\ UNCHANGED roles

\* Memberships go with the role, the default role becomes NULL.
deleteRole(q, r) ==
    /\ Passes(q, RbacWrite)
    /\ validateRoleMutationTarget(q, r)
    /\ r \notin SystemRole
    /\ roles' = roles \ {r}
    /\ perms' = [perms EXCEPT ![r] = {}]
    /\ member' = [u \in User |-> member[u] \ {r}]
    /\ default' = IF default = r THEN NoRole ELSE default
    /\ Close(q)
    /\ UNCHANGED <<account, named>>

\* updateOIDCSettings and putOIDCSettings; without a default role nothing but
\* the permission on arrival is checked.
updateOIDCSettings(q, r) ==
    /\ Passes(q, SettingsWrite)
    /\ r # NoRole => validateDelegatedRoles(q, {r})
    /\ default' = r
    /\ Close(q)
    /\ UNCHANGED <<account, roles, perms, member, named>>

-------------------------------------------------------------------------------
(***************************************************************************)
(* Sign-in of an unknown OIDC subject, and start-up                        *)
(***************************************************************************)

\* oidcCallback loads the settings before it talks to the provider.
LoadSettings(q) ==
    /\ req[q].kind = "idle"
    /\ req' = [req EXCEPT ![q] =
                 [kind |-> "signin", by |-> Nobody, has |-> {}, role |-> default]]
    /\ UNCHANGED <<account, roles, perms, member, default, named>>

\* resolveOIDCUser creates the account with the default role as it was loaded;
\* a role deleted meanwhile fails the insert.
Provision(q, u, bootstrapName) ==
    /\ req[q].kind = "signin"
    /\ ~Exists(u)
    /\ req[q].role \in roles \cup {NoRole}
    /\ account' = [account EXCEPT ![u] = [source |-> "oidc", active |-> TRUE]]
    /\ member' = [member EXCEPT ![u] = {req[q].role} \ {NoRole}]
    /\ Rename(u, bootstrapName)
    /\ Close(q)
    /\ UNCHANGED <<roles, perms, default>>

\* Every start runs BootstrapAdmin: whoever has the bootstrap name gets the
\* role back, else an account is created.  Requests in flight are gone.
Restart(u) ==
    /\ named = u \/ (named = Nobody /\ ~Exists(u))
    /\ account' = IF Exists(u) THEN account
                  ELSE [account EXCEPT ![u] = [source |-> "local", active |-> TRUE]]
    /\ member' = [member EXCEPT ![u] = @ \cup {AdminRole}]
    /\ named' = u
    /\ req' = [q \in Request |-> Idle]
    /\ UNCHANGED <<roles, perms, default>>

-------------------------------------------------------------------------------

Accounts(q, u) ==
    \/ Authenticate(q, u, "session", Writes)
    \/ \E scopes \in KeyScopes : Authenticate(q, u, "key", scopes)
    \/ \E active, b \in BOOLEAN, rs \in SUBSET roles :
          createUser(q, u, active, rs, b) \/ putUser(q, u, active, rs, b)
    \/ \E active \in BOOLEAN : updateUser(q, u, active)
    \/ \E rs \in SUBSET roles : replaceUserRoles(q, u, rs)
    \/ \E b \in BOOLEAN : Provision(q, u, b)

Roles(q) ==
    \/ \E r \in Role, ps \in SUBSET Permission :
          createRoleCompat(q, r, ps) \/ putRole(q, r, ps)
    \/ \E r \in Role : deleteRole(q, r)
    \/ \E r \in roles \cup {NoRole} : updateOIDCSettings(q, r)
    \/ LoadSettings(q)
    \/ Refused(q)

Next ==
    \/ \E q \in Request : Roles(q) \/ \E u \in User : Accounts(q, u)
    \/ \E u \in User : Restart(u)

Spec == Init /\ [][Next]_vars

-------------------------------------------------------------------------------
(***************************************************************************)
(* Properties                                                              *)
(***************************************************************************)

\* Whatever concurrent requests deactivate, demote, delete or rename, somebody
\* who can sign in is an administrator (protectLastActiveAdmin, the protected
\* Administrator role, BootstrapAdmin).
AnAdminRemains == ActiveAdmins # {}

Held(u) == IF Active(u) THEN Granted(u) ELSE {}

\* What the sender of a request may hand out now, whatever it arrived with.
HeldBySender(q) ==
    IF req[q].kind = "key" THEN Held(req[q].by) \cap req[q].has ELSE Held(req[q].by)

Answered(q) == req[q].kind \in {"session", "key"} /\ req'[q] = Idle

\* An account made at the sign-in of an unknown subject.
Provisioned(u) == ~Exists(u) /\ account'[u].source = "oidc"

\* BootstrapAdmin gave the Administrator role to the account u.
Bootstrapped(u) == u = named' /\ \A q \in Request : req'[q] = Idle

\* Nobody gains a permission by a request whose sender does not hold it at
\* that very moment: not through a role edited while others have it, not by
\* reactivating an account, and not with what the sender had when the request
\* arrived (permissionSubset in rbac_policy.go).
GainsAreHeld ==
    [][\A u \in User : \A p \in Held(u)' \ Held(u) :
         \/ \E q \in Request : Answered(q) /\ p \in HeldBySender(q)
         \/ Provisioned(u)
         \/ Bootstrapped(u) /\ IsAdmin(u)']_vars

\* Administrators are made by administrators in a browser session, directly or
\* by the default role of provisioned accounts, or by BootstrapAdmin; never by
\* an API key ("cannot mint an admin", attenuateDelegatedAuthority).
AdminsComeFromAdmins ==
    [][LET ByAdmin == \E q \in Request : /\ Answered(q)
                                         /\ req[q].kind = "session"
                                         /\ req[q].by \in ActiveAdmins IN
       /\ \A u \in User : IsAdmin(u)' /\ ~IsAdmin(u) =>
             \/ ByAdmin
             \/ Provisioned(u) /\ \E q \in Request : req[q].role = AdminRole
             \/ Bootstrapped(u)
       /\ default' = AdminRole /\ default # AdminRole => ByAdmin]_vars

===============================================================================
