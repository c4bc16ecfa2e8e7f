--------------------------- MODULE DelegationProofs ---------------------------
(***************************************************************************)
(* Proofs about Delegation for any accounts, roles, permissions, scopes    *)
(* and number of requests in flight.                                       *)
(***************************************************************************)
EXTENDS Delegation, FiniteSetTheorems, TLAPS

\* The actions with their quantifiers, as the proofs split on them.
Steps ==
    \/ \E q \in Request, u \in User, k \in {"session", "key"}, s \in SUBSET Permission :
          Authenticate(q, u, k, s)
    \/ \E q \in Request, u \in User, a \in BOOLEAN, b \in BOOLEAN, rs \in SUBSET roles :
          createUser(q, u, a, rs, b)
    \/ \E q \in Request, u \in User, a \in BOOLEAN, b \in BOOLEAN, rs \in SUBSET roles :
          putUser(q, u, a, rs, b)
    \/ \E q \in Request, u \in User, a \in BOOLEAN : updateUser(q, u, a)
    \/ \E q \in Request, u \in User, rs \in SUBSET roles : replaceUserRoles(q, u, rs)
    \/ \E q \in Request, u \in User, b \in BOOLEAN : Provision(q, u, b)
    \/ \E q \in Request, r \in Role, ps \in SUBSET Permission : createRoleCompat(q, r, ps)
    \/ \E q \in Request, r \in Role, ps \in SUBSET Permission : putRole(q, r, ps)
    \/ \E q \in Request, r \in Role : deleteRole(q, r)
    \/ \E q \in Request, r \in roles \cup {NoRole} : updateOIDCSettings(q, r)
    \/ \E q \in Request : LoadSettings(q)
    \/ \E q \in Request : Refused(q)
    \/ \E u \in User : Restart(u)

LEMMA NextIsSteps == ASSUME TypeOK, Next PROVE Steps
<1>1. Writes \in SUBSET Permission /\ KeyScopes \subseteq SUBSET Permission
  BY DelegationAssumption DEF Writes
<1> QED BY <1>1 DEF Next, Roles, Accounts, Steps

-------------------------------------------------------------------------------
(***************************************************************************)
(* Types                                                                   *)
(***************************************************************************)

LEMMA TypeInit == Init => TypeOK
BY DelegationAssumption
   DEF Init, TypeOK, Account, NoAccount, Idle, RequestState

LEMMA TypeStep == ASSUME TypeOK, Steps PROVE TypeOK'
<1> USE DelegationAssumption DEF TypeOK
<1>0. Idle \in RequestState
  BY DEF RequestState
<1>1. ASSUME NEW q \in Request, NEW u \in User, NEW k \in {"session", "key"},
             NEW s \in SUBSET Permission, Authenticate(q, u, k, s)
      PROVE  TypeOK'
  BY <1>1 DEF Authenticate, RequestState
<1>2. ASSUME NEW q \in Request, NEW u \in User, NEW a \in BOOLEAN, NEW b \in BOOLEAN,
             NEW rs \in SUBSET roles, createUser(q, u, a, rs, b)
      PROVE  TypeOK'
  BY <1>0, <1>2 DEF createUser, Rename, Close, Account
<1>3. ASSUME NEW q \in Request, NEW u \in User, NEW a \in BOOLEAN, NEW b \in BOOLEAN,
             NEW rs \in SUBSET roles, putUser(q, u, a, rs, b)
      PROVE  TypeOK'
  BY <1>0, <1>3 DEF putUser, Rename, Close, Exists, Account, NoAccount
<1>4. ASSUME NEW q \in Request, NEW u \in User, NEW a \in BOOLEAN, updateUser(q, u, a)
      PROVE  TypeOK'
  BY <1>0, <1>4 DEF updateUser, Close, Exists, Account, NoAccount
<1>5. ASSUME NEW q \in Request, NEW u \in User, NEW rs \in SUBSET roles,
             replaceUserRoles(q, u, rs)
      PROVE  TypeOK'
  BY <1>0, <1>5 DEF replaceUserRoles, Close
<1>6. ASSUME NEW q \in Request, NEW u \in User, NEW b \in BOOLEAN, Provision(q, u, b)
      PROVE  TypeOK'
  <2>1. {req[q].role} \ {NoRole} \in SUBSET roles
    BY <1>6 DEF Provision
  <2> QED BY <1>0, <1>6, <2>1 DEF Provision, Rename, Close, Account
<1>7. ASSUME NEW q \in Request, NEW r \in Role, NEW ps \in SUBSET Permission,
             createRoleCompat(q, r, ps)
      PROVE  TypeOK'
  BY <1>0, <1>7 DEF createRoleCompat, assignRolePermissions, Close
<1>8. ASSUME NEW q \in Request, NEW r \in Role, NEW ps \in SUBSET Permission,
             putRole(q, r, ps)
      PROVE  TypeOK'
  BY <1>0, <1>8 DEF putRole, assignRolePermissions, Close
<1>9. ASSUME NEW q \in Request, NEW r \in Role, deleteRole(q, r)
      PROVE  TypeOK'
  BY <1>0, <1>9 DEF deleteRole, Close
<1>10. ASSUME NEW q \in Request, NEW r \in roles \cup {NoRole}, updateOIDCSettings(q, r)
       PROVE  TypeOK'
  BY <1>0, <1>10 DEF updateOIDCSettings, Close
<1>11. ASSUME NEW q \in Request, LoadSettings(q)
       PROVE  TypeOK'
  BY <1>11 DEF LoadSettings, RequestState
<1>12. ASSUME NEW q \in Request, Refused(q)
       PROVE  TypeOK'
  BY <1>0, <1>12 DEF Refused, Close
<1>13. ASSUME NEW u \in User, Restart(u)
       PROVE  TypeOK'
  BY <1>0, <1>13 DEF Restart, Account
<1> QED BY <1>1, <1>2, <1>3, <1>4, <1>5, <1>6, <1>7, <1>8, <1>9, <1>10, <1>11, <1>12, <1>13
   DEF Steps

\* Every row and every request in flight keeps its type; memberships and the
\* default role always name roles that exist (the foreign keys of user_roles
\* and oidc_settings).
THEOREM DelegationTypes == Spec => []TypeOK
<1>1. TypeOK /\ [Next]_vars => TypeOK'
  <2>1. TypeOK /\ Next => TypeOK'
    BY NextIsSteps, TypeStep
  <2>2. TypeOK /\ UNCHANGED vars => TypeOK'
    BY DEF TypeOK, vars
  <2> QED BY <2>1, <2>2
<1> QED BY <1>1, TypeInit, PTL DEF Spec

-------------------------------------------------------------------------------
(***************************************************************************)
(* An administrator remains                                                *)
(***************************************************************************)

\* A count above one leaves somebody besides u.
LEMMA AnotherAdmin ==
    ASSUME NEW u \in User, Cardinality(ActiveAdmins) > 1
    PROVE  \E v \in ActiveAdmins : v # u
<1>1. IsFiniteSet(ActiveAdmins)
  BY DelegationAssumption, FS_Subset DEF ActiveAdmins
<1> SUFFICES ASSUME ActiveAdmins \subseteq {u} PROVE FALSE
  OBVIOUS
<1>2. IsFiniteSet({u}) /\ Cardinality({u}) = 1
  BY FS_Singleton
<1>3. Cardinality(ActiveAdmins) <= 1
  BY <1>2, FS_Subset
<1>4. Cardinality(ActiveAdmins) \in Nat
  BY <1>1, FS_CardinalityType
<1> QED BY <1>3, <1>4

\* What a handler does to the account u leaves an administrator.
LEMMA LockoutLeavesAdmin ==
    ASSUME TypeOK, AnAdminRemains,
           NEW q \in Request, NEW u \in User, NEW a \in BOOLEAN, NEW rs \in SUBSET roles,
           NoLockout(q, u, a, rs),
           \A v \in User \ {u} : account'[v] = account[v] /\ member'[v] = member[v],
           Active(u)' = a, member'[u] = rs
    PROVE  AnAdminRemains'
<1>1. CASE \E v \in ActiveAdmins : v # u
  BY <1>1 DEF AnAdminRemains, ActiveAdmins, Active, IsAdmin
<1>2. CASE ActiveAdmins \subseteq {u}
  <2>1. u \in ActiveAdmins /\ ~(Cardinality(ActiveAdmins) > 1)
    BY <1>2, AnotherAdmin DEF AnAdminRemains
  <2>2. a /\ AdminRole \in rs
    BY <2>1 DEF NoLockout, protectLastActiveAdmin
  <2> QED BY <2>2 DEF AnAdminRemains, ActiveAdmins, Active, IsAdmin
<1> QED BY <1>1, <1>2

\* Nothing is taken from an account that is an active administrator.
LEMMA KeepsAdmin ==
    ASSUME AnAdminRemains,
           \A v \in ActiveAdmins : Active(v)' /\ IsAdmin(v)'
    PROVE  AnAdminRemains'
BY DEF AnAdminRemains, ActiveAdmins

LEMMA AdminStep == ASSUME TypeOK, AnAdminRemains, Steps PROVE AnAdminRemains'
<1> USE DEF TypeOK, Active, IsAdmin
<1>0. ASSUME UNCHANGED <<account, member>> PROVE AnAdminRemains'
  BY <1>0, KeepsAdmin DEF ActiveAdmins
<1>1. ASSUME NEW q \in Request, NEW u \in User, NEW k \in {"session", "key"},
             NEW s \in SUBSET Permission, Authenticate(q, u, k, s)
      PROVE  AnAdminRemains'
  BY <1>0, <1>1 DEF Authenticate
<1>2. ASSUME NEW q \in Request, NEW u \in User, NEW a \in BOOLEAN, NEW b \in BOOLEAN,
             NEW rs \in SUBSET roles, createUser(q, u, a, rs, b)
      PROVE  AnAdminRemains'
  <2>1. \A v \in ActiveAdmins : v \in User /\ v # u
    BY <1>2 DEF createUser, Exists, ActiveAdmins, Account, NoAccount
  <2> QED BY <1>2, <2>1, KeepsAdmin DEF createUser, ActiveAdmins
<1>3. ASSUME NEW q \in Request, NEW u \in User, NEW a \in BOOLEAN, NEW b \in BOOLEAN,
             NEW rs \in SUBSET roles, putUser(q, u, a, rs, b)
      PROVE  AnAdminRemains'
  <2>1. /\ \A v \in User \ {u} : account'[v] = account[v] /\ member'[v] = member[v]
        /\ Active(u)' = a /\ member'[u] = rs
    BY <1>3 DEF putUser, Exists, Account, NoAccount
  <2> QED BY <1>3, <2>1, LockoutLeavesAdmin DEF putUser
<1>4. ASSUME NEW q \in Request, NEW u \in User, NEW a \in BOOLEAN, updateUser(q, u, a)
      PROVE  AnAdminRemains'
  <2>1. /\ \A v \in User \ {u} : account'[v] = account[v] /\ member'[v] = member[v]
        /\ Active(u)' = a /\ member'[u] = member[u]
    BY <1>4 DEF updateUser, Exists, Account, NoAccount
  <2> QED BY <1>4, <2>1, LockoutLeavesAdmin DEF updateUser
<1>5. ASSUME NEW q \in Request, NEW u \in User, NEW rs \in SUBSET roles,
             replaceUserRoles(q, u, rs)
      PROVE  AnAdminRemains'
  <2>1. /\ \A v \in User \ {u} : account'[v] = account[v] /\ member'[v] = member[v]
        /\ account'[u].active = account[u].active /\ member'[u] = rs
    BY <1>5 DEF replaceUserRoles
  <2>2. account[u].active \in BOOLEAN
    <3>1. account[u] \in Account
      OBVIOUS
    <3>2. \A x \in Account : x.active \in BOOLEAN
      <4>1. NoAccount.active \in BOOLEAN
        BY Zenon DEF NoAccount
      <4> QED BY <4>1, Zenon DEF Account
    <3> QED BY <3>1, <3>2
  <2> QED BY <1>5, <2>1, <2>2, LockoutLeavesAdmin DEF replaceUserRoles
<1>6. ASSUME NEW q \in Request, NEW u \in User, NEW b \in BOOLEAN, Provision(q, u, b)
      PROVE  AnAdminRemains'
  <2>1. \A v \in ActiveAdmins : v \in User /\ v # u
    BY <1>6 DEF Provision, Exists, ActiveAdmins, Account, NoAccount
  <2> QED BY <1>6, <2>1, KeepsAdmin DEF Provision, ActiveAdmins
<1>7. ASSUME NEW q \in Request, NEW r \in Role, NEW ps \in SUBSET Permission,
             createRoleCompat(q, r, ps)
      PROVE  AnAdminRemains'
  BY <1>0, <1>7 DEF createRoleCompat, assignRolePermissions
<1>8. ASSUME NEW q \in Request, NEW r \in Role, NEW ps \in SUBSET Permission,
             putRole(q, r, ps)
      PROVE  AnAdminRemains'
  BY <1>0, <1>8 DEF putRole, assignRolePermissions
<1>9. ASSUME NEW q \in Request, NEW r \in Role, deleteRole(q, r)
      PROVE  AnAdminRemains'
  <2>1. r # AdminRole
    BY <1>9 DEF deleteRole, validateRoleMutationTarget
  <2> QED BY <1>9, <2>1, KeepsAdmin DEF deleteRole, ActiveAdmins
<1>10. ASSUME NEW q \in Request, NEW r \in roles \cup {NoRole}, updateOIDCSettings(q, r)
       PROVE  AnAdminRemains'
  BY <1>0, <1>10 DEF updateOIDCSettings
<1>11. ASSUME NEW q \in Request, LoadSettings(q)
       PROVE  AnAdminRemains'
  BY <1>0, <1>11 DEF LoadSettings
<1>12. ASSUME NEW q \in Request, Refused(q)
       PROVE  AnAdminRemains'
  BY <1>0, <1>12 DEF Refused
<1>13. ASSUME NEW u \in User, Restart(u)
       PROVE  AnAdminRemains'
  BY <1>13, KeepsAdmin DEF Restart, ActiveAdmins, Exists, Account, NoAccount
<1> QED BY <1>1, <1>2, <1>3, <1>4, <1>5, <1>6, <1>7, <1>8, <1>9, <1>10, <1>11, <1>12, <1>13
   DEF Steps

\* Somebody who can sign in is an administrator, for any number of accounts,
\* roles and concurrent requests: the guards of updateUser, putUser and
\* replaceUserRoles, the protected role and BootstrapAdmin together suffice.
THEOREM AdminsRemain == Spec => []AnAdminRemains
<1> DEFINE I == TypeOK /\ AnAdminRemains
<1>1. Init => I
  <2>1. Init => AnAdminRemains
    BY DEF Init, AnAdminRemains, ActiveAdmins, Active, IsAdmin
  <2> QED BY <2>1, TypeInit
<1>2. I /\ [Next]_vars => I'
  <2>1. I /\ Next => I'
    BY NextIsSteps, TypeStep, AdminStep
  <2>2. I /\ UNCHANGED vars => I'
    BY DEF TypeOK, vars, AnAdminRemains, ActiveAdmins, Active, IsAdmin
  <2> QED BY <2>1, <2>2
<1> QED BY <1>1, <1>2, PTL DEF Spec

-------------------------------------------------------------------------------
(***************************************************************************)
(* What is gained was held                                                 *)
(***************************************************************************)

GainOf(u) ==
    \A p \in Held(u)' \ Held(u) :
        \/ \E q \in Request : Answered(q) /\ p \in HeldBySender(q)
        \/ Provisioned(u)
        \/ Bootstrapped(u) /\ IsAdmin(u)'

\* Inside the transaction, authority is what an active sender holds.
LEMMA AuthorityIsHeld ==
    ASSUME NEW q \in Request, req[q].kind \in {"session", "key"}, Active(req[q].by)
    PROVE  Authority(q) = HeldBySender(q)
BY DEF Authority, HeldBySender, Held

\* A request that gives nobody more than its sender's authority.
LEMMA GainByRequest ==
    ASSUME NEW q \in Request, req[q].kind \in {"session", "key"}, Active(req[q].by),
           req'[q] = Idle, NEW u \in User, Held(u)' \subseteq Held(u) \cup Authority(q)
    PROVE  GainOf(u)
BY AuthorityIsHeld DEF GainOf, Answered

LEMMA GainStep == ASSUME TypeOK, Steps PROVE \A v \in User : GainOf(v)
<1> USE DEF TypeOK
<1> SUFFICES ASSUME NEW v \in User PROVE GainOf(v)
  OBVIOUS
<1>0. ASSUME Held(v)' \subseteq Held(v) PROVE GainOf(v)
  BY <1>0 DEF GainOf
<1>a. ASSUME account'[v] = account[v], member'[v] = member[v], perms' = perms
      PROVE  GainOf(v)
  BY <1>a, <1>0 DEF Held, Active, Granted
<1>1. ASSUME NEW q \in Request, NEW u \in User, NEW k \in {"session", "key"},
             NEW s \in SUBSET Permission, Authenticate(q, u, k, s)
      PROVE  GainOf(v)
  BY <1>a, <1>1 DEF Authenticate
<1>2. ASSUME NEW q \in Request, NEW u \in User, NEW a \in BOOLEAN, NEW b \in BOOLEAN,
             NEW rs \in SUBSET roles, createUser(q, u, a, rs, b)
      PROVE  GainOf(v)
  <2>1. CASE v # u
    BY <1>a, <1>2, <2>1 DEF createUser
  <2>2. CASE v = u
    <3>1. Granted(v)' \subseteq Authority(q)
      BY <1>2, <2>2 DEF createUser, validateDelegatedRoles, Granted
    <3> QED BY <1>2, <3>1, GainByRequest
       DEF createUser, Passes, Close, validateDelegatedRoles, Held
  <2> QED BY <2>1, <2>2
<1>3. ASSUME NEW q \in Request, NEW u \in User, NEW a \in BOOLEAN, NEW b \in BOOLEAN,
             NEW rs \in SUBSET roles, putUser(q, u, a, rs, b)
      PROVE  GainOf(v)
  <2>1. CASE v # u
    BY <1>a, <1>3, <2>1 DEF putUser
  <2>2. CASE v = u
    <3>1. Granted(v)' \subseteq Authority(q)
      BY <1>3, <2>2 DEF putUser, validateDelegatedRoles, Granted
    <3> QED BY <1>3, <3>1, GainByRequest
       DEF putUser, Passes, Close, validateDelegatedRoles, Held
  <2> QED BY <2>1, <2>2
<1>4. ASSUME NEW q \in Request, NEW u \in User, NEW a \in BOOLEAN, updateUser(q, u, a)
      PROVE  GainOf(v)
  <2>1. CASE v # u
    BY <1>a, <1>4, <2>1 DEF updateUser
  <2>2. CASE v = u
    <3>1. Granted(v)' = Granted(v) /\ Granted(v) \subseteq Authority(q)
      BY <1>4, <2>2 DEF updateUser, validateTargetUserAuthority, Granted
    <3> QED BY <1>4, <3>1, GainByRequest
       DEF updateUser, Passes, Close, validateTargetUserAuthority, Held
  <2> QED BY <2>1, <2>2
<1>5. ASSUME NEW q \in Request, NEW u \in User, NEW rs \in SUBSET roles,
             replaceUserRoles(q, u, rs)
      PROVE  GainOf(v)
  <2>1. CASE v # u
    BY <1>a, <1>5, <2>1 DEF replaceUserRoles
  <2>2. CASE v = u
    <3>1. Granted(v)' \subseteq Authority(q)
      BY <1>5, <2>2 DEF replaceUserRoles, validateDelegatedRoles, Granted
    <3> QED BY <1>5, <3>1, GainByRequest
       DEF replaceUserRoles, Passes, Close, validateDelegatedRoles, Held
  <2> QED BY <2>1, <2>2
<1>6. ASSUME NEW q \in Request, NEW u \in User, NEW b \in BOOLEAN, Provision(q, u, b)
      PROVE  GainOf(v)
  <2>1. CASE v # u
    BY <1>a, <1>6, <2>1 DEF Provision
  <2>2. CASE v = u
    BY <1>6, <2>2 DEF Provision, GainOf, Provisioned
  <2> QED BY <2>1, <2>2
<1>b. ASSUME NEW q \in Request, NEW r \in Role, NEW ps \in SUBSET Permission,
             req[q].kind \in {"session", "key"}, Active(req[q].by),
             assignRolePermissions(q, r, ps)
      PROVE  GainOf(v)
  <2>1. Held(v)' \subseteq Held(v) \cup Authority(q)
    BY <1>b DEF assignRolePermissions, Held, Active, Granted
  <2> QED BY <1>b, <2>1, GainByRequest DEF assignRolePermissions, Close
<1>7. ASSUME NEW q \in Request, NEW r \in Role, NEW ps \in SUBSET Permission,
             createRoleCompat(q, r, ps)
      PROVE  GainOf(v)
  BY <1>b, <1>7 DEF createRoleCompat, Passes
<1>8. ASSUME NEW q \in Request, NEW r \in Role, NEW ps \in SUBSET Permission,
             putRole(q, r, ps)
      PROVE  GainOf(v)
  BY <1>b, <1>8 DEF putRole, Passes, validateRoleMutationTarget
<1>9. ASSUME NEW q \in Request, NEW r \in Role, deleteRole(q, r)
      PROVE  GainOf(v)
  BY <1>0, <1>9 DEF deleteRole, Held, Active, Granted
<1>10. ASSUME NEW q \in Request, NEW r \in roles \cup {NoRole}, updateOIDCSettings(q, r)
       PROVE  GainOf(v)
  BY <1>a, <1>10 DEF updateOIDCSettings
<1>11. ASSUME NEW q \in Request, LoadSettings(q)
       PROVE  GainOf(v)
  BY <1>a, <1>11 DEF LoadSettings
<1>12. ASSUME NEW q \in Request, Refused(q)
       PROVE  GainOf(v)
  BY <1>a, <1>12 DEF Refused
<1>13. ASSUME NEW u \in User, Restart(u)
       PROVE  GainOf(v)
  <2>1. CASE v # u
    BY <1>a, <1>13, <2>1 DEF Restart
  <2>2. CASE v = u
    BY <1>13, <2>2 DEF Restart, GainOf, Bootstrapped, IsAdmin
  <2> QED BY <2>1, <2>2
<1> QED BY <1>1, <1>2, <1>3, <1>4, <1>5, <1>6, <1>7, <1>8, <1>9, <1>10, <1>11, <1>12, <1>13
   DEF Steps

\* No request gives anybody a permission its sender does not hold at that
\* moment, whatever the sender held when the request arrived.
THEOREM GainsWereHeld == Spec => GainsAreHeld
<1>1. TypeOK /\ [Next]_vars => [\A u \in User : GainOf(u)]_vars
  BY NextIsSteps, GainStep
<1> QED BY <1>1, DelegationTypes, PTL DEF Spec, GainsAreHeld, GainOf

-------------------------------------------------------------------------------
(***************************************************************************)
(* Administrators come from administrators                                 *)
(***************************************************************************)

ByAdministrator ==
    \E q \in Request : Answered(q) /\ req[q].kind = "session" /\ req[q].by \in ActiveAdmins

AdminOrigin(u) ==
    IsAdmin(u)' /\ ~IsAdmin(u) =>
        \/ ByAdministrator
        \/ Provisioned(u) /\ \E q \in Request : req[q].role = AdminRole
        \/ Bootstrapped(u)

DefaultOrigin == default' = AdminRole /\ default # AdminRole => ByAdministrator

\* validateDelegatedRoles lets the Administrator role through only for an
\* active administrator's session.
LEMMA DelegatedByAdmin ==
    ASSUME TypeOK, NEW q \in Request, NEW rs,
           validateDelegatedRoles(q, rs), AdminRole \in rs, req'[q] = Idle
    PROVE  ByAdministrator
<1>1. Active(req[q].by) /\ req[q].kind = "session" /\ IsAdmin(req[q].by)
  BY DEF validateDelegatedRoles, ActsAsAdmin
<1>2. req[q].by \in User
  BY <1>1 DEF TypeOK, RequestState, Idle
<1> QED BY <1>1, <1>2 DEF ByAdministrator, Answered, ActiveAdmins

LEMMA OriginStep == ASSUME TypeOK, Steps PROVE DefaultOrigin /\ \A v \in User : AdminOrigin(v)
<1> USE DEF TypeOK
<1> SUFFICES ASSUME NEW v \in User PROVE DefaultOrigin /\ AdminOrigin(v)
  BY DelegationAssumption
<1>0. default' = default => DefaultOrigin
  BY DEF DefaultOrigin
<1>a. member'[v] \subseteq member[v] => AdminOrigin(v)
  BY DEF AdminOrigin, IsAdmin
<1>1. ASSUME NEW q \in Request, NEW u \in User, NEW k \in {"session", "key"},
             NEW s \in SUBSET Permission, Authenticate(q, u, k, s)
      PROVE  DefaultOrigin /\ AdminOrigin(v)
  BY <1>0, <1>a, <1>1 DEF Authenticate
<1>2. ASSUME NEW q \in Request, NEW u \in User, NEW a \in BOOLEAN, NEW b \in BOOLEAN,
             NEW rs \in SUBSET roles, createUser(q, u, a, rs, b)
      PROVE  DefaultOrigin /\ AdminOrigin(v)
  BY <1>0, <1>a, <1>2, DelegatedByAdmin DEF createUser, Close, AdminOrigin, IsAdmin
<1>3. ASSUME NEW q \in Request, NEW u \in User, NEW a \in BOOLEAN, NEW b \in BOOLEAN,
             NEW rs \in SUBSET roles, putUser(q, u, a, rs, b)
      PROVE  DefaultOrigin /\ AdminOrigin(v)
  BY <1>0, <1>a, <1>3, DelegatedByAdmin DEF putUser, Close, AdminOrigin, IsAdmin
<1>4. ASSUME NEW q \in Request, NEW u \in User, NEW a \in BOOLEAN, updateUser(q, u, a)
      PROVE  DefaultOrigin /\ AdminOrigin(v)
  BY <1>0, <1>a, <1>4 DEF updateUser
<1>5. ASSUME NEW q \in Request, NEW u \in User, NEW rs \in SUBSET roles,
             replaceUserRoles(q, u, rs)
      PROVE  DefaultOrigin /\ AdminOrigin(v)
  BY <1>0, <1>a, <1>5, DelegatedByAdmin DEF replaceUserRoles, Close, AdminOrigin, IsAdmin
<1>6. ASSUME NEW q \in Request, NEW u \in User, NEW b \in BOOLEAN, Provision(q, u, b)
      PROVE  DefaultOrigin /\ AdminOrigin(v)
  <2>1. CASE v # u
    BY <1>0, <1>a, <1>6, <2>1 DEF Provision
  <2>2. CASE v = u
    BY <1>0, <1>6, <2>2 DEF Provision, AdminOrigin, IsAdmin, Provisioned
  <2> QED BY <2>1, <2>2
<1>7. ASSUME NEW q \in Request, NEW r \in Role, NEW ps \in SUBSET Permission,
             createRoleCompat(q, r, ps)
      PROVE  DefaultOrigin /\ AdminOrigin(v)
  BY <1>0, <1>a, <1>7 DEF createRoleCompat, assignRolePermissions
<1>8. ASSUME NEW q \in Request, NEW r \in Role, NEW ps \in SUBSET Permission,
             putRole(q, r, ps)
      PROVE  DefaultOrigin /\ AdminOrigin(v)
  BY <1>0, <1>a, <1>8 DEF putRole, assignRolePermissions
<1>9. ASSUME NEW q \in Request, NEW r \in Role, deleteRole(q, r)
      PROVE  DefaultOrigin /\ AdminOrigin(v)
  <2>1. DefaultOrigin
    BY <1>9, DelegationAssumption DEF deleteRole, DefaultOrigin
  <2> QED BY <1>a, <1>9, <2>1 DEF deleteRole
<1>10. ASSUME NEW q \in Request, NEW r \in roles \cup {NoRole}, updateOIDCSettings(q, r)
       PROVE  DefaultOrigin /\ AdminOrigin(v)
  <2>1. DefaultOrigin
    BY <1>10, DelegatedByAdmin, DelegationAssumption DEF updateOIDCSettings, Close, DefaultOrigin
  <2> QED BY <1>a, <1>10, <2>1 DEF updateOIDCSettings
<1>11. ASSUME NEW q \in Request, LoadSettings(q)
       PROVE  DefaultOrigin /\ AdminOrigin(v)
  BY <1>0, <1>a, <1>11 DEF LoadSettings
<1>12. ASSUME NEW q \in Request, Refused(q)
       PROVE  DefaultOrigin /\ AdminOrigin(v)
  BY <1>0, <1>a, <1>12 DEF Refused
<1>13. ASSUME NEW u \in User, Restart(u)
       PROVE  DefaultOrigin /\ AdminOrigin(v)
  <2>1. CASE v # u
    BY <1>0, <1>a, <1>13, <2>1 DEF Restart
  <2>2. CASE v = u
    BY <1>0, <1>13, <2>2 DEF Restart, AdminOrigin, Bootstrapped
  <2> QED BY <2>1, <2>2
<1> QED BY <1>1, <1>2, <1>3, <1>4, <1>5, <1>6, <1>7, <1>8, <1>9, <1>10, <1>11, <1>12, <1>13
   DEF Steps

\* Only an administrator's browser session, a sign-in that loaded the
\* Administrator role as default, or BootstrapAdmin makes an administrator.
THEOREM AdminsHaveOrigins == Spec => AdminsComeFromAdmins
<1>1. TypeOK /\ [Next]_vars => [DefaultOrigin /\ \A u \in User : AdminOrigin(u)]_vars
  BY NextIsSteps, OriginStep
<1>2. ASSUME DefaultOrigin, \A u \in User : AdminOrigin(u)
      PROVE  LET ByAdmin == \E q \in Request : /\ Answered(q)
                                               /\ req[q].kind = "session"
                                               /\ req[q].by \in ActiveAdmins IN
             /\ \A u \in User : IsAdmin(u)' /\ ~IsAdmin(u) =>
                   \/ ByAdmin
                   \/ Provisioned(u) /\ \E q \in Request : req[q].role = AdminRole
                   \/ Bootstrapped(u)
             /\ default' = AdminRole /\ default # AdminRole => ByAdmin
  BY <1>2 DEF DefaultOrigin, AdminOrigin, ByAdministrator
<1> QED BY <1>1, <1>2, DelegationTypes, PTL DEF Spec, AdminsComeFromAdmins

===============================================================================
