---------------------------- MODULE AccessProofs ----------------------------
(***************************************************************************)
(* For any number of users, organisations, tenants, accounts and           *)
(* administrative requests: grants stay inside their scope, the evaluators *)
(* of access agree, and an undisturbed GET /me settles the context.        *)
(*                                                                         *)
(* GrantsScoped needs only the types of the three tables it relates; every *)
(* action is one that leaves them alone, or one of the six that do not.    *)
(* The evaluators agree in every state where grants are scoped and the     *)
(* session's organisation is one.  That /me settles is a fact about the    *)
(* two repairs, for any defaults and session they start from; the          *)
(* invariant says no more than that those are well formed.                 *)
(***************************************************************************)
EXTENDS Access, FiniteSetTheorems, TLAPS

\* The types of the tables that a grant refers to.
ScopeTypes ==
  /\ tenant \in [Tenants -> Orgs \cup {NULL, "absent"}]
  /\ account \in [Accounts -> Tenants \cup {"absent", "deleted"}]
  /\ grants \subseteq Grant

\* The inductive invariant.
ScopeInv == ScopeTypes /\ GrantsScoped

scope == <<tenant, account, grants>>

\* At installation there are no grants.
LEMMA ScopeInit == Init => ScopeInv
<1> SUFFICES ASSUME Init PROVE ScopeInv
  OBVIOUS
<1> USE AccessAssumption
<1>1. PICK live \in SUBSET Orgs :
         /\ tenant = [t \in Tenants |-> IF TenantHome[t] \in live THEN TenantHome[t] ELSE "absent"]
         /\ account = [a \in Accounts |-> IF tenant[AccountHome[a]] \in live THEN AccountHome[a]
                                           ELSE "absent"]
         /\ grants = {}
  BY DEF Init
<1>2. tenant \in [Tenants -> Orgs \cup {NULL, "absent"}]
  BY <1>1
<1>3. account \in [Accounts -> Tenants \cup {"absent", "deleted"}]
  BY <1>1
<1> QED
  BY <1>1, <1>2, <1>3 DEF ScopeInv, ScopeTypes, GrantsScoped

\* A step that changes none of the three tables keeps the invariant.
LEMMA ScopeUnchanged == ScopeInv /\ UNCHANGED scope => ScopeInv'
  BY DEF ScopeInv, ScopeTypes, GrantsScoped, scope

\* create_grant compares the ids once, when the row is written.
LEMMA CreateGrantKeeps ==
  ASSUME ScopeInv,
         NEW p \in Actors, NEW u \in Users, NEW o \in Orgs, NEW t \in Tenants,
         NEW a \in Accounts \cup {NULL}, NEW l \in GivenLevels,
         create_grant(p, u, o, t, a, l)
  PROVE  ScopeInv'
<1> DEFINE row == [user |-> u, org |-> o, tenant |-> t, account |-> a, role |-> l]
<1>1. grants' = grants \cup {row} /\ UNCHANGED <<tenant, account>> /\ grantable(o, t, a)
  BY DEF create_grant
<1>2. row \in Grant
  BY AccessAssumption DEF Grant
<1>3. tenant[row.tenant] = row.org /\ (row.account # NULL => account[row.account] = row.tenant)
  BY <1>1, AccessAssumption DEF grantable
<1> QED
  BY <1>1, <1>2, <1>3 DEF ScopeInv, ScopeTypes, GrantsScoped

\* Deletion and a new level leave the ids of every row alone.
LEMMA ChangeGrantKeeps ==
  ASSUME ScopeInv, NEW p \in Actors, NEW g \in grants,
         delete_grant(p, g) \/ \E l \in GivenLevels : update_grant(p, g, l)
  PROVE  ScopeInv'
<1>1. CASE delete_grant(p, g)
  BY <1>1 DEF delete_grant, ScopeInv, ScopeTypes, GrantsScoped
<1>2. ASSUME NEW l \in GivenLevels, update_grant(p, g, l)
      PROVE  ScopeInv'
  <2> DEFINE row == [g EXCEPT !.role = l]
  <2>1. grants' = (grants \ {g}) \cup {row} /\ UNCHANGED <<tenant, account>>
    BY <1>2 DEF update_grant
  <2>2. row \in Grant /\ row.tenant = g.tenant /\ row.account = g.account /\ row.org = g.org
    BY AccessAssumption DEF ScopeInv, ScopeTypes, Grant
  <2> QED
    BY <2>1, <2>2 DEF ScopeInv, ScopeTypes, GrantsScoped
<1> QED
  BY <1>1, <1>2

\* A tenant or account that is created has no grants yet: they would name an organisation
\* or tenant of a row that does not exist.
LEMMA CreateScopeKeeps ==
  ASSUME ScopeInv, NEW p \in Actors, NEW t \in Tenants,
         \/ \E o \in Orgs : create_tenant(p, o, t)
         \/ \E a \in Accounts : create_cloud_account(p, t, a)
  PROVE  ScopeInv'
<1>1. ASSUME NEW o \in Orgs, create_tenant(p, o, t)
      PROVE  ScopeInv'
  <2>1. /\ tenant[t] = "absent" /\ tenant' = [tenant EXCEPT ![t] = o]
        /\ UNCHANGED <<account, grants>>
    BY <1>1 DEF create_tenant
  <2>2. \A g \in grants : g.org \in Orgs /\ g.tenant \in Tenants /\ g.tenant # t
    BY <2>1, AccessAssumption DEF ScopeInv, ScopeTypes, GrantsScoped, Grant
  <2> QED
    BY <2>1, <2>2 DEF ScopeInv, ScopeTypes, GrantsScoped
<1>2. ASSUME NEW a \in Accounts, create_cloud_account(p, t, a)
      PROVE  ScopeInv'
  <2>1. /\ account[a] = "absent" /\ account' = [account EXCEPT ![a] = t]
        /\ UNCHANGED <<tenant, grants>>
    BY <1>2 DEF create_cloud_account
  <2>2. \A g \in grants : g.account # NULL => g.account \in Accounts /\ g.account # a
    BY <2>1, AccessAssumption DEF ScopeInv, ScopeTypes, GrantsScoped, Grant
  <2> QED
    BY <2>1, <2>2 DEF ScopeInv, ScopeTypes, GrantsScoped
<1> QED
  BY <1>1, <1>2

\* The cascades of the schema take the grants with the account or the organisation.
LEMMA DeleteScopeKeeps ==
  ASSUME ScopeInv,
         \/ \E p \in Actors, a \in Accounts : delete_cloud_account(p, a)
         \/ \E o \in Orgs : delete_organization(o)
  PROVE  ScopeInv'
<1>1. ASSUME NEW p \in Actors, NEW a \in Accounts, delete_cloud_account(p, a)
      PROVE  ScopeInv'
  <2>1. /\ account' = [account EXCEPT ![a] = "deleted"] /\ UNCHANGED tenant
        /\ grants' = {g \in grants : g.account # a}
    BY <1>1 DEF delete_cloud_account
  <2>2. \A g \in grants : g.account # NULL => g.account \in Accounts
    BY DEF ScopeInv, ScopeTypes, Grant
  <2> QED
    BY <2>1, <2>2 DEF ScopeInv, ScopeTypes, GrantsScoped
<1>2. ASSUME NEW o \in Orgs, delete_organization(o)
      PROVE  ScopeInv'
  <2>1. /\ tenant' = [t \in Tenants |-> IF tenant[t] = o THEN NULL ELSE tenant[t]]
        /\ grants' = {g \in grants : g.org # o} /\ UNCHANGED account
    BY <1>2 DEF delete_organization
  <2>2. \A g \in grants : g.tenant \in Tenants
    BY DEF ScopeInv, ScopeTypes, Grant
  <2>3. tenant' \in [Tenants -> Orgs \cup {NULL, "absent"}]
    BY <2>1 DEF ScopeInv, ScopeTypes
  <2> QED
    BY <2>1, <2>2, <2>3 DEF ScopeInv, ScopeTypes, GrantsScoped
<1> QED
  BY <1>1, <1>2

\* Every step keeps the invariant.
LEMMA ScopeNext == ScopeInv /\ [Next]_vars => ScopeInv'
<1> SUFFICES ASSUME ScopeInv, [Next]_vars PROVE ScopeInv'
  OBVIOUS
<1>1. ASSUME NEW u \in Users, SignIn(u) \/ Context(u)
      PROVE  ScopeInv'
  <2>1. CASE SignIn(u)
    BY <2>1, ScopeUnchanged
       DEF SignIn, login_with_password, complete_temporary_password_login, oidc_login_callback,
           delete_session, TemporaryPasswordExpires, rules, scope
  <2>2. CASE Context(u)
    <3>1. UNCHANGED scope
      BY <2>2 DEF Context, get_me, build_me_read, patch_user_context_defaults,
                  set_current_organization, rules, scope
    <3> QED
      BY <3>1, ScopeUnchanged
  <2> QED
    BY <1>1, <2>1, <2>2
<1>2. ASSUME NEW p \in Actors, Administration(p)
      PROVE  ScopeInv'
  <2>1. CASE \E u \in Users, o \in Orgs : \/ \E r \in GivenRoles : add_member(p, u, o, r)
                                          \/ \E r \in GivenRoles : update_member(p, u, o, r)
                                          \/ remove_member(p, u, o)
    BY <2>1, ScopeUnchanged DEF add_member, update_member, remove_member, scope
  <2>2. CASE \E u \in Users, o \in Orgs, t \in Tenants, a \in Accounts \cup {NULL}, l \in GivenLevels :
               create_grant(p, u, o, t, a, l)
    BY <2>2, CreateGrantKeeps
  <2>3. CASE \E g \in grants : delete_grant(p, g) \/ \E l \in GivenLevels : update_grant(p, g, l)
    BY <2>3, ChangeGrantKeeps
  <2>4. CASE \E t \in Tenants : \/ \E o \in Orgs : create_tenant(p, o, t)
                                \/ \E a \in Accounts : create_cloud_account(p, t, a)
    BY <2>4, CreateScopeKeeps
  <2>5. CASE \E a \in Accounts : delete_cloud_account(p, a)
    BY <2>5, DeleteScopeKeeps
  <2> QED
    BY <1>2, <2>1, <2>2, <2>3, <2>4, <2>5 DEF Administration
<1>3. CASE Platform
  <2>1. CASE \E o \in Orgs : delete_organization(o)
    BY <2>1, DeleteScopeKeeps
  <2>2. CASE ~ \E o \in Orgs : delete_organization(o)
    BY <1>3, <2>2, ScopeUnchanged
       DEF Platform, create_organization, patch_root_organization_status,
           patch_root_user_status, root_create_org_user, scope
  <2> QED
    BY <2>1, <2>2
<1>4. CASE UNCHANGED vars
  BY <1>4, ScopeUnchanged DEF vars, scope
<1> QED
  BY <1>1, <1>2, <1>3, <1>4 DEF Next

\* Every grant is for a tenant of its organisation and an account of that tenant
\* (create_grant, with the cascades of the schema), in every installation.
THEOREM GrantsStayScoped == Spec => []GrantsScoped
<1>1. Spec => []ScopeInv
  BY ScopeInit, ScopeNext, PTL DEF Spec
<1>2. ScopeInv => GrantsScoped
  BY DEF ScopeInv
<1> QED
  BY <1>1, <1>2, PTL

-----------------------------------------------------------------------------
(* the evaluators agree *)

\* The organisation of a session is one that exists in the model.
SessionTypes == sess \in [Users -> Orgs \cup {NULL, "out"}]

AgreeInv == ScopeInv /\ SessionTypes

LEMMA FirstIs == ASSUME NEW S, S # {} PROVE First(S) \in S
  BY DEF First

LEMMA OneIsSome == ASSUME NEW S, Cardinality(S) = 1 PROVE S # {}
  BY FS_EmptySet

\* What /me and the sign-in choose for a session is an organisation or nothing.
LEMMA Chosen ==
  ASSUME NEW u \in Users, NEW d, NEW cur
  PROVE  /\ ensure_session_organization_valid(u, d, cur) \in Orgs \cup {NULL}
         /\ pick_initial_session_organization_id(u, d) \in Orgs \cup {NULL}
<1> DEFINE acc == accessible_org_ids(u)
<1>1. acc \subseteq Orgs
  BY DEF accessible_org_ids
<1>2. acc # {} => First(acc) \in acc
  BY FirstIs
<1>3. Cardinality(acc) = 1 => acc # {}
  BY OneIsSome
<1> HIDE DEF acc
<1>4. ensure_session_organization_valid(u, d, cur) =
        IF acc = {} THEN NULL ELSE IF cur \in acc THEN cur ELSE IF d.org \in acc THEN d.org ELSE First(acc)
  BY DEF ensure_session_organization_valid, acc
<1>5. pick_initial_session_organization_id(u, d) =
        IF d.org \in acc THEN d.org ELSE IF Cardinality(acc) = 1 THEN First(acc) ELSE NULL
  BY DEF pick_initial_session_organization_id, acc
<1> QED
  BY <1>1, <1>2, <1>3, <1>4, <1>5

LEMMA SessionNext == ASSUME SessionTypes, [Next]_vars PROVE SessionTypes'
<1>0. sess \in [Users -> Orgs \cup {NULL, "out"}]
  BY DEF SessionTypes
<1>1. ASSUME NEW u \in Users, NEW s \in Orgs \cup {NULL, "out"}, sess' = [sess EXCEPT ![u] = s]
      PROVE  SessionTypes'
  BY <1>0, <1>1 DEF SessionTypes
<1>2. ASSUME UNCHANGED sess PROVE SessionTypes'
  BY <1>0, <1>2 DEF SessionTypes
<1>3. ASSUME NEW u \in Users, SignIn(u) PROVE SessionTypes'
  <2>1. CASE create_session(u)
    BY <1>1, <2>1, Chosen DEF create_session
  <2>2. CASE delete_session(u)
    BY <1>1, <2>2 DEF delete_session
  <2>3. CASE UNCHANGED sess
    BY <1>2, <2>3
  <2>4. create_session(u) \/ delete_session(u) \/ UNCHANGED sess
    BY <1>3 DEF SignIn, login_with_password, complete_temporary_password_login, oidc_login_callback,
                TemporaryPasswordExpires
  <2> QED
    BY <2>1, <2>2, <2>3, <2>4
<1>4. ASSUME NEW u \in Users, Context(u) PROVE SessionTypes'
  <2>1. ASSUME NEW d, NEW cur, repaired(u, d, cur) PROVE SessionTypes'
    BY <1>1, <2>1, Chosen DEF repaired
  <2>2. CASE get_me(u)
    BY <1>2, <2>2 DEF get_me
  <2>3. CASE build_me_read(u)
    <3>1. \/ UNCHANGED sess
          \/ sess' = [sess EXCEPT ![u] = ensure_session_organization_valid(u, req[u].dflt, req[u].cur)]
      BY <2>3 DEF build_me_read
    <3> QED
      BY <1>1, <1>2, <3>1, Chosen
  <2>4. CASE patch_user_context_defaults(u)
    BY <2>1, <2>4 DEF patch_user_context_defaults
  <2>5. ASSUME NEW o \in Orgs, set_current_organization(u, o) PROVE SessionTypes'
    BY <2>1, <2>5 DEF set_current_organization
  <2> QED
    BY <1>4, <2>2, <2>3, <2>4, <2>5 DEF Context
<1>5. ASSUME NEW p \in Actors, Administration(p) PROVE SessionTypes'
  BY <1>2, <1>5 DEF Administration, add_member, update_member, remove_member, create_grant, update_grant,
                    delete_grant, create_tenant, create_cloud_account, delete_cloud_account
<1>6. CASE Platform
  <2>1. ASSUME NEW o \in Orgs, delete_organization(o) PROVE SessionTypes'
    BY <1>0, <2>1 DEF delete_organization, SessionTypes
  <2>2. CASE ~ \E o \in Orgs : delete_organization(o)
    BY <1>2, <1>6, <2>2 DEF Platform, create_organization, patch_root_organization_status,
                            patch_root_user_status, root_create_org_user
  <2> QED
    BY <2>1, <2>2
<1>7. CASE UNCHANGED vars
  BY <1>2, <1>7 DEF vars
<1> QED
  BY <1>3, <1>4, <1>5, <1>6, <1>7 DEF Next

Levels == {"none", "viewer", "approver", "admin"}

LEMMA RankIs == /\ access_rank("none") = 0 /\ access_rank("viewer") = 1
                /\ access_rank("approver") = 2 /\ access_rank("admin") = 3
<1>1. \A l : l = "none" => access_rank(l) = 0
  BY DEF access_rank
<1>2. \A l : l = "viewer" => access_rank(l) = 1
  BY DEF access_rank
<1>3. \A l : l = "approver" => access_rank(l) = 2
  BY DEF access_rank
<1>4. \A l : l = "admin" => access_rank(l) = 3
  BY DEF access_rank
<1> QED
  BY <1>1, <1>2, <1>3, <1>4

LEMMA MaxLevel ==
  ASSUME NEW L \in SUBSET Levels, L # {}
  PROVE  /\ max_access_level(L) \in L
         /\ \A m \in L : access_rank(m) <= access_rank(max_access_level(L))
<1> USE RankIs DEF Levels
<1>1. \E l \in L : \A m \in L : access_rank(m) <= access_rank(l)
  <2>1. CASE "admin" \in L
    BY <2>1
  <2>2. CASE "admin" \notin L /\ "approver" \in L
    BY <2>2
  <2>3. CASE "admin" \notin L /\ "approver" \notin L /\ "viewer" \in L
    BY <2>3
  <2>4. CASE "admin" \notin L /\ "approver" \notin L /\ "viewer" \notin L
    <3>1. L = {"none"}
      BY <2>4
    <3> QED
      BY <3>1
  <2> QED
    BY <2>1, <2>2, <2>3, <2>4
<1> QED
  BY <1>1 DEF max_access_level

\* The best of a user's rows for an account is none without rows for it, and else the
\* level of one of them.
LEMMA BestRole ==
  ASSUME NEW rows \in SUBSET Grant, NEW a \in Accounts
  PROVE  LET best == best_role_from_grant_rows(rows, a) IN
         /\ best # "none" <=> \E g \in rows : g.account = a \/ g.account = NULL
         /\ best # "none" => \E g \in rows : g.role = best
         /\ best \in Levels
<1> DEFINE acct == {g \in rows : g.account = a}
           wide == {g \in rows : g.account = NULL}
           chosen == IF acct # {} THEN acct ELSE wide
           L == {"none"} \cup {g.role : g \in chosen}
           best == max_access_level(L)
<1>1. best_role_from_grant_rows(rows, a) = best
  BY DEF best_role_from_grant_rows
<1>2. chosen \subseteq rows /\ (chosen # {} <=> \E g \in rows : g.account = a \/ g.account = NULL)
  OBVIOUS
<1>3. \A g \in rows : g.role \in {"viewer", "approver", "admin"}
  BY DEF Grant, AccessLevels
<1> HIDE DEF chosen
<1>4. L \in SUBSET Levels /\ "none" \in L /\ \A l \in L : l # "none" => \E g \in chosen : g.role = l
  BY <1>2, <1>3 DEF Levels
<1>5. \A g \in chosen : g.role \in L /\ g.role # "none" /\ access_rank(g.role) >= 1
  BY <1>2, <1>3, RankIs
<1> HIDE DEF L
<1>6. best \in L /\ \A m \in L : access_rank(m) <= access_rank(best)
  BY <1>4, MaxLevel
<1> HIDE DEF best
<1>7. chosen # {} => best # "none"
  <2> SUFFICES ASSUME NEW g \in chosen, best = "none" PROVE FALSE
    OBVIOUS
  <2>1. access_rank(g.role) <= access_rank("none") /\ access_rank(g.role) >= 1
    BY <1>5, <1>6
  <2>2. access_rank(g.role) \in {1, 2, 3}
    BY <1>2, <1>3, RankIs
  <2> QED
    BY <2>1, <2>2, RankIs
<1>8. best # "none" => \E g \in chosen : g.role = best
  BY <1>4, <1>6
<1> QED
  BY <1>1, <1>2, <1>4, <1>6, <1>7, <1>8

\* The organisation and role of a principal.
LEMMA ContextIs ==
  ASSUME NEW u \in Users, NEW cur \in Orgs \cup {NULL}
  PROVE  LET c == UserContext(u, cur) IN
         /\ c.user = u /\ c.root = user[u].root
         /\ c.org # NULL => c.org \in Orgs
         /\ c.org # NULL /\ member[u][c.org] # "none" => c.role = member[u][c.org]
<1> DEFINE mine == {o \in Orgs : member[u][o] # "none"}
           o == IF cur = NULL /\ Cardinality(mine) = 1 THEN First(mine) ELSE cur
           e == resolve_effective_org_role(u, cur)
<1>1. mine \subseteq Orgs /\ (Cardinality(mine) = 1 => First(mine) \in mine)
  <2>1. Cardinality(mine) = 1 => mine # {}
    BY OneIsSome
  <2> QED
    BY <2>1, FirstIs
<1> HIDE DEF mine
<1>2. o # NULL => o \in Orgs
  BY <1>1
<1> HIDE DEF o
<1>3. \/ e.org = NULL
      \/ e.org = o /\ o # NULL /\ (member[u][o] # "none" => e.role = member[u][o])
  BY DEF resolve_effective_org_role, o, mine
<1> HIDE DEF e
<1>4. UserContext(u, cur) = [user |-> u, role |-> e.role, org |-> e.org, root |-> user[u].root]
  BY DEF UserContext, e
<1> QED
  BY <1>2, <1>3, <1>4

LEMMA Agree == ASSUME AgreeInv PROVE EvaluatorsAgree
<1>1. SUFFICES ASSUME NEW u \in Users, signed_in(u), UserContext(u, sess[u]).org # NULL
               PROVE  LET c == UserContext(u, sess[u])
                      IN  TenantAgrees(c, c.org) /\ AssigneeAgrees(c, c.org) /\ QueueAgrees(c, c.org)
  BY DEF EvaluatorsAgree
<1> DEFINE c == UserContext(u, sess[u])
           o == c.org
<1>2. sess[u] \in Orgs \cup {NULL}
  BY <1>1 DEF AgreeInv, SessionTypes, signed_in
<1>3. c.user = u /\ o \in Orgs /\ (member[u][o] # "none" => c.role = member[u][o])
  BY <1>1, <1>2, ContextIs
<1> HIDE DEF c
<1>4. /\ grants \subseteq Grant /\ NULL \notin Accounts
      /\ \A g \in grants : g.account # NULL => g.account \in Accounts /\ account[g.account] = g.tenant
  BY AccessAssumption DEF AgreeInv, ScopeInv, ScopeTypes, GrantsScoped, Grant
<1>5. ASSUME NEW t \in Tenants, tenant[t] = o
      PROVE  /\ grants_for_tenant(u, o, t) \in SUBSET Grant
             /\ \A g \in grants_for_tenant(u, o, t) :
                  g \in grants /\ g.user = u /\ g.org = o /\ g.tenant = t
  BY <1>4 DEF grants_for_tenant
<1>6. ASSUME NEW t \in Tenants, tenant[t] = o, NEW a \in Accounts
      PROVE  resolve_effective_access(c, t, a) =
               IF c.root \/ membership_implies_org_wide_admin(c.role) THEN "admin"
               ELSE IF ~has_any_grant_in_org(u, o) THEN legacy_flat_operational_role(c.role)
               ELSE best_role_from_grant_rows(grants_for_tenant(u, o, t), a)
  BY <1>3, <1>6 DEF resolve_effective_access
<1>7. TenantAgrees(c, o)
  <2> SUFFICES ASSUME NEW t \in Tenants, tenant[t] = o, NEW b \in Accounts, account[b] = t
               PROVE  tenant_has_any_account_access(c, t) <=> visible_accounts(c, t) # {}
    BY DEF TenantAgrees
  <2> DEFINE rows == grants_for_tenant(u, o, t)
  <2>1. tenant_has_any_account_access(c, t) <=>
          \/ c.root
          \/ membership_implies_org_wide_admin(c.role)
          \/ ~has_any_grant_in_org(u, o) /\ legacy_flat_operational_role(c.role) # "none"
          \/ \E g \in rows : g.account \in Accounts => account[g.account] = t
    BY <1>3 DEF tenant_has_any_account_access
  <2>2. rows \in SUBSET Grant /\ \A g \in rows : g \in grants /\ g.user = u /\ g.org = o /\ g.tenant = t
    BY <1>5
  <2>3. rows # {} => has_any_grant_in_org(u, o)
    BY <2>2 DEF has_any_grant_in_org
  <2>4. \A a \in Accounts : best_role_from_grant_rows(rows, a) # "none" <=>
                              \E g \in rows : g.account = a \/ g.account = NULL
    BY <2>2, BestRole
  <2> HIDE DEF rows
  <2>5. \A a \in Accounts :
          a \in visible_accounts(c, t) <=>
            /\ account[a] = t
            /\ \/ c.root
               \/ membership_implies_org_wide_admin(c.role)
               \/ ~has_any_grant_in_org(u, o) /\ legacy_flat_operational_role(c.role) # "none"
               \/ has_any_grant_in_org(u, o) /\ best_role_from_grant_rows(rows, a) # "none"
    <3>1. SUFFICES ASSUME NEW a \in Accounts
          PROVE  resolve_effective_access(c, t, a) # "none" <=>
                   \/ c.root
                   \/ membership_implies_org_wide_admin(c.role)
                   \/ ~has_any_grant_in_org(u, o) /\ legacy_flat_operational_role(c.role) # "none"
                   \/ has_any_grant_in_org(u, o) /\ best_role_from_grant_rows(rows, a) # "none"
      BY DEF visible_accounts
    <3>2. legacy_flat_operational_role(c.role) = "admin" \/ ~membership_implies_org_wide_admin(c.role)
      BY DEF legacy_flat_operational_role
    <3> QED
      BY <1>6, <3>2 DEF rows
  <2>6. visible_accounts(c, t) \subseteq Accounts
    BY DEF visible_accounts
  <2>7. ASSUME tenant_has_any_account_access(c, t) PROVE visible_accounts(c, t) # {}
    <3>1. CASE \/ c.root
               \/ membership_implies_org_wide_admin(c.role)
               \/ ~has_any_grant_in_org(u, o) /\ legacy_flat_operational_role(c.role) # "none"
      <4>1. b \in visible_accounts(c, t)
        BY <2>5, <3>1
      <4> QED
        BY <4>1
    <3>2. ASSUME NEW g \in rows PROVE visible_accounts(c, t) # {}
      <4>1. has_any_grant_in_org(u, o)
        BY <2>3, <3>2
      <4>2. CASE g.account = NULL
        <5>1. b \in visible_accounts(c, t)
          BY <2>4, <2>5, <4>1, <4>2
        <5> QED
          BY <5>1
      <4>3. CASE g.account # NULL
        <5>1. g.account \in Accounts /\ account[g.account] = t
          BY <1>4, <2>2, <4>3
        <5>2. g.account \in visible_accounts(c, t)
          BY <2>4, <2>5, <4>1, <5>1
        <5> QED
          BY <5>2
      <4> QED
        BY <4>2, <4>3
    <3> QED
      BY <2>1, <2>7, <3>1, <3>2
  <2>8. ASSUME NEW a \in visible_accounts(c, t) PROVE tenant_has_any_account_access(c, t)
    <3>1. a \in Accounts /\ account[a] = t
      BY <2>5, <2>6
    <3>2. CASE has_any_grant_in_org(u, o) /\ best_role_from_grant_rows(rows, a) # "none"
      <4>1. PICK g \in rows : g.account = a \/ g.account = NULL
        BY <2>4, <3>1, <3>2
      <4> QED
        BY <1>4, <2>1, <3>1, <4>1
    <3> QED
      BY <2>1, <2>5, <3>1, <3>2
  <2> QED
    BY <2>7, <2>8
<1>8. AssigneeAgrees(c, o)
  <2> SUFFICES ASSUME member[u][o] # "none", NEW t \in Tenants, NEW a \in Accounts, tenant[t] = o, account[a] = t
               PROVE  resolve_effective_access_for_user(u, o, t, a, member[u][o], c.root)
                        = resolve_effective_access(c, t, a)
    BY <1>3 DEF AssigneeAgrees
  <2> QED
    BY <1>3, <1>6 DEF resolve_effective_access_for_user
<1>9. QueueAgrees(c, o)
  <2> SUFFICES ASSUME c.role # "admin", NEW t \in Tenants, NEW a \in Accounts, tenant[t] = o, account[a] = t
               PROVE  /\ user_can_approve_assignment(c, t, a) => user_may_list_org_approval_requests(c, o)
                      /\ can_submit_multi_approval_for_context(c, t, a) =>
                           user_may_admin_view_approval_requests(c, o)
    BY DEF QueueAgrees
  <2> DEFINE rows == grants_for_tenant(u, o, t)
             best == best_role_from_grant_rows(rows, a)
             level == resolve_effective_access(c, t, a)
  <2>1. membership_implies_org_wide_admin(c.role) => org_membership_role_label(c.role) \in {"org_admin", "root_admin"}
    BY DEF membership_implies_org_wide_admin, org_membership_role_label
  <2>2. /\ \A g \in rows : g \in grants /\ g.user = u /\ g.org = o
        /\ best # "none" => \E g \in rows : g.role = best
        /\ best \in Levels
    BY <1>5, BestRole
  <2>3. /\ best \in {"approver", "admin"} => has_grant_in_org(u, o, {"approver", "admin"})
        /\ best = "admin" => has_grant_in_org(u, o, {"admin"})
    BY <2>2 DEF has_grant_in_org
  <2>4. legacy_flat_operational_role(c.role) \in Levels
    BY DEF legacy_flat_operational_role, Levels
  <2>5. \A l \in Levels : /\ access_rank(l) >= access_rank("approver") <=> l \in {"approver", "admin"}
                          /\ access_rank(l) >= access_rank("admin") <=> l = "admin"
    BY RankIs DEF Levels
  <2> HIDE DEF rows, best
  <2>6. level = IF c.root \/ membership_implies_org_wide_admin(c.role) THEN "admin"
                ELSE IF ~has_any_grant_in_org(u, o) THEN legacy_flat_operational_role(c.role) ELSE best
    BY <1>6 DEF rows, best
  <2>7. level \in Levels
    BY <2>2, <2>4, <2>6 DEF Levels
  <2> HIDE DEF level
  <2>8. user_can_approve_assignment(c, t, a) => user_may_list_org_approval_requests(c, o)
    <3>1. user_can_approve_assignment(c, t, a) => level \in {"approver", "admin"}
      BY <2>5, <2>7 DEF user_can_approve_assignment, level
    <3> QED
      BY <1>3, <2>1, <2>3, <2>6, <3>1 DEF user_may_list_org_approval_requests
  <2>9. can_submit_multi_approval_for_context(c, t, a) => user_may_admin_view_approval_requests(c, o)
    <3>1. can_submit_multi_approval_for_context(c, t, a) =>
            c.root \/ membership_implies_org_wide_admin(c.role) \/ level = "admin"
      BY <2>5, <2>7 DEF can_submit_multi_approval_for_context, level
    <3> QED
      BY <1>3, <2>1, <2>3, <2>6, <3>1 DEF user_may_admin_view_approval_requests
  <2> QED
    BY <2>8, <2>9
<1> QED
  BY <1>7, <1>8, <1>9 DEF c

\* The evaluators of access_resolution_service give one user one answer in the
\* organisation of the session, whatever rows the administrators leave, in every
\* installation: they agree in every state in which grants are scoped.
THEOREM AccessIsOneAnswer == Spec => []EvaluatorsAgree
<1>1. Init => AgreeInv
  <2>1. Init => SessionTypes
    BY DEF Init, SessionTypes
  <2> QED
    BY <2>1, ScopeInit DEF AgreeInv
<1>2. AgreeInv /\ [Next]_vars => AgreeInv'
  BY ScopeNext, SessionNext DEF AgreeInv
<1>3. AgreeInv => EvaluatorsAgree
  BY Agree
<1> QED
  BY <1>1, <1>2, <1>3, PTL DEF Spec

-----------------------------------------------------------------------------
(* GET /me *)

\* The defaults are records, and a request was signed in when it read the session.
MeInv ==
  /\ dflt \in [Users -> Default]
  /\ sess \in [Users -> Orgs \cup {NULL, "out"}]
  /\ DOMAIN req = Users
  /\ \A u \in Users : req[u] # NULL => req[u].dflt \in Default /\ req[u].cur # "out"

\* A context with the defaults d and the organisation s of the session, settled.
SettledAt(u, d, s) ==
  LET acc == accessible_org_ids(u)
      c == UserContext(u, d.org)
  IN IF acc = {} THEN d = NoDefault /\ s = NULL
     ELSE /\ s \in acc /\ d.org \in acc
          /\ IF accessible_tenants(c, d.org) = {} THEN d.ten = NULL /\ d.acc = NULL
             ELSE /\ d.ten \in accessible_tenants(c, d.org)
                  /\ IF visible_accounts(c, d.ten) = {} THEN d.acc = NULL
                     ELSE d.acc \in visible_accounts(c, d.ten)

\* Whatever defaults and session the repairs start from, they end in a settled context.
LEMMA RepairSettles ==
  ASSUME NEW u \in Users, NEW d \in Default, NEW cur
  PROVE  LET s == ensure_session_organization_valid(u, d, cur)
             r == reconcile_user_context_defaults(u, d, s)
         IN  SettledAt(u, r, s) /\ r \in Default
<1> DEFINE acc == accessible_org_ids(u)
           s == ensure_session_organization_valid(u, d, cur)
           here == resolve_effective_org_role(u, s).org
           o == IF d.org \in acc THEN d.org ELSE IF here \in acc THEN here ELSE First(acc)
           kept == IF o = d.org THEN d ELSE NoDefault
           c == UserContext(u, o)
           ts == accessible_tenants(c, o)
           t == IF kept.ten \in ts THEN kept.ten ELSE First(ts)
           as == visible_accounts(c, t)
           a == IF t = kept.ten /\ kept.acc \in as THEN kept.acc
                ELSE IF as # {} THEN First(as) ELSE NULL
           r == reconcile_user_context_defaults(u, d, s)
<1>1. acc \subseteq Orgs /\ ts \subseteq Tenants /\ as \subseteq Accounts
  BY DEF accessible_org_ids, accessible_tenants, visible_accounts
<1>2. /\ acc # {} => First(acc) \in acc
      /\ ts # {} => First(ts) \in ts
      /\ as # {} => First(as) \in as
  BY FirstIs
<1>3. s = IF acc = {} THEN NULL
          ELSE IF cur \in acc THEN cur ELSE IF d.org \in acc THEN d.org ELSE First(acc)
  BY DEF ensure_session_organization_valid
<1>4. r = IF acc = {} THEN NoDefault
          ELSE IF ts = {} THEN [NoDefault EXCEPT !.org = o]
          ELSE [org |-> o, ten |-> t, acc |-> a]
  BY DEF reconcile_user_context_defaults
<1> HIDE DEF acc, s, here, r
<1>5. acc # {} => s \in acc /\ o \in acc
  BY <1>2, <1>3
<1> HIDE DEF o, ts
<1>6. ts # {} => t \in ts
  BY <1>2
<1> HIDE DEF t, as
<1>7. IF as = {} THEN a = NULL ELSE a \in as
  BY <1>2
<1> HIDE DEF a
<1>8. CASE acc = {}
  <2>1. r = NoDefault /\ s = NULL
    BY <1>3, <1>4, <1>8
  <2> QED
    BY <1>8, <2>1 DEF SettledAt, acc, Default, NoDefault, s, r
<1>9. CASE acc # {} /\ ts = {}
  <2>1. r = [org |-> o, ten |-> NULL, acc |-> NULL]
    BY <1>4, <1>9 DEF NoDefault
  <2>2. r.org = o /\ r.ten = NULL /\ r.acc = NULL /\ r \in Default
    BY <1>1, <1>5, <1>9, <2>1 DEF Default
  <2>3. accessible_tenants(UserContext(u, r.org), r.org) = {}
    BY <1>9, <2>2 DEF ts
  <2>4. SettledAt(u, r, s)
    BY <1>5, <1>9, <2>2, <2>3 DEF SettledAt, acc
  <2> QED
    BY <2>2, <2>4 DEF s, r
<1>10. CASE acc # {} /\ ts # {}
  <2>1. r = [org |-> o, ten |-> t, acc |-> a]
    BY <1>4, <1>10
  <2>2. r.org = o /\ r.ten = t /\ r.acc = a /\ r \in Default
    BY <1>1, <1>5, <1>6, <1>7, <1>10, <2>1 DEF Default
  <2>3. accessible_tenants(UserContext(u, r.org), r.org) = ts /\ visible_accounts(UserContext(u, r.org), r.ten) = as
    BY <2>2 DEF ts, as
  <2>4. SettledAt(u, r, s)
    BY <1>5, <1>6, <1>7, <1>10, <2>2, <2>3 DEF SettledAt, acc
  <2> QED
    BY <2>2, <2>4 DEF s, r
<1> QED
  BY <1>8, <1>9, <1>10

LEMMA FlushIs ==
  ASSUME NEW old \in Default, NEW new \in Default, NEW row \in Default
  PROVE  flush(old, new, row) \in Default /\ flush(old, new, old) = new
<1>1. DOMAIN row = {"org", "ten", "acc"} /\ DOMAIN old = {"org", "ten", "acc"} /\ DOMAIN new = {"org", "ten", "acc"}
  BY DEF Default
<1>2. flush(old, new, row) = [org |-> IF new.org # old.org THEN new.org ELSE row.org,
                              ten |-> IF new.ten # old.ten THEN new.ten ELSE row.ten,
                              acc |-> IF new.acc # old.acc THEN new.acc ELSE row.acc]
  BY <1>1 DEF flush
<1>3. flush(old, new, old) = new
  BY <1>1 DEF flush, Default
<1> QED
  BY <1>2, <1>3 DEF Default

\* Every row that a PATCH may store has the columns of a user.
LEMMA PatchTypes ==
  ASSUME NEW u \in Users, NEW d \in Default
  PROVE  apply_context_defaults_patch(u, d) \subseteq Default
<1> DEFINE acc == accessible_org_ids(u)
           orgs == {d} \cup {NoDefault} \cup {[d EXCEPT !.org = o] : o \in acc}
           c(r) == UserContext(u, r.org)
           moved(r, t) ==
             [r EXCEPT !.ten = t, !.acc = IF @ \in visible_accounts(c(r), t) THEN @ ELSE NULL]
           tens == orgs \cup {[r EXCEPT !.ten = NULL, !.acc = NULL] : r \in orgs}
                        \cup UNION {{moved(r, t) : t \in accessible_tenants(c(r), r.org)} :
                                       r \in {x \in orgs : x.org \in acc}}
           last == tens \cup {[r EXCEPT !.acc = NULL] : r \in tens}
                        \cup UNION {{[r EXCEPT !.acc = a] : a \in visible_accounts(c(r), r.ten)} :
                                       r \in {x \in tens : x.org \in acc /\ x.ten # NULL}}
<1>1. apply_context_defaults_patch(u, d) = last
  BY DEF apply_context_defaults_patch
<1>2. acc \subseteq Orgs
  BY DEF accessible_org_ids
<1>3. ASSUME NEW r \in Default
      PROVE  /\ \A o \in Orgs : [r EXCEPT !.org = o] \in Default
             /\ [r EXCEPT !.ten = NULL, !.acc = NULL] \in Default
             /\ [r EXCEPT !.acc = NULL] \in Default
             /\ \A a \in Accounts : [r EXCEPT !.acc = a] \in Default
             /\ \A t \in Tenants : moved(r, t) \in Default
  BY DEF Default
<1>4. \A x, t : accessible_tenants(x, t) \subseteq Tenants /\ visible_accounts(x, t) \subseteq Accounts
  BY DEF accessible_tenants, visible_accounts
<1>5. NoDefault \in Default
  BY DEF Default, NoDefault
<1> HIDE DEF acc, moved, c
<1>6. ASSUME NEW x \in orgs PROVE x \in Default
  <2>1. CASE x \in {d} \cup {NoDefault}
    BY <1>5, <2>1
  <2>2. CASE x \in {[d EXCEPT !.org = o] : o \in acc}
    BY <1>2, <1>3, <2>2
  <2> QED
    BY <1>6, <2>1, <2>2
<1> HIDE DEF orgs
<1>7. ASSUME NEW x \in tens PROVE x \in Default
  <2>1. CASE x \in {[r EXCEPT !.ten = NULL, !.acc = NULL] : r \in orgs}
    BY <1>3, <1>6, <2>1
  <2>2. CASE x \in UNION {{moved(r, t) : t \in accessible_tenants(c(r), r.org)} : r \in {y \in orgs : y.org \in acc}}
    <3>1. PICK r \in orgs : \E t \in accessible_tenants(c(r), r.org) : x = moved(r, t)
      BY <2>2
    <3> QED
      BY <1>3, <1>4, <1>6, <3>1
  <2> QED
    BY <1>6, <1>7, <2>1, <2>2
<1> HIDE DEF tens
<1>8. ASSUME NEW x \in last PROVE x \in Default
  <2>1. CASE x \in {[r EXCEPT !.acc = NULL] : r \in tens}
    BY <1>3, <1>7, <2>1
  <2>2. CASE x \in UNION {{[r EXCEPT !.acc = a] : a \in visible_accounts(c(r), r.ten)} :
                            r \in {y \in tens : y.org \in acc /\ y.ten # NULL}}
    <3>1. PICK r \in tens : \E a \in visible_accounts(c(r), r.ten) : x = [r EXCEPT !.acc = a]
      BY <2>2
    <3> QED
      BY <1>3, <1>4, <1>7, <3>1
  <2> QED
    BY <1>7, <1>8, <2>1, <2>2
<1> QED
  BY <1>1, <1>8

LEMMA MeInit == Init => MeInv
<1> SUFFICES ASSUME Init PROVE MeInv
  OBVIOUS
<1>1. /\ dflt = [u \in Users |-> NoDefault] /\ sess = [u \in Users |-> "out"]
      /\ req = [u \in Users |-> NULL]
  BY DEF Init
<1>2. NoDefault \in Default
  BY DEF NoDefault, Default
<1> QED
  BY <1>1, <1>2 DEF MeInv

LEMMA MeNext == ASSUME MeInv, [Next]_vars PROVE MeInv'
<1>0. /\ dflt \in [Users -> Default] /\ sess \in [Users -> Orgs \cup {NULL, "out"}]
      /\ DOMAIN req = Users /\ \A u \in Users : req[u] # NULL => req[u].dflt \in Default /\ req[u].cur # "out"
  BY DEF MeInv
<1>1. sess' \in [Users -> Orgs \cup {NULL, "out"}]
  BY <1>0, SessionNext DEF SessionTypes
<1>2. ASSUME dflt' \in [Users -> Default], UNCHANGED req PROVE MeInv'
  BY <1>0, <1>1, <1>2 DEF MeInv
<1>3. ASSUME NEW u \in Users, NEW d \in Default, dflt' = [dflt EXCEPT ![u] = d] PROVE dflt' \in [Users -> Default]
  BY <1>0, <1>3
<1>4. ASSUME NEW u \in Users, SignIn(u) PROVE MeInv'
  <2>1. UNCHANGED <<dflt, req>>
    BY <1>4 DEF SignIn, login_with_password, complete_temporary_password_login, oidc_login_callback,
                delete_session, TemporaryPasswordExpires
  <2> QED
    BY <1>0, <1>2, <2>1
<1>5. ASSUME NEW u \in Users, Context(u) PROVE MeInv'
  <2>1. ASSUME NEW d \in Default, NEW cur, repaired(u, d, cur), UNCHANGED req PROVE MeInv'
    <3>1. \E r \in Default : dflt' = [dflt EXCEPT ![u] = r]
      BY <2>1, RepairSettles DEF repaired
    <3> QED
      BY <1>2, <1>3, <2>1, <3>1
  <2>2. CASE get_me(u)
    <3>1. /\ dflt' = dflt /\ req' = [req EXCEPT ![u] = [dflt |-> dflt[u], cur |-> sess[u]]]
          /\ sess[u] # "out"
      BY <2>2 DEF get_me, signed_in
    <3>2. DOMAIN req' = Users
      BY <1>0, <3>1
    <3>3. ASSUME NEW v \in Users, req'[v] # NULL PROVE req'[v].dflt \in Default /\ req'[v].cur # "out"
      <4>1. CASE v = u
        BY <1>0, <3>1, <4>1
      <4>2. CASE v # u
        <5>1. req'[v] = req[v]
          BY <1>0, <3>1, <4>2
        <5> QED
          BY <1>0, <3>3, <5>1
      <4> QED
        BY <4>1, <4>2
    <3> QED
      BY <1>0, <1>1, <3>1, <3>2, <3>3 DEF MeInv
  <2>3. CASE build_me_read(u)
    <3>1. req' = [req EXCEPT ![u] = NULL]
      BY <2>3 DEF build_me_read
    <3>2. DOMAIN req' = Users /\ \A v \in Users : req'[v] # NULL => req'[v].dflt \in Default /\ req'[v].cur # "out"
      BY <1>0, <3>1
    <3> DEFINE old == req[u].dflt
               cur == ensure_session_organization_valid(u, old, req[u].cur)
               new == reconcile_user_context_defaults(u, old, cur)
    <3>3. req[u] # NULL /\ (dflt' = dflt \/ dflt' = [dflt EXCEPT ![u] = flush(old, new, dflt[u])])
      BY <2>3 DEF build_me_read
    <3>4. old \in Default /\ dflt[u] \in Default
      BY <1>0, <3>3
    <3>5. new \in Default
      BY <3>4, RepairSettles
    <3>6. dflt' \in [Users -> Default]
      BY <1>0, <1>3, <3>3, <3>4, <3>5, FlushIs
    <3> QED
      BY <1>1, <3>2, <3>6 DEF MeInv
  <2>4. CASE patch_user_context_defaults(u)
    <3>1. PICK d \in apply_context_defaults_patch(u, dflt[u]) : repaired(u, d, sess[u])
      BY <2>4 DEF patch_user_context_defaults
    <3>2. d \in Default /\ UNCHANGED req
      BY <1>0, <2>4, PatchTypes DEF patch_user_context_defaults
    <3> QED
      BY <2>1, <3>1, <3>2
  <2>5. ASSUME NEW o \in Orgs, set_current_organization(u, o) PROVE MeInv'
    BY <1>0, <2>1, <2>5 DEF set_current_organization
  <2> QED
    BY <1>5, <2>2, <2>3, <2>4, <2>5 DEF Context
<1>6. ASSUME NEW p \in Actors, Administration(p) PROVE MeInv'
  <2>1. CASE \E u \in Users, o \in Orgs, t \in Tenants, a \in Accounts \cup {NULL}, l \in GivenLevels :
               create_grant(p, u, o, t, a, l)
    <3>1. PICK u \in Users, o \in Orgs, t \in Tenants, a \in Accounts \cup {NULL} :
            /\ dflt' = dflt \/ dflt' = [dflt EXCEPT ![u] = [org |-> o, ten |-> t, acc |-> a]]
            /\ UNCHANGED req
      BY <2>1 DEF create_grant, maybe_seed_defaults_on_first_grant
    <3>2. [org |-> o, ten |-> t, acc |-> a] \in Default
      BY DEF Default
    <3> QED
      BY <1>0, <1>2, <1>3, <3>1, <3>2
  <2>2. ASSUME NEW a \in Accounts, delete_cloud_account(p, a) PROVE MeInv'
    <3>1. /\ dflt' = [u \in Users |-> IF dflt[u].acc = a THEN [dflt[u] EXCEPT !.acc = NULL] ELSE dflt[u]]
          /\ UNCHANGED req
      BY <2>2 DEF delete_cloud_account
    <3>2. \A r \in Default : [r EXCEPT !.acc = NULL] \in Default
      BY DEF Default
    <3> QED
      BY <1>0, <1>2, <3>1, <3>2
  <2>3. CASE UNCHANGED <<dflt, req>>
    BY <1>0, <1>2, <2>3
  <2> QED
    BY <1>6, <2>1, <2>2, <2>3
       DEF Administration, add_member, update_member, remove_member, update_grant, delete_grant,
           create_tenant, create_cloud_account
<1>7. CASE Platform
  <2>1. ASSUME NEW o \in Orgs, delete_organization(o) PROVE MeInv'
    <3>1. /\ dflt' = [u \in Users |-> IF dflt[u].org = o THEN [dflt[u] EXCEPT !.org = NULL] ELSE dflt[u]]
          /\ UNCHANGED req
      BY <2>1 DEF delete_organization
    <3>2. \A r \in Default : [r EXCEPT !.org = NULL] \in Default
      BY DEF Default
    <3> QED
      BY <1>0, <1>2, <3>1, <3>2
  <2>2. CASE UNCHANGED <<dflt, req>>
    BY <1>0, <1>2, <2>2
  <2> QED
    BY <1>7, <2>1, <2>2 DEF Platform, create_organization, patch_root_organization_status,
                            patch_root_user_status, root_create_org_user
<1>8. CASE UNCHANGED vars
  BY <1>0, <1>2, <1>8 DEF vars
<1> QED
  BY <1>4, <1>5, <1>6, <1>7, <1>8 DEF Next

\* What is settled depends on the rows of the access rules only.
LEMMA SettledSame ==
  ASSUME NEW u \in Users, UNCHANGED rules, SettledAt(u, dflt'[u], sess'[u])
  PROVE  Settled(u)'
<1> USE DEF rules
<1>1. accessible_org_ids(u)' = accessible_org_ids(u)
  BY DEF accessible_org_ids
<1>2. \A cur : resolve_effective_org_role(u, cur)' = resolve_effective_org_role(u, cur)
  BY DEF resolve_effective_org_role
<1>3. \A cur : UserContext(u, cur)' = UserContext(u, cur)
  BY <1>2 DEF UserContext
<1>4. \A v, o : has_any_grant_in_org(v, o)' <=> has_any_grant_in_org(v, o)
  BY DEF has_any_grant_in_org
<1>5. \A v, o, t : grants_for_tenant(v, o, t)' = grants_for_tenant(v, o, t)
  BY DEF grants_for_tenant
<1>6. \A c, t : tenant_has_any_account_access(c, t)' <=> tenant_has_any_account_access(c, t)
  BY <1>4, <1>5 DEF tenant_has_any_account_access
<1>7. \A c, t, a : resolve_effective_access(c, t, a)' = resolve_effective_access(c, t, a)
  BY <1>4, <1>5 DEF resolve_effective_access
<1>8. \A c, o : accessible_tenants(c, o)' = accessible_tenants(c, o)
  BY <1>6 DEF accessible_tenants
<1>9. \A c, t : visible_accounts(c, t)' = visible_accounts(c, t)
  BY <1>7 DEF visible_accounts
<1> QED
  BY <1>1, <1>3, <1>8, <1>9 DEF SettledAt, Settled

LEMMA MeStep ==
  ASSUME MeInv, Next, NEW u \in Users, req[u] # NULL, req'[u] = NULL,
         req[u] = [dflt |-> dflt[u], cur |-> sess[u]]
  PROVE  Settled(u)'
<1>0. /\ dflt \in [Users -> Default] /\ sess \in [Users -> Orgs \cup {NULL, "out"}] /\ DOMAIN req = Users
      /\ req[u].cur # "out"
  BY DEF MeInv
<1>1. build_me_read(u)
  <2>1. ASSUME NEW v \in Users, SignIn(v) PROVE UNCHANGED req
    BY <2>1 DEF SignIn, login_with_password, complete_temporary_password_login, oidc_login_callback,
                delete_session, TemporaryPasswordExpires
  <2>2. ASSUME NEW v \in Users, Context(v) PROVE UNCHANGED req \/ get_me(v) \/ build_me_read(v)
    BY <2>2 DEF Context, patch_user_context_defaults, set_current_organization
  <2>3. ASSUME NEW p \in Actors, Administration(p) PROVE UNCHANGED req
    BY <2>3 DEF Administration, add_member, update_member, remove_member, create_grant, update_grant,
                delete_grant, create_tenant, create_cloud_account, delete_cloud_account
  <2>4. ASSUME Platform PROVE UNCHANGED req
    BY <2>4 DEF Platform, create_organization, delete_organization, patch_root_organization_status,
                patch_root_user_status, root_create_org_user
  <2>5. PICK v \in Users : get_me(v) \/ build_me_read(v)
    BY <2>1, <2>2, <2>3, <2>4 DEF Next
  <2>6. v = u
    BY <1>0, <2>5 DEF get_me, build_me_read
  <2> QED
    BY <2>5, <2>6 DEF get_me
<1> DEFINE d == dflt[u]
           cur == ensure_session_organization_valid(u, d, sess[u])
           new == reconcile_user_context_defaults(u, d, cur)
<1>2. req[u].dflt = d /\ req[u].cur = sess[u] /\ sess[u] # "out" /\ d \in Default
  BY <1>0
<1>3. /\ UNCHANGED rules
      /\ sess' = IF cur # sess[u] THEN [sess EXCEPT ![u] = cur] ELSE sess
      /\ dflt' = [dflt EXCEPT ![u] = flush(d, new, d)]
  BY <1>1, <1>2 DEF build_me_read
<1>4. SettledAt(u, new, cur) /\ new \in Default
  BY <1>2, RepairSettles
<1> HIDE DEF cur, new
<1>5. sess'[u] = cur
  BY <1>0, <1>3
<1>6. flush(d, new, d) = new
  BY <1>2, <1>4, FlushIs
<1>7. dflt'[u] = new
  BY <1>0, <1>3, <1>6
<1> QED
  BY <1>3, <1>4, <1>5, <1>7, SettledSame

\* A GET /me that nobody disturbs leaves the session's organisation and the defaults
\* pointing at things the user may open, each inside the other, whatever it found
\* (ensure_session_organization_valid, reconcile_user_context_defaults).
THEOREM MeRepairs == Spec => MeSettles
<1>1. MeInv /\ [Next]_vars => MeInv'
  BY MeNext
<1>2. MeInv /\ [Next]_vars =>
        [\A u \in Users :
           /\ req[u] # NULL /\ req'[u] = NULL
           /\ req[u] = [dflt |-> dflt[u], cur |-> sess[u]]
           => Settled(u)']_vars
  BY MeStep
<1> QED
  BY <1>1, <1>2, MeInit, PTL DEF Spec, MeSettles
=============================================================================
