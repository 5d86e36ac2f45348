----------------------------- MODULE AccessRules -----------------------------
(***************************************************************************)
(* Who may see and do what: organisations, memberships, tenants, cloud     *)
(* accounts and access grants, and the functions that derive from them the *)
(* organisation and role of a request, the operational level of a user on  *)
(* an account, the tenants and accounts a user may open and the defaults    *)
(* of the user's context.  The functions are written several times in the  *)
(* code, once per caller; Access.tla states how they have to agree.        *)
(***************************************************************************)
EXTENDS Naturals, FiniteSets

CONSTANTS Users, Orgs, Tenants, Accounts,
          NULL

VARIABLES org,       \* organizations.status, "absent" before the row, "deleted" after it
          member,    \* org_memberships.role by user and organisation, "none" without a row
          tenant,    \* tenants.organization_id, "absent" before the row
          account,   \* cloud_accounts.tenant_id, "absent" or "deleted" without a row
          grants,    \* the rows of access_grants
          user       \* the rows of users, without the defaults of the context

Roles == {"root_admin", "org_admin", "admin", "approver", "viewer", "member"}
AccessLevels == {"viewer", "approver", "admin"}

Grant == [user : Users, org : Orgs, tenant : Tenants, account : Accounts \cup {NULL},
          role : AccessLevels]

\* temp: must_change_password with the expiry of the temporary password
User == [status : {"absent", "pending", "active", "disabled"}, provider : {"local", "oidc"},
         temp : {"no", "valid", "expired"}, root : BOOLEAN]

Default == [org : Orgs \cup {NULL}, ten : Tenants \cup {NULL}, acc : Accounts \cup {NULL}]
NoDefault == [org |-> NULL, ten |-> NULL, acc |-> NULL]

\* a list ordered by name or creation: its first element
First(S) == CHOOSE x \in S : TRUE

-----------------------------------------------------------------------------
(* The ladder of levels *)

access_rank(l) == CASE l = "none" -> 0 [] l = "viewer" -> 1 [] l = "approver" -> 2
                    [] l = "admin" -> 3

max_access_level(L) == CHOOSE l \in L : \A m \in L : access_rank(m) <= access_rank(l)

org_membership_role_label(r) == IF r \in {"admin", "approver", "viewer"} THEN "member" ELSE r

membership_implies_org_wide_admin(r) == r \in {"org_admin", "root_admin", "admin"}

legacy_flat_operational_role(r) ==
  IF membership_implies_org_wide_admin(r) THEN "admin"
  ELSE IF r \in {"approver", "viewer"} THEN r ELSE "none"

-----------------------------------------------------------------------------
(* The principal of a request *)

\* the organisation a session with current organisation cur stands in, and the role there
resolve_effective_org_role(u, cur) ==
  LET mine == {o \in Orgs : member[u][o] # "none"}
      o == IF cur = NULL /\ Cardinality(mine) = 1 THEN First(mine) ELSE cur
      nowhere == [org |-> NULL, role |-> "viewer"]
  IN IF o = NULL THEN nowhere
     ELSE IF org[o] = "disabled" /\ ~user[u].root THEN nowhere
     ELSE IF member[u][o] # "none" THEN [org |-> o, role |-> member[u][o]]
     ELSE IF user[u].root THEN [org |-> o, role |-> "root_admin"]
     ELSE nowhere

UserContext(u, cur) ==
  LET e == resolve_effective_org_role(u, cur)
  IN [user |-> u, role |-> e.role, org |-> e.org, root |-> user[u].root]

\* the principal's row in an organisation
membership(c, o) == IF c.user \in Users THEN member[c.user][o] ELSE "none"

\* the organisation exists, is open to the principal, and is one of its own
may_access_org(c, o) ==
  /\ org[o] \in {"active", "disabled"}
  /\ org[o] = "disabled" => c.root
  /\ c.root \/ membership(c, o) # "none"

accessible_org_ids(u) ==
  {o \in Orgs : org[o] = "active" /\ (user[u].root \/ member[u][o] # "none")}

-----------------------------------------------------------------------------
(* Levels on an account *)

has_any_grant_in_org(u, o) == \E g \in grants : g.user = u /\ g.org = o

has_grant_in_org(u, o, levels) == \E g \in grants : g.user = u /\ g.org = o /\ g.role \in levels

grants_for_tenant(u, o, t) == {g \in grants : g.user = u /\ g.org = o /\ g.tenant = t}

\* an account's own grant overrides the tenant's
best_role_from_grant_rows(rows, a) ==
  LET acct == {g \in rows : g.account = a}
      wide == {g \in rows : g.account = NULL}
      chosen == IF acct # {} THEN acct ELSE wide
  IN max_access_level({"none"} \cup {g.role : g \in chosen})

resolve_effective_access(c, t, a) ==
  LET o == tenant[t]
  IN IF c.root THEN "admin"
     ELSE IF o \notin Orgs THEN "none"
     ELSE IF membership_implies_org_wide_admin(c.role) THEN "admin"
     ELSE IF ~has_any_grant_in_org(c.user, o) THEN legacy_flat_operational_role(c.role)
     ELSE best_role_from_grant_rows(grants_for_tenant(c.user, o, t), a)

\* the same question asked about an assignee, with the role of the membership row
resolve_effective_access_for_user(u, o, t, a, r, root) ==
  IF root \/ membership_implies_org_wide_admin(r) THEN "admin"
  ELSE IF ~has_any_grant_in_org(u, o) THEN legacy_flat_operational_role(r)
  ELSE best_role_from_grant_rows(grants_for_tenant(u, o, t), a)

\* mutant: grants for one account do not open the tenant
MutantTenantAccess(c, t) ==
  /\ tenant[t] \in Orgs
  /\ \/ c.root
     \/ membership_implies_org_wide_admin(c.role)
     \/ /\ ~has_any_grant_in_org(c.user, tenant[t])
        /\ legacy_flat_operational_role(c.role) # "none"
     \/ \E g \in grants_for_tenant(c.user, tenant[t], t) : g.account = NULL

tenant_has_any_account_access(c, t) ==
  LET o == tenant[t]
      rows == grants_for_tenant(c.user, o, t)
  IN /\ o \in Orgs
     /\ \/ c.root
        \/ membership_implies_org_wide_admin(c.role)
        \/ /\ ~has_any_grant_in_org(c.user, o)
           /\ legacy_flat_operational_role(c.role) # "none"
        \/ \E g \in rows : g.account \in Accounts => account[g.account] = t

user_may_list_org_approval_requests(c, o) ==
  \/ c.root
  \/ org_membership_role_label(c.role) \in {"org_admin", "root_admin"}
  \/ IF has_any_grant_in_org(c.user, o) THEN has_grant_in_org(c.user, o, {"approver", "admin"})
     ELSE legacy_flat_operational_role(c.role) \in {"approver", "admin"}

user_may_admin_view_approval_requests(c, o) ==
  \/ c.root
  \/ org_membership_role_label(c.role) \in {"org_admin", "root_admin"}
  \/ IF has_any_grant_in_org(c.user, o) THEN has_grant_in_org(c.user, o, {"admin"})
     ELSE legacy_flat_operational_role(c.role) = "admin"

can_submit_multi_approval_for_context(c, t, a) ==
  \/ c.root
  \/ membership_implies_org_wide_admin(c.role)
  \/ access_rank(resolve_effective_access(c, t, a)) >= access_rank("admin")

user_can_approve_assignment(c, t, a) ==
  access_rank(resolve_effective_access(c, t, a)) >= access_rank("approver")

-----------------------------------------------------------------------------
(* Who manages an organisation *)

can_manage_org(c, o) ==
  \/ c.root
  \/ /\ c.role \in {"org_admin", "root_admin", "admin"}
     /\ membership(c, o) = c.role
  \/ /\ c.role \notin {"org_admin", "root_admin", "admin"}
     /\ has_grant_in_org(c.user, o, {"admin"})

\* the guard of every operation on an organisation's members and grants
get_organization(c, o) ==
  /\ org[o] \in {"active", "disabled"}
  /\ can_manage_org(c, o)
  /\ org[o] = "disabled" => c.root

\* the roles that a manager may give
validate_role_value(c, o, r) ==
  \/ c.root
  \/ c.role = "org_admin" /\ r \in {"admin", "approver", "viewer", "member"}
  \/ (c.role = "admin" \/ (c.role = "member" /\ can_manage_org(c, o)))
       /\ r \in {"admin", "approver", "viewer", "member"}
  \/ c.role = "root_admin" /\ r \in {"admin", "approver", "viewer", "member", "org_admin"}

require_tenant_accessible(c, t) ==
  /\ c.org \in Orgs /\ may_access_org(c, c.org)
  /\ tenant[t] = c.org
  /\ tenant_has_any_account_access(c, t)

require_tenant_write_role(c) == c.root \/ c.role \in {"org_admin", "root_admin", "admin"}

-----------------------------------------------------------------------------
(* The context of a user: session organisation and defaults *)

accessible_tenants(c, o) == {t \in Tenants : tenant[t] = o /\ tenant_has_any_account_access(c, t)}

visible_accounts(c, t) ==
  {a \in Accounts : account[a] = t /\ resolve_effective_access(c, t, a) # "none"}

pick_initial_session_organization_id(u, d) ==
  LET acc == accessible_org_ids(u)
  IN IF d.org \in acc THEN d.org ELSE IF Cardinality(acc) = 1 THEN First(acc) ELSE NULL

\* mutant: an organisation the user has left is kept
MutantEnsure(u, d, cur) ==
  LET acc == accessible_org_ids(u)
  IN IF acc = {} THEN NULL
     ELSE IF cur # NULL THEN cur
     ELSE IF d.org \in acc THEN d.org ELSE First(acc)

\* the session's organisation after ensure_session_organization_valid
ensure_session_organization_valid(u, d, cur) ==
  LET acc == accessible_org_ids(u)
  IN IF acc = {} THEN NULL
     ELSE IF cur \in acc THEN cur
     ELSE IF d.org \in acc THEN d.org ELSE First(acc)

\* clears what is no longer accessible and fills what is empty
reconcile_user_context_defaults(u, d, cur) ==
  LET acc == accessible_org_ids(u)
      here == resolve_effective_org_role(u, cur).org
      o == IF d.org \in acc THEN d.org ELSE IF here \in acc THEN here ELSE First(acc)
      kept == IF o = d.org THEN d ELSE NoDefault
      c == UserContext(u, o)
      ts == accessible_tenants(c, o)
      t == IF kept.ten \in ts THEN kept.ten ELSE First(ts)
      as == visible_accounts(c, t)
      a == IF t = kept.ten /\ kept.acc \in as THEN kept.acc
           ELSE IF as # {} THEN First(as) ELSE NULL
  IN IF acc = {} THEN NoDefault
     ELSE IF ts = {} THEN [NoDefault EXCEPT !.org = o]
     ELSE [org |-> o, ten |-> t, acc |-> a]
=============================================================================
