------------------------------- MODULE Access -------------------------------
(***************************************************************************)
(* Accounts, sessions and the administration of organisations: invitations *)
(* and sign-in, members, grants, tenants and cloud accounts, the platform   *)
(* operator's switches, and the GET /me of a browser, which repairs the     *)
(* session's organisation and the saved defaults after whatever the         *)
(* administrators did in between.                                           *)
(*                                                                         *)
(* GET /me reads the user and session rows when the request starts and     *)
(* writes back the columns it changed, so two steps; every other request    *)
(* is one step.  Demo and development data (enable_demo_and_local_seed, the *)
(* X-User headers) are off, as in production.                               *)
(***************************************************************************)
EXTENDS AccessRules

CONSTANTS Operator,        \* a platform root outside Users
          TenantHome, AccountHome,  \* where tenants and accounts are at installation
          GivenRoles, GivenLevels,  \* the roles and levels that are handed out
          MaxChanges       \* bound: administrative requests

ASSUME AccessAssumption ==
  /\ NULL \notin Users \cup Orgs \cup Tenants \cup Accounts
  /\ {"absent", "deleted"} \cap (Orgs \cup Tenants \cup {NULL}) = {}
  /\ Operator \notin Users
  /\ TenantHome \in [Tenants -> Orgs] /\ AccountHome \in [Accounts -> Tenants]
  /\ GivenRoles \subseteq Roles /\ GivenLevels \subseteq AccessLevels /\ MaxChanges \in Nat

VARIABLES dflt,      \* users.default_organization_id, _tenant_id, _cloud_account_id
          sess,      \* auth_sessions: "out", or the current_organization_id
          req,       \* the GET /me in progress: the rows it read, or NULL
          changes

rules == <<org, member, tenant, account, grants, user>>
vars == <<org, member, tenant, account, grants, user, dflt, sess, req, changes>>

Request == [dflt : Default, cur : Orgs \cup {NULL}]

TypeOK ==
  /\ org \in [Orgs -> {"absent", "active", "disabled", "deleted"}]
  /\ member \in [Users -> [Orgs -> Roles \cup {"none"}]]
  /\ tenant \in [Tenants -> Orgs \cup {NULL, "absent"}]
  /\ account \in [Accounts -> Tenants \cup {"absent", "deleted"}]
  /\ grants \subseteq Grant
  /\ user \in [Users -> User]
  /\ dflt \in [Users -> Default]
  /\ sess \in [Users -> Orgs \cup {NULL, "out"}]
  /\ req \in [Users -> Request \cup {NULL}]
  /\ changes \in 0 .. MaxChanges

\* An installation with some of its organisations, their tenants and accounts; users are
\* plain members of some of them or platform roots.
Init ==
  \E live \in SUBSET Orgs, roots \in SUBSET Users :
    /\ org = [o \in Orgs |-> IF o \in live THEN "active" ELSE "absent"]
    /\ tenant = [t \in Tenants |-> IF TenantHome[t] \in live THEN TenantHome[t] ELSE "absent"]
    /\ account = [a \in Accounts |-> IF tenant[AccountHome[a]] \in live THEN AccountHome[a]
                                      ELSE "absent"]
    /\ member \in [Users -> [Orgs -> {"none", "member"}]]
    /\ \A u \in Users, o \in Orgs \ live : member[u][o] = "none"
    /\ grants = {}
    /\ user = [u \in Users |->
                 [status |-> IF u \in roots \/ \E o \in Orgs : member[u][o] # "none"
                             THEN "active" ELSE "absent",
                  provider |-> "local", temp |-> "no", root |-> u \in roots]]
    /\ dflt = [u \in Users |-> NoDefault]
    /\ sess = [u \in Users |-> "out"]
    /\ req = [u \in Users |-> NULL]
    /\ changes = 0

\* the request of an administrator: a user with a session, or the operator
signed_in(u) == sess[u] # "out" /\ user[u].status = "active"

Actors == {Operator} \cup {u \in Users : signed_in(u)}

\* the operator selects the organisation it works on
get_user_context(p, o) ==
  IF p = Operator THEN [user |-> NULL, role |-> "root_admin", org |-> o, root |-> TRUE]
  ELSE UserContext(p, sess[p])

Change == changes < MaxChanges /\ changes' = changes + 1

-----------------------------------------------------------------------------
(* Sign-in *)

\* create_session with the organisation that pick_initial_session_organization_id gives
create_session(u) ==
  sess' = [sess EXCEPT ![u] = pick_initial_session_organization_id(u, dflt[u])]

\* the password is right; a temporary one and an account that is not active are refused
login_with_password(u) ==
  /\ user[u].status = "active"
  /\ ~(user[u].provider = "local" /\ user[u].temp # "no")
  /\ create_session(u)
  /\ UNCHANGED <<rules, dflt, req, changes>>

\* the invited user chooses a password
complete_temporary_password_login(u) ==
  /\ user[u].status # "absent" /\ user[u].provider = "local" /\ user[u].temp = "valid"
  /\ user' = [user EXCEPT ![u].status = "active", ![u].temp = "no"]
  /\ create_session(u)
  /\ UNCHANGED <<org, member, tenant, account, grants, dflt, req, changes>>

\* the identity provider's answer creates or links the user, then signs it in
oidc_login_callback(u) ==
  LET row == IF user[u].status = "absent"
             THEN [user[u] EXCEPT !.status = "active", !.provider = "oidc"]
             ELSE [user[u] EXCEPT !.provider = "oidc"]
  IN /\ user' = [user EXCEPT ![u] = row]
     /\ IF row.status = "active" THEN create_session(u) ELSE UNCHANGED sess
     /\ UNCHANGED <<org, member, tenant, account, grants, dflt, req, changes>>

\* POST /logout, or the next request with a session past expires_at
delete_session(u) ==
  /\ sess[u] # "out" /\ req[u] = NULL
  /\ sess' = [sess EXCEPT ![u] = "out"]
  /\ UNCHANGED <<rules, dflt, req, changes>>

TemporaryPasswordExpires(u) ==
  /\ user[u].temp = "valid"
  /\ user' = [user EXCEPT ![u].temp = "expired"]
  /\ UNCHANGED <<org, member, tenant, account, grants, dflt, sess, req, changes>>

-----------------------------------------------------------------------------
(* Members *)

create_pending_local_user == [status |-> "pending", provider |-> "local", temp |-> "valid",
                              root |-> FALSE]
create_user == [status |-> "active", provider |-> "local", temp |-> "no", root |-> FALSE]

\* a user that has not used its temporary password yet gets a new one
rotate_temporary_password(row) ==
  IF row.provider = "local" /\ row.temp # "no"
  THEN [row EXCEPT !.status = "pending", !.temp = "valid"] ELSE row

\* The user row is committed before the membership: a crash in between leaves a user
\* without it (joined = FALSE).
add_member(p, u, o, r) ==
  LET c == get_user_context(p, o)
  IN /\ Change /\ get_organization(c, o) /\ validate_role_value(c, o, r)
     /\ \E joined \in BOOLEAN :
          /\ \/ /\ user[u].status = "absent"
                /\ \E row \in {create_user, create_pending_local_user} :
                     user' = [user EXCEPT ![u] = row]
             \/ /\ user[u].status # "absent" /\ member[u][o] = "none"
                /\ user' = [user EXCEPT ![u] = rotate_temporary_password(@)]
             \/ /\ user[u].status # "absent" /\ member[u][o] # "none" /\ joined
                /\ UNCHANGED user
          /\ member' = IF joined THEN [member EXCEPT ![u][o] = r] ELSE member
     /\ UNCHANGED <<org, tenant, account, grants, dflt, sess, req>>

\* the operator's form renews the invitation of a member too
root_create_org_user(u, o, r) ==
  /\ Change /\ org[o] \in {"active", "disabled"} /\ r \in {"org_admin", "approver", "viewer"}
  /\ user' = [user EXCEPT ![u] = IF @.status = "absent" THEN create_pending_local_user
                                 ELSE rotate_temporary_password(@)]
  /\ \E joined \in BOOLEAN : member' = IF joined THEN [member EXCEPT ![u][o] = r] ELSE member
  /\ UNCHANGED <<org, tenant, account, grants, dflt, sess, req>>

\* neither of the administrators' rows is changed by a lesser manager
may_touch(c, row) == c.root \/ c.role = "org_admin" \/ row \notin {"org_admin", "root_admin"}

update_member(p, u, o, r) ==
  LET c == get_user_context(p, o)
  IN /\ Change /\ get_organization(c, o) /\ validate_role_value(c, o, r)
     /\ member[u][o] # "none" /\ may_touch(c, member[u][o])
     /\ member' = [member EXCEPT ![u][o] = r]
     /\ UNCHANGED <<org, tenant, account, grants, user, dflt, sess, req>>

\* grants, sessions and defaults of the member stay
remove_member(p, u, o) ==
  LET c == get_user_context(p, o)
  IN /\ Change /\ get_organization(c, o)
     /\ member[u][o] # "none" /\ may_touch(c, member[u][o])
     /\ member[u][o] = "root_admin" => c.root
     /\ member' = [member EXCEPT ![u][o] = "none"]
     /\ UNCHANGED <<org, tenant, account, grants, user, dflt, sess, req>>

-----------------------------------------------------------------------------
(* Grants *)

\* the first grant of a user without defaults sets them
maybe_seed_defaults_on_first_grant(u, o, t, a) ==
  IF dflt[u].org # NULL THEN dflt
  ELSE [dflt EXCEPT ![u] = [org |-> o, ten |-> t, acc |-> a]]

\* mutant: the tenant may be any organisation's
MutantGrantable(o, t, a) == a \in Accounts => account[a] = t

\* the tenant is one of the organisation's, the account one of the tenant's
grantable(o, t, a) == tenant[t] = o /\ (a \in Accounts => account[a] = t)

create_grant(p, u, o, t, a, l) ==
  LET c == get_user_context(p, o)
      row == [user |-> u, org |-> o, tenant |-> t, account |-> a, role |-> l]
  IN /\ Change /\ get_organization(c, o) /\ user[u].status # "absent"
     /\ grantable(o, t, a)
     /\ \A g \in grants : <<g.user, g.org, g.tenant, g.account>> # <<u, o, t, a>>
     /\ grants' = grants \cup {row}
     \* a crash after the commit of the row leaves the defaults as they are
     /\ \E seeded \in BOOLEAN :
          dflt' = IF seeded THEN maybe_seed_defaults_on_first_grant(u, o, t, a) ELSE dflt
     /\ UNCHANGED <<org, member, tenant, account, user, sess, req>>

update_grant(p, g, l) ==
  /\ Change /\ get_organization(get_user_context(p, g.org), g.org)
  /\ grants' = (grants \ {g}) \cup {[g EXCEPT !.role = l]}
  /\ UNCHANGED <<org, member, tenant, account, user, dflt, sess, req>>

delete_grant(p, g) ==
  /\ Change /\ get_organization(get_user_context(p, g.org), g.org)
  /\ grants' = grants \ {g}
  /\ UNCHANGED <<org, member, tenant, account, user, dflt, sess, req>>

-----------------------------------------------------------------------------
(* Tenants, cloud accounts, organisations *)

create_tenant(p, o, t) ==
  LET c == get_user_context(p, o)
  IN /\ Change /\ tenant[t] = "absent"
     /\ require_tenant_write_role(c) /\ c.org = o /\ may_access_org(c, o)
     /\ tenant' = [tenant EXCEPT ![t] = o]
     /\ UNCHANGED <<org, member, account, grants, user, dflt, sess, req>>

create_cloud_account(p, t, a) ==
  LET c == get_user_context(p, tenant[t])
  IN /\ Change /\ account[a] = "absent"
     /\ require_tenant_accessible(c, t) /\ require_tenant_write_role(c)
     /\ account' = [account EXCEPT ![a] = t]
     /\ UNCHANGED <<org, member, tenant, grants, user, dflt, sess, req>>

\* the database cascades to the grants and clears the defaults
delete_cloud_account(p, a) ==
  LET t == account[a]
      c == get_user_context(p, tenant[t])
  IN /\ Change /\ t \in Tenants
     /\ require_tenant_accessible(c, t)
     /\ access_rank(resolve_effective_access(c, t, a)) >= access_rank("admin")
     /\ account' = [account EXCEPT ![a] = "deleted"]
     /\ grants' = {g \in grants : g.account # a}
     /\ dflt' = [u \in Users |-> IF dflt[u].acc = a THEN [dflt[u] EXCEPT !.acc = NULL]
                                 ELSE dflt[u]]
     /\ UNCHANGED <<org, member, tenant, user, sess, req>>

create_organization(o) ==
  /\ Change /\ org[o] = "absent"
  /\ org' = [org EXCEPT ![o] = "active"]
  /\ UNCHANGED <<member, tenant, account, grants, user, dflt, sess, req>>

patch_root_organization_status(o, s) ==
  /\ Change /\ org[o] \in {"active", "disabled"} \ {s}
  /\ org' = [org EXCEPT ![o] = s]
  /\ UNCHANGED <<member, tenant, account, grants, user, dflt, sess, req>>

\* Memberships and grants are cascaded; tenants, sessions and defaults lose the reference.
delete_organization(o) ==
  /\ Change /\ org[o] \in {"active", "disabled"}
  /\ org' = [org EXCEPT ![o] = "deleted"]
  /\ member' = [u \in Users |-> [member[u] EXCEPT ![o] = "none"]]
  /\ grants' = {g \in grants : g.org # o}
  /\ tenant' = [t \in Tenants |-> IF tenant[t] = o THEN NULL ELSE tenant[t]]
  /\ dflt' = [u \in Users |-> IF dflt[u].org = o THEN [dflt[u] EXCEPT !.org = NULL] ELSE dflt[u]]
  /\ sess' = [u \in Users |-> IF sess[u] = o THEN NULL ELSE sess[u]]
  /\ UNCHANGED <<account, user, req>>

patch_root_user_status(u, s) ==
  /\ Change /\ user[u].status \notin {"absent", s}
  /\ user' = [user EXCEPT ![u].status = s]
  /\ UNCHANGED <<org, member, tenant, account, grants, dflt, sess, req>>

-----------------------------------------------------------------------------
(* The user's own context *)

\* GET /me: the request reads the user's and the session's row ...
get_me(u) ==
  /\ signed_in(u) /\ req[u] = NULL
  /\ req' = [req EXCEPT ![u] = [dflt |-> dflt[u], cur |-> sess[u]]]
  /\ UNCHANGED <<rules, dflt, sess, changes>>

\* the columns an UPDATE names: those that differ from what the request read
flush(old, new, row) == [f \in DOMAIN row |-> IF new[f] # old[f] THEN new[f] ELSE row[f]]

\* ... and stores the organisation and the defaults it repaired.  The update of a
\* session that was deleted meanwhile fails, and the request with it.
build_me_read(u) ==
  LET old == req[u].dflt
      cur == ensure_session_organization_valid(u, old, req[u].cur)
      new == reconcile_user_context_defaults(u, old, cur)
      moved == cur # req[u].cur
  IN /\ req[u] # NULL
     /\ req' = [req EXCEPT ![u] = NULL]
     /\ IF moved /\ sess[u] = "out" THEN UNCHANGED <<dflt, sess>>
        ELSE /\ sess' = IF moved THEN [sess EXCEPT ![u] = cur] ELSE sess
             /\ dflt' = [dflt EXCEPT ![u] = flush(old, new, @)]
     /\ UNCHANGED <<rules, changes>>

\* a session moved to cur and defaults set to d, then /me on both
repaired(u, d, cur) ==
  LET c == ensure_session_organization_valid(u, d, cur)
  IN /\ sess' = [sess EXCEPT ![u] = c]
     /\ dflt' = [dflt EXCEPT ![u] = reconcile_user_context_defaults(u, d, c)]

set_current_organization(u, o) ==
  /\ signed_in(u)
  /\ IF user[u].root THEN org[o] \in {"active", "disabled"}
     ELSE member[u][o] # "none" /\ org[o] # "disabled"
  /\ repaired(u, dflt[u], o)
  /\ UNCHANGED <<rules, req, changes>>

\* The rows that a PATCH of the defaults d may store: each key that is present is checked
\* against the organisation and tenant chosen so far.
apply_context_defaults_patch(u, d) ==
  LET acc == accessible_org_ids(u)
      orgs == {d} \cup {NoDefault} \cup {[d EXCEPT !.org = o] : o \in acc}
      c(r) == UserContext(u, r.org)
      moved(r, t) ==
        [r EXCEPT !.ten = t, !.acc = IF @ \in visible_accounts(c(r), t) THEN @ ELSE NULL]
      tens == orgs \cup {[r EXCEPT !.ten = NULL, !.acc = NULL] : r \in orgs}
                   \cup UNION {{moved(r, t) : t \in accessible_tenants(c(r), r.org)} :
                                  r \in {x \in orgs : x.org \in acc}}
  IN tens \cup {[r EXCEPT !.acc = NULL] : r \in tens}
          \cup UNION {{[r EXCEPT !.acc = a] : a \in visible_accounts(c(r), r.ten)} :
                         r \in {x \in tens : x.org \in acc /\ x.ten # NULL}}

patch_user_context_defaults(u) ==
  /\ signed_in(u)
  /\ \E d \in apply_context_defaults_patch(u, dflt[u]) : repaired(u, d, sess[u])
  /\ UNCHANGED <<rules, req, changes>>

-----------------------------------------------------------------------------
SignIn(u) ==
  \/ login_with_password(u) \/ complete_temporary_password_login(u) \/ oidc_login_callback(u)
  \/ delete_session(u) \/ TemporaryPasswordExpires(u)

Context(u) ==
  \/ get_me(u) \/ build_me_read(u) \/ patch_user_context_defaults(u)
  \/ \E o \in Orgs : set_current_organization(u, o)

Administration(p) ==
  \/ \E u \in Users, o \in Orgs, r \in GivenRoles : add_member(p, u, o, r)
  \/ \E u \in Users, o \in Orgs, r \in GivenRoles : update_member(p, u, o, r)
  \/ \E u \in Users, o \in Orgs : remove_member(p, u, o)
  \/ \E u \in Users, o \in Orgs, t \in Tenants, a \in Accounts \cup {NULL}, l \in GivenLevels :
       create_grant(p, u, o, t, a, l)
  \/ \E g \in grants, l \in GivenLevels : update_grant(p, g, l)
  \/ \E g \in grants : delete_grant(p, g)
  \/ \E o \in Orgs, t \in Tenants : create_tenant(p, o, t)
  \/ \E t \in Tenants, a \in Accounts : create_cloud_account(p, t, a)
  \/ \E a \in Accounts : delete_cloud_account(p, a)

Platform ==
  \/ \E o \in Orgs : create_organization(o) \/ delete_organization(o)
  \/ \E o \in Orgs, s \in {"active", "disabled"} : patch_root_organization_status(o, s)
  \/ \E u \in Users, s \in {"active", "pending", "disabled"} : patch_root_user_status(u, s)
  \/ \E u \in Users, o \in Orgs, r \in GivenRoles : root_create_org_user(u, o, r)

Next ==
  \/ \E u \in Users : SignIn(u) \/ Context(u)
  \/ \E p \in Actors : Administration(p)
  \/ Platform

Spec == Init /\ [][Next]_vars

-----------------------------------------------------------------------------
(* Properties *)

\* Every grant is for a tenant of its organisation and, when it names an account, for an
\* account of that tenant: grants are resolved by their three ids without ever comparing
\* them again, while organisations, tenants and accounts come and go.
GrantsScoped ==
  \A g \in grants : /\ tenant[g.tenant] = g.org
                    /\ g.account # NULL => account[g.account] = g.tenant

\* A tenant with accounts can be opened by exactly those who see one of its accounts.
TenantAgrees(c, o) ==
  \A t \in {x \in Tenants : tenant[x] = o /\ \E a \in Accounts : account[a] = x} :
    tenant_has_any_account_access(c, t) <=> visible_accounts(c, t) # {}

\* The level checked for an assignee is the one the assignee has when signed in.
AssigneeAgrees(c, o) ==
  member[c.user][o] # "none" =>
    \A t \in Tenants, a \in Accounts :
      tenant[t] = o /\ account[a] = t =>
        resolve_effective_access_for_user(c.user, o, t, a, member[c.user][o], c.root)
          = resolve_effective_access(c, t, a)

\* Who may decide or submit a request for some account may list the organisation's queue
\* (a legacy "admin" membership with viewer grants is the exception: see the README).
QueueAgrees(c, o) ==
  c.role # "admin" =>
    \A t \in Tenants, a \in Accounts :
      tenant[t] = o /\ account[a] = t =>
        /\ user_can_approve_assignment(c, t, a) => user_may_list_org_approval_requests(c, o)
        /\ can_submit_multi_approval_for_context(c, t, a) =>
             user_may_admin_view_approval_requests(c, o)

\* The evaluators of access_resolution_service, written one by one for the screens and
\* routes that call them, give one user one answer in the organisation of the session.
EvaluatorsAgree ==
  \A u \in Users : signed_in(u) =>
    LET c == UserContext(u, sess[u])
    IN c.org # NULL => TenantAgrees(c, c.org) /\ AssigneeAgrees(c, c.org) /\ QueueAgrees(c, c.org)

\* Session and defaults of u point at things u may open, each inside the other, and are
\* empty only when there is nothing to point at.
Settled(u) ==
  LET acc == accessible_org_ids(u)
      d == dflt[u]
      c == UserContext(u, d.org)
  IN IF acc = {} THEN d = NoDefault /\ sess[u] = NULL
     ELSE /\ sess[u] \in acc /\ d.org \in acc
          /\ IF accessible_tenants(c, d.org) = {} THEN d.ten = NULL /\ d.acc = NULL
             ELSE /\ d.ten \in accessible_tenants(c, d.org)
                  /\ IF visible_accounts(c, d.ten) = {} THEN d.acc = NULL
                     ELSE d.acc \in visible_accounts(c, d.ten)

\* Whatever administrators and earlier requests left behind, a GET /me that nobody
\* disturbs between its read and its write leaves the context settled.
MeSettles ==
  [][\A u \in Users :
       /\ req[u] # NULL /\ req'[u] = NULL
       /\ req[u] = [dflt |-> dflt[u], cur |-> sess[u]]
       => Settled(u)']_vars
=============================================================================
