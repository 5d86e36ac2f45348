---------------------------- MODULE Notifications ----------------------------
(***************************************************************************)
(* Notifications of one organisation.  dispatch_routed sends an event to    *)
(* the channels of the organisation and of its users, leaves a row in the   *)
(* inbox of every user and one delivery log per channel.  The digest worker *)
(* (cron, run_once) retries failed deliveries and deletes old snoozes once  *)
(* it has sent the digests (DigestWorker).  Administrators change           *)
(* integrations, policy, snoozes and destinations meanwhile.                *)
(*                                                                          *)
(* notification_delivery_logs has a unique index on provider, target and    *)
(* dedupe key, and the dedupe key holds no time: a channel has one row per  *)
(* kind of event for ever, and a second insert rolls the session back.      *)
(***************************************************************************)
EXTENDS Naturals

CONSTANTS NULL,
          Providers,      \* of ADAPTER_REGISTRY
          Direct,         \* those whose send_direct is implemented
          Users, role,    \* members and their roles
          Workers,        \* runs of run_digest_worker that may overlap
          Events,         \* what dispatch_routed may be given
          Policies, Prefs,
          integ0, dest0, snoozes0,  \* integrations, destinations and snoozes to begin with
          MAX_RETRIES,
          MaxEvents,      \* bounds: events,
          MaxDisturbances \* changes by users and administrators, crashes, failed commits

Kinds == {e.type : e \in Events}      \* type and title; the titles are fixed but for alerts
Keys == Providers \X (Users \cup {"org"}) \X Kinds

\* notification_delivery_logs: the columns the dispatch and the retries use, the number
\* of the event, and how often the message was handed to the provider
LogRow == [route : {"org_channel", "direct_user", "fallback_org"},
           status : {"delivered", "failed", "rate_limited", "permanently_failed"},
           retries : Nat, next : {NULL, "waiting", "due"}, no : Nat, attempts : Nat]

ASSUME NotificationsAssumption ==
  /\ Direct \subseteq Providers /\ integ0 \subseteq Providers
  /\ role \in [Users -> {"org_admin", "admin", "approver", "viewer"}]
  /\ NULL \notin Providers \cup Users \cup LogRow /\ "org" \notin Users
  /\ \A e \in Events :
       /\ e.type \in {"top_actions", "approval_pending", "execution_failed", "critical_alert"}
       /\ e.priority \in {"low", "medium", "high"}
       /\ e.related \subseteq Users /\ e.targets \subseteq Users
  /\ MAX_RETRIES \in Nat \ {0}
  /\ {MaxEvents, MaxDisturbances} \subseteq Nat

VARIABLES integ,    \* org_integrations: the enabled providers
          policy,   \* notification_policies
          snoozes,  \* notification_snoozes: [key, who, live]
          dest,     \* user_notification_destinations by user, or NULL
          logs,     \* notification_delivery_logs by key, or NULL
          age,      \* of the rows of an event: minute, window (the policy's) or old
          inbox,    \* notifications by user and event number
          disp,     \* the request running dispatch_routed
          work,     \* the passes of the digest worker
          events, changes, crashes

config == <<integ, policy, snoozes, dest>>
bounds == <<events, changes, crashes>>
vars == <<config, logs, age, inbox, disp, work, bounds>>

NoRow == "none"
\* made: the users an inbox row was created for; note: the row of the current user;
\* pend: log rows flushed and not committed; sent: sent_keys; swept: the users whose
\* inbox row a failed commit took
Resting == [pc |-> "idle", ev |-> NULL, no |-> 0, org |-> FALSE, provs |-> {}, left |-> {},
            users |-> {}, some |-> FALSE, cur |-> NULL, note |-> NoRow, notes |-> {},
            pend |-> <<>>, sent |-> {}, count |-> <<>>, made |-> {}, swept |-> {}]
Asleep == [pc |-> "idle", left |-> {}, rows |-> <<>>, cur |-> NULL]

------------------------------------------------------------------------------
(* pure parts *)

passes_priority_filter(p, prio) ==
  LET rank == [low |-> 0, medium |-> 1, high |-> 2] IN rank[prio] >= rank[p.min_priority]

passes_event_filter(p, type) == p.enabled_event_types = {} \/ type \in p.enabled_event_types

is_snoozed(key) == \E s \in snoozes : s.key = key /\ s.who = NULL /\ s.live

approver_audience == {u \in Users : role[u] \in {"org_admin", "admin", "approver"}}
executor_audience == {u \in Users : role[u] \in {"org_admin", "admin"}}

\* related: the users the payload names
resolve_routing(e) ==
  LET named == IF e.related # {} THEN e.related ELSE approver_audience
      base  == CASE e.type = "top_actions"      -> [org |-> TRUE, users |-> {}]
                 [] e.type = "approval_pending" -> [org |-> FALSE, users |-> named]
                 [] e.type = "execution_failed" -> [org |-> FALSE, users |-> e.related]
                 [] e.type = "critical_alert"   -> [org |-> TRUE, users |-> named]
      explicit == IF e.target = "user" THEN [org |-> FALSE, users |-> e.targets]
                  ELSE [org |-> base.org, users |-> base.users \cup e.targets]
  IN  CASE e.priority = "high"   -> [org |-> TRUE, users |-> explicit.users]
        [] e.priority = "medium" -> [org |-> FALSE, users |-> explicit.users]
        [] e.priority = "low"    -> [org |-> TRUE, users |-> {}]

\* in_quiet_hours_utc is the field quiet
allows_event(d, type) ==
  /\ d # NULL
  /\ d.notifications_enabled /\ d.receive_direct_notifications /\ ~d.quiet
  /\ type = "approval_pending" => d.receive_approvals
  /\ type = "execution_failed" => d.receive_failures


------------------------------------------------------------------------------
(* dispatch_routed *)

Key(p, t) == <<p, t, disp.ev.type>>
\* rows of the own transaction are seen
Row(k) == IF k \in DOMAIN disp.pend THEN disp.pend[k] ELSE logs[k]
_is_rate_limited(k, ages) == Row(k) # NULL /\ age[Row(k).no] \in ages

NewRow(route, status, next) ==
  [route |-> route, status |-> status, retries |-> 0, next |-> next,
   no |-> disp.no, attempts |-> 1]

\* f with v at k, and f where g has nothing newer
Put(f, k, v) == [x \in {k} \cup DOMAIN f |-> IF x = k THEN v ELSE f[x]]
Over(g, f) == [x \in DOMAIN g \cup DOMAIN f |-> IF x \in DOMAIN g THEN g[x] ELSE f[x]]

Counted(d, k) == [d EXCEPT !.count = Put(@, k, 1 + IF k \in DOMAIN @ THEN @[k] ELSE 0)]

\* the rows of the transaction join those that are durable, base; note that of the
\* current user is one of them
Durable(d, base) ==
  [logs |-> Over(d.pend, base),
   notes |-> d.notes \cup (IF d.note \in {"new", "flushed"} THEN {d.cur} ELSE {}),
   d |-> [d EXCEPT !.pend = <<>>, !.notes = {},
                   !.note = IF @ \in {"new", "flushed"} THEN "kept" ELSE @]]

\* drawn: the failed flush had inserted the inbox row first, so that its key is known
Rollback(d, drawn) ==
  [d EXCEPT !.pend = <<>>, !.notes = {},
            !.note = CASE @ = "flushed" \/ (@ = "new" /\ drawn) -> "lost"
                       [] @ = "new" /\ ~drawn -> "gone"
                       [] OTHER -> @]

\* _record_delivery: a commit that fails is rolled back, and the dispatch goes on
_record_delivery(d, base, committed, drawn) ==
  LET c == Durable(d, base)
  IN  IF committed THEN c
      ELSE [logs |-> base, notes |-> {}, d |-> [Rollback(d, drawn) EXCEPT !.swept = @ \cup c.notes]]

\* _log_delivery: the flush fails on the unique index, or when the row refers to an
\* inbox row that was rolled back after its key was drawn, and then rolls back all
_log_delivery(d, base, k, row, refers, drawn) ==
  IF base[k] # NULL \/ k \in DOMAIN d.pend \/ (refers /\ d.note = "lost") THEN Rollback(d, drawn)
  ELSE [d EXCEPT !.pend = Put(@, k, row), !.note = IF @ = "new" THEN "flushed" ELSE @]

\* a failure of _record_delivery's commit is counted with the changes
Commits(committed) ==
  /\ committed \/ changes + crashes < MaxDisturbances
  /\ changes' = IF committed THEN changes ELSE changes + 1

Receive(notes) ==
  inbox' = [u \in Users |-> IF u \in notes THEN [inbox[u] EXCEPT ![disp.no] = "unread"] ELSE inbox[u]]

\* The gate, the routing and the integrations, read once
dispatch_routed(e) ==
  /\ disp.pc = "idle" /\ events < MaxEvents
  /\ events' = events + 1
  /\ LET r == resolve_routing(e)
         dropped == \/ ~passes_priority_filter(policy, e.priority)
                    \/ ~passes_event_filter(policy, e.type)
                    \/ is_snoozed(e.type)
     IN  /\ age' = [age EXCEPT ![events'] = IF dropped THEN "old" ELSE "minute"]
         /\ disp' = IF dropped THEN Resting
                    ELSE [Resting EXCEPT !.pc = "org", !.ev = e, !.no = events', !.org = r.org,
                                         !.provs = integ, !.left = IF r.org THEN integ ELSE {},
                                         !.users = r.users, !.some = r.users # {}]
  /\ UNCHANGED <<config, logs, inbox, work, changes, crashes>>

\* One provider of the organisation: a throttled event is logged, which the unique
\* index refuses; _send_one sends and records; a failure is scheduled for retry
org_send ==
  /\ disp.pc = "org"
  /\ \E p \in disp.left :
       LET k == Key(p, "org")
           d == [disp EXCEPT !.left = @ \ {p}]
       IN  IF _is_rate_limited(k, {"minute", "window"})
           THEN /\ disp' = _log_delivery(d, logs, k, NewRow("org_channel", "rate_limited", NULL), FALSE, FALSE)
                /\ UNCHANGED <<logs, inbox, changes>>
           ELSE \E ok \in BOOLEAN, committed \in BOOLEAN :
                  LET c == _record_delivery(Counted([d EXCEPT !.sent = @ \cup {k}], k), logs, committed, FALSE)
                      l == _log_delivery(c.d, c.logs, k,
                             NewRow("org_channel", IF ok THEN "delivered" ELSE "failed",
                                    IF ok THEN NULL ELSE "waiting"), FALSE, FALSE)
                      scheduled == ~ok /\ k \in DOMAIN l.pend
                  IN  /\ disp' = IF scheduled THEN Durable(l, c.logs).d ELSE l
                      /\ logs' = IF scheduled THEN Durable(l, c.logs).logs ELSE c.logs
                      /\ Receive(c.notes)
                      /\ Commits(committed)
  /\ UNCHANGED <<age, config, work, events, crashes>>

\* The next user: a row for the inbox is added to the session
open_user ==
  /\ disp.pc \in {"org", "user"} /\ disp.left = {}
  /\ \E u \in disp.users :
       disp' = IF allows_event(dest[u], disp.ev.type)
               THEN [disp EXCEPT !.pc = "user", !.users = @ \ {u}, !.left = disp.provs, !.cur = u,
                                 !.notes = @ \cup (IF disp.note \in {"new", "flushed"} THEN {disp.cur} ELSE {}),
                                 !.note = "new", !.made = @ \cup {u}]
               ELSE [disp EXCEPT !.users = @ \ {u}]
  /\ UNCHANGED <<age, config, logs, inbox, work, bounds>>

\* mutant: the fallback does not enter sent_keys
MutantFallback(d, k) == d

Fallback(d, k) == [d EXCEPT !.sent = @ \cup {k}]

\* One provider of the user: directly where an adapter and a mapping exist, else once
\* to the organisation's channel, whose throttle is the default of a minute
user_send ==
  /\ disp.pc = "user"
  /\ \E p \in disp.left, ok \in BOOLEAN, fb_ok \in BOOLEAN, committed \in BOOLEAN, drawn \in BOOLEAN :
       LET k == Key(p, disp.cur)
           fb_key == Key(p, "org")
           d == [disp EXCEPT !.left = @ \ {p}]
           reachable == p \in Direct /\ p \in dest[disp.cur].mapped
           falls_back == ~ok /\ ~disp.org /\ fb_key \notin disp.sent /\ ~_is_rate_limited(fb_key, {"minute"})
           c == _record_delivery(Counted(Fallback(d, fb_key), fb_key), logs, committed, drawn)
           f == _log_delivery(c.d, c.logs, fb_key,
                  NewRow("fallback_org", IF fb_ok THEN "delivered" ELSE "failed", NULL), FALSE, drawn)
           row == NewRow("direct_user", IF ok THEN "delivered" ELSE "failed", NULL)
           limited == _is_rate_limited(k, {"minute", "window"})
       IN  \/ /\ limited
              /\ disp' = _log_delivery(d, logs, k, NewRow("direct_user", "rate_limited", NULL), TRUE, drawn)
              /\ UNCHANGED <<logs, inbox, changes>>
           \/ /\ ~limited /\ falls_back
              /\ disp' = _log_delivery(f, c.logs, k, row, TRUE, drawn)
              /\ logs' = c.logs
              /\ Receive(c.notes)
              /\ Commits(committed)
           \/ /\ ~limited /\ ~falls_back /\ (ok => reachable)
              /\ disp' = _log_delivery(IF ok THEN Counted([d EXCEPT !.sent = @ \cup {k}], k) ELSE d,
                                       logs, k, row, TRUE, drawn)
              /\ UNCHANGED <<logs, inbox, changes>>
  /\ UNCHANGED <<age, config, work, events, crashes>>

\* mutant: no commit after the users
MutantFinish ==
  /\ disp.pc \in {"org", "user"} /\ disp.left = {} /\ disp.users = {}
  /\ \E committed \in BOOLEAN :
       /\ LET c == Durable(disp, logs)
          IN  /\ logs' = IF committed THEN c.logs ELSE logs
              /\ Receive(IF committed THEN c.notes ELSE {})
       /\ disp' = [Resting EXCEPT !.no = disp.no, !.ev = disp.ev, !.made = disp.made, !.swept = disp.swept]
  /\ UNCHANGED <<age, config, work, bounds>>

\* The last commit is made only for an event with users; the caller may commit or not
finish ==
  /\ disp.pc \in {"org", "user"} /\ disp.left = {} /\ disp.users = {}
  /\ \E committed \in BOOLEAN :
       /\ disp.some => committed
       /\ LET c == Durable(disp, logs)
          IN  /\ logs' = IF committed THEN c.logs ELSE logs
              /\ Receive(IF committed THEN c.notes ELSE {})
       /\ disp' = [Resting EXCEPT !.no = disp.no, !.ev = disp.ev, !.made = disp.made, !.swept = disp.swept]
  /\ UNCHANGED <<age, config, work, bounds>>

------------------------------------------------------------------------------
(* the digest worker, after the digests: run_pending_retries, expire_old_snoozes *)

\* mutant: the retry to come is counted
MutantRetryable(r) == r # NULL /\ r.status = "failed" /\ r.next = "due" /\ r.retries + 1 < MAX_RETRIES

Retryable(r) == r # NULL /\ r.status = "failed" /\ r.next = "due" /\ r.retries < MAX_RETRIES

\* the rows of one pass; a pass that finds nothing to do is left out
get_retryable_logs(w) ==
  /\ work[w].pc = "idle"
  /\ LET ks == {k \in Keys : Retryable(logs[k])}
     IN  /\ ks # {} \/ \E s \in snoozes : ~s.live
         /\ work' = [work EXCEPT ![w].pc = "retry", ![w].left = ks, ![w].rows = [k \in ks |-> logs[k]]]
  /\ UNCHANGED <<age, config, logs, inbox, disp, bounds>>

\* execute_retry up to the send: nothing of it is committed yet
execute_retry(w) ==
  /\ work[w].pc = "retry"
  /\ \E k \in work[w].left :
       IF k[1] \in integ
       THEN /\ logs' = [logs EXCEPT ![k].attempts = @ + 1]
            /\ work' = [work EXCEPT ![w].pc = "result", ![w].left = @ \ {k}, ![w].cur = k]
       ELSE /\ logs' = [logs EXCEPT ![k].status = "permanently_failed", ![k].next = NULL]
            /\ work' = [work EXCEPT ![w].left = @ \ {k}]
  /\ UNCHANGED <<age, config, inbox, disp, bounds>>

\* mutant: the count is not incremented
MutantRetryResult(w) ==
  /\ work[w].pc = "result"
  /\ LET k == work[w].cur
         n == work[w].rows[k].retries
     IN  \E ok \in BOOLEAN :
           logs' = [logs EXCEPT ![k].retries = n,
                      ![k].status = IF ok THEN "delivered" ELSE IF n < MAX_RETRIES THEN "failed" ELSE "permanently_failed",
                      ![k].next = IF ~ok /\ n < MAX_RETRIES THEN "waiting" ELSE NULL]
  /\ work' = [work EXCEPT ![w].pc = "retry", ![w].cur = NULL]
  /\ UNCHANGED <<age, config, inbox, disp, bounds>>

\* and its commit: the count is the one that was loaded, plus one
RetryResult(w) ==
  /\ work[w].pc = "result"
  /\ LET k == work[w].cur
         n == work[w].rows[k].retries + 1
     IN  \E ok \in BOOLEAN :
           logs' = [logs EXCEPT ![k].retries = n,
                      ![k].status = IF ok THEN "delivered" ELSE IF n < MAX_RETRIES THEN "failed" ELSE "permanently_failed",
                      ![k].next = IF ~ok /\ n < MAX_RETRIES THEN "waiting" ELSE NULL]
  /\ work' = [work EXCEPT ![w].pc = "retry", ![w].cur = NULL]
  /\ UNCHANGED <<age, config, inbox, disp, bounds>>

expire_old_snoozes(w) ==
  /\ work[w].pc = "retry" /\ work[w].left = {}
  /\ snoozes' = {s \in snoozes : s.live}
  /\ work' = [work EXCEPT ![w] = Asleep]
  /\ UNCHANGED <<age, integ, policy, dest, logs, inbox, disp, bounds>>

------------------------------------------------------------------------------
(* the inbox *)

\* who is told in the application of what happened elsewhere
audience(type) ==
  CASE type = "sync_terminal"      -> Users
    [] type = "approval_required"  -> approver_audience
    [] type = "approval_completed" -> executor_audience
    [] type = "execution"          -> approver_audience \cup executor_audience

\* the submitter or a co-approver
told_alone == {{u} : u \in Users}

\* notify_*: one commit for all rows
emit_to_users ==
  /\ events < MaxEvents /\ events' = events + 1
  /\ changes + crashes < MaxDisturbances /\ changes' = changes + 1
  /\ \E users \in {audience(t) : t \in {"sync_terminal", "approval_required", "approval_completed", "execution"}}
                  \cup told_alone :
       inbox' = [u \in Users |-> IF u \in users THEN [inbox[u] EXCEPT ![events'] = "unread"] ELSE inbox[u]]
  /\ UNCHANGED <<age, config, logs, disp, work, crashes>>

Change == changes + crashes < MaxDisturbances /\ changes' = changes + 1 /\ UNCHANGED <<events, crashes>>

mark_notification_read(u, i) ==
  /\ Change /\ inbox[u][i] # NoRow
  /\ inbox' = [inbox EXCEPT ![u][i] = IF @ = "unread" THEN "read" ELSE @]
  /\ UNCHANGED <<age, config, logs, disp, work>>

mark_all_read(u) ==
  /\ Change
  /\ inbox' = [inbox EXCEPT ![u] = [i \in DOMAIN @ |-> IF @[i] = "unread" THEN "read" ELSE @[i]]]
  /\ UNCHANGED <<age, config, logs, disp, work>>

acknowledge_notification(u, i) ==
  /\ Change /\ inbox[u][i] # NoRow
  /\ inbox' = [inbox EXCEPT ![u][i] = "acknowledged"]
  /\ UNCHANGED <<age, config, logs, disp, work>>

------------------------------------------------------------------------------
(* administration *)

upsert_integration(p) ==
  /\ Change
  /\ \E is_enabled \in BOOLEAN : integ' = IF is_enabled THEN integ \cup {p} ELSE integ \ {p}
  /\ UNCHANGED <<age, policy, snoozes, dest, logs, inbox, disp, work>>

update_policy ==
  /\ Change
  /\ policy' \in Policies
  /\ UNCHANGED <<age, integ, snoozes, dest, logs, inbox, disp, work>>

create_snooze ==
  /\ Change
  /\ \E k \in Kinds, who \in Users \cup {NULL} : snoozes' = snoozes \cup {[key |-> k, who |-> who, live |-> TRUE]}
  /\ UNCHANGED <<age, integ, policy, dest, logs, inbox, disp, work>>

delete_snooze ==
  /\ Change
  /\ \E s \in snoozes : snoozes' = snoozes \ {s}
  /\ UNCHANGED <<age, integ, policy, dest, logs, inbox, disp, work>>

patch_destination(u) ==
  /\ Change
  /\ \E d \in Prefs : dest' = [dest EXCEPT ![u] = d]
  /\ UNCHANGED <<age, integ, policy, snoozes, logs, inbox, disp, work>>

------------------------------------------------------------------------------
(* time and failure *)

\* a minute or the throttle window passes
Elapse ==
  /\ \E old \in {{"minute"}, {"minute", "window"}} :
       age' = [i \in DOMAIN age |-> IF age[i] \in old THEN IF old = {"minute"} THEN "window" ELSE "old" ELSE age[i]]
  /\ UNCHANGED <<config, logs, inbox, disp, work, bounds>>

\* backoff_seconds have passed
BackoffEnds ==
  /\ \E k \in Keys : logs[k] # NULL /\ logs[k].next = "waiting" /\ logs' = [logs EXCEPT ![k].next = "due"]
  /\ UNCHANGED <<age, config, inbox, disp, work, bounds>>

\* the time of a snooze has come
SnoozeEnds ==
  /\ \E s \in snoozes : s.live /\ snoozes' = (snoozes \ {s}) \cup {[s EXCEPT !.live = FALSE]}
  /\ UNCHANGED <<age, integ, policy, dest, logs, inbox, disp, work, bounds>>

\* a process dies, or a commit whose failure nothing catches fails (schedule_retry, the
\* last one of dispatch_routed): what was not committed is gone
Crash ==
  /\ changes + crashes < MaxDisturbances /\ crashes' = crashes + 1
  /\ \/ disp.pc # "idle" /\ disp' = Resting /\ UNCHANGED work
     \/ \E w \in Workers : work[w].pc # "idle" /\ work' = [work EXCEPT ![w] = Asleep] /\ UNCHANGED disp
  /\ UNCHANGED <<age, config, logs, inbox, events, changes>>

------------------------------------------------------------------------------
DispatchStep == org_send \/ open_user \/ user_send \/ finish
WorkerStep(w) ==
  \/ get_retryable_logs(w) \/ execute_retry(w) \/ RetryResult(w) \/ expire_old_snoozes(w)
Admin ==
  \/ \E p \in Providers : upsert_integration(p)
  \/ update_policy \/ create_snooze \/ delete_snooze
  \/ \E u \in Users : patch_destination(u) \/ mark_all_read(u)
  \/ \E u \in Users, i \in 1 .. MaxEvents : mark_notification_read(u, i) \/ acknowledge_notification(u, i)

\* the policy of get_or_create_policy
Init ==
  /\ integ = integ0 /\ snoozes = snoozes0
  /\ policy = [min_priority |-> "low", enabled_event_types |-> {}]
  /\ dest = dest0
  /\ logs = [k \in Keys |-> NULL]
  /\ age = [i \in 1 .. MaxEvents |-> "old"]
  /\ inbox = [u \in Users |-> [i \in 1 .. MaxEvents |-> NoRow]]
  /\ disp = Resting /\ work = [w \in Workers |-> Asleep]
  /\ events = 0 /\ changes = 0 /\ crashes = 0

Next ==
  \/ \E e \in Events : dispatch_routed(e)
  \/ emit_to_users
  \/ DispatchStep
  \/ \E w \in Workers : WorkerStep(w)
  \/ Admin
  \/ Elapse \/ BackoffEnds \/ SnoozeEnds \/ Crash

\* cron starts the worker again and again, time passes, a request runs to its end
Fairness ==
  /\ WF_vars(DispatchStep)
  /\ \A w \in Workers : WF_vars(WorkerStep(w))
  /\ WF_vars(BackoffEnds)

Spec == Init /\ [][Next]_vars /\ Fairness
------------------------------------------------------------------------------
(* properties *)

\* Type correctness: a row with a retry in prospect has failed, belongs to the
\* organisation's channel and has retries left; only a running dispatch holds
\* uncommitted rows.
TypeOK ==
  /\ integ \subseteq Providers /\ dest \in [Users -> Prefs \cup {NULL}]
  /\ \A k \in Keys : logs[k] # NULL =>
       /\ logs[k].next # NULL => /\ logs[k].status = "failed" /\ logs[k].route = "org_channel"
                                /\ logs[k].retries < MAX_RETRIES
       /\ logs[k].status \in {"delivered", "failed", "permanently_failed"}
  /\ disp.pc = "idle" => disp.pend = <<>> /\ disp.note = NoRow
  /\ DOMAIN disp.pend \subseteq Keys

\* With one worker a delivery is tried 1 + MAX_RETRIES times, and once more for every
\* pass that died between a retry's send and its commit (execute_retry).
AttemptBound == \A k \in Keys : logs[k] # NULL => logs[k].attempts <= 1 + MAX_RETRIES + crashes

\* For one event a channel gets one message, whatever mix of organisation sends, direct
\* sends and fallbacks of several users leads to it (sent_keys).
OneCopyPerChannel == \A k \in DOMAIN disp.count : disp.count[k] <= 1

\* A user for whom dispatch_routed created an inbox row has it afterwards, unless the
\* row was pending when a commit failed (_record_delivery), or an earlier event of this
\* kind left a delivery log that rolled the session back (_log_delivery).
LostReceiptIsRepeat ==
  disp.pc = "idle" => \A u \in disp.made :
    \/ inbox[u][disp.no] # NoRow \/ u \in disp.swept
    \/ \E k \in Keys : k[3] = disp.ev.type /\ logs[k] # NULL /\ logs[k].no < disp.no

\* "in-app inbox trace notification (user-targeted event receipt)": a user for whom
\* dispatch_routed created an inbox row has it when the call returns.
InboxReceipt == disp.pc = "idle" => \A u \in disp.made : inbox[u][disp.no] # NoRow

\* A failed delivery that was scheduled for retry is delivered or given up.
RetriesSettle == []<>(\A k \in Keys : logs[k] = NULL \/ logs[k].next = NULL)
=============================================================================
