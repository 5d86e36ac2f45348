------------------------------- MODULE CostSync -------------------------------
(***************************************************************************)
(* Cost snapshots: every live call of Cost Explorer is paid, so a sync asks *)
(* a quota before each one, takes a row of cost_fetch_locks for it, logs it *)
(* and stores one snapshot per account and day.  A sync is one database     *)
(* transaction: what it wrote is seen by others only after the caller's     *)
(* commit, and PostgreSQL makes a second writer of the same lock row wait   *)
(* for the end of the first one's transaction.                              *)
(***************************************************************************)
EXTENDS Naturals, Sequences, FiniteSets, FiniteSetsExt, Functions

CONSTANTS NULL,
          Accounts,               \* cloud accounts of one organisation
          Users,                  \* API requests of start_cost_sync
          Jobs,                   \* workers running cost_refresh and cost_sync jobs
          Scripts,                \* cron starts of cost_sync_daily
          Synced,                 \* those that were synced the day before
          max_calls_per_day,      \* CostSyncPolicy: by account (get_effective_policy)
          max_calls_per_org_day,
          max_calls_per_job,
          TicksPerDay, StaleAfter,  \* stale_after_minutes in ticks of the clock
          MaxTime, MaxSyncs, MaxCrashes   \* bounds

Procs == Users \cup Jobs \cup Scripts

ASSUME CostAssumption ==
  /\ Accounts # {} /\ IsFiniteSet(Accounts) /\ Synced \subseteq Accounts
  /\ NULL \notin Accounts \cup Nat \cup {"released", "held", "orphan"}
  /\ Users \cap Jobs = {} /\ (Users \cup Jobs) \cap Scripts = {}
  /\ Procs # {} /\ IsFiniteSet(Procs)
  /\ max_calls_per_day \in [Accounts -> Nat]
  /\ {max_calls_per_org_day, max_calls_per_job, StaleAfter} \subseteq Nat
  /\ TicksPerDay \in Nat \ {0}
  /\ {MaxTime, MaxSyncs, MaxCrashes} \subseteq Nat

VARIABLES sess,      \* the running sync of every process, with its uncommitted rows
          lock,      \* cost_fetch_locks by signature: NULL, "released" or "held"
          usage,     \* cost_api_usage_log: committed live calls by account and day
          snaps,     \* cost_snapshots: [acct, day, updated]
          queue,     \* accounts that a script has still to sync
          lockfile,  \* the script that created the lock file, "orphan" if it died, or NULL
          now, syncs, crashes

vars == <<sess, lock, usage, snaps, queue, lockfile, now, syncs, crashes>>

\* the three calls of a sync; the signature of one is its name and the account's role
Order == <<"summary", "daily_by_service", "ec2_other">>
Apis == {"summary", "daily_by_service", "ec2_other"}
Sigs == Apis \X Accounts

Today == now \div TicksPerDay
Days == 0 .. (MaxTime \div TicksPerDay)

\* calls: days of the uncommitted usage rows; held: the lock rows written; saw: the
\* lock row read by acquire_fetch_lock; stored: the day of the snapshot it wrote
Idle == [pc |-> "idle", acct |-> NULL, had |-> FALSE, k |-> 1, saw |-> NULL,
         calls |-> <<>>, held |-> {}, stored |-> NULL]

Sig(p) == <<Order[sess[p].k], sess[p].acct>>

latest(a) ==
  LET of == {s \in snaps : s.acct = a}
  IN  IF of = {} THEN NULL ELSE CHOOSE s \in of : \A t \in of : t.day <= s.day

is_stale(s) == now >= s.updated + StaleAfter

Set(p, new) == sess' = [sess EXCEPT ![p] = new]

------------------------------------------------------------------------------
(* sync_cost_snapshot *)

\* assert_force_refresh_allowed for a role, platform roots and the system included
assert_force_refresh_allowed(role, allow_admin) ==
  role \in {"org_admin", "root", "system"} \/ (role = "admin" /\ allow_admin)

\* up to the first live call: a forbidden refresh is an error, a fresh snapshot is served unless a refresh is forced
begin(p, a, force, allowed) ==
  /\ syncs < MaxSyncs /\ syncs' = syncs + 1
  /\ LET s == latest(a)
         had == s # NULL
         served == had /\ ~force /\ ~is_stale(s)
     IN  Set(p, IF (force /\ ~allowed) \/ served THEN Idle
                ELSE [Idle EXCEPT !.pc = "guard", !.acct = a, !.had = had])
  /\ UNCHANGED <<lock, usage, snaps, lockfile, now, crashes>>

\* start_cost_sync: the policy decides whether an admin may force a refresh
start_cost_sync(u) ==
  /\ sess[u].pc = "idle"
  /\ \E a \in Accounts, force \in BOOLEAN, role \in {"org_admin", "admin"}, allow_admin \in BOOLEAN :
       begin(u, a, force, assert_force_refresh_allowed(role, allow_admin))
  /\ UNCHANGED queue

\* cost_refresh forces, cost_sync does not
run_cost_job(j) ==
  /\ sess[j].pc = "idle"
  /\ \E a \in Accounts, force \in BOOLEAN : begin(j, a, force, assert_force_refresh_allowed("system", FALSE))
  /\ UNCHANGED queue

\* committed rows and those of the own transaction
Seen(p, a, d) ==
  usage[a][d] + IF a = sess[p].acct THEN Cardinality({i \in DOMAIN sess[p].calls : sess[p].calls[i] = d}) ELSE 0

\* mutant: > in place of >=
MutantAllowed(p) ==
  /\ SumFunction([a \in Accounts |-> Seen(p, a, Today)]) < max_calls_per_org_day
  /\ Seen(p, sess[p].acct, Today) <= max_calls_per_day[sess[p].acct]
  /\ p \in Jobs => Len(sess[p].calls) < max_calls_per_job

\* mutant: the organisation's quota is not asked
MutantOrgBlind(p) ==
  /\ Seen(p, sess[p].acct, Today) < max_calls_per_day[sess[p].acct]
  /\ p \in Jobs => Len(sess[p].calls) < max_calls_per_job

live_call_allowed(p) ==
  /\ SumFunction([a \in Accounts |-> Seen(p, a, Today)]) < max_calls_per_org_day
  /\ Seen(p, sess[p].acct, Today) < max_calls_per_day[sess[p].acct]
  /\ p \in Jobs => Len(sess[p].calls) < max_calls_per_job

\* mutant: a stale snapshot is not served
MutantBlocked(p) ==
  Set(p, [sess[p] EXCEPT !.pc = IF sess[p].had /\ ~is_stale(latest(sess[p].acct)) THEN "commit" ELSE "rollback"])

\* Any exception ends in the last known snapshot and the caller's commit, or, when
\* there is none, in the caller's rollback
Blocked(p) == Set(p, [sess[p] EXCEPT !.pc = IF sess[p].had THEN "commit" ELSE "rollback"])

Same == UNCHANGED <<lock, usage, snaps, queue, lockfile, now, syncs, crashes>>

guard(p) ==
  /\ sess[p].pc = "guard"
  /\ IF live_call_allowed(p) THEN Set(p, [sess[p] EXCEPT !.pc = "read_lock"]) ELSE Blocked(p)
  /\ Same

\* acquire_fetch_lock, its query: a lock that has not expired blocks the call
read_lock(p) ==
  /\ sess[p].pc = "read_lock"
  /\ IF lock[Sig(p)] = "held" THEN Blocked(p)
     ELSE Set(p, [sess[p] EXCEPT !.pc = "write_lock", !.saw = lock[Sig(p)]])
  /\ Same

Waits(p) == \E q \in Procs \ {p} : Sig(p) \in sess[q].held

\* mutant: no flush, so that the row is written with the commit and nobody waits
MutantWriteLock(p) ==
  /\ sess[p].pc = "write_lock"
  /\ Set(p, [sess[p] EXCEPT !.pc = "live", !.held = @ \cup {Sig(p)}])
  /\ Same

\* its flush: waits for the transaction that has written the row.  An insert finds
\* the unique index violated when that one committed; the failed flush leaves a
\* session that cannot commit, so the caller rolls back even with a snapshot
write_lock(p) ==
  /\ sess[p].pc = "write_lock" /\ ~Waits(p)
  /\ Set(p, IF sess[p].saw = NULL /\ lock[Sig(p)] # NULL
            THEN [sess[p] EXCEPT !.pc = "rollback"]
            ELSE [sess[p] EXCEPT !.pc = "live", !.held = @ \cup {Sig(p)}])
  /\ Same

\* the call is answered and logged; the finally clause releases the lock row
fetched(p) ==
  /\ sess[p].pc = "live"
  /\ LET last == sess[p].k = Len(Order)
     IN  Set(p, [sess[p] EXCEPT !.calls = Append(@, Today), !.k = IF last THEN @ ELSE @ + 1,
                                !.pc = IF last THEN "store" ELSE "guard"])
  /\ Same

\* mutant: a failed call is tried again
MutantFetchFails(p) ==
  /\ sess[p].pc = "live"
  /\ Set(p, [sess[p] EXCEPT !.pc = "guard"])
  /\ Same

\* the call fails and is not logged
fetch_fails(p) ==
  /\ sess[p].pc = "live"
  /\ Blocked(p)
  /\ Same

\* upsert_snapshot
upsert_snapshot(p) ==
  /\ sess[p].pc = "store"
  /\ Set(p, [sess[p] EXCEPT !.pc = "commit", !.stored = Today])
  /\ Same

------------------------------------------------------------------------------
(* the callers *)

\* release_fetch_lock has set locked_until to the time of the release
ReleasedLocks(p) == [s \in Sigs |-> IF s \in sess[p].held THEN "released" ELSE lock[s]]

commit(p) ==
  /\ sess[p].pc = "commit"
  /\ lock' = ReleasedLocks(p)
  /\ usage' = [usage EXCEPT ![sess[p].acct] =
                 [d \in Days |-> @[d] + Cardinality({i \in DOMAIN sess[p].calls : sess[p].calls[i] = d})]]
  /\ snaps' = IF sess[p].stored = NULL THEN snaps
              ELSE {s \in snaps : <<s.acct, s.day>> # <<sess[p].acct, sess[p].stored>>}
                   \cup {[acct |-> sess[p].acct, day |-> sess[p].stored, updated |-> now]}
  /\ Set(p, Idle)
  /\ UNCHANGED <<queue, lockfile, now, syncs, crashes>>

\* nothing of the transaction remains, the calls it paid for included
rollback(p) ==
  /\ sess[p].pc = "rollback"
  /\ Set(p, Idle)
  /\ Same

\* cost_sync_daily: the lock file of another start, dead or alive, ends this one
script_start(c) ==
  /\ sess[c].pc = "idle" /\ queue[c] = {} /\ lockfile = NULL
  /\ lockfile' = c
  /\ queue' = [queue EXCEPT ![c] = Accounts]
  /\ UNCHANGED <<sess, lock, usage, snaps, now, syncs, crashes>>

\* one account after the other, whatever became of the one before
script_account(c) ==
  /\ sess[c].pc = "idle"
  /\ \E a \in queue[c] :
       /\ begin(c, a, FALSE, TRUE)
       /\ queue' = [queue EXCEPT ![c] = @ \ {a}]

\* the finally clause removes the lock file
script_end(c) ==
  /\ lockfile = c /\ sess[c].pc = "idle" /\ queue[c] = {}
  /\ lockfile' = NULL
  /\ UNCHANGED <<sess, lock, usage, snaps, queue, now, syncs, crashes>>

\* The process dies: its transaction is gone, its lock file stays
Crash(p) ==
  /\ crashes < MaxCrashes
  /\ sess[p].pc # "idle" \/ lockfile = p
  /\ crashes' = crashes + 1
  /\ lockfile' = IF lockfile = p THEN "orphan" ELSE lockfile
  /\ Set(p, Idle)
  /\ queue' = [queue EXCEPT ![p] = {}]
  /\ UNCHANGED <<lock, usage, snaps, now, syncs>>

Tick == now < MaxTime /\ now' = now + 1 /\ UNCHANGED <<sess, lock, usage, snaps, queue, lockfile, syncs, crashes>>

------------------------------------------------------------------------------
SyncStep(p) ==
  \/ guard(p) \/ read_lock(p) \/ write_lock(p) \/ fetched(p) \/ fetch_fails(p)
  \/ upsert_snapshot(p) \/ commit(p) \/ rollback(p)

Init ==
  /\ sess = [p \in Procs |-> Idle]
  /\ lock = [s \in Sigs |-> IF s[2] \in Synced THEN "released" ELSE NULL]
  /\ usage = [a \in Accounts |-> [d \in Days |-> 0]]
  /\ snaps = {[acct |-> a, day |-> 0, updated |-> 0] : a \in Synced}
  /\ queue = [p \in Procs |-> {}]
  /\ lockfile = NULL
  /\ now = TicksPerDay /\ syncs = 0 /\ crashes = 0

Next ==
  \/ \E u \in Users : start_cost_sync(u)
  \/ \E j \in Jobs : run_cost_job(j)
  \/ \E c \in Scripts : script_start(c) \/ script_account(c) \/ script_end(c)
  \/ \E p \in Procs : SyncStep(p) \/ Crash(p)
  \/ Tick

\* A process that has work goes on; nothing is said of calls being started
Fairness == \A p \in Procs : WF_vars(SyncStep(p))

Spec == Init /\ [][Next]_vars /\ Fairness
------------------------------------------------------------------------------
(* properties *)

Total(d) == SumFunction([a \in Accounts |-> usage[a][d]])

\* Type correctness: a sync holds lock rows of its own account only, the calls it
\* logged are its lock rows but for one, and the lock file belongs to a script.
TypeOK ==
  /\ \A p \in Procs :
       LET s == sess[p]
       IN  /\ s.pc \in {"idle", "guard", "read_lock", "write_lock", "live", "store", "commit", "rollback"}
           /\ (s.pc = "idle") = (s.acct = NULL)
           /\ s.k \in 1 .. 3 /\ s.held \subseteq Sigs /\ \A h \in s.held : h[2] = s.acct
           /\ Len(s.calls) \in {Cardinality(s.held) - 1, Cardinality(s.held)}
           /\ s.stored # NULL => s.pc = "commit" /\ Len(s.calls) = 3
  /\ lock \in [Sigs -> {NULL, "released", "held"}]
  /\ lockfile \in Scripts \cup {NULL, "orphan"}
  /\ \A s, t \in snaps : s.acct = t.acct /\ s.day = t.day => s = t

\* Two syncs never fetch for one account at a time: the lock row of the first call,
\* flushed and not yet committed, holds the second sync up to the end of the first
\* one's transaction.  So no data is paid for twice at once, and the insert of the
\* day's snapshot never meets the unique index (acquire_fetch_lock, upsert_snapshot).
OneFetcher ==
  \A p, q \in Procs : p # q /\ sess[p].held # {} /\ sess[q].held # {} => sess[p].acct # sess[q].acct

\* The quota of an account holds up to one call per other process: one that waits at
\* its first lock has the quota behind it, and is refused the next call.
AccountQuota ==
  \A a \in Accounts, d \in Days : usage[a][d] <= max_calls_per_day[a] + Cardinality(Procs) - 1

\* The quota of the organisation holds up to a whole sync for every other account that
\* is synced at once, whose calls nobody else sees, and one call for each process that
\* waits at the lock of one of them.
OrgQuota ==
  LET atOnce == Min({Cardinality(Procs), Cardinality(Accounts)})
  IN  \A d \in Days :
        Total(d) <= max_calls_per_org_day + 3 * (atOnce - 1) + (Cardinality(Procs) - atOnce)

\* "Fail-safe: keep serving last known snapshot": a sync that found a snapshot does
\* not end in an error, whatever quota, lock or call failed.  It rests on the lock
\* rows: where there is a snapshot they exist, so no insert of one can fail.
FailSafe == \A p \in Procs : sess[p].pc = "rollback" => ~sess[p].had

\* Every sync comes to its end: nobody waits for a lock row of somebody who waits.
SyncsSettle == \A p \in Procs : []<>(sess[p].pc = "idle")
=============================================================================
