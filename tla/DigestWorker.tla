---------------------------- MODULE DigestWorker ----------------------------
(***************************************************************************)
(* The digest schedule of one organisation and the worker that cron starts  *)
(* every minute: run_once reads the due schedule, sends the digest to every  *)
(* enabled integration, one after the other, and then writes the next time.  *)
(* Its second half, the retries, is in Notifications.                        *)
(***************************************************************************)
EXTENDS Naturals, FiniteSets

CONSTANTS NULL,
          Providers,
          Workers,        \* runs of run_digest_worker that may overlap
          Schedules,      \* what an administrator may set
          TicksPerDay, DaysPerWeek,
          MaxTime, MaxChanges, MaxCrashes    \* bounds

Slots == 0 .. (MaxTime + TicksPerDay * DaysPerWeek)

ASSUME DigestAssumption ==
  /\ NULL \notin Schedules
  /\ {TicksPerDay, DaysPerWeek} \subseteq Nat \ {0}
  /\ Schedules \subseteq [frequency : {"daily", "weekly"}, time_of_day : 0 .. (TicksPerDay - 1),
                         day_of_week : 0 .. (DaysPerWeek - 1)]
  /\ {MaxTime, MaxChanges, MaxCrashes} \subseteq Nat

VARIABLES integ,    \* org_integrations: the enabled providers
          sched,    \* notification_schedules: configuration, is_enabled, next_run_at
          work,     \* the passes of the worker, with the schedule they loaded
          digests,  \* digests sent by provider and due time (history)
          now, changes, crashes

vars == <<integ, sched, work, digests, now, changes, crashes>>

Asleep == [pc |-> "idle", conf |-> NULL, slot |-> 0, left |-> {}]

\* mutant: < in place of <=
MutantNextRun(c, t) ==
  LET day  == t \div TicksPerDay
      base == day * TicksPerDay + c.time_of_day
      ahead == (c.day_of_week + DaysPerWeek - (day % DaysPerWeek)) % DaysPerWeek
  IN  IF c.frequency = "daily" THEN IF base < t THEN base + TicksPerDay ELSE base
      ELSE base + TicksPerDay * (IF ahead = 0 /\ base < t THEN DaysPerWeek ELSE ahead)

\* the next time of day after t, on the day of the week for a weekly schedule
compute_next_run(c, t) ==
  LET day  == t \div TicksPerDay
      base == day * TicksPerDay + c.time_of_day
      ahead == (c.day_of_week + DaysPerWeek - (day % DaysPerWeek)) % DaysPerWeek
  IN  IF c.frequency = "daily" THEN IF base <= t THEN base + TicksPerDay ELSE base
      ELSE base + TicksPerDay * (IF ahead = 0 /\ base <= t THEN DaysPerWeek ELSE ahead)

------------------------------------------------------------------------------
(* the digest worker: run_once *)

\* run_due_digests; without a due schedule or items to send there is nothing to do
due == sched.is_enabled /\ sched.next_run_at # NULL /\ sched.next_run_at <= now

run_once(w) ==
  /\ work[w].pc = "idle" /\ due
  /\ work' = [work EXCEPT ![w] = [Asleep EXCEPT !.pc = "digest", !.conf = sched.conf, !.slot = sched.next_run_at]]
  /\ UNCHANGED <<integ, sched, digests, now, changes, crashes>>

\* _send_digest_for_org: the enabled integrations, unless there are no items
_send_digest_for_org(w) ==
  /\ work[w].pc = "digest"
  /\ \E items \in BOOLEAN :
       work' = [work EXCEPT ![w].pc = "send", ![w].left = IF items THEN integ ELSE {}]
  /\ UNCHANGED <<integ, sched, digests, now, changes, crashes>>

\* a digest that fails is not tried again
dispatch_single(w) ==
  /\ work[w].pc = "send"
  /\ \E p \in work[w].left :
       /\ digests' = [digests EXCEPT ![p][work[w].slot] = @ + 1]
       /\ work' = [work EXCEPT ![w].left = @ \ {p}]
  /\ UNCHANGED <<integ, sched, now, changes, crashes>>

\* mutant: the next time is left as it is when there was nothing to send
MutantMarkRun(w) ==
  /\ work[w].pc = "send" /\ work[w].left = {}
  /\ sched' = [sched EXCEPT !.next_run_at = IF integ = {} THEN @ ELSE compute_next_run(work[w].conf, now)]
  /\ work' = [work EXCEPT ![w] = Asleep]
  /\ UNCHANGED <<integ, digests, now, changes, crashes>>

\* mark_run computes the next time from the configuration it loaded
mark_run(w) ==
  /\ work[w].pc = "send" /\ work[w].left = {}
  /\ sched' = [sched EXCEPT !.next_run_at = compute_next_run(work[w].conf, now)]
  /\ work' = [work EXCEPT ![w] = Asleep]
  /\ UNCHANGED <<integ, digests, now, changes, crashes>>

Change == changes < MaxChanges /\ changes' = changes + 1 /\ UNCHANGED <<work, digests, now, crashes>>

upsert_schedule ==
  /\ Change
  /\ \E c \in Schedules, is_enabled \in BOOLEAN :
       sched' = [conf |-> c, is_enabled |-> is_enabled, next_run_at |-> compute_next_run(c, now)]
  /\ UNCHANGED integ

upsert_integration(p) ==
  /\ Change
  /\ \E is_enabled \in BOOLEAN : integ' = IF is_enabled THEN integ \cup {p} ELSE integ \ {p}
  /\ UNCHANGED sched

Tick == now < MaxTime /\ now' = now + 1 /\ UNCHANGED <<integ, sched, work, digests, changes, crashes>>

\* a pass dies: the digests it sent are not recorded anywhere
Crash(w) ==
  /\ crashes < MaxCrashes /\ crashes' = crashes + 1
  /\ work[w].pc # "idle" /\ work' = [work EXCEPT ![w] = Asleep]
  /\ UNCHANGED <<integ, sched, digests, now, changes>>

------------------------------------------------------------------------------
Pass(w) == run_once(w) \/ _send_digest_for_org(w) \/ dispatch_single(w) \/ mark_run(w)

Init ==
  /\ integ = Providers
  /\ \E c \in Schedules : sched = [conf |-> c, is_enabled |-> TRUE, next_run_at |-> compute_next_run(c, 0)]
  /\ work = [w \in Workers |-> Asleep]
  /\ digests = [p \in Providers |-> [s \in Slots |-> 0]]
  /\ now = 0 /\ changes = 0 /\ crashes = 0

Next ==
  \/ \E w \in Workers : Pass(w) \/ Crash(w)
  \/ upsert_schedule \/ \E p \in Providers : upsert_integration(p)
  \/ Tick

\* cron starts the worker again and again
Fairness == \A w \in Workers : WF_vars(Pass(w))

Spec == Init /\ [][Next]_vars /\ Fairness
------------------------------------------------------------------------------
(* properties *)

\* Type correctness: a pass that has begun holds the schedule it read, and its due
\* time has come.
TypeOK ==
  /\ integ \subseteq Providers
  /\ sched \in [conf : Schedules, is_enabled : BOOLEAN, next_run_at : Slots]
  /\ \A w \in Workers :
       /\ work[w].pc \in {"idle", "digest", "send"} /\ work[w].left \subseteq Providers
       /\ (work[w].pc = "idle") = (work[w].conf = NULL)
       /\ work[w].slot \in Slots /\ work[w].slot <= now
  /\ digests \in [Providers -> [Slots -> Nat]]
  /\ now \in 0 .. MaxTime /\ changes \in 0 .. MaxChanges /\ crashes \in 0 .. MaxCrashes

\* With one worker a digest goes to a provider once for a due time, and once more for
\* every pass that died between the send and mark_run: the next time that
\* compute_next_run returns is later than the one it was sent for, whatever the
\* administrator changes during the pass.
DigestBound == \A p \in Providers, s \in Slots : digests[p][s] <= 1 + crashes

\* "Safe to call concurrently since it uses `last_run_at` + `next_run_at` to avoid
\* duplicate sends": no provider gets the digest of a due time twice.
DigestOnce == \A p \in Providers, s \in Slots : digests[p][s] <= 1

\* A due digest is sent or switched off: the schedule does not stay due.
DueIsServed == []<>~due
=============================================================================
