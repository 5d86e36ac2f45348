------------------------- MODULE DigestWorkerProofs -------------------------
(***************************************************************************)
(* DigestBound for one worker, any providers and schedules, any length of  *)
(* day and week, and any number of edits and crashes.                      *)
(*                                                                         *)
(* A digest that is still to be sent for a due time has been sent at most  *)
(* once per crash: that holds for the due time of the schedule (NextFresh)  *)
(* and, during a pass, for the providers that are left (LeftFresh).  What   *)
(* makes a due time fresh is that compute_next_run is later than now and    *)
(* that nothing was ever sent for a time to come (FutureUnsent).            *)
(***************************************************************************)
EXTENDS DigestWorker, TLAPS

Passes == [pc : {"idle", "digest", "send"}, conf : Schedules \cup {NULL}, slot : Slots, left : SUBSET Providers]

Types ==
  /\ integ \subseteq Providers
  /\ sched \in [conf : Schedules, is_enabled : BOOLEAN, next_run_at : Nat]
  /\ work \in [Workers -> Passes]
  /\ \A w \in Workers : work[w].pc # "idle" => work[w].conf \in Schedules /\ work[w].slot <= now
  /\ digests \in [Providers -> [Slots -> Nat]]
  /\ now \in 0 .. MaxTime /\ crashes \in Nat

FutureUnsent == \A p \in Providers, s \in Slots : s > now => digests[p][s] = 0

NextFresh ==
  (\A w \in Workers : work[w].pc # "idle" => work[w].slot # sched.next_run_at) =>
    \A p \in Providers, s \in Slots : s = sched.next_run_at => digests[p][s] <= crashes

LeftFresh ==
  \A w \in Workers : \A p \in Providers :
    (work[w].pc = "digest" \/ (work[w].pc = "send" /\ p \in work[w].left)) =>
      digests[p][work[w].slot] <= crashes

\* The inductive invariant.
DigestInv == Types /\ FutureUnsent /\ NextFresh /\ LeftFresh /\ DigestBound

\* A day of the clock.
LEMMA DayEnds ==
  ASSUME NEW t \in Nat, NEW d \in Nat \ {0}
  PROVE  t \div d \in Nat /\ t < (t \div d) * d + d
  BY Z3

LEMMA SlotsAre == Slots \subseteq Nat /\ 0 .. MaxTime \subseteq Slots
<1>1. TicksPerDay * DaysPerWeek \in Nat /\ MaxTime \in Nat
  BY DigestAssumption
<1> QED
  BY <1>1 DEF Slots

\* compute_next_run returns a time to come.
LEMMA NextIsLater ==
  ASSUME NEW c \in Schedules, NEW t \in Nat
  PROVE  compute_next_run(c, t) \in Nat /\ compute_next_run(c, t) > t
<1> DEFINE day == t \div TicksPerDay
           base == day * TicksPerDay + c.time_of_day
           ahead == (c.day_of_week + DaysPerWeek - (day % DaysPerWeek)) % DaysPerWeek
<1>1. TicksPerDay \in Nat \ {0} /\ DaysPerWeek \in Nat \ {0} /\ c.time_of_day \in Nat /\ c.day_of_week \in Nat
  BY DigestAssumption
<1>2. day \in Nat /\ t < day * TicksPerDay + TicksPerDay /\ day * TicksPerDay \in Nat
  BY <1>1, DayEnds
<1>3. ahead \in Nat
  BY <1>1, <1>2
<1>4. base \in Nat /\ t < base + TicksPerDay
  BY <1>1, <1>2
<1>5. compute_next_run(c, t) =
        IF c.frequency = "daily" THEN IF base <= t THEN base + TicksPerDay ELSE base
        ELSE base + TicksPerDay * (IF ahead = 0 /\ base <= t THEN DaysPerWeek ELSE ahead)
  BY DEF compute_next_run
<1> HIDE DEF base, ahead, day
<1>6. CASE c.frequency = "daily"
  BY <1>1, <1>4, <1>5, <1>6
<1>7. CASE c.frequency # "daily"
  <2> DEFINE days == IF ahead = 0 /\ base <= t THEN DaysPerWeek ELSE ahead
  <2>1. days \in Nat /\ (base <= t => days >= 1)
    BY <1>1, <1>3
  <2>2. compute_next_run(c, t) = base + TicksPerDay * days
    BY <1>5, <1>7
  <2> HIDE DEF days
  <2>3. TicksPerDay * days \in Nat /\ (days >= 1 => TicksPerDay * days >= TicksPerDay)
    BY <1>1, <2>1
  <2> QED
    BY <1>1, <1>4, <2>1, <2>2, <2>3
<1> QED
  BY <1>6, <1>7

OneWorker == \A v, w \in Workers : v = w

LEMMA DigestInit == ASSUME Init PROVE DigestInv
<1>1. PICK c \in Schedules : sched = [conf |-> c, is_enabled |-> TRUE, next_run_at |-> compute_next_run(c, 0)]
  BY DEF Init
<1>2. compute_next_run(c, 0) \in Nat
  BY NextIsLater
<1>3. 0 \in 0 .. MaxTime /\ 0 \in Slots
  BY SlotsAre, DigestAssumption
<1>4. Asleep \in Passes /\ Asleep.pc = "idle"
  BY <1>3 DEF Asleep, Passes
<1>5. Types
  BY <1>1, <1>2, <1>3, <1>4 DEF Init, Types
<1> QED
  BY <1>4, <1>5 DEF Init, DigestInv, FutureUnsent, NextFresh, LeftFresh, DigestBound

\* The pass takes over the due time of the schedule.
LEMMA RunOnceKeeps == ASSUME DigestInv, OneWorker, NEW w \in Workers, run_once(w) PROVE DigestInv'
<1> DEFINE new == [Asleep EXCEPT !.pc = "digest", !.conf = sched.conf, !.slot = sched.next_run_at]
<1>1. Types /\ sched.conf \in Schedules /\ sched.next_run_at \in Nat /\ sched.next_run_at <= now
      /\ now \in 0 .. MaxTime
  BY DEF DigestInv, Types, run_once, due
<1>2. sched.next_run_at \in Slots
  BY <1>1, SlotsAre, DigestAssumption
<1>3. new \in Passes /\ new.pc = "digest" /\ new.conf = sched.conf /\ new.slot = sched.next_run_at
  BY <1>1, <1>2 DEF Asleep, Passes
<1>4. work' = [work EXCEPT ![w] = new] /\ UNCHANGED <<integ, sched, digests, now, crashes>>
  BY DEF run_once
<1> HIDE DEF new
<1>5. work'[w] = new /\ \A v \in Workers : v = w
  BY <1>1, <1>4 DEF Types, OneWorker
<1>6. Types'
  BY <1>1, <1>3, <1>4, <1>5 DEF Types
<1>7. LeftFresh'
  <2>1. \A p \in Providers : digests[p][sched.next_run_at] <= crashes
    BY <1>2, <1>5 DEF DigestInv, NextFresh, run_once
  <2> QED
    BY <1>3, <1>4, <1>5, <2>1 DEF LeftFresh
<1>8. NextFresh'
  BY <1>3, <1>4, <1>5 DEF NextFresh
<1> QED
  BY <1>4, <1>6, <1>7, <1>8 DEF DigestInv, FutureUnsent, DigestBound

LEMMA SendForOrgKeeps == ASSUME DigestInv, OneWorker, NEW w \in Workers, _send_digest_for_org(w) PROVE DigestInv'
<1>1. Types /\ work[w] \in Passes /\ work[w].pc = "digest" /\ integ \subseteq Providers
  BY DEF DigestInv, Types, _send_digest_for_org
<1>2. PICK left \in SUBSET Providers : work' = [work EXCEPT ![w].pc = "send", ![w].left = left]
  <2>1. PICK items \in BOOLEAN : work' = [work EXCEPT ![w].pc = "send", ![w].left = IF items THEN integ ELSE {}]
    BY DEF _send_digest_for_org
  <2> QED
    BY <1>1, <2>1
<1>3. UNCHANGED <<integ, sched, digests, now, crashes>> /\ \A v \in Workers : v = w
  BY DEF _send_digest_for_org, OneWorker
<1>4. work'[w].pc = "send" /\ work'[w].slot = work[w].slot /\ work'[w].conf = work[w].conf /\ work'[w] \in Passes
      /\ work' \in [Workers -> Passes]
  BY <1>1, <1>2 DEF Types, Passes
<1>5. Types'
  BY <1>1, <1>3, <1>4 DEF Types
<1>6. LeftFresh'
  BY <1>1, <1>3, <1>4 DEF DigestInv, LeftFresh
<1>7. NextFresh'
  BY <1>1, <1>3, <1>4 DEF DigestInv, NextFresh
<1> QED
  BY <1>3, <1>5, <1>6, <1>7 DEF DigestInv, FutureUnsent, DigestBound

\* One more digest for a provider that was left.
LEMMA DispatchKeeps == ASSUME DigestInv, OneWorker, NEW w \in Workers, dispatch_single(w) PROVE DigestInv'
<1>1. PICK p \in work[w].left : /\ digests' = [digests EXCEPT ![p][work[w].slot] = @ + 1]
                                /\ work' = [work EXCEPT ![w].left = @ \ {p}]
  BY DEF dispatch_single
<1> DEFINE slot == work[w].slot
<1>2. Types /\ work[w] \in Passes /\ work[w].pc = "send" /\ p \in Providers /\ slot \in Slots /\ slot <= now
  BY <1>1 DEF DigestInv, Types, Passes, dispatch_single
<1>3. UNCHANGED <<integ, sched, now, crashes>> /\ \A v \in Workers : v = w
  BY DEF dispatch_single, OneWorker
<1>4. /\ work'[w].pc = "send" /\ work'[w].slot = slot /\ work'[w].conf = work[w].conf
      /\ work'[w].left = work[w].left \ {p} /\ work' \in [Workers -> Passes]
  BY <1>1, <1>2 DEF Types, Passes
<1>5. /\ digests' \in [Providers -> [Slots -> Nat]]
      /\ digests'[p][slot] = digests[p][slot] + 1
      /\ \A q \in Providers, s \in Slots : <<q, s>> # <<p, slot>> => digests'[q][s] = digests[q][s]
  BY <1>1, <1>2 DEF Types
<1>6. digests[p][slot] \in Nat /\ digests[p][slot] <= crashes /\ crashes \in Nat
  BY <1>1, <1>2 DEF DigestInv, LeftFresh, Types
<1> HIDE DEF slot
<1>7. Types'
  BY <1>2, <1>3, <1>4, <1>5 DEF Types, slot
<1>8. FutureUnsent'
  BY <1>2, <1>3, <1>5, SlotsAre DEF DigestInv, FutureUnsent, Types
<1>9. LeftFresh'
  <2>1. ASSUME NEW q \in Providers, q \in work'[w].left PROVE digests'[q][slot] <= crashes
    <3>1. q \in work[w].left /\ q # p
      BY <1>4, <2>1
    <3>2. digests[q][slot] <= crashes
      BY <3>1, <1>2 DEF DigestInv, LeftFresh, slot
    <3> QED
      BY <3>1, <3>2, <1>2, <1>5
  <2> QED
    BY <2>1, <1>3, <1>4 DEF LeftFresh
<1>10. NextFresh'
  <2>1. SUFFICES ASSUME slot # sched.next_run_at, NEW q \in Providers, NEW s \in Slots, s = sched.next_run_at
                 PROVE  digests'[q][s] <= crashes
    BY <1>3, <1>4 DEF NextFresh
  <2>2. digests[q][s] <= crashes
    BY <2>1, <1>3 DEF DigestInv, NextFresh, slot
  <2> QED
    BY <2>1, <2>2, <1>5
<1>11. DigestBound'
  <2>1. ASSUME NEW q \in Providers, NEW s \in Slots PROVE digests'[q][s] <= 1 + crashes
    BY <1>2, <1>5, <1>6 DEF DigestInv, DigestBound
  <2> QED
    BY <2>1, <1>3 DEF DigestBound
<1> QED
  BY <1>7, <1>8, <1>9, <1>10, <1>11 DEF DigestInv

\* The due time of the schedule moves to a time to come.
LEMMA NewTimeKeeps ==
  ASSUME DigestInv, sched' \in [conf : Schedules, is_enabled : BOOLEAN, next_run_at : Nat],
         sched'.next_run_at > now, UNCHANGED <<digests, now, crashes>>, integ' = integ,
         work' \in [Workers -> Passes],
         \A w \in Workers : work'[w] = work[w] \/ work'[w].pc = "idle"
  PROVE  DigestInv'
<1>1. Types'
  BY DEF DigestInv, Types
<1>2. NextFresh'
  BY DEF DigestInv, FutureUnsent, NextFresh, Types
<1>3. LeftFresh'
  BY DEF DigestInv, LeftFresh
<1> QED
  BY <1>1, <1>2, <1>3 DEF DigestInv, FutureUnsent, DigestBound

LEMMA MarkRunKeeps == ASSUME DigestInv, NEW w \in Workers, mark_run(w) PROVE DigestInv'
<1>1. Types /\ work[w].conf \in Schedules /\ now \in Nat
  BY DigestAssumption DEF DigestInv, Types, mark_run
<1>2. compute_next_run(work[w].conf, now) \in Nat /\ compute_next_run(work[w].conf, now) > now
  BY <1>1, NextIsLater
<1>3. /\ sched' \in [conf : Schedules, is_enabled : BOOLEAN, next_run_at : Nat]
      /\ sched'.next_run_at = compute_next_run(work[w].conf, now)
  BY <1>1, <1>2 DEF Types, mark_run
<1>4. Asleep \in Passes /\ Asleep.pc = "idle"
  BY SlotsAre, DigestAssumption DEF Asleep, Passes
<1>5. work' \in [Workers -> Passes] /\ \A v \in Workers : work'[v] = work[v] \/ work'[v].pc = "idle"
  BY <1>1, <1>4 DEF Types, mark_run
<1> QED
  BY <1>2, <1>3, <1>5, NewTimeKeeps DEF mark_run

LEMMA UpsertKeeps == ASSUME DigestInv, upsert_schedule PROVE DigestInv'
<1>1. PICK c \in Schedules, is_enabled \in BOOLEAN :
        sched' = [conf |-> c, is_enabled |-> is_enabled, next_run_at |-> compute_next_run(c, now)]
  BY DEF upsert_schedule
<1>2. now \in Nat /\ work \in [Workers -> Passes]
  BY DigestAssumption DEF DigestInv, Types
<1>3. compute_next_run(c, now) \in Nat /\ compute_next_run(c, now) > now
  BY <1>2, NextIsLater
<1> QED
  BY <1>1, <1>2, <1>3, NewTimeKeeps DEF upsert_schedule, Change

\* A crash makes room for one more of every digest.
LEMMA CrashKeeps == ASSUME DigestInv, NEW w \in Workers, Crash(w) PROVE DigestInv'
<1>1. Asleep \in Passes /\ Asleep.pc = "idle"
  BY SlotsAre, DigestAssumption DEF Asleep, Passes
<1>2. work' \in [Workers -> Passes] /\ \A v \in Workers : work'[v] = work[v] \/ work'[v].pc = "idle"
  BY <1>1 DEF DigestInv, Types, Crash
<1>3. crashes \in Nat /\ crashes' = crashes + 1 /\ UNCHANGED <<integ, sched, digests, now>>
  BY DEF DigestInv, Types, Crash
<1>4. Types'
  BY <1>2, <1>3 DEF DigestInv, Types
<1>5. \A p \in Providers, s \in Slots : digests'[p][s] \in Nat /\ digests'[p][s] <= crashes'
  BY <1>3 DEF DigestInv, DigestBound, Types
<1>6. DigestBound' /\ NextFresh'
  BY <1>3, <1>5 DEF DigestBound, NextFresh
<1>7. LeftFresh'
  BY <1>2, <1>5 DEF LeftFresh, Passes
<1> QED
  BY <1>3, <1>4, <1>6, <1>7 DEF DigestInv, FutureUnsent

LEMMA OtherKeeps ==
  ASSUME DigestInv, UNCHANGED <<sched, work, digests, crashes>>,
         integ' \subseteq Providers, now' \in 0 .. MaxTime, now' >= now
  PROVE  DigestInv'
<1>0. now \in Nat /\ now' \in Nat /\ Slots \subseteq Nat
  BY SlotsAre, DigestAssumption DEF DigestInv, Types
<1>1. Types'
  <2>1. ASSUME NEW w \in Workers, work[w].pc # "idle" PROVE work[w].slot <= now'
    <3>1. work[w].slot \in Slots /\ work[w].slot <= now
      BY <2>1 DEF DigestInv, Types, Passes
    <3>2. work[w].slot \in Nat
      BY <3>1, <1>0
    <3> QED
      BY <3>1, <3>2, <1>0
  <2> QED
    BY <2>1 DEF DigestInv, Types
<1>2. FutureUnsent'
  BY <1>0 DEF DigestInv, FutureUnsent
<1> QED
  BY <1>1, <1>2 DEF DigestInv, NextFresh, LeftFresh, DigestBound

LEMMA DigestNext == ASSUME DigestInv, OneWorker, [Next]_vars PROVE DigestInv'
<1>0. now \in 0 .. MaxTime /\ integ \subseteq Providers /\ MaxTime \in Nat
  BY DigestAssumption DEF DigestInv, Types
<1>1. CASE UNCHANGED vars
  BY <1>0, <1>1, OtherKeeps DEF vars
<1>2. ASSUME NEW w \in Workers, Pass(w) PROVE DigestInv'
  BY <1>2, RunOnceKeeps, SendForOrgKeeps, DispatchKeeps, MarkRunKeeps DEF Pass
<1>3. ASSUME NEW w \in Workers, Crash(w) PROVE DigestInv'
  BY <1>3, CrashKeeps
<1>4. CASE upsert_schedule
  BY <1>4, UpsertKeeps
<1>5. ASSUME NEW p \in Providers, upsert_integration(p) PROVE DigestInv'
  <2>1. integ' \subseteq Providers
    BY <1>0, <1>5 DEF upsert_integration
  <2> QED
    BY <1>0, <1>5, <2>1, OtherKeeps DEF upsert_integration, Change
<1>6. CASE Tick
  BY <1>0, <1>6, OtherKeeps DEF Tick
<1> QED
  BY <1>1, <1>2, <1>3, <1>4, <1>5, <1>6 DEF Next

------------------------------------------------------------------------------
\* With one worker, a provider gets the digest of a due time once, and once more for
\* every pass that died (run_once, mark_run, compute_next_run), for any schedules,
\* edits and crashes.
THEOREM DigestsBounded == OneWorker /\ Spec => []DigestBound
<1>1. Init => DigestInv
  BY DigestInit
<1>2. OneWorker /\ DigestInv /\ [Next]_vars => DigestInv'
  BY DigestNext
<1>3. DigestInv => DigestBound
  BY DEF DigestInv
<1>4. OneWorker /\ Init /\ [][Next]_vars => []DigestBound
  <2>1. SUFFICES ASSUME OneWorker PROVE Init /\ [][Next]_vars => []DigestBound
    OBVIOUS
  <2>2. DigestInv /\ [Next]_vars => DigestInv'
    BY <1>2, <2>1
  <2> QED
    BY <1>1, <1>3, <2>2, PTL
<1> QED
  BY <1>4, PTL DEF Spec
=============================================================================
