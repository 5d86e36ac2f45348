--------------------------- MODULE CostSyncProofs ---------------------------
(***************************************************************************)
(* OneFetcher, FailSafe, AccountQuota and OrgQuota for any number of       *)
(* accounts, requests, jobs and scripts, any quotas, and any number of     *)
(* crashes.                                                                *)
(*                                                                         *)
(* A sync takes the lock rows of an account in one order, so whoever holds *)
(* any of them holds the first (HoldsFirst), and nobody else can get that  *)
(* one: OneFetcher.  A sync stores a snapshot only after it wrote all      *)
(* three rows (StoresAll), and rows are never removed (RowsStay), so where *)
(* there is a snapshot the rows exist when a later sync reads them         *)
(* (SawRow), and no insert of one can fail: FailSafe.                      *)
(*                                                                         *)
(* The quotas count what every sync still owes to the usage of a day:      *)
(* its uncommitted calls, and the one that the quota is behind (Debt).  A  *)
(* sync of an account whose usage is below the quota stays within it, and  *)
(* one of an account at its quota owes one call at most; of those there is *)
(* one less for every call above the quota (QuotaInv).  A commit adds to   *)
(* the usage what one sync owed, and OneFetcher says that no other sync of *)
(* the account has made a call it has not seen.                            *)
(*                                                                         *)
(* OrgQuota adds up over accounts and processes; a sum is the number of    *)
(* tokens f[x] for every x (SumCounts), the one induction that is needed.  *)
(* While the organisation's total is below its quota, some process and     *)
(* some account have no sync that alone would pass it (Room): the one that *)
(* asked or committed last.  Syncs that owe more than one call hold lock   *)
(* rows, so they have different accounts and owe three at most; counting   *)
(* them bounds all that is owed when the total reaches the quota           *)
(* (RoomBounds).  From then on nothing is admitted.                        *)
(***************************************************************************)
EXTENDS CostSync, FiniteSetTheorems, WellFoundedInduction, TLAPS

LockStates == {NULL, "released", "held"}
Pcs == {"idle", "guard", "read_lock", "write_lock", "live", "store", "commit", "rollback"}

Sess == [pc : Pcs, acct : Accounts \cup {NULL}, had : BOOLEAN, k : 1 .. 3, saw : LockStates,
         calls : Seq(Nat), held : SUBSET Sigs, stored : Nat \cup {NULL}]

Types ==
  /\ sess \in [Procs -> Sess]
  /\ lock \in [Sigs -> LockStates]
  /\ now \in Nat
  /\ queue \in [Procs -> SUBSET Accounts]
  /\ \A p \in Procs : sess[p].pc # "idle" => sess[p].acct \in Accounts
  /\ \A s \in snaps : s.acct \in Accounts

\* lock rows of an account exist
Rows(a) == \A x \in Apis : lock[<<x, a>>] # NULL

HoldsFirst(s) ==
  /\ s.held # {} => <<"summary", s.acct>> \in s.held
  /\ s.k > 1 => <<"summary", s.acct>> \in s.held
  /\ s.k > 2 => <<"daily_by_service", s.acct>> \in s.held

StoresAll(s) ==
  /\ s.pc \in {"live", "store"} => <<Order[s.k], s.acct>> \in s.held
  /\ s.pc = "store" => s.k = 3
  /\ s.stored # NULL => \A x \in Apis : <<x, s.acct>> \in s.held

SawRow(s) == s.had /\ s.pc = "write_lock" => s.saw # NULL

RowsStay ==
  /\ \A s \in snaps : Rows(s.acct)
  /\ \A p \in Procs : sess[p].pc # "idle" /\ sess[p].had => Rows(sess[p].acct)

\* The inductive invariant.
CostInv ==
  /\ Types
  /\ \A p \in Procs : HoldsFirst(sess[p]) /\ StoresAll(sess[p]) /\ SawRow(sess[p])
  /\ RowsStay
  /\ OneFetcher
  /\ FailSafe

LEMMA OrderIs ==
  /\ Order[1] = "summary" /\ Order[2] = "daily_by_service" /\ Order[3] = "ec2_other"
  /\ Len(Order) = 3
  BY DEF Order

LEMMA TodayIsNat == now \in Nat => Today \in Nat
  BY CostAssumption DEF Today

LEMMA IdleIs == Idle \in Sess /\ HoldsFirst(Idle) /\ StoresAll(Idle) /\ SawRow(Idle)
                /\ Idle.held = {} /\ Idle.pc = "idle" /\ ~Idle.had
  BY CostAssumption DEF Idle, Sess, Pcs, LockStates, HoldsFirst, StoresAll, SawRow

LEMMA SigIs ==
  ASSUME Types, NEW p \in Procs, sess[p].pc # "idle"
  PROVE  Sig(p) \in Sigs /\ Sig(p) = <<Order[sess[p].k], sess[p].acct>>
<1>1. sess[p].acct \in Accounts /\ sess[p].k \in {1, 2, 3}
  BY DEF Types, Sess
<1>2. Order[sess[p].k] \in Apis
  BY <1>1, OrderIs DEF Apis
<1> QED
  BY <1>1, <1>2 DEF Sig, Sigs

\* What a session may become, given what the others hold.
Fits(p, new) ==
  /\ new \in Sess
  /\ HoldsFirst(new) /\ StoresAll(new) /\ SawRow(new)
  /\ new.pc # "idle" => new.acct \in Accounts
  /\ new.pc # "idle" /\ new.had => Rows(new.acct)
  /\ new.held # {} => \A q \in Procs \ {p} : sess[q].held # {} => sess[q].acct # new.acct
  /\ new.pc = "rollback" => ~new.had

\* A step replaces one session by one that fits; lock rows are never removed and a
\* snapshot is new only where the rows exist.
LEMMA SessionStep ==
  ASSUME CostInv, NEW p \in Procs, NEW new, Fits(p, new), Set(p, new),
         lock' \in [Sigs -> LockStates], \A s \in Sigs : lock[s] # NULL => lock'[s] # NULL,
         \A s \in snaps' : s.acct \in Accounts /\ \A x \in Apis : lock'[<<x, s.acct>>] # NULL,
         now' \in Nat, queue' \in [Procs -> SUBSET Accounts]
  PROVE  CostInv'
<1>1. sess \in [Procs -> Sess] /\ sess' = [sess EXCEPT ![p] = new] /\ new \in Sess
  BY DEF CostInv, Types, Set, Fits
<1>2. sess'[p] = new /\ \A q \in Procs : q # p => sess'[q] = sess[q]
  BY <1>1
<1>3. Types'
  <2>1. sess' \in [Procs -> Sess]
    BY <1>1
  <2>2. \A q \in Procs : sess'[q].pc # "idle" => sess'[q].acct \in Accounts
    BY <1>2 DEF CostInv, Types, Fits
  <2> QED
    BY <2>1, <2>2 DEF Types
<1>4. \A q \in Procs : HoldsFirst(sess'[q]) /\ StoresAll(sess'[q]) /\ SawRow(sess'[q])
  BY <1>2 DEF CostInv, Fits
<1>5. RowsStay'
  <2>1. \A a \in Accounts : Rows(a) => \A x \in Apis : lock'[<<x, a>>] # NULL
    BY DEF Rows, Sigs
  <2>2. ASSUME NEW q \in Procs, sess'[q].pc # "idle", sess'[q].had
        PROVE  \A x \in Apis : lock'[<<x, sess'[q].acct>>] # NULL
    <3>1. sess'[q].acct \in Accounts
      BY <1>3, <2>2 DEF Types
    <3>2. Rows(sess'[q].acct)
      BY <1>2, <2>2 DEF CostInv, RowsStay, Fits
    <3> QED
      BY <3>1, <3>2, <2>1 DEF Rows
  <2> QED
    BY <2>2 DEF RowsStay, Rows
<1>6. OneFetcher'
  BY <1>2 DEF CostInv, OneFetcher, Fits
<1>7. FailSafe'
  BY <1>2 DEF CostInv, FailSafe, Fits
<1> QED
  BY <1>3, <1>4, <1>5, <1>6, <1>7 DEF CostInv, HoldsFirst, StoresAll, SawRow

\* Steps of a session that leave the tables alone.
LEMMA QuietStep ==
  ASSUME CostInv, NEW p \in Procs, NEW new, Fits(p, new), Set(p, new),
         lock' = lock, snaps' = snaps, now' = now, queue' \in [Procs -> SUBSET Accounts]
  PROVE  CostInv'
<1>1. lock' \in [Sigs -> LockStates] /\ now' \in Nat
  BY DEF CostInv, Types
<1>2. \A s \in snaps' : s.acct \in Accounts /\ \A x \in Apis : lock'[<<x, s.acct>>] # NULL
  BY DEF CostInv, Types, RowsStay, Rows
<1> QED
  BY <1>1, <1>2, SessionStep

\* A session that goes on with the same account, lock rows and call.
LEMMA GoesOn ==
  ASSUME CostInv, NEW p \in Procs, sess[p].pc # "idle", NEW pc \in Pcs \ {"idle"},
         pc = "rollback" => ~sess[p].had,
         pc \in {"live", "store"} => <<Order[sess[p].k], sess[p].acct>> \in sess[p].held,
         pc = "store" => sess[p].k = 3,
         pc # "write_lock"
  PROVE  Fits(p, [sess[p] EXCEPT !.pc = pc])
<1>1. sess[p] \in Sess /\ sess[p].acct \in Accounts
  BY DEF CostInv, Types
<1>2. HoldsFirst(sess[p]) /\ StoresAll(sess[p]) /\ SawRow(sess[p])
  BY DEF CostInv
<1>3. sess[p].had => Rows(sess[p].acct)
  BY DEF CostInv, RowsStay
<1>4. sess[p].held # {} => \A q \in Procs \ {p} : sess[q].held # {} => sess[q].acct # sess[p].acct
  BY DEF CostInv, OneFetcher
<1> DEFINE new == [sess[p] EXCEPT !.pc = pc]
<1>5. new \in Sess /\ new.pc = pc /\ new.acct = sess[p].acct /\ new.had = sess[p].had /\ new.k = sess[p].k
      /\ new.held = sess[p].held /\ new.stored = sess[p].stored /\ new.saw = sess[p].saw
  BY <1>1 DEF Sess, Pcs
<1> HIDE DEF new
<1>6. HoldsFirst(new) /\ StoresAll(new) /\ SawRow(new)
  BY <1>2, <1>5 DEF HoldsFirst, StoresAll, SawRow
<1>7. Fits(p, new)
  BY <1>1, <1>3, <1>4, <1>5, <1>6 DEF Fits
<1> QED
  BY <1>7 DEF new

LEMMA QueueStays ==
  ASSUME CostInv, Same
  PROVE  lock' = lock /\ snaps' = snaps /\ now' = now /\ queue' \in [Procs -> SUBSET Accounts]
  BY DEF CostInv, Types, Same

LEMMA IdleFits == ASSUME NEW p \in Procs PROVE Fits(p, Idle)
  BY IdleIs DEF Fits

LEMMA BlockedKeeps ==
  ASSUME CostInv, NEW p \in Procs, sess[p].pc # "idle", Blocked(p), Same
  PROVE  CostInv'
<1> DEFINE pc == IF sess[p].had THEN "commit" ELSE "rollback"
<1>1. pc \in Pcs \ {"idle", "write_lock", "live", "store"} /\ (pc = "rollback" => ~sess[p].had)
  BY DEF Pcs
<1> HIDE DEF pc
<1>2. Fits(p, [sess[p] EXCEPT !.pc = pc])
  BY <1>1, GoesOn
<1>3. Set(p, [sess[p] EXCEPT !.pc = pc])
  BY DEF Blocked, pc
<1> QED
  BY <1>2, <1>3, QueueStays, QuietStep

LEMMA GuardKeeps == ASSUME CostInv, NEW p \in Procs, guard(p) PROVE CostInv'
<1>1. CASE Blocked(p)
  BY <1>1, BlockedKeeps DEF guard
<1>2. CASE Set(p, [sess[p] EXCEPT !.pc = "read_lock"])
  <2>1. Fits(p, [sess[p] EXCEPT !.pc = "read_lock"])
    BY GoesOn DEF guard, Pcs
  <2> QED
    BY <1>2, <2>1, QueueStays, QuietStep DEF guard
<1> QED
  BY <1>1, <1>2 DEF guard

LEMMA ReadLockKeeps == ASSUME CostInv, NEW p \in Procs, read_lock(p) PROVE CostInv'
<1>1. CASE Blocked(p)
  BY <1>1, BlockedKeeps DEF read_lock
<1>2. CASE Set(p, [sess[p] EXCEPT !.pc = "write_lock", !.saw = lock[Sig(p)]])
  <2> DEFINE new == [sess[p] EXCEPT !.pc = "write_lock", !.saw = lock[Sig(p)]]
  <2>0. sess[p].pc = "read_lock" /\ Types
    BY DEF read_lock, CostInv
  <2>1. sess[p] \in Sess /\ sess[p].acct \in Accounts /\ Sig(p) \in Sigs /\ lock[Sig(p)] \in LockStates
    BY <2>0, SigIs DEF Types
  <2>2. HoldsFirst(sess[p]) /\ StoresAll(sess[p])
    BY DEF CostInv
  <2>3. sess[p].had => Rows(sess[p].acct)
    BY <2>0 DEF CostInv, RowsStay
  <2>4. sess[p].held # {} => \A q \in Procs \ {p} : sess[q].held # {} => sess[q].acct # sess[p].acct
    BY DEF CostInv, OneFetcher
  <2>5. sess[p].had => lock[Sig(p)] # NULL
    <3>1. Order[sess[p].k] \in Apis
      BY <2>1, OrderIs DEF Sess, Apis
    <3> QED
      BY <2>3, <3>1 DEF Rows, Sig
  <2>6. new \in Sess /\ new.pc = "write_lock" /\ new.acct = sess[p].acct /\ new.had = sess[p].had
        /\ new.k = sess[p].k /\ new.held = sess[p].held /\ new.stored = sess[p].stored
        /\ new.saw = lock[Sig(p)]
    BY <2>1 DEF Sess, Pcs
  <2>7. Set(p, new)
    BY <1>2
  <2> HIDE DEF new
  <2>8. HoldsFirst(new) /\ StoresAll(new) /\ SawRow(new)
    BY <2>2, <2>5, <2>6 DEF HoldsFirst, StoresAll, SawRow
  <2>9. Fits(p, new)
    BY <2>1, <2>3, <2>4, <2>6, <2>8 DEF Fits
  <2> QED
    BY <2>7, <2>9, QueueStays, QuietStep DEF read_lock
<1> QED
  BY <1>1, <1>2 DEF read_lock

\* Whoever holds a row of the account would hold the first one, which this session
\* is either waiting for or holds itself.
LEMMA WriteLockKeeps == ASSUME CostInv, NEW p \in Procs, write_lock(p) PROVE CostInv'
<1>0. sess[p].pc = "write_lock" /\ ~Waits(p) /\ Types /\ Same
  BY DEF write_lock, CostInv
<1>1. sess[p] \in Sess /\ sess[p].acct \in Accounts /\ Sig(p) \in Sigs
  BY <1>0, SigIs DEF Types
<1>2. HoldsFirst(sess[p]) /\ StoresAll(sess[p]) /\ SawRow(sess[p])
  BY DEF CostInv
<1>3. CASE sess[p].saw = NULL /\ lock[Sig(p)] # NULL
  <2>1. ~sess[p].had
    BY <1>0, <1>2, <1>3 DEF SawRow
  <2>2. Fits(p, [sess[p] EXCEPT !.pc = "rollback"])
    BY <2>1, <1>0, GoesOn DEF Pcs
  <2>3. Set(p, [sess[p] EXCEPT !.pc = "rollback"])
    BY <1>3 DEF write_lock
  <2> QED
    BY <1>0, <2>2, <2>3, QueueStays, QuietStep
<1>4. CASE ~(sess[p].saw = NULL /\ lock[Sig(p)] # NULL)
  <2> DEFINE new == [sess[p] EXCEPT !.pc = "live", !.held = @ \cup {Sig(p)}]
  <2>1. new \in Sess /\ new.pc = "live" /\ new.acct = sess[p].acct /\ new.had = sess[p].had
        /\ new.k = sess[p].k /\ new.held = sess[p].held \cup {Sig(p)} /\ new.stored = sess[p].stored
    BY <1>1 DEF Sess, Pcs
  <2>2. Set(p, new)
    BY <1>4 DEF write_lock
  <2> HIDE DEF new
  <2>3. Sig(p) = <<Order[sess[p].k], sess[p].acct>>
    BY DEF Sig
  <2>4. HoldsFirst(new) /\ StoresAll(new) /\ SawRow(new)
    <3>1. sess[p].k = 1 \/ sess[p].k > 1
      BY <1>1 DEF Sess
    <3>2. <<"summary", sess[p].acct>> \in new.held
      BY <3>1, <2>1, <2>3, <1>2, OrderIs DEF HoldsFirst
    <3> QED
      BY <3>2, <2>1, <2>3, <1>2 DEF HoldsFirst, StoresAll, SawRow
  <2>5. ASSUME NEW q \in Procs \ {p}, sess[q].held # {}, sess[q].acct = sess[p].acct
        PROVE  FALSE
    <3>1. HoldsFirst(sess[q])
      BY DEF CostInv
    <3>2. <<"summary", sess[p].acct>> \in sess[q].held
      BY <3>1, <2>5 DEF HoldsFirst
    <3>3. CASE sess[p].k = 1
      BY <3>2, <3>3, <2>3, <1>0, OrderIs DEF Waits
    <3>4. CASE sess[p].k > 1
      <4>1. sess[p].held # {}
        BY <3>4, <1>2 DEF HoldsFirst
      <4> QED
        BY <4>1, <2>5 DEF CostInv, OneFetcher
    <3> QED
      BY <3>3, <3>4, <1>1 DEF Sess
  <2>6. sess[p].had => Rows(sess[p].acct)
    BY <1>0 DEF CostInv, RowsStay
  <2>7. Fits(p, new)
    BY <1>1, <2>1, <2>4, <2>5, <2>6 DEF Fits
  <2> QED
    BY <1>0, <2>2, <2>7, QueueStays, QuietStep
<1> QED
  BY <1>3, <1>4

LEMMA FetchedKeeps == ASSUME CostInv, NEW p \in Procs, fetched(p) PROVE CostInv'
<1>0. sess[p].pc = "live" /\ Types /\ Same
  BY DEF fetched, CostInv
<1>1. sess[p] \in Sess /\ sess[p].acct \in Accounts /\ Today \in Nat
  BY <1>0, TodayIsNat DEF Types
<1>2. HoldsFirst(sess[p]) /\ StoresAll(sess[p])
  BY DEF CostInv
<1>3. sess[p].had => Rows(sess[p].acct)
  BY <1>0 DEF CostInv, RowsStay
<1>4. sess[p].held # {} => \A q \in Procs \ {p} : sess[q].held # {} => sess[q].acct # sess[p].acct
  BY DEF CostInv, OneFetcher
<1> DEFINE new == [sess[p] EXCEPT !.calls = Append(@, Today),
                                  !.k = IF sess[p].k = Len(Order) THEN @ ELSE @ + 1,
                                  !.pc = IF sess[p].k = Len(Order) THEN "store" ELSE "guard"]
<1>5. /\ new \in Sess /\ new.acct = sess[p].acct /\ new.had = sess[p].had
      /\ new.held = sess[p].held /\ new.stored = sess[p].stored
      /\ IF sess[p].k = 3 THEN new.pc = "store" /\ new.k = 3 ELSE new.pc = "guard" /\ new.k = sess[p].k + 1
  <2>1. sess[p].k \in {1, 2, 3} /\ sess[p].calls \in Seq(Nat) /\ Append(sess[p].calls, Today) \in Seq(Nat)
    BY <1>1 DEF Sess
  <2>2. CASE sess[p].k = 3
    <3>1. new = [sess[p] EXCEPT !.calls = Append(@, Today), !.k = @, !.pc = "store"]
      BY <2>2, OrderIs
    <3> QED
      BY <1>1, <2>1, <2>2, <3>1, ZenonT(60) DEF Sess, Pcs
  <2>3. CASE sess[p].k # 3
    <3>1. new = [sess[p] EXCEPT !.calls = Append(@, Today), !.k = @ + 1, !.pc = "guard"]
      BY <2>3, OrderIs
    <3>2. sess[p].k + 1 \in 1 .. 3
      BY <2>1, <2>3
    <3> QED
      BY <1>1, <2>1, <2>3, <3>1, <3>2 DEF Sess, Pcs
  <2> QED
    BY <2>2, <2>3
<1>6. Set(p, new)
  BY Zenon DEF fetched
<1> HIDE DEF new
<1>7. sess[p].k \in {1, 2, 3}
  BY <1>1 DEF Sess
<1>8. HoldsFirst(new) /\ StoresAll(new) /\ SawRow(new)
  BY <1>0, <1>2, <1>5, <1>7, OrderIs DEF HoldsFirst, StoresAll, SawRow
<1>9. Fits(p, new)
  BY <1>1, <1>3, <1>4, <1>5, <1>8 DEF Fits
<1> QED
  BY <1>0, <1>6, <1>9, QueueStays, QuietStep

LEMMA FetchFailsKeeps == ASSUME CostInv, NEW p \in Procs, fetch_fails(p) PROVE CostInv'
  BY BlockedKeeps DEF fetch_fails

\* The third call is behind it, so all three lock rows are its own.
LEMMA UpsertKeeps == ASSUME CostInv, NEW p \in Procs, upsert_snapshot(p) PROVE CostInv'
<1>0. sess[p].pc = "store" /\ Types /\ Same
  BY DEF upsert_snapshot, CostInv
<1>1. sess[p] \in Sess /\ sess[p].acct \in Accounts /\ Today \in Nat
  BY <1>0, TodayIsNat DEF Types
<1>2. HoldsFirst(sess[p]) /\ StoresAll(sess[p])
  BY DEF CostInv
<1>3. sess[p].had => Rows(sess[p].acct)
  BY <1>0 DEF CostInv, RowsStay
<1>4. sess[p].held # {} => \A q \in Procs \ {p} : sess[q].held # {} => sess[q].acct # sess[p].acct
  BY DEF CostInv, OneFetcher
<1> DEFINE new == [sess[p] EXCEPT !.pc = "commit", !.stored = Today]
<1>5. new \in Sess /\ new.pc = "commit" /\ new.acct = sess[p].acct /\ new.had = sess[p].had
      /\ new.k = sess[p].k /\ new.held = sess[p].held
  BY <1>1 DEF Sess, Pcs
<1>6. Set(p, new)
  BY DEF upsert_snapshot
<1> HIDE DEF new
<1>7. \A x \in Apis : <<x, sess[p].acct>> \in sess[p].held
  <2>1. sess[p].k = 3
    BY <1>0, <1>2 DEF StoresAll
  <2> QED
    BY <1>0, <1>2, <2>1, OrderIs DEF StoresAll, HoldsFirst, Apis
<1>8. HoldsFirst(new) /\ StoresAll(new) /\ SawRow(new)
  BY <1>2, <1>5, <1>7 DEF HoldsFirst, StoresAll, SawRow
<1>9. Fits(p, new)
  BY <1>1, <1>3, <1>4, <1>5, <1>8 DEF Fits
<1> QED
  BY <1>0, <1>6, <1>9, QueueStays, QuietStep

LEMMA CommitKeeps == ASSUME CostInv, NEW p \in Procs, commit(p) PROVE CostInv'
<1>0. sess[p].pc = "commit" /\ Types /\ lock' = ReleasedLocks(p) /\ Set(p, Idle)
      /\ now' = now /\ queue' = queue
  BY DEF commit, CostInv
<1>1. sess[p].acct \in Accounts
  BY <1>0 DEF Types
<1>2. lock' \in [Sigs -> LockStates] /\ \A s \in Sigs : lock[s] # NULL => lock'[s] # NULL
  BY <1>0, CostAssumption DEF ReleasedLocks, LockStates, Types
<1>3. \A s \in Sigs : s \in sess[p].held => lock'[s] # NULL
  BY <1>0, CostAssumption DEF ReleasedLocks
<1>4. ASSUME NEW s \in snaps'
      PROVE  s.acct \in Accounts /\ \A x \in Apis : lock'[<<x, s.acct>>] # NULL
  <2>1. CASE s \in snaps
    <3>1. s.acct \in Accounts /\ \A x \in Apis : lock[<<x, s.acct>>] # NULL
      BY <2>1 DEF CostInv, Types, RowsStay, Rows
    <3> QED
      BY <3>1, <1>2 DEF Sigs
  <2>2. CASE sess[p].stored # NULL /\ s = [acct |-> sess[p].acct, day |-> sess[p].stored, updated |-> now]
    <3>1. s.acct = sess[p].acct
      BY <2>2
    <3>2. \A x \in Apis : <<x, sess[p].acct>> \in sess[p].held
      BY <2>2 DEF CostInv, StoresAll
    <3> QED
      BY <3>1, <3>2, <1>1, <1>3 DEF Sigs
  <2> QED
    BY <2>1, <2>2 DEF commit
<1>5. now' \in Nat /\ queue' \in [Procs -> SUBSET Accounts]
  BY <1>0 DEF Types
<1> QED
  BY <1>0, <1>2, <1>4, <1>5, IdleFits, SessionStep

LEMMA RollbackKeeps == ASSUME CostInv, NEW p \in Procs, rollback(p) PROVE CostInv'
  BY IdleFits, QueueStays, QuietStep DEF rollback

\* A sync that found a snapshot finds the lock rows as well.
LEMMA BeginKeeps ==
  ASSUME CostInv, NEW p \in Procs, NEW a \in Accounts, NEW force \in BOOLEAN, NEW allowed \in BOOLEAN,
         begin(p, a, force, allowed), queue' \in [Procs -> SUBSET Accounts]
  PROVE  CostInv'
<1>0. lock' = lock /\ snaps' = snaps /\ now' = now
  BY DEF begin
<1> DEFINE had == latest(a) # NULL
           new == [Idle EXCEPT !.pc = "guard", !.acct = a, !.had = had]
<1>1. Set(p, Idle) \/ Set(p, new)
  BY DEF begin
<1>2. CASE Set(p, Idle)
  BY <1>0, <1>2, IdleFits, QuietStep
<1>3. CASE Set(p, new)
  <2>1. had => Rows(a)
    <3>1. had => {s \in snaps : s.acct = a} # {}
      BY DEF latest
    <3> QED
      BY <3>1 DEF CostInv, RowsStay
  <2>2. /\ new.pc = "guard" /\ new.acct = a /\ new.had = had /\ new.held = {}
        /\ new.k = 1 /\ new.stored = NULL /\ new.saw = NULL
    BY DEF Idle
  <2>3. new \in Sess
    BY IdleIs DEF Sess, Pcs
  <2> HIDE DEF new, had
  <2>4. Fits(p, new)
    BY <2>1, <2>2, <2>3 DEF Fits, HoldsFirst, StoresAll, SawRow
  <2> QED
    BY <1>0, <1>3, <2>4, QuietStep
<1> QED
  BY <1>1, <1>2, <1>3

LEMMA StartKeeps ==
  ASSUME CostInv,
         \/ \E u \in Users : start_cost_sync(u)
         \/ \E j \in Jobs : run_cost_job(j)
         \/ \E c \in Scripts : script_account(c)
  PROVE  CostInv'
<1>1. ASSUME NEW u \in Users, start_cost_sync(u) PROVE CostInv'
  <2>1. PICK a \in Accounts, force \in BOOLEAN, role \in {"org_admin", "admin"}, allow_admin \in BOOLEAN :
          begin(u, a, force, assert_force_refresh_allowed(role, allow_admin))
    BY <1>1 DEF start_cost_sync
  <2>2. assert_force_refresh_allowed(role, allow_admin) \in BOOLEAN
    BY DEF assert_force_refresh_allowed
  <2>3. queue' \in [Procs -> SUBSET Accounts] /\ u \in Procs
    BY <1>1 DEF start_cost_sync, CostInv, Types, Procs
  <2> QED
    BY <2>1, <2>2, <2>3, BeginKeeps
<1>2. ASSUME NEW j \in Jobs, run_cost_job(j) PROVE CostInv'
  <2>1. PICK a \in Accounts, force \in BOOLEAN : begin(j, a, force, assert_force_refresh_allowed("system", FALSE))
    BY <1>2 DEF run_cost_job
  <2>2. assert_force_refresh_allowed("system", FALSE) \in BOOLEAN
    BY DEF assert_force_refresh_allowed
  <2>3. queue' \in [Procs -> SUBSET Accounts] /\ j \in Procs
    BY <1>2 DEF run_cost_job, CostInv, Types, Procs
  <2> QED
    BY <2>1, <2>2, <2>3, BeginKeeps
<1>3. ASSUME NEW c \in Scripts, script_account(c) PROVE CostInv'
  <2>1. queue \in [Procs -> SUBSET Accounts] /\ c \in Procs
    BY DEF CostInv, Types, Procs
  <2>2. PICK a \in queue[c] : begin(c, a, FALSE, TRUE) /\ queue' = [queue EXCEPT ![c] = @ \ {a}]
    BY <1>3 DEF script_account
  <2>3. a \in Accounts /\ queue' \in [Procs -> SUBSET Accounts]
    BY <2>1, <2>2
  <2> QED
    BY <2>1, <2>2, <2>3, BeginKeeps
<1> QED
  BY <1>1, <1>2, <1>3

\* Neither a session nor a table changes.
LEMMA OtherKeeps ==
  ASSUME CostInv, sess' = sess, lock' = lock, snaps' = snaps, now' \in Nat,
         queue' \in [Procs -> SUBSET Accounts]
  PROVE  CostInv'
  BY DEF CostInv, Types, RowsStay, Rows, OneFetcher, FailSafe, HoldsFirst, StoresAll, SawRow

LEMMA ScriptStartKeeps == ASSUME CostInv, NEW c \in Scripts, script_start(c) PROVE CostInv'
<1>1. queue' \in [Procs -> SUBSET Accounts] /\ now' \in Nat
  BY DEF script_start, CostInv, Types
<1> QED
  BY <1>1, OtherKeeps DEF script_start

LEMMA CrashKeeps == ASSUME CostInv, NEW p \in Procs, Crash(p) PROVE CostInv'
<1>1. queue' \in [Procs -> SUBSET Accounts] /\ Set(p, Idle) /\ lock' = lock /\ snaps' = snaps /\ now' = now
  BY DEF Crash, CostInv, Types
<1> QED
  BY <1>1, IdleFits, QuietStep

LEMMA CostInit == ASSUME Init PROVE CostInv
<1>1. \A p \in Procs : sess[p] = Idle
  BY DEF Init
<1>2. Types
  <2>1. sess \in [Procs -> Sess] /\ queue \in [Procs -> SUBSET Accounts]
    BY IdleIs DEF Init
  <2>2. lock \in [Sigs -> LockStates]
    BY DEF Init, LockStates
  <2>3. now \in Nat
    BY CostAssumption DEF Init
  <2>4. \A s \in snaps : s.acct \in Accounts
    BY CostAssumption DEF Init
  <2> QED
    BY <1>1, <2>1, <2>2, <2>3, <2>4, IdleIs DEF Types
<1>3. ASSUME NEW s \in snaps PROVE Rows(s.acct)
  <2>1. s.acct \in Synced /\ s.acct \in Accounts
    BY CostAssumption DEF Init
  <2>2. ASSUME NEW x \in Apis PROVE lock[<<x, s.acct>>] = "released"
    <3>1. <<x, s.acct>> \in Sigs /\ <<x, s.acct>>[2] = s.acct
      BY <2>1 DEF Sigs
    <3> QED
      BY <2>1, <3>1 DEF Init
  <2> QED
    BY <2>2, CostAssumption DEF Rows
<1> QED
  BY <1>1, <1>2, <1>3, IdleIs DEF CostInv, RowsStay, OneFetcher, FailSafe

LEMMA CostNext == ASSUME CostInv, [Next]_vars PROVE CostInv'
<1>1. CASE UNCHANGED vars
  <2>1. now' \in Nat /\ queue' \in [Procs -> SUBSET Accounts]
    BY <1>1 DEF vars, CostInv, Types
  <2> QED
    BY <1>1, <2>1, OtherKeeps DEF vars
<1>2. CASE \/ \E u \in Users : start_cost_sync(u)
           \/ \E j \in Jobs : run_cost_job(j)
           \/ \E c \in Scripts : script_account(c)
  BY <1>2, StartKeeps
<1>3. ASSUME NEW c \in Scripts, script_start(c) PROVE CostInv'
  BY <1>3, ScriptStartKeeps
<1>4. ASSUME NEW c \in Scripts, script_end(c) PROVE CostInv'
  <2>1. now' \in Nat /\ queue' \in [Procs -> SUBSET Accounts]
    BY <1>4 DEF script_end, CostInv, Types
  <2> QED
    BY <1>4, <2>1, OtherKeeps DEF script_end
<1>5. ASSUME NEW p \in Procs, SyncStep(p) PROVE CostInv'
  BY <1>5, GuardKeeps, ReadLockKeeps, WriteLockKeeps, FetchedKeeps, FetchFailsKeeps, UpsertKeeps,
     CommitKeeps, RollbackKeeps DEF SyncStep
<1>6. ASSUME NEW p \in Procs, Crash(p) PROVE CostInv'
  BY <1>6, CrashKeeps
<1>7. CASE Tick
  <2>1. now' \in Nat /\ queue' \in [Procs -> SUBSET Accounts]
    BY <1>7 DEF Tick, CostInv, Types
  <2> QED
    BY <1>7, <2>1, OtherKeeps DEF Tick
<1> QED
  BY <1>1, <1>2, <1>3, <1>4, <1>5, <1>6, <1>7 DEF Next

------------------------------------------------------------------------------
\* Two syncs never fetch for one account at a time (acquire_fetch_lock with its
\* flush), for any accounts, callers, quotas and crashes.
THEOREM OneFetcherHolds == Spec => []OneFetcher
<1>1. Init => CostInv
  BY CostInit
<1>2. CostInv /\ [Next]_vars => CostInv'
  BY CostNext
<1>3. CostInv => OneFetcher
  BY DEF CostInv
<1> QED
  BY <1>1, <1>2, <1>3, PTL DEF Spec

\* A sync that found a snapshot never ends in an error (the fail-safe except clause
\* of sync_cost_snapshot), for any accounts, callers, quotas and crashes.
THEOREM FailSafeHolds == Spec => []FailSafe
<1>1. Init => CostInv
  BY CostInit
<1>2. CostInv /\ [Next]_vars => CostInv'
  BY CostNext
<1>3. CostInv => FailSafe
  BY DEF CostInv
<1> QED
  BY <1>1, <1>2, <1>3, PTL DEF Spec

------------------------------------------------------------------------------
(* Sums over a finite set *)

\* The definition of SumFunction: one element after the other is taken out of s.
Iterates(g, f, S) ==
  g = [s \in SUBSET S |-> IF s = {} THEN 0 ELSE LET x == CHOOSE y \in s : TRUE IN f[x] + g[s \ {x}]]

\* A sum counts: f[x] tokens for every x of S.
Tokens(f, S) == {t \in S \X Nat : t[2] < f[t[1]]}

\* Of the sets of B one has no other inside.
LEMMA SmallestSet ==
  ASSUME NEW S, IsFiniteSet(S), NEW B, B \subseteq SUBSET S, B # {}
  PROVE  \E s \in B : \A t \in B : t \subseteq s => t = s
<1>1. IsWellFoundedOn(StrictSubsetOrdering(S), SUBSET S)
  BY FS_StrictSubsetOrderingWellFounded, FS_FiniteSubsetsOfFinite
<1>2. \E s \in B : \A t \in B : ~ (<<t, s>> \in StrictSubsetOrdering(S))
  BY <1>1, WFMin
<1> QED
  BY <1>2 DEF StrictSubsetOrdering

LEMMA TokensOfOne ==
  ASSUME NEW x, NEW n \in Nat
  PROVE  IsFiniteSet({x} \X (0 .. (n - 1))) /\ Cardinality({x} \X (0 .. (n - 1))) = n
<1>1. IsFiniteSet({x}) /\ Cardinality({x}) = 1
  BY FS_Singleton
<1>2. IsFiniteSet(0 .. (n - 1)) /\ Cardinality(0 .. (n - 1)) = n
  BY FS_Interval
<1> QED
  BY <1>1, <1>2, FS_Product

LEMMA TokensSplit ==
  ASSUME NEW S, NEW f, \A y \in S : f[y] \in Nat, NEW x \in S, IsFiniteSet(Tokens(f, S \ {x}))
  PROVE  /\ IsFiniteSet(Tokens(f, S))
         /\ Cardinality(Tokens(f, S)) = f[x] + Cardinality(Tokens(f, S \ {x}))
<1> DEFINE one == {x} \X (0 .. (f[x] - 1))
           rest == Tokens(f, S \ {x})
<1>1. IsFiniteSet(one) /\ Cardinality(one) = f[x]
  BY TokensOfOne
<1>2. Tokens(f, S) = one \cup rest
  BY DEF Tokens
<1>3. one \cap rest = {}
  BY DEF Tokens
<1>4. IsFiniteSet(rest) /\ Cardinality(rest) \in Nat /\ f[x] \in Nat
  BY FS_CardinalityType
<1> HIDE DEF one, rest
<1>5. IsFiniteSet(one \cup rest) /\ Cardinality(one \cup rest) = Cardinality(one) + Cardinality(rest) - Cardinality(one \cap rest)
  BY <1>1, <1>4, FS_Union
<1>6. Cardinality(one \cap rest) = 0
  BY <1>3, FS_EmptySet
<1> QED
  BY <1>1, <1>2, <1>4, <1>5, <1>6 DEF rest

LEMMA TokensFinite ==
  ASSUME NEW S, IsFiniteSet(S), NEW f, \A y \in S : f[y] \in Nat
  PROVE  /\ IsFiniteSet(Tokens(f, S)) /\ Cardinality(Tokens(f, S)) \in Nat
         /\ S = {} => Cardinality(Tokens(f, S)) = 0
<1> DEFINE B == {s \in SUBSET S : ~IsFiniteSet(Tokens(f, s))}
<1>1. ASSUME B # {} PROVE FALSE
  <2>1. PICK s \in B : \A t \in B : t \subseteq s => t = s
    <3>1. B \subseteq SUBSET S
      OBVIOUS
    <3> HIDE DEF B
    <3> QED
      BY <1>1, <3>1, SmallestSet
  <2>2. Tokens(f, {}) = {}
    BY DEF Tokens
  <2>3. s # {}
    BY <2>2, FS_EmptySet
  <2>4. PICK x \in s : TRUE
    BY <2>3
  <2>5. s \ {x} \notin B
    BY <2>1, <2>4
  <2>6. IsFiniteSet(Tokens(f, s \ {x}))
    BY <2>5
  <2>7. IsFiniteSet(Tokens(f, s))
    BY <2>4, <2>6, TokensSplit
  <2> QED
    BY <2>7
<1>2. IsFiniteSet(Tokens(f, S))
  BY <1>1
<1>3. S = {} => Tokens(f, S) = {}
  BY DEF Tokens
<1> QED
  BY <1>2, <1>3, FS_CardinalityType, FS_EmptySet

\* Counting the tokens follows the definition of the sum,
LEMMA CountIterates ==
  ASSUME NEW S, IsFiniteSet(S), NEW f \in [S -> Nat]
  PROVE  Iterates([s \in SUBSET S |-> Cardinality(Tokens(f, s))], f, S)
<1> DEFINE h == [s \in SUBSET S |-> Cardinality(Tokens(f, s))]
<1>1. ASSUME NEW s \in SUBSET S, s # {}, NEW x \in s
      PROVE  h[s] = f[x] + h[s \ {x}]
  <2>1. IsFiniteSet(s \ {x}) /\ s \ {x} \in SUBSET S
    BY FS_Subset
  <2>2. IsFiniteSet(Tokens(f, s \ {x}))
    BY <2>1, TokensFinite
  <2>3. Cardinality(Tokens(f, s)) = f[x] + Cardinality(Tokens(f, s \ {x}))
    BY <2>2, TokensSplit
  <2> QED
    BY <2>1, <2>3
<1>2. h[{}] = 0
  <2>1. Cardinality(Tokens(f, {})) = 0
    BY FS_EmptySet, TokensFinite
  <2> QED
    BY <2>1
<1>3. h = [s \in SUBSET S |-> h[s]]
  OBVIOUS
<1> HIDE DEF h
<1>4. \A s \in SUBSET S : h[s] = IF s = {} THEN 0 ELSE LET x == CHOOSE y \in s : TRUE IN f[x] + h[s \ {x}]
  <2> SUFFICES ASSUME NEW s \in SUBSET S, s # {}
               PROVE  h[s] = LET x == CHOOSE y \in s : TRUE IN f[x] + h[s \ {x}]
    BY <1>2
  <2>1. (CHOOSE y \in s : TRUE) \in s
    OBVIOUS
  <2> QED
    BY <1>1, <2>1
<1>5. Iterates(h, f, S)
  BY <1>3, <1>4 DEF Iterates
<1> QED
  BY <1>5 DEF h

\* and no other function does.
LEMMA IteratesOnce ==
  ASSUME NEW S, IsFiniteSet(S), NEW f, NEW g, NEW h, Iterates(g, f, S), Iterates(h, f, S)
  PROVE  g[S] = h[S]
<1> DEFINE B == {s \in SUBSET S : g[s] # h[s]}
<1>1. ASSUME B # {} PROVE FALSE
  <2>1. PICK s \in B : \A t \in B : t \subseteq s => t = s
    <3>1. B \subseteq SUBSET S
      OBVIOUS
    <3> HIDE DEF B
    <3> QED
      BY <1>1, <3>1, SmallestSet
  <2>2. s \in SUBSET S
    OBVIOUS
  <2>3. g[s] = (IF s = {} THEN 0 ELSE LET x == CHOOSE y \in s : TRUE IN f[x] + g[s \ {x}])
    BY <2>2 DEF Iterates
  <2>4. h[s] = (IF s = {} THEN 0 ELSE LET x == CHOOSE y \in s : TRUE IN f[x] + h[s \ {x}])
    BY <2>2 DEF Iterates
  <2>5. s # {}
    BY <2>3, <2>4
  <2> DEFINE x == CHOOSE y \in s : TRUE
  <2>6. x \in s
    BY <2>5
  <2>7. g[s] = f[x] + g[s \ {x}] /\ h[s] = f[x] + h[s \ {x}]
    BY <2>3, <2>4, <2>5
  <2> HIDE DEF x
  <2>8. g[s \ {x}] = h[s \ {x}]
    BY <2>1, <2>2, <2>6
  <2> QED
    BY <2>7, <2>8
<1> QED
  BY <1>1

LEMMA SumCounts ==
  ASSUME NEW S, IsFiniteSet(S), NEW f \in [S -> Nat]
  PROVE  /\ SumFunction(f) = Cardinality(Tokens(f, S))
         /\ SumFunction(f) \in Nat /\ IsFiniteSet(Tokens(f, S))
<1>1. SumFunction(f) = (CHOOSE g : Iterates(g, f, S))[S]
  BY DEF SumFunction, SumFunctionOnSet, FoldFunctionOnSet, MapThenFoldSet, Iterates
<1> DEFINE h == [s \in SUBSET S |-> Cardinality(Tokens(f, s))]
<1>2. Iterates(h, f, S)
  BY CountIterates
<1>3. h[S] = Cardinality(Tokens(f, S))
  OBVIOUS
<1> HIDE DEF h
<1>4. Iterates(CHOOSE g : Iterates(g, f, S), f, S)
  BY <1>2
<1>5. (CHOOSE g : Iterates(g, f, S))[S] = h[S]
  BY <1>2, <1>4, IteratesOnce
<1> QED
  BY <1>1, <1>3, <1>5, TokensFinite

\* A sum is what one element adds to that of the others.
LEMMA SumOfOne ==
  ASSUME NEW S, IsFiniteSet(S), NEW f \in [S -> Nat], NEW x \in S
  PROVE  /\ SumFunction(f) = f[x] + Cardinality(Tokens(f, S \ {x}))
         /\ Cardinality(Tokens(f, S \ {x})) \in Nat
<1>1. IsFiniteSet(S \ {x}) /\ \A y \in S \ {x} : f[y] \in Nat
  BY FS_Subset
<1>2. IsFiniteSet(Tokens(f, S \ {x})) /\ Cardinality(Tokens(f, S \ {x})) \in Nat
  BY <1>1, TokensFinite
<1>3. Cardinality(Tokens(f, S)) = f[x] + Cardinality(Tokens(f, S \ {x}))
  BY <1>2, TokensSplit
<1> QED
  BY <1>2, <1>3, SumCounts

LEMMA SumChanges ==
  ASSUME NEW S, IsFiniteSet(S), NEW f \in [S -> Nat], NEW g \in [S -> Nat], NEW x \in S,
         \A y \in S : y # x => g[y] = f[y]
  PROVE  SumFunction(g) + f[x] = SumFunction(f) + g[x]
<1>1. Tokens(g, S \ {x}) = Tokens(f, S \ {x})
  BY DEF Tokens
<1>2. f[x] \in Nat /\ g[x] \in Nat
  OBVIOUS
<1> QED
  BY <1>1, <1>2, SumOfOne

LEMMA SumGrows ==
  ASSUME NEW S, IsFiniteSet(S), NEW f \in [S -> Nat], NEW g \in [S -> Nat],
         \A y \in S : f[y] <= g[y]
  PROVE  SumFunction(f) <= SumFunction(g)
<1>1. Tokens(f, S) \subseteq Tokens(g, S)
  <2> SUFFICES ASSUME NEW t \in S \X Nat, t[2] < f[t[1]] PROVE t[2] < g[t[1]]
    BY DEF Tokens
  <2>1. t[1] \in S /\ t[2] \in Nat /\ f[t[1]] \in Nat /\ g[t[1]] \in Nat /\ f[t[1]] <= g[t[1]]
    OBVIOUS
  <2> QED
    BY <2>1
<1> QED
  BY <1>1, SumCounts, FS_Subset

LEMMA SumZero ==
  ASSUME NEW S, IsFiniteSet(S), NEW f \in [S -> Nat], \A y \in S : f[y] = 0
  PROVE  SumFunction(f) = 0
<1>1. Tokens(f, S) = {}
  BY DEF Tokens
<1> QED
  BY <1>1, SumCounts, FS_EmptySet

\* Every element counts for one, those of O for two more, the others of H for k more.
LEMMA SumBound ==
  ASSUME NEW S, IsFiniteSet(S), NEW f \in [S -> Nat], NEW H \in SUBSET S, NEW O \in SUBSET H, NEW k \in Nat,
         \A x \in O : f[x] <= 3, \A x \in H \ O : f[x] <= k + 1, \A x \in S \ H : f[x] <= 1
  PROVE  SumFunction(f) <= Cardinality(S) + Cardinality(O) * 2 + Cardinality(H \ O) * k
<1> DEFINE a == S \X {0}
           b == O \X (1 .. 2)
           c == (H \ O) \X (1 .. k)
<1>1. Tokens(f, S) \subseteq (a \cup b) \cup c
  <2> SUFFICES ASSUME NEW x \in S, NEW n \in Nat, n < f[x] PROVE <<x, n>> \in (a \cup b) \cup c
    BY DEF Tokens
  <2>1. f[x] \in Nat
    OBVIOUS
  <2>2. CASE n = 0
    BY <2>2
  <2>3. CASE n # 0
    <3>1. x \in H
      BY <2>1, <2>3
    <3>2. CASE x \in O
      BY <2>1, <2>3, <3>2
    <3>3. CASE x \notin O
      BY <2>1, <2>3, <3>1, <3>3
    <3> QED
      BY <3>2, <3>3
  <2> QED
    BY <2>2, <2>3
<1>2. IsFiniteSet(H) /\ IsFiniteSet(O) /\ IsFiniteSet(H \ O)
  BY FS_Subset
<1>3. IsFiniteSet({0}) /\ Cardinality({0}) = 1
  BY FS_Singleton
<1>4. IsFiniteSet(1 .. 2) /\ Cardinality(1 .. 2) = 2 /\ IsFiniteSet(1 .. k) /\ Cardinality(1 .. k) = k
  <2>1. 1 \in Int /\ 2 \in Int /\ k \in Int
    OBVIOUS
  <2>2. IsFiniteSet(1 .. 2) /\ Cardinality(1 .. 2) = IF 1 > 2 THEN 0 ELSE 2 - 1 + 1
    BY <2>1, FS_Interval
  <2>3. IsFiniteSet(1 .. k) /\ Cardinality(1 .. k) = IF 1 > k THEN 0 ELSE k - 1 + 1
    BY <2>1, FS_Interval
  <2> QED
    BY <2>2, <2>3
<1>5. IsFiniteSet(a) /\ Cardinality(a) = Cardinality(S) * 1
  BY <1>3, FS_Product
<1>6. IsFiniteSet(b) /\ Cardinality(b) = Cardinality(O) * 2
  BY <1>2, <1>4, FS_Product
<1>7. IsFiniteSet(c) /\ Cardinality(c) = Cardinality(H \ O) * k
  BY <1>2, <1>4, FS_Product
<1>8. Cardinality(S) \in Nat
  BY FS_CardinalityType
<1> HIDE DEF a, b, c
<1>9. /\ IsFiniteSet(a \cup b) /\ Cardinality(a \cup b) = Cardinality(a) + Cardinality(b) - Cardinality(a \cap b)
      /\ IsFiniteSet(a \cap b)
  BY <1>5, <1>6, FS_Union, FS_Intersection
<1>10. /\ IsFiniteSet((a \cup b) \cup c) /\ IsFiniteSet((a \cup b) \cap c)
       /\ Cardinality((a \cup b) \cup c) = Cardinality(a \cup b) + Cardinality(c) - Cardinality((a \cup b) \cap c)
  BY <1>7, <1>9, FS_Union, FS_Intersection
<1>11. Cardinality(Tokens(f, S)) <= Cardinality((a \cup b) \cup c)
  BY <1>1, <1>10, FS_Subset
<1>12. /\ Cardinality(a) \in Nat /\ Cardinality(b) \in Nat /\ Cardinality(c) \in Nat /\ Cardinality(a \cap b) \in Nat
       /\ Cardinality((a \cup b) \cap c) \in Nat /\ Cardinality(Tokens(f, S)) \in Nat
       /\ Cardinality(a \cup b) \in Nat
  BY <1>5, <1>6, <1>7, <1>9, <1>10, SumCounts, FS_CardinalityType
<1>13. Cardinality(Tokens(f, S)) <= Cardinality(a) + Cardinality(b) + Cardinality(c)
  BY <1>9, <1>10, <1>11, <1>12
<1>14. Cardinality(a) = Cardinality(S)
  BY <1>5, <1>8
<1>15. SumFunction(f) <= Cardinality(a) + Cardinality(b) + Cardinality(c)
  BY <1>13, SumCounts
<1> QED
  BY <1>6, <1>7, <1>14, <1>15

------------------------------------------------------------------------------
(* The calls of a sync *)

\* A sync has made the calls before its k-th, three at most.
Counted(s) ==
  /\ Len(s.calls) <= 3
  /\ s.pc = "idle" => s.calls = <<>>
  /\ s.pc \in {"guard", "read_lock", "write_lock", "live"} => Len(s.calls) = s.k - 1

CallsInv == CostInv /\ \A p \in Procs : Counted(sess[p])

LEMMA IdleCounted == Counted(Idle)
<1>1. Idle.calls = <<>> /\ Idle.pc = "idle"
  BY DEF Idle
<1>2. Len(<<>>) = 0
  OBVIOUS
<1> QED
  BY <1>1, <1>2 DEF Counted

LEMMA BlockedCounted ==
  ASSUME NEW p \in Procs, sess[p] \in Sess, Counted(sess[p]), Blocked(p)
  PROVE  \E s : Set(p, s) /\ Counted(s)
<1> DEFINE pc == IF sess[p].had THEN "commit" ELSE "rollback"
           s == [sess[p] EXCEPT !.pc = pc]
<1>1. Set(p, s)
  BY DEF Blocked
<1>2. s.calls = sess[p].calls /\ s.pc \in {"commit", "rollback"}
  BY DEF Sess
<1> HIDE DEF s
<1>3. Counted(s)
  BY <1>2 DEF Counted
<1> QED
  BY <1>1, <1>3

LEMMA StepCounted ==
  ASSUME NEW p \in Procs, sess[p] \in Sess, Counted(sess[p]), now \in Nat, SyncStep(p)
  PROVE  \E s : Set(p, s) /\ Counted(s)
<1>0. /\ sess[p].calls \in Seq(Nat) /\ sess[p].k \in {1, 2, 3} /\ Today \in Nat
      /\ Len(sess[p].calls) \in Nat
  BY TodayIsNat DEF Sess
<1>1. CASE Blocked(p)
  BY <1>1, BlockedCounted
<1>2. CASE guard(p) /\ Set(p, [sess[p] EXCEPT !.pc = "read_lock"])
  <2> DEFINE s == [sess[p] EXCEPT !.pc = "read_lock"]
  <2>1. s.calls = sess[p].calls /\ s.k = sess[p].k /\ s.pc = "read_lock" /\ sess[p].pc = "guard"
    BY <1>2 DEF Sess, guard
  <2> HIDE DEF s
  <2>2. Counted(s)
    BY <2>1 DEF Counted
  <2> QED
    BY <1>2, <2>2 DEF s
<1>3. CASE read_lock(p) /\ Set(p, [sess[p] EXCEPT !.pc = "write_lock", !.saw = lock[Sig(p)]])
  <2> DEFINE s == [sess[p] EXCEPT !.pc = "write_lock", !.saw = lock[Sig(p)]]
  <2>1. s.calls = sess[p].calls /\ s.k = sess[p].k /\ s.pc = "write_lock" /\ sess[p].pc = "read_lock"
    BY <1>3 DEF Sess, read_lock
  <2> HIDE DEF s
  <2>2. Counted(s)
    BY <2>1 DEF Counted
  <2> QED
    BY <1>3, <2>2 DEF s
<1>4. CASE write_lock(p) /\ Set(p, [sess[p] EXCEPT !.pc = "rollback"])
  <2> DEFINE s == [sess[p] EXCEPT !.pc = "rollback"]
  <2>1. s.calls = sess[p].calls /\ s.pc = "rollback"
    BY DEF Sess
  <2> HIDE DEF s
  <2>2. Counted(s)
    BY <2>1 DEF Counted
  <2> QED
    BY <1>4, <2>2 DEF s
<1>5. CASE write_lock(p) /\ Set(p, [sess[p] EXCEPT !.pc = "live", !.held = @ \cup {Sig(p)}])
  <2> DEFINE s == [sess[p] EXCEPT !.pc = "live", !.held = @ \cup {Sig(p)}]
  <2>1. s.calls = sess[p].calls /\ s.k = sess[p].k /\ s.pc = "live" /\ sess[p].pc = "write_lock"
    BY <1>5 DEF Sess, write_lock
  <2> HIDE DEF s
  <2>2. Counted(s)
    BY <2>1 DEF Counted
  <2> QED
    BY <1>5, <2>2 DEF s
<1>6. CASE fetched(p)
  <2> DEFINE last == sess[p].k = Len(Order)
             s == [sess[p] EXCEPT !.calls = Append(@, Today), !.k = IF last THEN @ ELSE @ + 1,
                                  !.pc = IF last THEN "store" ELSE "guard"]
  <2>1. Set(p, s) /\ sess[p].pc = "live"
    BY <1>6 DEF fetched
  <2>2. Len(Append(sess[p].calls, Today)) = Len(sess[p].calls) + 1
    BY <1>0
  <2>3. Len(sess[p].calls) + 1 = sess[p].k
    BY <1>0, <2>1 DEF Counted
  <2>4. /\ s.calls = Append(sess[p].calls, Today)
        /\ s.pc = (IF sess[p].k = 3 THEN "store" ELSE "guard")
        /\ sess[p].k # 3 => s.k = sess[p].k + 1
    BY <1>0, OrderIs DEF Sess
  <2> HIDE DEF s
  <2>5. Len(s.calls) = sess[p].k
    BY <2>2, <2>3, <2>4
  <2>6. ASSUME sess[p].k = 3 PROVE Counted(s)
    BY <2>4, <2>5, <2>6 DEF Counted
  <2>7. ASSUME sess[p].k # 3 PROVE Counted(s)
    BY <1>0, <2>4, <2>5, <2>7 DEF Counted
  <2>8. Counted(s)
    BY <2>6, <2>7
  <2> QED
    BY <2>1, <2>8
<1>7. CASE upsert_snapshot(p)
  <2> DEFINE s == [sess[p] EXCEPT !.pc = "commit", !.stored = Today]
  <2>1. s.calls = sess[p].calls /\ s.pc = "commit"
    BY DEF Sess
  <2>2. Set(p, s)
    BY <1>7 DEF upsert_snapshot
  <2> HIDE DEF s
  <2>3. Counted(s)
    BY <2>1 DEF Counted
  <2> QED
    BY <2>2, <2>3
<1>8. CASE commit(p) \/ rollback(p)
  BY <1>8, IdleCounted DEF commit, rollback
<1>9. guard(p) => Blocked(p) \/ Set(p, [sess[p] EXCEPT !.pc = "read_lock"])
  BY DEF guard
<1>10. read_lock(p) => Blocked(p) \/ Set(p, [sess[p] EXCEPT !.pc = "write_lock", !.saw = lock[Sig(p)]])
  BY DEF read_lock
<1>11. write_lock(p) => \/ Set(p, [sess[p] EXCEPT !.pc = "rollback"])
                        \/ Set(p, [sess[p] EXCEPT !.pc = "live", !.held = @ \cup {Sig(p)}])
  BY DEF write_lock
<1>12. fetch_fails(p) => Blocked(p)
  BY DEF fetch_fails
<1> QED
  BY <1>1, <1>2, <1>3, <1>4, <1>5, <1>6, <1>7, <1>8, <1>9, <1>10, <1>11, <1>12 DEF SyncStep

LEMMA BeginCounted ==
  ASSUME NEW p \in Procs, NEW a, NEW force, NEW allowed, begin(p, a, force, allowed)
  PROVE  \E s : Set(p, s) /\ Counted(s)
<1> DEFINE had == latest(a) # NULL
           new == [Idle EXCEPT !.pc = "guard", !.acct = a, !.had = had]
<1>1. Set(p, Idle) \/ Set(p, new)
  BY DEF begin
<1>2. new.calls = <<>> /\ new.pc = "guard" /\ new.k = 1
  BY DEF Idle
<1> HIDE DEF new
<1>3. Len(<<>>) = 0
  OBVIOUS
<1>4. Counted(new)
  BY <1>2, <1>3 DEF Counted
<1> QED
  BY <1>1, <1>4, IdleCounted

LEMMA CallsNext == ASSUME CallsInv, [Next]_vars PROVE CallsInv'
<1>0. CostInv' /\ sess \in [Procs -> Sess] /\ now \in Nat /\ \A p \in Procs : Counted(sess[p])
  BY CostNext DEF CallsInv, CostInv, Types
<1>1. ASSUME NEW p \in Procs, \E s : Set(p, s) /\ Counted(s) PROVE CallsInv'
  <2>1. PICK s : Set(p, s) /\ Counted(s)
    BY <1>1
  <2>2. sess'[p] = s /\ \A q \in Procs : q # p => sess'[q] = sess[q]
    BY <1>0, <2>1 DEF Set
  <2>3. \A q \in Procs : Counted(sess'[q])
    BY <1>0, <2>1, <2>2
  <2> QED
    BY <1>0, <2>3 DEF CallsInv, Counted
<1>2. ASSUME sess' = sess PROVE CallsInv'
  BY <1>0, <1>2 DEF CallsInv, Counted
<1>3. CASE UNCHANGED vars
  BY <1>2, <1>3 DEF vars
<1>4. ASSUME NEW u \in Users, start_cost_sync(u) PROVE CallsInv'
  <2>1. u \in Procs
    BY DEF Procs
  <2> QED
    BY <1>1, <1>4, <2>1, BeginCounted DEF start_cost_sync
<1>5. ASSUME NEW j \in Jobs, run_cost_job(j) PROVE CallsInv'
  <2>1. j \in Procs
    BY DEF Procs
  <2> QED
    BY <1>1, <1>5, <2>1, BeginCounted DEF run_cost_job
<1>6. ASSUME NEW c \in Scripts, script_start(c) \/ script_account(c) \/ script_end(c) PROVE CallsInv'
  <2>1. c \in Procs
    BY DEF Procs
  <2>2. CASE script_account(c)
    BY <1>1, <2>1, <2>2, BeginCounted DEF script_account
  <2> QED
    BY <1>2, <1>6, <2>2 DEF script_start, script_end
<1>7. ASSUME NEW p \in Procs, SyncStep(p) PROVE CallsInv'
  BY <1>0, <1>1, <1>7, StepCounted
<1>8. ASSUME NEW p \in Procs, Crash(p) PROVE CallsInv'
  BY <1>1, <1>8, IdleCounted DEF Crash
<1>9. CASE Tick
  BY <1>2, <1>9 DEF Tick
<1> QED
  BY <1>3, <1>4, <1>5, <1>6, <1>7, <1>8, <1>9 DEF Next

------------------------------------------------------------------------------
(* The quotas *)

\* the calls of c on day d
CallsOn(c, d) == Cardinality({i \in DOMAIN c : c[i] = d})

\* the quota is behind the next call of s
Admitted(s) == s.pc \in {"read_lock", "write_lock", "live"}

\* What s will add to the usage of day d without asking again, on day t.
Debt(s, d, t) == CallsOn(s.calls, d) + (IF Admitted(s) /\ d >= t THEN 1 ELSE 0)

Debtors(a, d) == {p \in Procs : sess[p].acct = a /\ Debt(sess[p], d, Today) >= 1}

\* Calls are made today, and with a lock row.
Made(s, t) == /\ \A i \in DOMAIN s.calls : s.calls[i] <= t
              /\ s.held = {} => s.calls = <<>>

\* Below the quota a sync stays within it, at the quota it owes one call at most.
Within(u, m, debt) == /\ u < m => u + debt <= m
                      /\ u >= m => debt <= 1

\* Both quotas have been asked for n calls of a on day d.
Asked(a, d, n) ==
  /\ usage[a][d] < max_calls_per_day[a] /\ usage[a][d] + n <= max_calls_per_day[a]
  /\ Total(d) < max_calls_per_org_day /\ Total(d) + n <= max_calls_per_org_day

\* What all syncs owe to day d, and those that alone would pass the organisation's quota
Owed(d) == SumFunction([p \in Procs |-> Debt(sess[p], d, Today)])
Over(d) == {p \in Procs : Total(d) + Debt(sess[p], d, Today) > max_calls_per_org_day}

\* the syncs that can hold lock rows at once, and the bound of OrgQuota
AtOnce == Min({Cardinality(Procs), Cardinality(Accounts)})
OrgBound == max_calls_per_org_day + 3 * (AtOnce - 1) + (Cardinality(Procs) - AtOnce)

\* Below the organisation's quota some process and some account are not over it; from
\* there on nothing is admitted, and all that is owed fits.
Room(d) == Over(d) # Procs /\ \E a \in Accounts : \A p \in Over(d) : sess[p].acct # a
OrgDay(d) == /\ Total(d) < max_calls_per_org_day => Room(d)
             /\ Total(d) >= max_calls_per_org_day => Total(d) + Owed(d) <= OrgBound

\* The inductive invariant.
QuotaInv ==
  /\ CallsInv
  /\ usage \in [Accounts -> [Days -> Nat]]
  /\ \A p \in Procs : Made(sess[p], Today)
  /\ \A a \in Accounts, d \in Days :
       /\ d > Today => usage[a][d] = 0
       /\ \A p \in Procs : sess[p].acct = a =>
            Within(usage[a][d], max_calls_per_day[a], Debt(sess[p], d, Today))
       /\ usage[a][d] >= max_calls_per_day[a] =>
            usage[a][d] + Cardinality(Debtors(a, d)) <= max_calls_per_day[a] + Cardinality(Procs) - 1
  /\ \A d \in Days : OrgDay(d)

LEMMA CallsAre ==
  ASSUME NEW c \in Seq(Nat), NEW d
  PROVE  /\ CallsOn(c, d) \in Nat
         /\ c = <<>> => CallsOn(c, d) = 0
         /\ (\A i \in DOMAIN c : c[i] # d) => CallsOn(c, d) = 0
         /\ \A t \in Nat : CallsOn(Append(c, t), d) = CallsOn(c, d) + (IF d = t THEN 1 ELSE 0)
<1> DEFINE On(x) == {i \in DOMAIN x : x[i] = d}
<1>1. DOMAIN c = 1 .. Len(c) /\ Len(c) \in Nat
  OBVIOUS
<1>2. IsFiniteSet(1 .. Len(c))
  BY <1>1, FS_Interval
<1>3. IsFiniteSet(On(c))
  BY <1>1, <1>2, FS_Subset
<1>4. Cardinality(On(c)) \in Nat
  BY <1>3, FS_CardinalityType
<1>5. (\A i \in DOMAIN c : c[i] # d) => On(c) = {}
  OBVIOUS
<1>6. c = <<>> => \A i \in DOMAIN c : c[i] # d
  OBVIOUS
<1>7. ASSUME NEW t \in Nat
      PROVE  Cardinality(On(Append(c, t))) = Cardinality(On(c)) + (IF d = t THEN 1 ELSE 0)
  <2> DEFINE e == Append(c, t)
  <2>1. DOMAIN e = 1 .. (Len(c) + 1) /\ e[Len(c) + 1] = t /\ \A i \in 1 .. Len(c) : e[i] = c[i]
    BY <1>1
  <2> HIDE DEF e
  <2>2. CASE d = t
    <3>1. On(e) = On(c) \cup {Len(c) + 1} /\ Len(c) + 1 \notin On(c)
      BY <1>1, <2>1, <2>2
    <3>2. Cardinality(On(e)) = Cardinality(On(c)) + 1
      BY <1>3, <3>1, FS_AddElement
    <3> QED
      BY <2>2, <3>2 DEF e
  <2>3. CASE d # t
    <3>1. On(e) = On(c)
      BY <1>1, <2>1, <2>3
    <3> HIDE DEF On
    <3>2. Cardinality(On(e)) = Cardinality(On(c)) + 0
      BY <1>4, <3>1
    <3> QED
      BY <2>3, <3>2 DEF e
  <2> QED
    BY <2>2, <2>3
<1>8. Cardinality({}) = 0
  BY FS_EmptySet
<1> QED
  BY <1>4, <1>5, <1>6, <1>7, <1>8 DEF CallsOn

LEMMA DebtIs ==
  ASSUME NEW s \in Sess, NEW d, NEW t
  PROVE  /\ Debt(s, d, t) \in Nat
         /\ s.calls = <<>> => Debt(s, d, t) <= 1
         /\ s.calls = <<>> /\ ~Admitted(s) => Debt(s, d, t) = 0
         /\ CallsOn(s.calls, d) <= Debt(s, d, t) /\ CallsOn(s.calls, d) \in Nat
         /\ Admitted(s) /\ d >= t => Debt(s, d, t) = CallsOn(s.calls, d) + 1
         /\ ~(Admitted(s) /\ d >= t) => Debt(s, d, t) = CallsOn(s.calls, d)
<1>1. s.calls \in Seq(Nat)
  BY DEF Sess
<1>2. CallsOn(s.calls, d) \in Nat /\ (s.calls = <<>> => CallsOn(s.calls, d) = 0)
  BY <1>1, CallsAre
<1>3. CASE Admitted(s) /\ d >= t
  BY <1>2, <1>3 DEF Debt
<1>4. CASE ~(Admitted(s) /\ d >= t)
  BY <1>2, <1>4 DEF Debt
<1> QED
  BY <1>3, <1>4

LEMMA ProcsAre == /\ IsFiniteSet(Procs) /\ Cardinality(Procs) \in Nat /\ Cardinality(Procs) >= 1
<1>1. IsFiniteSet(Procs) /\ Procs # {}
  BY CostAssumption
<1>2. Cardinality(Procs) \in Nat /\ Cardinality(Procs) # 0
  BY <1>1, FS_CardinalityType, FS_EmptySet
<1> QED
  BY <1>1, <1>2

LEMMA Fewer ==
  ASSUME NEW S, NEW T, T \subseteq Procs, S \subseteq T
  PROVE  /\ IsFiniteSet(S) /\ IsFiniteSet(T) /\ Cardinality(S) \in Nat /\ Cardinality(T) \in Nat
         /\ Cardinality(S) <= Cardinality(T)
         /\ \A p \in T : p \notin S => Cardinality(S) <= Cardinality(T) - 1
<1>1. IsFiniteSet(T)
  BY ProcsAre, FS_Subset
<1>2. IsFiniteSet(S) /\ Cardinality(S) <= Cardinality(T)
  BY <1>1, FS_Subset
<1>3. Cardinality(S) \in Nat /\ Cardinality(T) \in Nat
  BY <1>1, <1>2, FS_CardinalityType
<1>4. ASSUME NEW p \in T, p \notin S PROVE Cardinality(S) <= Cardinality(T) - 1
  <2>1. IsFiniteSet(T \ {p}) /\ Cardinality(T \ {p}) = Cardinality(T) - 1
    BY <1>1, FS_RemoveElement
  <2>2. S \subseteq T \ {p}
    BY <1>4
  <2> QED
    BY <2>1, <2>2, FS_Subset
<1> QED
  BY <1>1, <1>2, <1>3, <1>4

LEMMA TotalIs ==
  ASSUME usage \in [Accounts -> [Days -> Nat]], NEW d \in Days
  PROVE  Total(d) \in Nat
<1>1. [a \in Accounts |-> usage[a][d]] \in [Accounts -> Nat]
  OBVIOUS
<1> QED
  BY <1>1, SumCounts, CostAssumption DEF Total

LEMMA AtOnceIs ==
  /\ AtOnce \in Nat /\ AtOnce >= 1 /\ AtOnce \in {Cardinality(Procs), Cardinality(Accounts)}
  /\ AtOnce <= Cardinality(Procs) /\ AtOnce <= Cardinality(Accounts) /\ Cardinality(Accounts) \in Nat
  /\ OrgBound = max_calls_per_org_day + 2 * AtOnce + Cardinality(Procs) - 3
  /\ OrgBound \in Nat /\ OrgBound >= max_calls_per_org_day
<1>1. IsFiniteSet(Accounts) /\ Accounts # {}
  BY CostAssumption
<1>2. Cardinality(Accounts) \in Nat /\ Cardinality(Accounts) # 0
  BY <1>1, FS_CardinalityType, FS_EmptySet
<1> DEFINE n == Cardinality(Procs)
           k == Cardinality(Accounts)
<1>3. n \in Nat /\ n >= 1 /\ k \in Nat /\ k >= 1
  BY <1>2, ProcsAre
<1>4. max_calls_per_org_day \in Nat
  BY CostAssumption
<1> HIDE DEF n, k
<1>5. \E x \in {n, k} : \A y \in {n, k} : x <= y
  BY <1>3
<1>6. AtOnce \in {n, k} /\ \A y \in {n, k} : AtOnce <= y
  BY <1>5 DEF AtOnce, Min, n, k
<1>7. AtOnce \in Nat /\ AtOnce >= 1 /\ AtOnce <= n /\ AtOnce <= k
  BY <1>3, <1>6
<1>8. OrgBound = max_calls_per_org_day + 3 * (AtOnce - 1) + (n - AtOnce)
  BY DEF OrgBound, n
<1>9. OrgBound = max_calls_per_org_day + 2 * AtOnce + n - 3 /\ OrgBound \in Nat /\ OrgBound >= max_calls_per_org_day
  BY <1>3, <1>4, <1>7, <1>8
<1> QED
  BY <1>3, <1>6, <1>7, <1>9 DEF n, k

LEMMA TimeIs ==
  ASSUME now \in Nat
  PROVE  Today \in Nat /\ \A d \in Days : d \in Nat /\ (d >= Today => Today \in Days)
<1>1. Today \in Nat
  BY TodayIsNat
<1>2. MaxTime \div TicksPerDay \in Nat
  BY CostAssumption
<1> QED
  BY <1>1, <1>2 DEF Days

LEMMA TomorrowIs ==
  ASSUME now \in Nat, now' = now + 1
  PROVE  Today' \in Nat /\ Today' >= Today
<1>1. ASSUME NEW x \in Nat, NEW k \in Nat \ {0} PROVE (x + 1) \div k >= x \div k /\ (x + 1) \div k \in Nat
  OBVIOUS
<1> QED
  BY <1>1, CostAssumption DEF Today

\* A step without a commit: what a sync owes is gone, is not more than before, or the
\* quota has just been asked.
LEMMA Calm ==
  ASSUME QuotaInv, CallsInv', usage' = usage, Today' \in Nat, Today' >= Today,
         \A p \in Procs : Made(sess'[p], Today'),
         \A p \in Procs, a \in Accounts, d \in Days : sess'[p].acct = a =>
            \/ Debt(sess'[p], d, Today') = 0
            \/ sess[p].acct = a /\ Debt(sess'[p], d, Today') <= Debt(sess[p], d, Today)
            \/ Asked(a, d, Debt(sess'[p], d, Today'))
  PROVE  QuotaInv'
<1>0. /\ sess \in [Procs -> Sess] /\ sess' \in [Procs -> Sess] /\ usage \in [Accounts -> [Days -> Nat]]
      /\ max_calls_per_day \in [Accounts -> Nat] /\ now \in Nat /\ Today \in Nat
  BY CostAssumption, TodayIsNat DEF QuotaInv, CallsInv, CostInv, Types
<1>1. ASSUME NEW a \in Accounts, NEW d \in Days
      PROVE  /\ d > Today' => usage'[a][d] = 0
             /\ \A p \in Procs : sess'[p].acct = a =>
                  Within(usage'[a][d], max_calls_per_day[a], Debt(sess'[p], d, Today'))
             /\ usage'[a][d] >= max_calls_per_day[a] =>
                  usage'[a][d] + Cardinality(Debtors(a, d)') <= max_calls_per_day[a] + Cardinality(Procs) - 1
  <2> DEFINE u == usage[a][d]
             m == max_calls_per_day[a]
             old(p) == Debt(sess[p], d, Today)
             new(p) == Debt(sess'[p], d, Today')
  <2>1. u \in Nat /\ m \in Nat /\ d \in Nat /\ usage'[a][d] = u
    BY <1>0, TimeIs
  <2>2. \A p \in Procs : old(p) \in Nat /\ new(p) \in Nat
    BY <1>0, DebtIs
  <2>3. /\ \A p \in Procs : sess[p].acct = a => Within(u, m, old(p))
        /\ d > Today => u = 0
        /\ u >= m => u + Cardinality(Debtors(a, d)) <= m + Cardinality(Procs) - 1
    BY DEF QuotaInv
  <2>4. \A p \in Procs : sess'[p].acct = a =>
            \/ new(p) = 0
            \/ sess[p].acct = a /\ new(p) <= old(p)
            \/ u < m /\ u + new(p) <= m
    BY DEF Asked
  <2>5. Debtors(a, d) = {p \in Procs : sess[p].acct = a /\ old(p) >= 1}
    BY DEF Debtors
  <2>6. Debtors(a, d)' = {p \in Procs : sess'[p].acct = a /\ new(p) >= 1}
    BY DEF Debtors
  <2> HIDE DEF u, m, old, new
  <2>7. \A p \in Procs : sess'[p].acct = a => Within(u, m, new(p))
    BY <2>1, <2>2, <2>3, <2>4 DEF Within
  <2>8. ASSUME u >= m PROVE u + Cardinality(Debtors(a, d)') <= m + Cardinality(Procs) - 1
    <3>1. Debtors(a, d)' \subseteq Debtors(a, d) /\ Debtors(a, d) \subseteq Procs
      BY <2>1, <2>2, <2>4, <2>5, <2>6, <2>8
    <3>2. /\ Cardinality(Debtors(a, d)') <= Cardinality(Debtors(a, d))
          /\ Cardinality(Debtors(a, d)') \in Nat /\ Cardinality(Debtors(a, d)) \in Nat
      BY <3>1, Fewer
    <3> QED
      BY <2>1, <2>3, <2>8, <3>2, ProcsAre
  <2>9. d > Today' => u = 0
    BY <1>0, <2>1, <2>3
  <2> QED
    BY <2>1, <2>7, <2>8, <2>9 DEF u, m, new
<1>2. usage' \in [Accounts -> [Days -> Nat]]
  BY <1>0
<1>3. ASSUME NEW d \in Days PROVE OrgDay(d)'
  <2> DEFINE t == Total(d)
             m == max_calls_per_org_day
             old(p) == Debt(sess[p], d, Today)
             new(p) == Debt(sess'[p], d, Today')
             f == [p \in Procs |-> old(p)]
             g == [p \in Procs |-> new(p)]
  <2>1. t \in Nat /\ m \in Nat /\ Total(d)' = t
    BY <1>0, TotalIs, CostAssumption DEF Total
  <2>2. \A p \in Procs : old(p) \in Nat /\ new(p) \in Nat
    BY <1>0, DebtIs
  <2>3. ASSUME NEW p \in Procs
        PROVE  \/ new(p) = 0
               \/ sess'[p].acct = sess[p].acct /\ new(p) <= old(p)
               \/ t < m /\ t + new(p) <= m
    <3>1. CASE sess'[p].acct \in Accounts
      BY <3>1 DEF Asked
    <3>2. CASE sess'[p].acct \notin Accounts
      <4>1. sess'[p].pc = "idle" /\ Counted(sess'[p])
        BY <3>2 DEF CallsInv, CostInv, Types
      <4>2. sess'[p].calls = <<>> /\ ~Admitted(sess'[p])
        BY <4>1 DEF Counted, Admitted
      <4> QED
        BY <1>0, <4>2, DebtIs
    <3> QED
      BY <3>1, <3>2
  <2>4. OrgDay(d) /\ Over(d) = {p \in Procs : t + old(p) > m} /\ Owed(d) = SumFunction(f)
    BY DEF QuotaInv, Over, Owed
  <2>5. Over(d)' = {p \in Procs : t + new(p) > m} /\ Owed(d)' = SumFunction(g)
    BY <2>1 DEF Over, Owed
  <2>6. f \in [Procs -> Nat] /\ g \in [Procs -> Nat]
    BY <2>2
  <2> HIDE DEF t, m, old, new
  <2>7. ASSUME t < m PROVE Room(d)'
    <3>1. Room(d)
      BY <2>4, <2>7 DEF OrgDay, t, m
    <3>2. Over(d)' \subseteq Over(d) /\ \A p \in Over(d)' : sess'[p].acct = sess[p].acct
      BY <2>1, <2>2, <2>3, <2>4, <2>5, <2>7
    <3>3. Over(d) \subseteq Procs
      BY <2>4
    <3> QED
      BY <3>1, <3>2, <3>3 DEF Room
  <2>8. ASSUME t >= m PROVE t + Owed(d)' <= OrgBound
    <3>1. t + Owed(d) <= OrgBound
      BY <2>4, <2>8 DEF OrgDay, t, m
    <3>2. \A p \in Procs : g[p] <= f[p]
      BY <2>1, <2>2, <2>3, <2>8
    <3>3. SumFunction(g) <= SumFunction(f) /\ SumFunction(f) \in Nat /\ SumFunction(g) \in Nat
      BY <2>6, <3>2, ProcsAre, SumGrows, SumCounts
    <3> HIDE DEF f, g
    <3> QED
      BY <2>1, <2>4, <2>5, <3>1, <3>3, AtOnceIs
  <2>9. Total(d)' = t /\ OrgBound' = OrgBound
    BY <2>1 DEF OrgBound, AtOnce
  <2> QED
    BY <2>7, <2>8, <2>9 DEF OrgDay, m
<1> QED
  BY <1>1, <1>2, <1>3 DEF QuotaInv

\* The same for a step of one sync.
LEMMA CalmStep ==
  ASSUME QuotaInv, CallsInv', NEW p \in Procs, NEW s, Set(p, s), usage' = usage, now' = now, Made(s, Today),
         \A a \in Accounts, d \in Days : s.acct = a =>
            \/ Debt(s, d, Today) = 0
            \/ sess[p].acct = a /\ Debt(s, d, Today) <= Debt(sess[p], d, Today)
            \/ Asked(a, d, Debt(s, d, Today))
  PROVE  QuotaInv'
<1>1. sess \in [Procs -> Sess] /\ now \in Nat /\ Today' = Today /\ Today \in Nat
  BY TodayIsNat DEF QuotaInv, CallsInv, CostInv, Types, Today
<1>2. sess'[p] = s /\ \A q \in Procs : q # p => sess'[q] = sess[q]
  BY <1>1 DEF Set
<1>3. \A q \in Procs : Made(sess'[q], Today')
  BY <1>1, <1>2 DEF QuotaInv
<1>4. ASSUME NEW q \in Procs, q # p, NEW d PROVE Debt(sess'[q], d, Today) <= Debt(sess[q], d, Today)
  <2>1. Debt(sess[q], d, Today) \in Nat
    BY <1>1, DebtIs
  <2> QED
    BY <1>2, <1>4, <2>1
<1>5. ASSUME NEW q \in Procs, NEW a \in Accounts, NEW d \in Days, sess'[q].acct = a
      PROVE  \/ Debt(sess'[q], d, Today') = 0
             \/ sess[q].acct = a /\ Debt(sess'[q], d, Today') <= Debt(sess[q], d, Today)
             \/ Asked(a, d, Debt(sess'[q], d, Today'))
  <2>1. CASE q = p
    BY <1>1, <1>2, <1>5, <2>1
  <2>2. CASE q # p
    BY <1>1, <1>2, <1>4, <1>5, <2>2
  <2> QED
    BY <2>1, <2>2
<1>6. Today' \in Nat /\ Today' >= Today
  BY <1>1
<1> QED
  BY <1>3, <1>5, <1>6, Calm

\* A sync that goes on without a call: what it owes is not more.
LEMMA NoCall ==
  ASSUME QuotaInv, CallsInv', NEW p \in Procs, NEW s \in Sess, Set(p, s), usage' = usage, now' = now,
         s.acct = sess[p].acct, s.calls = sess[p].calls, s.held = {} => sess[p].held = {},
         Admitted(s) => Admitted(sess[p])
  PROVE  QuotaInv'
<1>1. sess[p] \in Sess /\ Made(sess[p], Today)
  BY DEF QuotaInv, CallsInv, CostInv, Types
<1>2. Made(s, Today)
  BY <1>1 DEF Made
<1>3. ASSUME NEW d PROVE Debt(s, d, Today) <= Debt(sess[p], d, Today)
  BY <1>1, DebtIs
<1> QED
  BY <1>2, <1>3, CalmStep

LEMMA NothingOwed ==
  ASSUME QuotaInv, CallsInv', NEW p \in Procs, NEW s \in Sess, Set(p, s), usage' = usage, now' = now,
         s.calls = <<>>, ~Admitted(s)
  PROVE  QuotaInv'
<1>1. Made(s, Today)
  BY DEF Made
<1>2. \A d : Debt(s, d, Today) = 0
  BY DebtIs
<1> QED
  BY <1>1, <1>2, CalmStep

LEMMA BlockedQuota ==
  ASSUME QuotaInv, CallsInv', NEW p \in Procs, Blocked(p), Same
  PROVE  QuotaInv'
<1> DEFINE pc == IF sess[p].had THEN "commit" ELSE "rollback"
           s == [sess[p] EXCEPT !.pc = pc]
<1>1. sess[p] \in Sess
  BY DEF QuotaInv, CallsInv, CostInv, Types
<1>2. pc \in {"commit", "rollback"}
  OBVIOUS
<1> HIDE DEF pc
<1>3. s \in Sess /\ s.acct = sess[p].acct /\ s.calls = sess[p].calls /\ s.held = sess[p].held /\ ~Admitted(s)
  BY <1>1, <1>2 DEF Sess, Pcs, Admitted
<1>4. Set(p, s) /\ usage' = usage /\ now' = now
  BY DEF Blocked, Same, pc
<1> HIDE DEF s
<1> QED
  BY <1>3, <1>4, NoCall

\* The organisation's total with the own uncommitted calls.
LEMMA SeenTotal ==
  ASSUME usage \in [Accounts -> [Days -> Nat]], NEW p \in Procs, sess[p] \in Sess, sess[p].acct \in Accounts,
         NEW d \in Days
  PROVE  SumFunction([a \in Accounts |-> Seen(p, a, d)]) = Total(d) + CallsOn(sess[p].calls, d)
<1> DEFINE b == sess[p].acct
           n == CallsOn(sess[p].calls, d)
           f == [a \in Accounts |-> usage[a][d]]
           g == [a \in Accounts |-> Seen(p, a, d)]
<1>1. n \in Nat
  BY DebtIs
<1>2. \A a \in Accounts : usage[a][d] \in Nat /\ Seen(p, a, d) = usage[a][d] + IF a = b THEN n ELSE 0
  BY DEF Seen, CallsOn
<1> HIDE DEF n
<1>3. f \in [Accounts -> Nat] /\ g \in [Accounts -> Nat] /\ \A a \in Accounts : a # b => g[a] = f[a]
  BY <1>1, <1>2
<1>4. g[b] = f[b] + n /\ f[b] \in Nat
  BY <1>1, <1>2
<1> HIDE DEF f, g
<1>5. SumFunction(f) \in Nat /\ SumFunction(g) \in Nat
  BY <1>3, SumCounts, CostAssumption
<1>6. SumFunction(g) + f[b] = SumFunction(f) + g[b]
  <2>1. IsFiniteSet(Accounts) /\ b \in Accounts
    BY CostAssumption
  <2> HIDE DEF b
  <2> QED
    BY <1>3, <2>1, SumChanges
<1>7. SumFunction(g) = SumFunction(f) + n
  BY <1>1, <1>4, <1>5, <1>6
<1> QED
  BY <1>7 DEF f, g, n, Total

\* The quotas are asked for today; tomorrow's usage is none.
LEMMA GuardQuota == ASSUME QuotaInv, CallsInv', NEW p \in Procs, guard(p) PROVE QuotaInv'
<1>1. CASE ~live_call_allowed(p)
  BY <1>1, BlockedQuota DEF guard
<1>2. CASE live_call_allowed(p)
  <2> DEFINE s == [sess[p] EXCEPT !.pc = "read_lock"]
             b == sess[p].acct
  <2>0. /\ sess[p] \in Sess /\ sess[p].pc = "guard" /\ b \in Accounts /\ now \in Nat /\ Today \in Nat
        /\ usage \in [Accounts -> [Days -> Nat]] /\ max_calls_per_day[b] \in Nat /\ Made(sess[p], Today)
    BY TodayIsNat, CostAssumption DEF guard, QuotaInv, CallsInv, CostInv, Types
  <2>1. s \in Sess /\ s.acct = b /\ s.calls = sess[p].calls /\ s.held = sess[p].held /\ Admitted(s)
    BY <2>0 DEF Sess, Pcs, Admitted
  <2>2. Set(p, s) /\ usage' = usage /\ now' = now
    BY <1>2 DEF guard, Same
  <2>3. usage[b][Today] + CallsOn(sess[p].calls, Today) < max_calls_per_day[b]
    BY <1>2 DEF live_call_allowed, Seen, CallsOn
  <2>4. Today \in Days => Total(Today) + CallsOn(sess[p].calls, Today) < max_calls_per_org_day
    BY <1>2, <2>0, SeenTotal DEF live_call_allowed
  <2> HIDE DEF s
  <2>5. Made(s, Today)
    BY <2>0, <2>1 DEF Made
  <2>6. ASSUME NEW d \in Days
        PROVE  \/ Debt(s, d, Today) <= Debt(sess[p], d, Today)
               \/ Asked(b, d, Debt(s, d, Today))
    <3>1. d \in Nat /\ usage[b][d] \in Nat /\ (d >= Today => Today \in Days)
      BY <2>0, TimeIs
    <3>2. CallsOn(sess[p].calls, d) \in Nat /\ CallsOn(sess[p].calls, Today) \in Nat
      BY <2>0, DebtIs
    <3>3. d >= Today => usage[b][Today] \in Nat
      BY <2>0, <3>1
    <3>4. CASE d < Today
      <4>1. Debt(s, d, Today) = CallsOn(s.calls, d)
        BY <2>0, <2>1, <3>1, <3>4, DebtIs
      <4> QED
        BY <2>0, <2>1, <4>1, DebtIs
    <3>5. CASE d = Today
      <4>1. Debt(s, d, Today) = CallsOn(s.calls, d) + 1
        BY <2>0, <2>1, <3>1, <3>5, DebtIs
      <4>2. Total(d) \in Nat /\ max_calls_per_org_day \in Nat
        BY <2>0, TotalIs, CostAssumption
      <4>3. Total(d) + CallsOn(sess[p].calls, d) < max_calls_per_org_day
        BY <2>4, <3>5
      <4> QED
        BY <2>0, <2>1, <2>3, <3>1, <3>2, <3>3, <3>5, <4>1, <4>2, <4>3 DEF Asked
    <3>6. CASE d > Today
      <4>1. Debt(s, d, Today) = CallsOn(s.calls, d) + 1
        BY <2>0, <2>1, <3>1, <3>6, DebtIs
      <4>2. \A i \in DOMAIN sess[p].calls : sess[p].calls[i] # d
        <5>1. sess[p].calls \in Seq(Nat)
          BY <2>0 DEF Sess
        <5> QED
          BY <2>0, <3>1, <3>6, <5>1 DEF Made
      <4>3. CallsOn(s.calls, d) = 0
        BY <2>0, <2>1, <4>2, CallsAre DEF Sess
      <4>4. usage[b][d] = 0
        BY <2>0, <3>6 DEF QuotaInv
      <4>5. max_calls_per_day[b] >= 1
        BY <2>0, <2>3, <3>1, <3>2, <3>3, <3>6
      <4>6. Total(d) = 0
        <5> DEFINE f == [a \in Accounts |-> usage[a][d]]
        <5>1. f \in [Accounts -> Nat] /\ \A a \in Accounts : f[a] = 0
          BY <2>0, <3>6 DEF QuotaInv
        <5>2. SumFunction(f) = 0
          BY <5>1, SumZero, CostAssumption
        <5> QED
          BY <5>2 DEF Total
      <4>7. max_calls_per_org_day \in Nat /\ max_calls_per_org_day >= 1
        <5>1. Today \in Days /\ Total(Today) \in Nat
          BY <2>0, <3>1, <3>6, TotalIs
        <5> QED
          BY <2>4, <3>2, <5>1, CostAssumption
      <4> QED
        BY <2>0, <4>1, <4>3, <4>4, <4>5, <4>6, <4>7 DEF Asked
    <3> QED
      BY <2>0, <3>1, <3>4, <3>5, <3>6
  <2> QED
    BY <2>0, <2>1, <2>2, <2>5, <2>6, CalmStep
<1> QED
  BY <1>1, <1>2

LEMMA LockQuota ==
  ASSUME QuotaInv, CallsInv', NEW p \in Procs, read_lock(p) \/ write_lock(p)
  PROVE  QuotaInv'
<1>0. sess[p] \in Sess /\ sess[p].pc \in {"read_lock", "write_lock"} /\ Same /\ Types
      /\ sess[p].acct \in Accounts
  BY DEF QuotaInv, CallsInv, CostInv, Types, read_lock, write_lock
<1>1. Sig(p) \in Sigs /\ lock[Sig(p)] \in LockStates /\ usage' = usage /\ now' = now /\ Admitted(sess[p])
  BY <1>0, SigIs DEF Types, Same, Admitted
<1>2. CASE Blocked(p)
  BY <1>0, <1>2, BlockedQuota
<1>3. CASE Set(p, [sess[p] EXCEPT !.pc = "write_lock", !.saw = lock[Sig(p)]])
  <2> DEFINE s == [sess[p] EXCEPT !.pc = "write_lock", !.saw = lock[Sig(p)]]
  <2>1. s \in Sess /\ s.acct = sess[p].acct /\ s.calls = sess[p].calls /\ s.held = sess[p].held
    BY <1>0, <1>1 DEF Sess, Pcs
  <2> HIDE DEF s
  <2> QED
    BY <1>1, <1>3, <2>1, NoCall DEF s
<1>4. CASE Set(p, [sess[p] EXCEPT !.pc = "rollback"])
  <2> DEFINE s == [sess[p] EXCEPT !.pc = "rollback"]
  <2>1. s \in Sess /\ s.acct = sess[p].acct /\ s.calls = sess[p].calls /\ s.held = sess[p].held
    BY <1>0 DEF Sess, Pcs
  <2> HIDE DEF s
  <2> QED
    BY <1>1, <1>4, <2>1, NoCall DEF s
<1>5. CASE Set(p, [sess[p] EXCEPT !.pc = "live", !.held = @ \cup {Sig(p)}])
  <2> DEFINE s == [sess[p] EXCEPT !.pc = "live", !.held = @ \cup {Sig(p)}]
  <2>1. s \in Sess /\ s.acct = sess[p].acct /\ s.calls = sess[p].calls /\ s.held # {}
    BY <1>0, <1>1 DEF Sess, Pcs
  <2> HIDE DEF s
  <2> QED
    BY <1>1, <1>5, <2>1, NoCall DEF s
<1> QED
  BY <1>2, <1>3, <1>4, <1>5 DEF read_lock, write_lock

\* The call that was owed is made.
LEMMA FetchedQuota == ASSUME QuotaInv, CallsInv', NEW p \in Procs, fetched(p) PROVE QuotaInv'
<1> DEFINE last == sess[p].k = Len(Order)
           s == [sess[p] EXCEPT !.calls = Append(@, Today), !.k = IF last THEN @ ELSE @ + 1,
                                !.pc = IF last THEN "store" ELSE "guard"]
           c == sess[p].calls
<1>0. /\ sess[p] \in Sess /\ sess[p].pc = "live" /\ now \in Nat /\ Today \in Nat /\ c \in Seq(Nat)
      /\ Made(sess[p], Today) /\ sess[p].held # {} /\ Admitted(sess[p])
  BY TodayIsNat DEF fetched, QuotaInv, CallsInv, CostInv, Types, Sess, StoresAll, Admitted
<1>1. Set(p, s) /\ usage' = usage /\ now' = now
  BY DEF fetched, Same
<1>2. s.acct = sess[p].acct /\ s.calls = Append(c, Today) /\ s.held = sess[p].held /\ s.pc \in {"store", "guard"}
  BY <1>0 DEF Sess
<1>3. s \in Sess
  BY <1>1 DEF Set, CallsInv, CostInv, Types
<1> HIDE DEF s
<1>4. Made(s, Today)
  <2>1. \A i \in 1 .. (Len(c) + 1) : Append(c, Today)[i] <= Today
    BY <1>0 DEF Made
  <2> QED
    BY <1>0, <1>2, <2>1 DEF Made
<1>5. ASSUME NEW d \in Days PROVE Debt(s, d, Today) <= Debt(sess[p], d, Today)
  <2>1. d \in Nat /\ CallsOn(c, d) \in Nat
    BY <1>0, TimeIs, DebtIs
  <2>2. CallsOn(s.calls, d) = CallsOn(c, d) + (IF d = Today THEN 1 ELSE 0)
    BY <1>0, <1>2, CallsAre
  <2>3. Debt(s, d, Today) = CallsOn(s.calls, d)
    BY <1>2, <1>3, DebtIs DEF Admitted
  <2>4. CASE d = Today
    <3>1. Debt(sess[p], d, Today) = CallsOn(c, d) + 1
      BY <1>0, <2>1, <2>4, DebtIs
    <3> QED
      BY <2>1, <2>2, <2>3, <2>4, <3>1
  <2>5. CASE d # Today
    <3>1. CallsOn(c, d) <= Debt(sess[p], d, Today) /\ Debt(s, d, Today) = CallsOn(c, d)
      BY <1>0, <2>1, <2>2, <2>3, <2>5, DebtIs
    <3> QED
      BY <3>1
  <2> QED
    BY <2>4, <2>5
<1> QED
  BY <1>1, <1>2, <1>4, <1>5, CalmStep

LEMMA UpsertQuota == ASSUME QuotaInv, CallsInv', NEW p \in Procs, upsert_snapshot(p) PROVE QuotaInv'
<1> DEFINE s == [sess[p] EXCEPT !.pc = "commit", !.stored = Today]
<1>0. sess[p] \in Sess /\ now \in Nat /\ Today \in Nat
  BY TodayIsNat DEF QuotaInv, CallsInv, CostInv, Types
<1>1. Set(p, s) /\ usage' = usage /\ now' = now
  BY DEF upsert_snapshot, Same
<1>2. s \in Sess /\ s.acct = sess[p].acct /\ s.calls = sess[p].calls /\ s.held = sess[p].held /\ ~Admitted(s)
  BY <1>0 DEF Sess, Pcs, Admitted
<1> HIDE DEF s
<1> QED
  BY <1>1, <1>2, NoCall

LEMMA UpTo == \A n \in Nat : IsFiniteSet(1 .. n) /\ Cardinality(1 .. n) = n
<1> SUFFICES ASSUME NEW n \in Nat PROVE IsFiniteSet(1 .. n) /\ Cardinality(1 .. n) = n
  OBVIOUS
<1>1. IsFiniteSet(1 .. n) /\ Cardinality(1 .. n) = IF 1 > n THEN 0 ELSE n - 1 + 1
  BY FS_Interval, 1 \in Int, n \in Int
<1> QED
  BY <1>1

LEMMA DebtAtMost ==
  ASSUME NEW s \in Sess, Counted(s), NEW d, NEW t
  PROVE  Debt(s, d, t) <= 3 /\ (Made(s, t) /\ s.held = {} => Debt(s, d, t) <= 1)
<1>1. s.calls \in Seq(Nat) /\ Len(s.calls) \in Nat /\ s.k \in {1, 2, 3}
  BY DEF Sess
<1>2. CallsOn(s.calls, d) <= Len(s.calls) /\ CallsOn(s.calls, d) \in Nat
  <2> DEFINE on == {i \in DOMAIN s.calls : s.calls[i] = d}
  <2>1. IsFiniteSet(1 .. Len(s.calls)) /\ Cardinality(1 .. Len(s.calls)) = Len(s.calls)
    BY <1>1, UpTo
  <2>2. on \subseteq 1 .. Len(s.calls)
    BY <1>1
  <2>3. Cardinality(on) <= Cardinality(1 .. Len(s.calls)) /\ Cardinality(on) \in Nat
    BY <2>1, <2>2, FS_Subset, FS_CardinalityType
  <2> QED
    BY <1>1, <2>1, <2>3 DEF CallsOn
<1>3. CASE Admitted(s)
  <2>1. Len(s.calls) <= 2
    BY <1>1, <1>3 DEF Admitted, Counted
  <2> QED
    BY <1>1, <1>2, <2>1, DebtIs DEF Made
<1>4. CASE ~Admitted(s)
  <2>1. Len(s.calls) <= 3
    BY DEF Counted
  <2> QED
    BY <1>1, <1>2, <1>4, <2>1, DebtIs DEF Made
<1> QED
  BY <1>3, <1>4

\* Syncs with lock rows have different accounts.
LEMMA HoldersAre ==
  ASSUME CostInv, NEW H, H \subseteq {p \in Procs : sess[p].held # {}},
         NEW A, A \subseteq Accounts, \A p \in H : sess[p].acct \in A
  PROVE  Cardinality(H) <= Cardinality(A)
<1> DEFINE f == [p \in H |-> sess[p].acct]
<1>1. IsFiniteSet(A)
  BY CostAssumption, FS_Subset
<1>2. f \in [H -> A] /\ \A p, q \in H : f[p] = f[q] => p = q
  BY DEF CostInv, OneFetcher
<1>3. f \in Injection(H, A)
  BY <1>2 DEF Injection, IsInjective
<1> QED
  BY <1>1, <1>3, FS_Injection

\* What is owed while there is room: a whole sync of those that are over, one less than
\* can hold lock rows, up to the quota of the other holders, one call of the rest.
LEMMA RoomBounds ==
  ASSUME QuotaInv, NEW d \in Days, Total(d) < max_calls_per_org_day, Room(d)
  PROVE  Total(d) + Owed(d) <= OrgBound
<1> DEFINE t == Total(d)
           m == max_calls_per_org_day
           debt(p) == Debt(sess[p], d, Today)
           f == [p \in Procs |-> debt(p)]
           H == {p \in Procs : sess[p].held # {}}
           O == Over(d)
           N == Cardinality(Procs)
<1>0. sess \in [Procs -> Sess] /\ CostInv /\ \A p \in Procs : Made(sess[p], Today) /\ Counted(sess[p])
  BY DEF QuotaInv, CallsInv, CostInv, Types
<1>1. t \in Nat /\ m \in Nat /\ t < m
  BY TotalIs, CostAssumption DEF QuotaInv
<1>2. \A p \in Procs : debt(p) \in Nat /\ debt(p) <= 3 /\ (sess[p].held = {} => debt(p) <= 1)
  BY <1>0, DebtIs, DebtAtMost
<1>3. O = {p \in Procs : t + debt(p) > m} /\ Owed(d) = SumFunction(f) /\ f \in [Procs -> Nat]
  BY <1>2 DEF Over, Owed
<1> HIDE DEF t, m, debt, O
<1>4. O \subseteq H /\ H \subseteq Procs
  BY <1>1, <1>2, <1>3
<1>5. \A p \in H : sess[p].acct \in Accounts
  <2> SUFFICES ASSUME NEW p \in H PROVE sess[p].acct \in Accounts
    OBVIOUS
  <2>1. HoldsFirst(sess[p]) /\ sess[p] \in Sess
    BY <1>0 DEF CostInv
  <2>2. <<"summary", sess[p].acct>> \in Sigs
    BY <2>1 DEF HoldsFirst, Sess
  <2> QED
    BY <2>2 DEF Sigs
<1>6. /\ Cardinality(H) \in Nat /\ Cardinality(O) \in Nat /\ Cardinality(O) <= Cardinality(H)
      /\ Cardinality(H) <= N /\ IsFiniteSet(H) /\ IsFiniteSet(O)
  BY <1>4, Fewer, ProcsAre
<1>7. Cardinality(O) <= N - 1
  <2>1. PICK p \in Procs : p \notin O
    BY <1>3 DEF Room, O
  <2> QED
    BY <1>4, <2>1, Fewer
<1>8. Cardinality(H) <= Cardinality(Accounts)
  BY <1>0, <1>5, HoldersAre
<1>9. Cardinality(O) <= Cardinality(Accounts) - 1
  <2>1. PICK a \in Accounts : \A p \in O : sess[p].acct # a
    BY DEF Room, O
  <2>2. Cardinality(Accounts \ {a}) = Cardinality(Accounts) - 1
    BY CostAssumption, FS_RemoveElement
  <2>3. Cardinality(O) <= Cardinality(Accounts \ {a})
    BY <1>0, <1>4, <1>5, <2>1, HoldersAre
  <2> QED
    BY <2>2, <2>3
<1>10. Cardinality(H \ O) = Cardinality(H) - Cardinality(O)
  <2>1. H \cap O = O
    BY <1>4
  <2> HIDE DEF H
  <2> QED
    BY <1>6, <2>1, FS_Difference
<1>11. Cardinality(H) <= AtOnce /\ Cardinality(O) <= AtOnce - 1 /\ AtOnce \in Nat
  BY <1>6, <1>7, <1>8, <1>9, AtOnceIs
<1>12. ASSUME NEW k \in Nat, k <= 2, k = 2 \/ t + k + 1 = m
       PROVE  Owed(d) <= N + Cardinality(O) * 2 + Cardinality(H \ O) * k
  <2>1. \A p \in O : f[p] <= 3
    BY <1>2, <1>4
  <2>2. \A p \in H \ O : f[p] <= k + 1
    BY <1>1, <1>2, <1>3, <1>12
  <2>3. \A p \in Procs \ H : f[p] <= 1
    BY <1>2
  <2> HIDE DEF f, H, N
  <2>4. IsFiniteSet(Procs) /\ f \in [Procs -> Nat] /\ H \in SUBSET Procs /\ O \in SUBSET H
    BY <1>3, <1>4, ProcsAre
  <2>5. SumFunction(f) <= Cardinality(Procs) + Cardinality(O) * 2 + Cardinality(H \ O) * k
    BY <2>1, <2>2, <2>3, <2>4, <1>12, SumBound, Zenon
  <2> QED
    BY <1>3, <2>5 DEF N
<1>13. Owed(d) \in Nat /\ N \in Nat /\ OrgBound = m + 2 * AtOnce + N - 3
  BY <1>3, ProcsAre, SumCounts, AtOnceIs DEF m
<1> HIDE DEF f, H, N
<1>14. CASE m = t + 1
  <2>1. Owed(d) <= N + Cardinality(O) * 2 + Cardinality(H \ O) * 0
    BY <1>1, <1>12, <1>14
  <2> QED
    BY <1>1, <1>6, <1>10, <1>11, <1>13, <1>14, <2>1 DEF t
<1>15. CASE m = t + 2
  <2>1. Owed(d) <= N + Cardinality(O) * 2 + Cardinality(H \ O) * 1
    BY <1>1, <1>12, <1>15
  <2> QED
    BY <1>1, <1>6, <1>10, <1>11, <1>13, <1>15, <2>1 DEF t
<1>16. CASE m >= t + 3
  <2>1. Owed(d) <= N + Cardinality(O) * 2 + Cardinality(H \ O) * 2
    BY <1>1, <1>12, <1>16
  <2> QED
    BY <1>1, <1>6, <1>10, <1>11, <1>13, <1>16, <2>1 DEF t
<1> QED
  BY <1>1, <1>14, <1>15, <1>16

LEMMA IdleOwes == Idle \in Sess /\ Idle.calls = <<>> /\ ~Admitted(Idle) /\ Made(Idle, Today) /\ Idle.acct = NULL
  BY IdleIs DEF Idle, Admitted, Made

\* The usage of the committed sync joins that of the account, and nobody else has made
\* a call for it.
LEMMA CommitQuota == ASSUME QuotaInv, CallsInv', NEW p \in Procs, commit(p) PROVE QuotaInv'
<1> DEFINE b == sess[p].acct
           n(d) == CallsOn(sess[p].calls, d)
<1>0. /\ sess \in [Procs -> Sess] /\ sess[p] \in Sess /\ b \in Accounts /\ now \in Nat /\ Today \in Nat
      /\ usage \in [Accounts -> [Days -> Nat]] /\ max_calls_per_day \in [Accounts -> Nat]
      /\ sess[p].calls \in Seq(Nat) /\ OneFetcher /\ \A q \in Procs : Made(sess[q], Today)
  BY TodayIsNat, CostAssumption DEF commit, QuotaInv, CallsInv, CostInv, Types, Sess
<1>1. /\ sess' = [sess EXCEPT ![p] = Idle] /\ now' = now /\ Today' = Today
      /\ usage' = [usage EXCEPT ![b] = [d \in Days |-> usage[b][d] + n(d)]]
  BY <1>0 DEF commit, Set, Today, CallsOn
<1>2. sess'[p] = Idle /\ \A q \in Procs : q # p => sess'[q] = sess[q]
  BY <1>0, <1>1
<1>3. \A d : n(d) \in Nat
  BY <1>0, CallsAre
<1>4. \A q \in Procs : Made(sess'[q], Today')
  BY <1>0, <1>1, <1>2, IdleOwes
<1> HIDE DEF n
<1>5. /\ usage' \in [Accounts -> [Days -> Nat]]
      /\ \A a \in Accounts, d \in Days : usage'[a][d] = IF a = b THEN usage[b][d] + n(d) ELSE usage[a][d]
  BY <1>0, <1>1, <1>3
<1>6. ASSUME NEW d \in Days, n(d) # 0, NEW q \in Procs, q # p, sess[q].acct = b PROVE sess[q].calls = <<>>
  <2>1. sess[p].calls # <<>>
    BY <1>0, <1>6, CallsAre DEF n
  <2>2. sess[p].held # {}
    BY <1>0, <2>1 DEF Made
  <2>3. sess[q].held = {}
    BY <1>0, <1>6, <2>2 DEF OneFetcher
  <2> QED
    BY <1>0, <2>3 DEF Made
<1>7. ASSUME NEW a \in Accounts, NEW d \in Days
      PROVE  /\ d > Today' => usage'[a][d] = 0
             /\ \A q \in Procs : sess'[q].acct = a =>
                  Within(usage'[a][d], max_calls_per_day[a], Debt(sess'[q], d, Today'))
             /\ usage'[a][d] >= max_calls_per_day[a] =>
                  usage'[a][d] + Cardinality(Debtors(a, d)') <= max_calls_per_day[a] + Cardinality(Procs) - 1
  <2> DEFINE u == usage[a][d]
             m == max_calls_per_day[a]
             debt(q) == Debt(sess[q], d, Today)
  <2>1. u \in Nat /\ m \in Nat /\ d \in Nat /\ n(d) \in Nat
    BY <1>0, <1>3, TimeIs
  <2>2. /\ \A q \in Procs : sess[q].acct = a => Within(u, m, debt(q))
        /\ d > Today => u = 0
        /\ u >= m => u + Cardinality(Debtors(a, d)) <= m + Cardinality(Procs) - 1
    BY DEF QuotaInv
  <2>3. \A q \in Procs : debt(q) \in Nat
    BY <1>0, DebtIs
  <2>4. Idle.acct # a
    BY IdleOwes, CostAssumption
  <2>5. Debtors(a, d) = {q \in Procs : sess[q].acct = a /\ debt(q) >= 1}
    BY DEF Debtors
  <2>6. Debtors(a, d)' = Debtors(a, d) \ {p}
    <3>1. Debtors(a, d)' = {q \in Procs : sess'[q].acct = a /\ Debt(sess'[q], d, Today) >= 1}
      BY <1>1 DEF Debtors
    <3> QED
      BY <1>2, <2>4, <2>5, <3>1
  <2>7. d > Today => n(d) = 0
    <3> SUFFICES ASSUME d > Today PROVE n(d) = 0
      OBVIOUS
    <3>1. \A i \in DOMAIN sess[p].calls : sess[p].calls[i] # d
      BY <1>0, <2>1 DEF Made
    <3> QED
      BY <1>0, <3>1, CallsAre DEF n
  <2>8. n(d) <= debt(p)
    BY <1>0, DebtIs DEF n
  <2>9. \A q \in Procs : q # p /\ sess[q].acct = b /\ n(d) # 0 => debt(q) <= 1
    BY <1>0, <1>6, DebtIs
  <2> HIDE DEF u, m, debt
  <2>10. CASE a # b \/ n(d) = 0
    <3>1. usage'[a][d] = u
      BY <1>5, <2>1, <2>10 DEF u
    <3>2. \A q \in Procs : sess'[q].acct = a => Within(u, m, Debt(sess'[q], d, Today))
      BY <1>2, <2>2, <2>4 DEF debt
    <3>3. ASSUME u >= m PROVE u + Cardinality(Debtors(a, d)') <= m + Cardinality(Procs) - 1
      <4>1. Debtors(a, d)' \subseteq Debtors(a, d) /\ Debtors(a, d) \subseteq Procs
        BY <2>5, <2>6
      <4>2. /\ Cardinality(Debtors(a, d)') <= Cardinality(Debtors(a, d))
            /\ Cardinality(Debtors(a, d)') \in Nat /\ Cardinality(Debtors(a, d)) \in Nat
        BY <4>1, Fewer
      <4> QED
        BY <2>1, <2>2, <3>3, <4>2, ProcsAre
    <3> QED
      BY <1>1, <2>2, <3>1, <3>2, <3>3 DEF m
  <2>11. CASE a = b /\ n(d) # 0
    <3>1. usage'[a][d] = u + n(d) /\ sess[p].acct = a
      BY <1>5, <2>11 DEF u
    <3>2. \A q \in Procs : sess'[q].acct = a => Debt(sess'[q], d, Today) <= 1 /\ Debt(sess'[q], d, Today) \in Nat
      BY <1>2, <2>3, <2>4, <2>9, <2>11 DEF debt
    <3>3. \A q \in Procs : sess'[q].acct = a => Within(u + n(d), m, Debt(sess'[q], d, Today))
      BY <2>1, <3>2 DEF Within
    <3>4. ASSUME u + n(d) >= m PROVE u + n(d) + Cardinality(Debtors(a, d)') <= m + Cardinality(Procs) - 1
      <4>1. CASE u < m
        <5>1. u + n(d) <= m
          BY <2>1, <2>2, <2>3, <2>8, <3>1, <4>1 DEF Within
        <5>2. Debtors(a, d)' \subseteq Procs /\ p \notin Debtors(a, d)'
          BY <2>5, <2>6
        <5>3. Cardinality(Debtors(a, d)') <= Cardinality(Procs) - 1 /\ Cardinality(Debtors(a, d)') \in Nat
          BY <5>2, Fewer
        <5> QED
          BY <2>1, <5>1, <5>3, ProcsAre
      <4>2. CASE u >= m
        <5>1. debt(p) <= 1 /\ n(d) = 1 /\ debt(p) >= 1
          BY <2>1, <2>2, <2>3, <2>8, <2>11, <3>1, <4>2 DEF Within
        <5>2. p \in Debtors(a, d) /\ Debtors(a, d)' \subseteq Debtors(a, d) /\ p \notin Debtors(a, d)'
              /\ Debtors(a, d) \subseteq Procs
          BY <2>5, <2>6, <3>1, <5>1
        <5>3. /\ Cardinality(Debtors(a, d)') <= Cardinality(Debtors(a, d)) - 1
              /\ Cardinality(Debtors(a, d)') \in Nat /\ Cardinality(Debtors(a, d)) \in Nat
          BY <5>2, Fewer
        <5> QED
          BY <2>1, <2>2, <4>2, <5>1, <5>3, ProcsAre
      <4> QED
        BY <2>1, <4>1, <4>2
    <3> QED
      BY <1>1, <2>7, <2>11, <3>1, <3>3, <3>4 DEF m
  <2> QED
    BY <2>10, <2>11
<1>8. ASSUME NEW d \in Days PROVE OrgDay(d)'
  <2> DEFINE t == Total(d)
             m == max_calls_per_org_day
             debt(q) == Debt(sess[q], d, Today)
             f == [q \in Procs |-> debt(q)]
             g == [q \in Procs |-> Debt(sess'[q], d, Today)]
  <2>1. t \in Nat /\ m \in Nat /\ n(d) \in Nat /\ OrgDay(d)
    BY <1>0, <1>3, TotalIs, CostAssumption DEF QuotaInv
  <2>2. \A q \in Procs : debt(q) \in Nat
    BY <1>0, DebtIs
  <2>3. debt(p) = n(d)
    BY <1>0, DebtIs DEF n, commit, Admitted
  <2>4. Debt(Idle, d, Today) = 0
    BY IdleOwes, DebtIs
  <2>5. Total(d)' = t + n(d)
    <3> DEFINE x == [a \in Accounts |-> usage[a][d]]
               y == [a \in Accounts |-> usage'[a][d]]
    <3>1. x \in [Accounts -> Nat] /\ y \in [Accounts -> Nat] /\ \A a \in Accounts : a # b => y[a] = x[a]
      BY <1>0, <1>5
    <3>2. y[b] = x[b] + n(d) /\ x[b] \in Nat
      BY <1>0, <1>5
    <3>3. t = SumFunction(x) /\ Total(d)' = SumFunction(y)
      BY DEF Total
    <3> HIDE DEF x, y, t
    <3>4. SumFunction(x) \in Nat /\ SumFunction(y) \in Nat
      BY <3>1, SumCounts, CostAssumption
    <3>5. SumFunction(y) + x[b] = SumFunction(x) + y[b]
      <4>1. IsFiniteSet(Accounts) /\ b \in Accounts
        BY <1>0, CostAssumption
      <4> HIDE DEF b
      <4> QED
        BY <3>1, <4>1, SumChanges
    <3> QED
      BY <2>1, <3>2, <3>3, <3>4, <3>5
  <2>6. \A q \in Procs : Debt(sess'[q], d, Today) = IF q = p THEN 0 ELSE debt(q)
    BY <1>2, <2>4
  <2>7. Owed(d)' + n(d) = Owed(d) /\ Owed(d) \in Nat /\ Owed(d)' \in Nat
    <3>1. f \in [Procs -> Nat] /\ g \in [Procs -> Nat] /\ \A q \in Procs : q # p => g[q] = f[q]
      BY <2>2, <2>6
    <3>2. g[p] = 0 /\ f[p] = n(d)
      BY <2>3, <2>6
    <3>3. Owed(d) = SumFunction(f) /\ Owed(d)' = SumFunction(g)
      BY <1>1 DEF Owed
    <3> HIDE DEF f, g, debt
    <3>4. SumFunction(g) + f[p] = SumFunction(f) + g[p] /\ SumFunction(f) \in Nat /\ SumFunction(g) \in Nat
      BY <3>1, SumChanges, SumCounts, ProcsAre
    <3> QED
      BY <2>1, <3>2, <3>3, <3>4
  <2>8. Over(d)' = {q \in Procs : t + n(d) + Debt(sess'[q], d, Today) > m}
    BY <1>1, <2>5 DEF Over
  <2>9. Over(d) = {q \in Procs : t + debt(q) > m}
    BY DEF Over
  <2>10. OrgBound' = OrgBound /\ OrgBound \in Nat
    BY AtOnceIs DEF OrgBound, AtOnce
  <2>11. n(d) # 0 => \A q \in Procs : q # p /\ sess[q].acct = b => debt(q) <= 1
    BY <1>0, <1>6, DebtIs
  <2> HIDE DEF t, m, debt
  <2>12. ASSUME t + n(d) < m PROVE Room(d)'
    <3>1. p \notin Over(d)'
      BY <2>1, <2>6, <2>8, <2>12
    <3>2. CASE n(d) = 0
      <4>1. Room(d)
        BY <2>1, <2>12, <3>2 DEF OrgDay, t, m
      <4>2. Over(d)' \subseteq Over(d) \ {p}
        BY <2>1, <2>2, <2>6, <2>8, <2>9, <3>1, <3>2
      <4>3. \A q \in Over(d)' : sess'[q].acct = sess[q].acct
        BY <1>2, <2>9, <4>2
      <4> QED
        BY <3>1, <4>1, <4>2, <4>3 DEF Room
    <3>3. CASE n(d) # 0
      <4>1. ASSUME NEW q \in Over(d)' PROVE sess'[q].acct # b
        <5>1. q \in Procs /\ q # p /\ t + n(d) + debt(q) > m
          BY <2>6, <2>8, <3>1
        <5>2. debt(q) > 1
          BY <2>1, <2>2, <2>12, <5>1
        <5> QED
          BY <1>2, <2>2, <2>11, <3>3, <5>1, <5>2
      <4> QED
        BY <1>0, <3>1, <4>1 DEF Room
    <3> QED
      BY <3>2, <3>3
  <2>13. ASSUME t + n(d) >= m PROVE t + n(d) + Owed(d)' <= OrgBound
    <3>1. t + Owed(d) <= OrgBound
      <4>1. CASE t < m
        BY <2>1, <4>1, RoomBounds DEF OrgDay, t, m
      <4>2. CASE t >= m
        BY <2>1, <4>2 DEF OrgDay, t, m
      <4> QED
        BY <2>1, <4>1, <4>2
    <3> QED
      BY <2>1, <2>7, <2>10, <3>1
  <2> QED
    BY <2>5, <2>10, <2>12, <2>13 DEF OrgDay, m
<1> QED
  BY <1>4, <1>5, <1>7, <1>8 DEF QuotaInv

LEMMA EndQuota ==
  ASSUME QuotaInv, CallsInv', NEW p \in Procs, rollback(p) \/ Crash(p)
  PROVE  QuotaInv'
<1>1. Set(p, Idle) /\ usage' = usage /\ now' = now
  BY DEF rollback, Crash, Same
<1> QED
  BY <1>1, IdleOwes, NothingOwed

LEMMA BeginQuota ==
  ASSUME QuotaInv, CallsInv', NEW p \in Procs, NEW a \in Accounts, NEW force, NEW allowed, begin(p, a, force, allowed)
  PROVE  QuotaInv'
<1> DEFINE had == latest(a) # NULL
           new == [Idle EXCEPT !.pc = "guard", !.acct = a, !.had = had]
<1>1. (Set(p, Idle) \/ Set(p, new)) /\ usage' = usage /\ now' = now
  BY DEF begin
<1>2. new \in Sess
  BY IdleIs DEF Sess, Pcs
<1>3. new.calls = <<>> /\ ~Admitted(new)
  BY DEF Idle, Admitted
<1> HIDE DEF new
<1> QED
  BY <1>1, <1>2, <1>3, IdleOwes, NothingOwed

LEMMA StartQuota ==
  ASSUME QuotaInv, CallsInv',
         \/ \E u \in Users : start_cost_sync(u)
         \/ \E j \in Jobs : run_cost_job(j)
         \/ \E c \in Scripts : script_account(c)
  PROVE  QuotaInv'
<1>1. ASSUME NEW u \in Users, start_cost_sync(u) PROVE QuotaInv'
  <2>1. u \in Procs
    BY DEF Procs
  <2>2. PICK a \in Accounts, force \in BOOLEAN, role \in {"org_admin", "admin"}, allow_admin \in BOOLEAN :
          begin(u, a, force, assert_force_refresh_allowed(role, allow_admin))
    BY <1>1 DEF start_cost_sync
  <2> QED
    BY <2>1, <2>2, BeginQuota
<1>2. ASSUME NEW j \in Jobs, run_cost_job(j) PROVE QuotaInv'
  <2>1. j \in Procs
    BY DEF Procs
  <2>2. PICK a \in Accounts, force \in BOOLEAN : begin(j, a, force, assert_force_refresh_allowed("system", FALSE))
    BY <1>2 DEF run_cost_job
  <2> QED
    BY <2>1, <2>2, BeginQuota
<1>3. ASSUME NEW c \in Scripts, script_account(c) PROVE QuotaInv'
  <2>1. c \in Procs /\ queue[c] \subseteq Accounts
    BY DEF QuotaInv, CallsInv, CostInv, Types, Procs
  <2>2. PICK a \in queue[c] : begin(c, a, FALSE, TRUE)
    BY <1>3 DEF script_account
  <2> QED
    BY <2>1, <2>2, BeginQuota
<1> QED
  BY <1>1, <1>2, <1>3

\* No session and no usage changes: a day that ends takes the debt of its admitted
\* calls along, they are made on the next.
LEMMA ClockQuota ==
  ASSUME QuotaInv, CallsInv', sess' = sess, usage' = usage, now' = now \/ now' = now + 1
  PROVE  QuotaInv'
<1>1. sess \in [Procs -> Sess] /\ now \in Nat /\ Today \in Nat
  BY TodayIsNat DEF QuotaInv, CallsInv, CostInv, Types
<1>2. Today' \in Nat /\ Today' >= Today
  <2>1. CASE now' = now
    BY <1>1, <2>1 DEF Today
  <2>2. CASE now' = now + 1
    BY <1>1, <2>2, TomorrowIs
  <2> QED
    BY <2>1, <2>2
<1>3. ASSUME NEW p \in Procs PROVE Made(sess'[p], Today')
  <2>1. Made(sess[p], Today) /\ sess[p].calls \in Seq(Nat)
    BY <1>1 DEF QuotaInv, Sess
  <2>2. \A i \in DOMAIN sess[p].calls : sess[p].calls[i] \in Nat
    BY <2>1
  <2> QED
    BY <1>1, <1>2, <2>1, <2>2 DEF Made
<1>4. ASSUME NEW p \in Procs, NEW d \in Days PROVE Debt(sess'[p], d, Today') <= Debt(sess[p], d, Today)
  <2>1. d \in Nat /\ CallsOn(sess[p].calls, d) \in Nat
    BY <1>1, TimeIs, CallsAre DEF Sess
  <2> QED
    BY <1>1, <1>2, <2>1 DEF Debt
<1> QED
  BY <1>2, <1>3, <1>4, Calm

LEMMA QuotaInit == ASSUME Init PROVE QuotaInv
<1>1. CallsInv /\ now \in Nat /\ Today \in Nat
  <2>1. CostInv /\ now \in Nat /\ Today \in Nat
    BY CostInit, TodayIsNat DEF CostInv, Types
  <2> QED
    BY <2>1, IdleCounted DEF CallsInv, Init
<1>2. \A p \in Procs : sess[p] = Idle /\ sess[p].acct \notin Accounts
  BY IdleOwes, CostAssumption DEF Init
<1>3. usage \in [Accounts -> [Days -> Nat]] /\ \A a \in Accounts, d \in Days : usage[a][d] = 0
  BY DEF Init
<1>4. ASSUME NEW a \in Accounts, NEW d \in Days
      PROVE  usage[a][d] + Cardinality(Debtors(a, d)) <= max_calls_per_day[a] + Cardinality(Procs) - 1
  <2>1. Cardinality(Debtors(a, d)) = 0
    <3>1. Debtors(a, d) = {}
      BY <1>2 DEF Debtors
    <3> QED
      BY <3>1, FS_EmptySet
  <2> QED
    BY <1>3, <2>1, ProcsAre, CostAssumption
<1>5. ASSUME NEW d \in Days PROVE OrgDay(d)
  <2> DEFINE f == [a \in Accounts |-> usage[a][d]]
             g == [p \in Procs |-> Debt(sess[p], d, Today)]
  <2>1. \A p \in Procs : Debt(sess[p], d, Today) = 0
    BY <1>2, IdleOwes, DebtIs
  <2>2. f \in [Accounts -> Nat] /\ g \in [Procs -> Nat] /\ (\A a \in Accounts : f[a] = 0) /\ \A p \in Procs : g[p] = 0
    BY <1>3, <2>1
  <2>3. Total(d) = 0
    BY <2>2, SumZero, CostAssumption DEF Total
  <2>4. Owed(d) = 0
    BY <2>2, SumZero, ProcsAre DEF Owed
  <2>5. Over(d) = {}
    BY <2>1, <2>3, CostAssumption DEF Over
  <2>6. Room(d)
    BY <2>5, CostAssumption DEF Room
  <2> QED
    BY <2>3, <2>4, <2>6, AtOnceIs DEF OrgDay
<1> QED
  BY <1>1, <1>2, <1>3, <1>4, <1>5, IdleOwes DEF QuotaInv

LEMMA QuotaNext == ASSUME QuotaInv, [Next]_vars PROVE QuotaInv'
<1>0. CallsInv'
  BY CallsNext DEF QuotaInv
<1>1. CASE UNCHANGED vars
  BY <1>0, <1>1, ClockQuota DEF vars
<1>2. CASE \/ \E u \in Users : start_cost_sync(u)
           \/ \E j \in Jobs : run_cost_job(j)
           \/ \E c \in Scripts : script_account(c)
  BY <1>0, <1>2, StartQuota
<1>3. ASSUME NEW c \in Scripts, script_start(c) \/ script_end(c) PROVE QuotaInv'
  BY <1>0, <1>3, ClockQuota DEF script_start, script_end
<1>4. ASSUME NEW p \in Procs, SyncStep(p) PROVE QuotaInv'
  <2>1. CASE guard(p)
    BY <1>0, <2>1, GuardQuota
  <2>2. CASE read_lock(p) \/ write_lock(p)
    BY <1>0, <2>2, LockQuota
  <2>3. CASE fetched(p)
    BY <1>0, <2>3, FetchedQuota
  <2>4. CASE fetch_fails(p)
    BY <1>0, <2>4, BlockedQuota DEF fetch_fails
  <2>5. CASE upsert_snapshot(p)
    BY <1>0, <2>5, UpsertQuota
  <2>6. CASE commit(p)
    BY <1>0, <2>6, CommitQuota
  <2>7. CASE rollback(p)
    BY <1>0, <2>7, EndQuota
  <2> QED
    BY <1>4, <2>1, <2>2, <2>3, <2>4, <2>5, <2>6, <2>7 DEF SyncStep
<1>5. ASSUME NEW p \in Procs, Crash(p) PROVE QuotaInv'
  BY <1>0, <1>5, EndQuota
<1>6. CASE Tick
  BY <1>0, <1>6, ClockQuota DEF Tick
<1> QED
  BY <1>1, <1>2, <1>3, <1>4, <1>5, <1>6 DEF Next

\* The committed calls of an account pass its daily quota by one call per other
\* process at most (live_call_allowed, asked before the lock is waited for), for any
\* accounts, callers, quotas, clock and crashes.
THEOREM AccountQuotaHolds == Spec => []AccountQuota
<1>1. Init => QuotaInv
  BY QuotaInit
<1>2. QuotaInv /\ [Next]_vars => QuotaInv'
  BY QuotaNext
<1>3. QuotaInv => AccountQuota
  <2> SUFFICES ASSUME QuotaInv, NEW a \in Accounts, NEW d \in Days
               PROVE  usage[a][d] <= max_calls_per_day[a] + Cardinality(Procs) - 1
    BY DEF AccountQuota
  <2>1. usage[a][d] \in Nat /\ max_calls_per_day[a] \in Nat
    BY CostAssumption DEF QuotaInv
  <2>2. Cardinality(Debtors(a, d)) \in Nat
    <3>1. Debtors(a, d) \subseteq Procs
      BY DEF Debtors
    <3> QED
      BY <3>1, Fewer
  <2>3. usage[a][d] >= max_calls_per_day[a] =>
          usage[a][d] + Cardinality(Debtors(a, d)) <= max_calls_per_day[a] + Cardinality(Procs) - 1
    BY DEF QuotaInv
  <2> QED
    BY <2>1, <2>2, <2>3, ProcsAre
<1> QED
  BY <1>1, <1>2, <1>3, PTL DEF Spec

\* The committed calls of the organisation pass its daily quota by a whole sync for
\* every other account synced at once and one call for every process that waits at a
\* lock at most (live_call_allowed sees no uncommitted calls of others), for any
\* accounts, callers, quotas, clock and crashes.
THEOREM OrgQuotaHolds == Spec => []OrgQuota
<1>1. Init => QuotaInv
  BY QuotaInit
<1>2. QuotaInv /\ [Next]_vars => QuotaInv'
  BY QuotaNext
<1>3. QuotaInv => OrgQuota
  <2> SUFFICES ASSUME QuotaInv, NEW d \in Days PROVE Total(d) <= OrgBound
    BY DEF OrgQuota, OrgBound, AtOnce
  <2>1. usage \in [Accounts -> [Days -> Nat]] /\ sess \in [Procs -> Sess] /\ OrgDay(d)
    BY DEF QuotaInv, CallsInv, CostInv, Types
  <2>2. Total(d) \in Nat /\ max_calls_per_org_day \in Nat
    BY <2>1, TotalIs, CostAssumption
  <2>3. Owed(d) \in Nat
    <3>1. [p \in Procs |-> Debt(sess[p], d, Today)] \in [Procs -> Nat]
      BY <2>1, DebtIs
    <3> QED
      BY <3>1, SumCounts, ProcsAre DEF Owed
  <2> QED
    BY <2>1, <2>2, <2>3, AtOnceIs DEF OrgDay
<1> QED
  BY <1>1, <1>2, <1>3, PTL DEF Spec
=============================================================================
