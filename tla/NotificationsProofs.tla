-------------------------- MODULE NotificationsProofs --------------------------
(***************************************************************************)
(* OneCopyPerChannel and LostReceiptIsRepeat for any number of workers, and *)
(* AttemptBound for one, for any providers, users, events, preferences and  *)
(* bounds.                                                                  *)
(*                                                                         *)
(* The first two are about one run of dispatch_routed, which is a sequence *)
(* of four operations on its session: it leaves a provider behind, counts  *)
(* a message as sent, commits, and logs a delivery.  Good says of a session *)
(* d, the durable logs b and the inbox x what holds between them - an inbox *)
(* row that is gone was swept by a failed commit or has an earlier log row; *)
(* a lemma per operation shows that it is kept, and the steps compose the   *)
(* lemmas.                                                                  *)
(***************************************************************************)
EXTENDS Notifications, TLAPS

Marks == {NoRow, "unread", "read", "acknowledged"}
Inboxes == [Users -> [1 .. MaxEvents -> Marks]]
Tables == [Keys -> LogRow \cup {NULL}]
Pending == UNION {[S -> LogRow] : S \in SUBSET Keys}
Counts == UNION {[S -> Nat] : S \in SUBSET Keys}

Disp == [pc : {"idle", "org", "user"}, ev : Events \cup {NULL}, no : 0 .. MaxEvents, org : BOOLEAN,
         provs : SUBSET Providers, left : SUBSET Providers, users : SUBSET Users, some : BOOLEAN,
         cur : Users \cup {NULL}, note : {NoRow, "new", "flushed", "kept", "lost", "gone"},
         notes : SUBSET Users, pend : Pending, sent : SUBSET Keys, count : Counts, made : SUBSET Users,
         swept : SUBSET Users]

Work == [pc : {"idle", "retry", "result"}, left : SUBSET Keys, rows : Pending, cur : Keys \cup {NULL}]

Types ==
  /\ integ \subseteq Providers
  /\ logs \in Tables
  /\ inbox \in Inboxes
  /\ disp \in Disp
  /\ work \in [Workers -> Work]
  /\ \A w \in Workers : /\ work[w].left \subseteq DOMAIN work[w].rows
                        /\ work[w].pc = "result" => work[w].cur \in DOMAIN work[w].rows
                        /\ \A k \in DOMAIN work[w].rows : logs[k] # NULL
  /\ events \in 0 .. MaxEvents /\ changes \in Nat /\ crashes \in Nat

------------------------------------------------------------------------------
(* one session *)

Running(d) == /\ d.pc # "idle" /\ d.ev \in Events /\ d.no \in 1 .. MaxEvents
              /\ d.pc = "user" => d.cur \in Users /\ d.cur \notin d.users
              /\ d.note \in {"new", "flushed"} => d.cur \in Users

\* The session has logged a delivery under k.
Used(d, b, k) == k \in DOMAIN d.pend \/ (b[k] # NULL /\ b[k].no = d.no)

\* An earlier event of the kind has left a row.
Repeat(d, b) == \E k \in Keys : k[3] = d.ev.type /\ b[k] # NULL /\ b[k].no < d.no

\* Nothing it would lose is in the way of the rows it holds.
Held(d, b) ==
  /\ \A k \in DOMAIN d.pend : /\ b[k] = NULL /\ d.pend[k].no = d.no
                              /\ d.pend[k].attempts = 1 /\ d.pend[k].retries = 0
  /\ \A k \in Keys : b[k] # NULL => b[k].no <= d.no

\* The channels that may still get a message have had none.
Unsent(d) ==
  /\ \A k \in DOMAIN d.count : d.count[k] = 1 /\ k \in d.sent
  /\ \A p \in Providers, u \in d.users : <<p, u, d.ev.type>> \notin d.sent
  /\ d.pc = "org" => \A p \in d.left : <<p, "org", d.ev.type>> \notin d.sent
  /\ d.pc = "user" => \A p \in d.left : <<p, d.cur, d.ev.type>> \notin d.sent

\* A key the session may log under: the channel was sent to, the user is done with it.
Done(d, k) ==
  /\ k[2] = "org" => k \in d.sent
  /\ k[2] \in Users => d.pc = "user" /\ k[2] \notin d.users /\ (k[2] = d.cur => k[1] \notin d.left)

Logged(d, b) == \A k \in Keys : Used(d, b, k) => Done(d, k)

\* An inbox row that was made is there, or will be at the next commit, unless a
\* repeated event or a failed commit took it.
Receipts(d, b, x) ==
  /\ \A u \in d.made : \/ x[u][d.no] # NoRow
                       \/ u \in d.notes
                       \/ u = d.cur /\ d.note \in {"new", "flushed"}
                       \/ Repeat(d, b) \/ u \in d.swept
  /\ d.note = "lost" => d.notes = {} /\ (Repeat(d, b) \/ d.cur \in d.swept)
  /\ d.made \cup d.users # {} => d.some

Good(d, b, x) ==
  /\ d \in Disp /\ b \in Tables /\ x \in Inboxes
  /\ Running(d) /\ Held(d, b) /\ Unsent(d) /\ Logged(d, b) /\ Receipts(d, b, x)

\* The inductive invariant.
DispatchInv ==
  /\ Types
  /\ disp.no <= events /\ \A k \in Keys : logs[k] # NULL => logs[k].no <= events
  /\ disp.pc # "idle" => Good(disp, logs, inbox)
  /\ disp.pc = "idle" => /\ LostReceiptIsRepeat /\ disp.count = <<>> /\ disp.pend = <<>>
                         /\ disp.made # {} => disp.no \in 1 .. MaxEvents

------------------------------------------------------------------------------
(* one worker *)

OneWorker == \A v, w \in Workers : v = w

\* w has loaded the row of k as it is, and may try it once more.
InPass(w, k) == /\ logs[k] # NULL /\ work[w].rows[k].retries = logs[k].retries
                /\ logs[k].retries < MAX_RETRIES

Loaded ==
  \A w \in Workers :
    /\ work[w].pc # "idle" => \A k \in work[w].left : InPass(w, k)
    /\ work[w].pc = "result" => InPass(w, work[w].cur) /\ work[w].cur \notin work[w].left

\* The delivery of k is under way for another time.
Trying(k) == \E w \in Workers : work[w].pc = "result" /\ work[w].cur = k

Trials ==
  \A k \in Keys : logs[k] # NULL =>
    /\ logs[k].retries <= MAX_RETRIES
    /\ logs[k].attempts <= 1 + logs[k].retries + crashes + (IF Trying(k) THEN 1 ELSE 0)

\* The inductive invariant.
RetryInv == DispatchInv /\ Loaded /\ Trials

------------------------------------------------------------------------------
(* functions and records *)

LEMMA PendingIs ==
  ASSUME NEW f
  PROVE  f \in Pending <=> DOMAIN f \subseteq Keys /\ f \in [DOMAIN f -> LogRow]
  BY DEF Pending

LEMMA CountsIs ==
  ASSUME NEW f
  PROVE  f \in Counts <=> DOMAIN f \subseteq Keys /\ f \in [DOMAIN f -> Nat]
  BY DEF Counts

LEMMA EmptyIs == <<>> \in Pending /\ <<>> \in Counts /\ DOMAIN <<>> = {}
<1>1. <<>> \in [{} -> LogRow] /\ <<>> \in [{} -> Nat] /\ DOMAIN <<>> = {}
  OBVIOUS
<1> QED
  BY <1>1, PendingIs, CountsIs

LEMMA PutPending ==
  ASSUME NEW f \in Pending, NEW k \in Keys, NEW v \in LogRow
  PROVE  Put(f, k, v) \in Pending
<1>1. DOMAIN f \subseteq Keys /\ f \in [DOMAIN f -> LogRow]
  BY PendingIs
<1>2. Put(f, k, v) \in [{k} \cup DOMAIN f -> LogRow]
  BY <1>1 DEF Put
<1> QED
  BY <1>1, <1>2 DEF Pending

LEMMA PutCounts ==
  ASSUME NEW f \in Counts, NEW k \in Keys, NEW v \in Nat
  PROVE  Put(f, k, v) \in Counts
<1>1. DOMAIN f \subseteq Keys /\ f \in [DOMAIN f -> Nat]
  BY CountsIs
<1>2. Put(f, k, v) \in [{k} \cup DOMAIN f -> Nat]
  BY <1>1 DEF Put
<1> QED
  BY <1>1, <1>2 DEF Counts

LEMMA OverTables ==
  ASSUME NEW g \in Pending, NEW f \in Tables
  PROVE  Over(g, f) \in Tables
<1>1. DOMAIN g \subseteq Keys /\ g \in [DOMAIN g -> LogRow] /\ f \in [Keys -> LogRow \cup {NULL}]
  BY PendingIs DEF Tables
<1>2. DOMAIN g \cup DOMAIN f = Keys
  BY <1>1
<1>3. Over(g, f) \in [Keys -> LogRow \cup {NULL}]
  BY <1>1, <1>2 DEF Over
<1> QED
  BY <1>3 DEF Tables

LEMMA KeyIs ==
  ASSUME NEW e \in Events, NEW p \in Providers, NEW t \in Users \cup {"org"}
  PROVE  /\ <<p, t, e.type>> \in Keys
         /\ <<p, t, e.type>>[1] = p /\ <<p, t, e.type>>[2] = t /\ <<p, t, e.type>>[3] = e.type
  BY DEF Keys, Kinds

LEMMA RowIsRow ==
  ASSUME NEW b \in Tables, NEW k \in Keys, b[k] # NULL
  PROVE  b[k] \in LogRow /\ b[k].no \in Nat /\ b[k].attempts \in Nat /\ b[k].retries \in Nat
  BY DEF Tables, LogRow

LEMMA PendIsRow ==
  ASSUME NEW f \in Pending, NEW k \in DOMAIN f
  PROVE  k \in Keys /\ f[k] \in LogRow /\ f[k] # NULL
  BY PendingIs, NotificationsAssumption

------------------------------------------------------------------------------
(* the operations of a session *)

\* All that a session is about stays.
Kept(d, r) ==
  /\ r.pc = d.pc /\ r.ev = d.ev /\ r.no = d.no /\ r.org = d.org /\ r.provs = d.provs
  /\ r.users = d.users /\ r.some = d.some /\ r.cur = d.cur /\ r.made = d.made
  /\ d.swept \subseteq r.swept

\* Rows are only added, and those of the session.
Grows(b, c) ==
  \A k \in Keys : \/ c[k] = b[k]
                  \/ b[k] = NULL /\ c[k] \in LogRow /\ c[k].attempts = 1 /\ c[k].retries = 0

TakeOut(d, p) == [d EXCEPT !.left = @ \ {p}]

LEMMA TakeIs ==
  ASSUME NEW d \in Disp, NEW p
  PROVE  LET r == TakeOut(d, p) IN
         /\ r \in Disp /\ Kept(d, r) /\ r.left = d.left \ {p}
         /\ r.note = d.note /\ r.notes = d.notes /\ r.pend = d.pend /\ r.sent = d.sent /\ r.count = d.count
  BY DEF TakeOut, Disp, Kept

LEMMA TakeGood ==
  ASSUME NEW d, NEW b, NEW x, NEW p, Good(d, b, x)
  PROVE  Good(TakeOut(d, p), b, x)
<1> DEFINE r == TakeOut(d, p)
<1>1. d \in Disp
  BY DEF Good
<1>2. /\ r \in Disp /\ Kept(d, r) /\ r.left = d.left \ {p}
      /\ r.note = d.note /\ r.notes = d.notes /\ r.pend = d.pend /\ r.sent = d.sent /\ r.count = d.count
  BY <1>1, TakeIs
<1> HIDE DEF r
<1>3. Running(r)
  BY <1>2 DEF Good, Running, Kept
<1>4. Held(r, b)
  BY <1>2 DEF Good, Held, Kept
<1>5. Unsent(r)
  BY <1>2 DEF Good, Unsent, Kept
<1>6. Logged(r, b)
  BY <1>2 DEF Good, Logged, Kept, Used, Done
<1>7. Repeat(r, b) <=> Repeat(d, b)
  BY <1>2 DEF Repeat, Kept
<1>8. Receipts(r, b, x)
  BY <1>2, <1>7 DEF Good, Receipts, Kept
<1> QED
  BY <1>2, <1>3, <1>4, <1>5, <1>6, <1>8 DEF Good, r

\* A message to a channel that has had none.
SendTo(d, k) == Counted([d EXCEPT !.sent = @ \cup {k}], k)

LEMMA SendIs ==
  ASSUME NEW d \in Disp, NEW k \in Keys, k \notin d.sent, Unsent(d)
  PROVE  LET r == SendTo(d, k) IN
         /\ r \in Disp /\ Kept(d, r) /\ r.left = d.left
         /\ r.note = d.note /\ r.notes = d.notes /\ r.pend = d.pend /\ r.sent = d.sent \cup {k}
         /\ \A j \in DOMAIN r.count : r.count[j] = 1 /\ j \in r.sent
<1> DEFINE e == [d EXCEPT !.sent = @ \cup {k}]
           r == SendTo(d, k)
<1>1. /\ e \in Disp /\ Kept(d, e) /\ e.left = d.left
      /\ e.note = d.note /\ e.notes = d.notes /\ e.pend = d.pend /\ e.sent = d.sent \cup {k} /\ e.count = d.count
  BY DEF Disp, Kept
<1>2. d.count \in Counts
  BY DEF Disp
<1>3. k \notin DOMAIN d.count
  BY DEF Unsent
<1> HIDE DEF e
<1>4. r = [e EXCEPT !.count = Put(e.count, k, 1)]
  <2>1. r = [e EXCEPT !.count = Put(e.count, k, 1 + IF k \in DOMAIN e.count THEN e.count[k] ELSE 0)]
    BY <1>1 DEF SendTo, Counted, e, Disp
  <2> QED
    BY <1>1, <1>3, <2>1
<1>5. Put(e.count, k, 1) \in Counts
  BY <1>1, <1>2, PutCounts
<1> DEFINE c == Put(e.count, k, 1)
<1> HIDE DEF c
<1>6. r = [e EXCEPT !.count = c] /\ c \in Counts
  BY <1>4, <1>5 DEF c
<1> HIDE DEF r
<1>7. /\ r \in Disp /\ Kept(e, r) /\ r.left = e.left
      /\ r.note = e.note /\ r.notes = e.notes /\ r.pend = e.pend /\ r.sent = e.sent /\ r.count = c
  BY <1>1, <1>6 DEF Disp, Kept
<1>8. DOMAIN c = {k} \cup DOMAIN d.count /\ c[k] = 1 /\ \A j \in DOMAIN d.count : j # k => c[j] = d.count[j]
  <2>1. c = Put(d.count, k, 1)
    BY <1>1 DEF c
  <2> QED
    BY <2>1 DEF Put
<1>9. \A j \in DOMAIN c : c[j] = 1 /\ j \in r.sent
  BY <1>1, <1>3, <1>7, <1>8 DEF Unsent
<1> QED
  BY <1>1, <1>7, <1>9 DEF Kept, r

LEMMA SendGood ==
  ASSUME NEW d, NEW b, NEW x, NEW k \in Keys, Good(d, b, x), k \notin d.sent, k[2] \notin d.users,
         d.pc = "org" => k[2] = "org" /\ k[1] \notin d.left,
         d.pc = "user" => k[2] # d.cur \/ k[1] \notin d.left
  PROVE  Good(SendTo(d, k), b, x)
<1> DEFINE r == SendTo(d, k)
<1>1. d \in Disp /\ Unsent(d)
  BY DEF Good
<1>2. /\ r \in Disp /\ Kept(d, r) /\ r.left = d.left
      /\ r.note = d.note /\ r.notes = d.notes /\ r.pend = d.pend /\ r.sent = d.sent \cup {k}
      /\ \A j \in DOMAIN r.count : r.count[j] = 1 /\ j \in r.sent
  BY <1>1, SendIs
<1> HIDE DEF r
<1>3. Running(r)
  BY <1>2 DEF Good, Running, Kept
<1>4. Held(r, b)
  BY <1>2 DEF Good, Held, Kept
<1>5. \A p, t, y : <<p, t, y>> = k => k[1] = p /\ k[2] = t
  OBVIOUS
<1>6. Unsent(r)
  BY <1>1, <1>2, <1>5 DEF Unsent, Kept
<1>7. Logged(r, b)
  BY <1>2 DEF Good, Logged, Kept, Used, Done
<1>8. Repeat(r, b) <=> Repeat(d, b)
  BY <1>2 DEF Repeat, Kept
<1>9. Receipts(r, b, x)
  BY <1>2, <1>8 DEF Good, Receipts, Kept
<1> QED
  BY <1>2, <1>3, <1>4, <1>6, <1>7, <1>9 DEF Good, r

\* The inbox x with the rows of N.
Got(x, N, n) == [u \in Users |-> IF u \in N THEN [x[u] EXCEPT ![n] = "unread"] ELSE x[u]]

LEMMA GotIs ==
  ASSUME NEW x \in Inboxes, NEW N, NEW n \in 1 .. MaxEvents
  PROVE  /\ Got(x, N, n) \in Inboxes
         /\ \A u \in Users : x[u][n] # NoRow \/ u \in N => Got(x, N, n)[u][n] # NoRow
<1>1. ASSUME NEW u \in Users
      PROVE  /\ Got(x, N, n)[u] \in [1 .. MaxEvents -> Marks]
             /\ x[u][n] # NoRow \/ u \in N => Got(x, N, n)[u][n] # NoRow
  <2>1. x[u] \in [1 .. MaxEvents -> Marks]
    BY DEF Inboxes
  <2>2. CASE u \in N
    <3>1. Got(x, N, n)[u] = [x[u] EXCEPT ![n] = "unread"]
      BY <2>2 DEF Got
    <3> QED
      BY <2>1, <3>1 DEF Marks, NoRow
  <2>3. CASE u \notin N
    BY <2>1, <2>3 DEF Got
  <2> QED
    BY <2>2, <2>3
<1>2. Got(x, N, n) = [u \in Users |-> Got(x, N, n)[u]]
  BY DEF Got
<1> QED
  BY <1>1, <1>2 DEF Inboxes

LEMMA GotNone == ASSUME NEW x \in Inboxes, NEW n PROVE Got(x, {}, n) = x
  BY DEF Got, Inboxes

LEMMA CommitIs ==
  ASSUME NEW d \in Disp, NEW b \in Tables
  PROVE  LET r == Durable(d, b).d IN
         /\ r \in Disp /\ Kept(d, r) /\ r.left = d.left /\ r.sent = d.sent /\ r.count = d.count
         /\ r.pend = <<>> /\ r.notes = {} /\ r.swept = d.swept
         /\ r.note = IF d.note \in {"new", "flushed"} THEN "kept" ELSE d.note
         /\ Durable(d, b).logs = Over(d.pend, b)
         /\ Durable(d, b).notes = d.notes \cup (IF d.note \in {"new", "flushed"} THEN {d.cur} ELSE {})
<1> DEFINE r == [d EXCEPT !.pend = <<>>, !.notes = {},
                          !.note = IF @ \in {"new", "flushed"} THEN "kept" ELSE @]
<1>1. Durable(d, b).d = r
  BY DEF Durable
<1>2. <<>> \in Pending
  BY EmptyIs
<1>3. /\ r \in Disp /\ Kept(d, r) /\ r.left = d.left /\ r.sent = d.sent /\ r.count = d.count
      /\ r.pend = <<>> /\ r.notes = {} /\ r.swept = d.swept
      /\ r.note = IF d.note \in {"new", "flushed"} THEN "kept" ELSE d.note
  BY <1>2 DEF Disp, Kept
<1>4. /\ Durable(d, b).logs = Over(d.pend, b)
      /\ Durable(d, b).notes = d.notes \cup (IF d.note \in {"new", "flushed"} THEN {d.cur} ELSE {})
  BY DEF Durable
<1> QED
  BY <1>1, <1>3, <1>4

LEMMA CommitNone ==
  ASSUME NEW d \in Disp, NEW b \in Tables, d.notes = {}, d.note \notin {"new", "flushed"}
  PROVE  Durable(d, b).notes = {} /\ Kept(d, Durable(d, b).d)
  BY CommitIs

\* The rows the session holds become durable.
LEMMA CommitRows ==
  ASSUME NEW d \in Disp, NEW b \in Tables, Held(d, b)
  PROVE  LET c == Over(d.pend, b) IN
         /\ c \in Tables /\ Grows(b, c)
         /\ \A k \in Keys : /\ b[k] # NULL => c[k] = b[k]
                            /\ k \in DOMAIN d.pend => c[k] # NULL /\ c[k].no = d.no
                            /\ c[k] # NULL => b[k] # NULL \/ k \in DOMAIN d.pend
<1> DEFINE c == Over(d.pend, b)
<1>1. d.pend \in Pending
  BY DEF Disp
<1>2. c \in Tables
  BY <1>1, OverTables
<1>3. DOMAIN b = Keys
  BY DEF Tables
<1>4. \A k \in Keys : c[k] = IF k \in DOMAIN d.pend THEN d.pend[k] ELSE b[k]
  BY <1>3 DEF Over
<1> HIDE DEF c
<1>5. \A k \in DOMAIN d.pend : /\ k \in Keys /\ d.pend[k] \in LogRow /\ d.pend[k] # NULL /\ b[k] = NULL
                               /\ d.pend[k].no = d.no /\ d.pend[k].attempts = 1 /\ d.pend[k].retries = 0
  BY <1>1, PendIsRow DEF Held
<1>6. Grows(b, c)
  BY <1>4, <1>5 DEF Grows
<1>7. \A k \in Keys : /\ b[k] # NULL => c[k] = b[k]
                      /\ k \in DOMAIN d.pend => c[k] # NULL /\ c[k].no = d.no
                      /\ c[k] # NULL => b[k] # NULL \/ k \in DOMAIN d.pend
  BY <1>4, <1>5
<1> QED
  BY <1>2, <1>6, <1>7 DEF c

\* A rollback loses what is pending, the inbox row of the current user included.
LEMMA RollbackIs ==
  ASSUME NEW d \in Disp, NEW drawn \in BOOLEAN
  PROVE  LET r == Rollback(d, drawn) IN
         /\ r \in Disp /\ Kept(d, r) /\ r.left = d.left /\ r.sent = d.sent /\ r.count = d.count
         /\ r.swept = d.swept /\ r.pend = <<>> /\ r.notes = {}
         /\ r.note \in {d.note, "lost", "gone"} \ {"new", "flushed"}
         /\ r.note = "lost" => d.note \in {"new", "flushed", "lost"}
<1>1. <<>> \in Pending
  BY EmptyIs
<1> DEFINE m == CASE d.note = "flushed" \/ (d.note = "new" /\ drawn) -> "lost"
                  [] d.note = "new" /\ ~drawn -> "gone"
                  [] OTHER -> d.note
<1>2. Rollback(d, drawn) = [d EXCEPT !.pend = <<>>, !.notes = {}, !.note = m]
  BY DEF Rollback, Disp
<1>3. m \in {d.note, "lost", "gone"} \ {"new", "flushed"} /\ (m = "lost" => d.note \in {"new", "flushed", "lost"})
  OBVIOUS
<1> HIDE DEF m
<1> QED
  BY <1>1, <1>2, <1>3 DEF Disp, Kept

LEMMA CommitGood ==
  ASSUME NEW d, NEW b, NEW x, Good(d, b, x)
  PROVE  LET c == Durable(d, b) IN Good(c.d, c.logs, Got(x, c.notes, d.no)) /\ Grows(b, c.logs)
<1> DEFINE r == Durable(d, b).d
           c == Durable(d, b).logs
           N == Durable(d, b).notes
           y == Got(x, N, d.no)
<1>0. d \in Disp /\ b \in Tables /\ x \in Inboxes /\ Running(d) /\ Held(d, b)
  BY DEF Good
<1>1. /\ r \in Disp /\ Kept(d, r) /\ r.left = d.left /\ r.sent = d.sent /\ r.count = d.count
      /\ r.pend = <<>> /\ r.notes = {}
      /\ r.note = IF d.note \in {"new", "flushed"} THEN "kept" ELSE d.note
      /\ c = Over(d.pend, b)
      /\ N = d.notes \cup (IF d.note \in {"new", "flushed"} THEN {d.cur} ELSE {})
  BY <1>0, CommitIs
<1>2. /\ c \in Tables /\ Grows(b, c)
      /\ \A k \in Keys : /\ b[k] # NULL => c[k] = b[k]
                         /\ k \in DOMAIN d.pend => c[k] # NULL /\ c[k].no = d.no
                         /\ c[k] # NULL => b[k] # NULL \/ k \in DOMAIN d.pend
  BY <1>0, <1>1, CommitRows
<1>3. /\ y \in Inboxes /\ d.no \in 1 .. MaxEvents
      /\ \A u \in Users : x[u][d.no] # NoRow \/ u \in N => y[u][d.no] # NoRow
  BY <1>0, GotIs DEF Running
<1> HIDE DEF r, c, N, y
<1>4. Running(r)
  BY <1>0, <1>1 DEF Running, Kept
<1>5. Held(r, c)
  <2>1. \A k \in DOMAIN r.pend : FALSE
    BY <1>1, EmptyIs
  <2>2. \A k \in Keys : c[k] # NULL => c[k].no <= r.no
    BY <1>0, <1>1, <1>2, <1>3 DEF Held, Kept
  <2> QED
    BY <2>1, <2>2 DEF Held
<1>6. Unsent(r)
  BY <1>1 DEF Good, Unsent, Kept
<1>7. Logged(r, c)
  <2>1. ASSUME NEW k \in Keys, Used(r, c, k) PROVE Used(d, b, k)
    BY <1>1, <1>2, <2>1, EmptyIs DEF Used, Kept
  <2>2. \A k \in Keys : Done(d, k) => Done(r, k)
    BY <1>1 DEF Done, Kept
  <2> QED
    BY <2>1, <2>2 DEF Good, Logged
<1>8. Repeat(d, b) => Repeat(r, c)
  BY <1>1, <1>2 DEF Repeat, Kept
<1>9. Receipts(r, c, y)
  <2>1. d.made \subseteq Users
    BY <1>0 DEF Disp
  <2>2. ASSUME NEW u \in d.made PROVE y[u][d.no] # NoRow \/ Repeat(r, c) \/ u \in r.swept
    BY <1>1, <1>3, <1>8, <2>1, <2>2 DEF Good, Receipts, Kept
  <2>3. r.note = "lost" => Repeat(r, c) \/ r.cur \in r.swept
    BY <1>1, <1>8 DEF Good, Receipts, Kept
  <2> QED
    BY <1>1, <2>2, <2>3 DEF Good, Receipts, Kept
<1> QED
  BY <1>1, <1>2, <1>3, <1>4, <1>5, <1>6, <1>7, <1>9 DEF Good, r, c, N, y

\* What _record_delivery leaves of the session, whether its commit fails or not.
LEMMA RecordIs ==
  ASSUME NEW d \in Disp, NEW b \in Tables, NEW committed \in BOOLEAN, NEW drawn \in BOOLEAN, Running(d)
  PROVE  LET c == _record_delivery(d, b, committed, drawn) IN
         /\ c.d \in Disp /\ Kept(d, c.d) /\ c.d.left = d.left /\ c.d.sent = d.sent /\ c.d.count = d.count
         /\ c.d.pend = <<>> /\ c.d.notes = {} /\ c.d.note \notin {"new", "flushed"}
<1> DEFINE c == _record_delivery(d, b, committed, drawn)
<1>1. CASE committed
  BY <1>1, CommitIs DEF _record_delivery
<1>2. CASE ~committed
  <2> DEFINE r == Rollback(d, drawn)
             N == Durable(d, b).notes
  <2>1. c.d = [r EXCEPT !.swept = @ \cup N]
    BY <1>2 DEF _record_delivery
  <2>2. N \subseteq Users
    BY CommitIs DEF Disp, Running
  <2>3. /\ r \in Disp /\ Kept(d, r) /\ r.left = d.left /\ r.sent = d.sent /\ r.count = d.count
        /\ r.pend = <<>> /\ r.notes = {} /\ r.note \notin {"new", "flushed"}
    BY RollbackIs
  <2> HIDE DEF r, N, c
  <2> QED
    BY <2>1, <2>2, <2>3 DEF Disp, Kept, c
<1> QED
  BY <1>1, <1>2

\* A failed commit costs the pending inbox rows, whose users are swept.
LEMMA RecordGood ==
  ASSUME NEW d, NEW b, NEW x, NEW committed \in BOOLEAN, NEW drawn \in BOOLEAN, Good(d, b, x)
  PROVE  LET c == _record_delivery(d, b, committed, drawn) IN
         Good(c.d, c.logs, Got(x, c.notes, d.no)) /\ Grows(b, c.logs)
<1>1. CASE committed
  BY <1>1, CommitGood DEF _record_delivery
<1>2. CASE ~committed
  <2> DEFINE q == Rollback(d, drawn)
             N == Durable(d, b).notes
             r == [q EXCEPT !.swept = @ \cup N]
             c == _record_delivery(d, b, committed, drawn)
  <2>0. d \in Disp /\ b \in Tables /\ x \in Inboxes /\ Running(d) /\ Held(d, b)
    BY DEF Good
  <2>1. c.d = r /\ c.logs = b /\ c.notes = {}
    BY <1>2 DEF _record_delivery
  <2>2. N = d.notes \cup (IF d.note \in {"new", "flushed"} THEN {d.cur} ELSE {})
    BY <2>0, CommitIs
  <2>3. r \in Disp /\ Kept(d, r) /\ r.left = d.left /\ r.sent = d.sent /\ r.count = d.count
        /\ r.pend = <<>> /\ r.notes = {} /\ r.note \notin {"new", "flushed"}
    <3>1. /\ c.d \in Disp /\ Kept(d, c.d) /\ c.d.left = d.left /\ c.d.sent = d.sent /\ c.d.count = d.count
          /\ c.d.pend = <<>> /\ c.d.notes = {} /\ c.d.note \notin {"new", "flushed"}
      BY <2>0, RecordIs
    <3> HIDE DEF c, r
    <3> QED
      BY <2>1, <3>1
  <2>4. r.swept = d.swept \cup N /\ (r.note = "lost" => d.note \in {"new", "flushed", "lost"})
    BY <2>0, RollbackIs DEF Disp
  <2>5. Got(x, c.notes, d.no) = x
    BY <2>0, <2>1, GotNone
  <2> HIDE DEF q, N, r
  <2>6. Running(r)
    BY <2>0, <2>3 DEF Running, Kept
  <2>7. Held(r, b)
    BY <2>0, <2>3, EmptyIs DEF Held, Kept
  <2>8. Unsent(r)
    BY <2>3 DEF Good, Unsent, Kept
  <2>9. Logged(r, b)
    <3>1. \A k \in Keys : Used(r, b, k) => Used(d, b, k)
      BY <2>3, EmptyIs DEF Used, Kept
    <3>2. \A k \in Keys : Done(d, k) => Done(r, k)
      BY <2>3 DEF Done, Kept
    <3> QED
      BY <3>1, <3>2 DEF Good, Logged
  <2>10. Repeat(r, b) <=> Repeat(d, b)
    BY <2>3 DEF Repeat, Kept
  <2>11. Receipts(r, b, x)
    <3>1. r.made = d.made /\ r.no = d.no /\ r.cur = d.cur /\ r.some = d.some /\ r.users = d.users
      BY <2>3 DEF Kept
    <3>2. ASSUME NEW u \in d.made PROVE x[u][d.no] # NoRow \/ Repeat(r, b) \/ u \in r.swept
      BY <2>2, <2>4, <2>10, <3>2 DEF Good, Receipts
    <3>3. r.note = "lost" => Repeat(r, b) \/ r.cur \in r.swept
      BY <2>2, <2>4, <2>10, <3>1 DEF Good, Receipts
    <3> QED
      BY <2>3, <3>1, <3>2, <3>3 DEF Good, Receipts
  <2>12. Good(r, b, x)
    BY <2>0, <2>3, <2>6, <2>7, <2>8, <2>9, <2>11 DEF Good
  <2>13. Grows(b, b)
    BY DEF Grows
  <2> QED
    BY <2>1, <2>5, <2>12, <2>13
<1> QED
  BY <1>1, <1>2

\* The flush of a log row under k fails.
Refused(d, b, k, refers) == b[k] # NULL \/ k \in DOMAIN d.pend \/ (refers /\ d.note = "lost")

LogResult(d, b, k, row, refers, r) ==
  /\ r \in Disp /\ Kept(d, r) /\ r.left = d.left /\ r.sent = d.sent /\ r.count = d.count
  /\ Refused(d, b, k, refers) =>
       r.pend = <<>> /\ r.notes = {} /\ r.note \in {d.note, "lost", "gone"} \ {"new", "flushed"}
  /\ ~Refused(d, b, k, refers) =>
       /\ r.pend = Put(d.pend, k, row) /\ r.notes = d.notes
       /\ r.note = IF d.note = "new" THEN "flushed" ELSE d.note

LEMMA LogIs ==
  ASSUME NEW d \in Disp, NEW b, NEW k \in Keys, NEW row \in LogRow, NEW refers \in BOOLEAN, NEW drawn \in BOOLEAN
  PROVE  LogResult(d, b, k, row, refers, _log_delivery(d, b, k, row, refers, drawn))
<1> DEFINE r == _log_delivery(d, b, k, row, refers, drawn)
<1>1. CASE Refused(d, b, k, refers)
  <2>1. r = Rollback(d, drawn)
    BY <1>1 DEF _log_delivery, Refused
  <2> QED
    BY <1>1, <2>1, RollbackIs DEF LogResult
<1>2. CASE ~Refused(d, b, k, refers)
  <2> DEFINE q == Put(d.pend, k, row)
  <2>1. d.pend \in Pending
    BY DEF Disp
  <2>2. q \in Pending
    BY <2>1, PutPending
  <2>3. r = [d EXCEPT !.pend = q, !.note = IF @ = "new" THEN "flushed" ELSE @]
    BY <1>2 DEF _log_delivery, Refused, Disp
  <2> HIDE DEF q, r
  <2>4. /\ r \in Disp /\ Kept(d, r) /\ r.left = d.left /\ r.sent = d.sent /\ r.count = d.count
        /\ r.pend = q /\ r.notes = d.notes
        /\ r.note = IF d.note = "new" THEN "flushed" ELSE d.note
    BY <2>2, <2>3 DEF Disp, Kept
  <2> QED
    BY <1>2, <2>4 DEF q, r, LogResult
<1> QED
  BY <1>1, <1>2

\* A row of the session d for a delivery that was just tried.
Fresh(d, row) == row \in LogRow /\ row.no = d.no /\ row.attempts = 1 /\ row.retries = 0

\* A delivery is logged under a key the session has not used.  Where that fails, an
\* earlier event of the kind has left a row.
LEMMA LogGood ==
  ASSUME NEW d, NEW b, NEW x, NEW k \in Keys, NEW row, NEW refers \in BOOLEAN, NEW drawn \in BOOLEAN,
         Good(d, b, x), Fresh(d, row), k[3] = d.ev.type, ~Used(d, b, k), b[k] # NULL \/ Done(d, k)
  PROVE  LET r == _log_delivery(d, b, k, row, refers, drawn) IN
         Good(r, b, x) /\ (k \in DOMAIN r.pend => b[k] = NULL)
<1> DEFINE r == _log_delivery(d, b, k, row, refers, drawn)
<1>0. d \in Disp /\ b \in Tables /\ x \in Inboxes /\ Running(d) /\ Held(d, b) /\ row \in LogRow
  BY DEF Good, Fresh
<1>a. LogResult(d, b, k, row, refers, r)
  BY <1>0, LogIs
<1> HIDE DEF r
<1>1. /\ r \in Disp /\ Kept(d, r) /\ r.left = d.left /\ r.sent = d.sent /\ r.count = d.count
      /\ Refused(d, b, k, refers) =>
           r.pend = <<>> /\ r.notes = {} /\ r.note \in {d.note, "lost", "gone"} \ {"new", "flushed"}
      /\ ~Refused(d, b, k, refers) =>
           /\ r.pend = Put(d.pend, k, row) /\ r.notes = d.notes
           /\ r.note = IF d.note = "new" THEN "flushed" ELSE d.note
  BY <1>a DEF LogResult
<1>2. Running(r)
  BY <1>0, <1>1 DEF Running, Kept
<1>3. Unsent(r)
  BY <1>1 DEF Good, Unsent, Kept
<1>4. Repeat(d, b) <=> Repeat(r, b)
  BY <1>1 DEF Repeat, Kept
<1>5. CASE Refused(d, b, k, refers)
  <2>1. DOMAIN r.pend = {}
    BY <1>1, <1>5, EmptyIs
  <2>2. Held(r, b)
    BY <1>0, <1>1, <2>1 DEF Held, Kept
  <2>3. Logged(r, b)
    BY <1>1, <2>1 DEF Good, Logged, Used, Done, Kept
  <2>4. Repeat(d, b) \/ (d.note = "lost" /\ d.notes = {} /\ d.cur \in d.swept)
    <3>1. CASE b[k] # NULL
      <4>1. b[k].no \in Nat /\ d.no \in Nat
        BY <1>0, <3>1, RowIsRow DEF Running
      <4>2. b[k].no <= d.no /\ b[k].no # d.no
        BY <1>0, <3>1 DEF Held, Used
      <4>3. b[k].no < d.no
        BY <4>1, <4>2
      <4> QED
        BY <3>1, <4>3 DEF Repeat
    <3>2. CASE d.note = "lost"
      BY <3>2 DEF Good, Receipts
    <3> QED
      BY <1>5, <3>1, <3>2 DEF Refused, Used
  <2>5. Receipts(r, b, x)
    <3>1. r.made = d.made /\ r.no = d.no /\ r.cur = d.cur /\ r.some = d.some /\ r.users = d.users
          /\ d.swept \subseteq r.swept /\ r.notes = {}
      BY <1>1, <1>5 DEF Kept
    <3>2. ASSUME NEW u \in d.made PROVE x[u][d.no] # NoRow \/ Repeat(r, b) \/ u \in r.swept
      BY <1>4, <2>4, <3>1, <3>2 DEF Good, Receipts
    <3>3. Repeat(r, b) \/ r.cur \in r.swept
      BY <1>4, <2>4, <3>1
    <3> QED
      BY <3>1, <3>2, <3>3 DEF Good, Receipts
  <2> QED
    BY <1>0, <1>1, <1>2, <1>3, <2>1, <2>2, <2>3, <2>5 DEF Good, r
<1>6. CASE ~Refused(d, b, k, refers)
  <2>1. /\ b[k] = NULL /\ k \notin DOMAIN d.pend /\ Done(d, k)
    BY <1>6 DEF Refused
  <2>2. /\ DOMAIN r.pend = {k} \cup DOMAIN d.pend /\ r.pend[k] = row
        /\ \A j \in DOMAIN d.pend : r.pend[j] = d.pend[j]
    BY <1>1, <1>6, <2>1 DEF Put
  <2>3. Held(r, b)
    BY <1>0, <1>1, <2>1, <2>2 DEF Held, Kept, Fresh
  <2>4. Logged(r, b)
    <3>1. \A j \in Keys : Used(r, b, j) => Used(d, b, j) \/ j = k
      BY <1>1, <2>2 DEF Used, Kept
    <3>2. \A j \in Keys : Done(d, j) => Done(r, j)
      BY <1>1 DEF Done, Kept
    <3> QED
      BY <2>1, <3>1, <3>2 DEF Good, Logged
  <2>5. Receipts(r, b, x)
    <3>1. r.made = d.made /\ r.no = d.no /\ r.cur = d.cur /\ r.some = d.some /\ r.users = d.users
          /\ d.swept \subseteq r.swept /\ r.notes = d.notes
          /\ r.note = IF d.note = "new" THEN "flushed" ELSE d.note
      BY <1>1, <1>6 DEF Kept
    <3> QED
      BY <1>4, <3>1 DEF Good, Receipts
  <2> QED
    BY <1>0, <1>1, <1>2, <1>3, <2>1, <2>3, <2>4, <2>5 DEF Good, r
<1> QED
  BY <1>5, <1>6

------------------------------------------------------------------------------
(* the steps of dispatch_routed *)

LEMMA UsedTake ==
  ASSUME NEW d \in Disp, NEW b, NEW p, NEW k, Used(TakeOut(d, p), b, k)
  PROVE  Used(d, b, k)
<1> DEFINE r == TakeOut(d, p)
<1>1. r.pend = d.pend /\ r.no = d.no
  BY TakeIs DEF Kept
<1> QED
  BY <1>1 DEF Used

LEMMA UsedSend ==
  ASSUME NEW d \in Disp, NEW b, NEW j \in Keys, j \notin d.sent, Unsent(d), NEW k, Used(SendTo(d, j), b, k)
  PROVE  Used(d, b, k)
<1> DEFINE r == SendTo(d, j)
<1>1. r.pend = d.pend /\ r.no = d.no
  BY SendIs DEF Kept
<1> QED
  BY <1>1 DEF Used

LEMMA UsedCommit ==
  ASSUME NEW d \in Disp, NEW b \in Tables, Held(d, b), NEW k \in Keys, Used(Durable(d, b).d, Durable(d, b).logs, k)
  PROVE  Used(d, b, k)
<1> DEFINE r == Durable(d, b).d
           c == Durable(d, b).logs
<1>1. r.pend = <<>> /\ r.no = d.no /\ c = Over(d.pend, b)
  BY CommitIs DEF Kept
<1>2. /\ b[k] # NULL => c[k] = b[k]
      /\ c[k] # NULL => b[k] # NULL \/ k \in DOMAIN d.pend
  BY <1>1, CommitRows
<1>3. Used(r, c, k)
  OBVIOUS
<1> HIDE DEF r, c
<1> QED
  BY <1>1, <1>2, <1>3, EmptyIs DEF Used

LEMMA UsedRecord ==
  ASSUME NEW d \in Disp, NEW b \in Tables, Held(d, b), Running(d), NEW k \in Keys,
         NEW committed \in BOOLEAN, NEW drawn \in BOOLEAN,
         Used(_record_delivery(d, b, committed, drawn).d, _record_delivery(d, b, committed, drawn).logs, k)
  PROVE  Used(d, b, k)
<1> DEFINE c == _record_delivery(d, b, committed, drawn)
<1>1. CASE committed
  <2>1. c = Durable(d, b)
    BY <1>1 DEF _record_delivery
  <2> QED
    BY <2>1, UsedCommit
<1>2. CASE ~committed
  <2>1. c.logs = b
    BY <1>2 DEF _record_delivery
  <2>2. c.d.pend = <<>> /\ c.d.no = d.no
    BY RecordIs DEF Kept
  <2>3. Used(c.d, c.logs, k)
    OBVIOUS
  <2> HIDE DEF c
  <2> QED
    BY <2>1, <2>2, <2>3, EmptyIs DEF Used
<1> QED
  BY <1>1, <1>2

LEMMA UsedLog ==
  ASSUME NEW d, NEW b, NEW k, NEW row, NEW refers \in BOOLEAN, NEW r, LogResult(d, b, k, row, refers, r),
         NEW j, Used(r, b, j)
  PROVE  Used(d, b, j) \/ j = k
<1>1. r.no = d.no
  BY DEF LogResult, Kept
<1>2. DOMAIN r.pend \subseteq {k} \cup DOMAIN d.pend
  <2>1. CASE Refused(d, b, k, refers)
    BY <2>1, EmptyIs DEF LogResult
  <2>2. CASE ~Refused(d, b, k, refers)
    BY <2>2 DEF LogResult, Put
  <2> QED
    BY <2>1, <2>2
<1> QED
  BY <1>1, <1>2 DEF Used

LEMMA GrowsTrans ==
  ASSUME NEW b, NEW c, NEW e, Grows(b, c), Grows(c, e)
  PROVE  Grows(b, e)
<1>1. NULL \notin LogRow
  BY NotificationsAssumption
<1> QED
  BY <1>1 DEF Grows

LEMMA NewRowIs ==
  ASSUME disp \in Disp, NEW route \in {"org_channel", "direct_user", "fallback_org"},
         NEW status \in {"delivered", "failed", "rate_limited"}, NEW next \in {NULL, "waiting"}
  PROVE  Fresh(disp, NewRow(route, status, next))
<1>1. disp.no \in Nat
  BY NotificationsAssumption DEF Disp
<1> QED
  BY <1>1 DEF Fresh, NewRow, LogRow

\* What a send leaves behind.
Sent == Good(disp', logs', inbox') /\ Grows(logs, logs') /\ Kept(disp, disp') /\ changes' \in Nat

LEMMA CommitsCounts == ASSUME Types, NEW committed, Commits(committed) PROVE changes' \in Nat
  BY DEF Types, Commits

LEMMA OrgSend == ASSUME Types, Good(disp, logs, inbox), org_send PROVE Sent
<1>0. disp \in Disp /\ logs \in Tables /\ inbox \in Inboxes /\ Running(disp) /\ Unsent(disp) /\ Logged(disp, logs)
      /\ disp.pc = "org" /\ disp.ev \in Events /\ disp.left \subseteq Providers /\ disp.users \subseteq Users
  BY DEF Good, Running, org_send, Disp
<1>1. PICK p \in disp.left :
        LET k == Key(p, "org")
            d == TakeOut(disp, p)
        IN  IF _is_rate_limited(k, {"minute", "window"})
            THEN /\ disp' = _log_delivery(d, logs, k, NewRow("org_channel", "rate_limited", NULL), FALSE, FALSE)
                 /\ UNCHANGED <<logs, inbox, changes>>
            ELSE \E ok \in BOOLEAN, committed \in BOOLEAN :
                   LET c == _record_delivery(SendTo(d, k), logs, committed, FALSE)
                       l == _log_delivery(c.d, c.logs, k,
                              NewRow("org_channel", IF ok THEN "delivered" ELSE "failed",
                                     IF ok THEN NULL ELSE "waiting"), FALSE, FALSE)
                       scheduled == ~ok /\ k \in DOMAIN l.pend
                   IN  /\ disp' = IF scheduled THEN Durable(l, c.logs).d ELSE l
                       /\ logs' = IF scheduled THEN Durable(l, c.logs).logs ELSE c.logs
                       /\ Receive(c.notes)
                       /\ Commits(committed)
  BY Zenon DEF org_send, TakeOut, SendTo
<1> DEFINE k == Key(p, "org")
           d == TakeOut(disp, p)
<1>2. k \in Keys /\ k[1] = p /\ k[2] = "org" /\ k[3] = disp.ev.type /\ Key(p, "org") = k
  BY <1>0, KeyIs DEF Key
<1>3. "org" \notin Users
  BY NotificationsAssumption
<1>4. d \in Disp /\ Good(d, logs, inbox) /\ Kept(disp, d) /\ d.left = disp.left \ {p} /\ d.sent = disp.sent
      /\ d.pend = disp.pend
  BY <1>0, TakeIs, TakeGood
<1>5. k \notin disp.sent
  BY <1>0 DEF Unsent, Key
<1>6. ~Used(disp, logs, k)
  BY <1>0, <1>2, <1>5 DEF Logged, Done
<1>7. ~Used(d, logs, k)
  BY <1>0, <1>6, UsedTake
<1>8. Grows(logs, logs)
  BY DEF Grows
<1>11. changes \in Nat
  BY DEF Types
<1> HIDE DEF k, d
<1>9. CASE _is_rate_limited(k, {"minute", "window"})
  <2> DEFINE row == NewRow("org_channel", "rate_limited", NULL)
             r == _log_delivery(d, logs, k, row, FALSE, FALSE)
  <2>1. disp' = r /\ UNCHANGED <<logs, inbox, changes>>
    BY Zenon, <1>1, <1>9 DEF k, d
  <2>2. logs[k] # NULL
    BY <1>6, <1>9 DEF _is_rate_limited, Row, Used
  <2>3. Fresh(d, row)
    <3>1. Fresh(disp, row)
      BY <1>0, NewRowIs
    <3> QED
      BY <1>4, <3>1 DEF Fresh, Kept
  <2>4. k[3] = d.ev.type
    BY <1>2, <1>4 DEF Kept
  <2> HIDE DEF row
  <2>5. Good(r, logs, inbox)
    BY <1>2, <1>4, <1>7, <2>2, <2>3, <2>4, LogGood
  <2>6. LogResult(d, logs, k, row, FALSE, r)
    BY <1>2, <1>4, <2>3, LogIs DEF Fresh
  <2>7. Kept(disp, r)
    BY <1>4, <2>6 DEF LogResult, Kept
  <2> HIDE DEF r
  <2> QED
    BY <1>8, <1>11, <2>1, <2>5, <2>7 DEF Sent
<1>10. CASE ~_is_rate_limited(k, {"minute", "window"})
  <2> DEFINE e == SendTo(d, k)
  <2>1. PICK ok \in BOOLEAN, committed \in BOOLEAN :
          LET c == _record_delivery(e, logs, committed, FALSE)
              row == NewRow("org_channel", IF ok THEN "delivered" ELSE "failed", IF ok THEN NULL ELSE "waiting")
              l == _log_delivery(c.d, c.logs, k, row, FALSE, FALSE)
              scheduled == ~ok /\ k \in DOMAIN l.pend
          IN  /\ disp' = IF scheduled THEN Durable(l, c.logs).d ELSE l
              /\ logs' = IF scheduled THEN Durable(l, c.logs).logs ELSE c.logs
              /\ Receive(c.notes)
              /\ Commits(committed)
    BY Zenon, <1>1, <1>10 DEF k, d
  <2> DEFINE c == _record_delivery(e, logs, committed, FALSE)
             y == Got(inbox, c.notes, disp.no)
             row == NewRow("org_channel", IF ok THEN "delivered" ELSE "failed", IF ok THEN NULL ELSE "waiting")
             l == _log_delivery(c.d, c.logs, k, row, FALSE, FALSE)
             w == Durable(l, c.logs)
  <2>2. inbox' = y /\ changes' \in Nat
    BY <2>1, CommitsCounts DEF Receive, Got
  <2>3. \/ disp' = l /\ logs' = c.logs
        \/ disp' = w.d /\ logs' = w.logs
    BY <2>1
  <2>4. Good(e, logs, inbox) /\ e \in Disp /\ Kept(d, e) /\ k \in e.sent /\ ~Used(e, logs, k)
    <3>1. k \notin d.sent /\ k[2] \notin d.users /\ d.pc = "org" /\ k[1] \notin d.left /\ Unsent(d)
      BY <1>0, <1>2, <1>3, <1>4, <1>5 DEF Kept, Good
    <3>2. Good(e, logs, inbox)
      BY <1>2, <1>4, <3>1, SendGood
    <3> QED
      BY <1>2, <1>4, <1>7, <3>1, <3>2, SendIs, UsedSend
  <2> HIDE DEF e
  <2>5. e.no = disp.no /\ e.ev = disp.ev
    BY <1>4, <2>4 DEF Kept
  <2>6. Good(c.d, c.logs, y) /\ Grows(logs, c.logs)
    BY <2>4, <2>5, RecordGood
  <2>7. /\ c.d \in Disp /\ Kept(e, c.d) /\ c.d.sent = e.sent /\ c.d.notes = {} /\ c.d.note \notin {"new", "flushed"}
    <3>1. Running(e)
      BY <2>4 DEF Good
    <3>2. /\ c.d \in Disp /\ Kept(e, c.d) /\ c.d.left = e.left /\ c.d.sent = e.sent /\ c.d.count = e.count
          /\ c.d.pend = <<>> /\ c.d.notes = {} /\ c.d.note \notin {"new", "flushed"}
      <4> HIDE DEF y, row, l, w
      <4> QED
        BY <1>0, <2>4, <3>1, RecordIs
    <3> QED
      BY <3>2
  <2>8. ~Used(c.d, c.logs, k)
    BY <1>0, <1>2, <2>4, UsedRecord DEF Good
  <2>9. Fresh(c.d, row) /\ k[3] = c.d.ev.type /\ Done(c.d, k)
    <3>1. Fresh(disp, row)
      BY <1>0, NewRowIs
    <3>2. c.d.no = disp.no /\ c.d.ev = disp.ev /\ k \in c.d.sent
      BY <2>4, <2>5, <2>7 DEF Kept
    <3> QED
      BY <1>2, <1>3, <3>1, <3>2 DEF Fresh, Done
  <2> HIDE DEF row
  <2> DEFINE cd == c.d
             cl == c.logs
  <2> HIDE DEF cd, cl
  <2>10. l = _log_delivery(cd, cl, k, row, FALSE, FALSE)
    BY DEF cd, cl
  <2>11. Good(l, cl, y)
    BY <1>2, <2>6, <2>8, <2>9, <2>10, LogGood DEF cd, cl
  <2>12. LogResult(cd, cl, k, row, FALSE, l)
    BY <1>2, <2>7, <2>9, <2>10, LogIs DEF Fresh, cd
  <2>13. l \in Disp /\ Kept(cd, l) /\ l.notes = {} /\ l.note \notin {"new", "flushed"}
    BY <2>7, <2>12 DEF LogResult, cd
  <2> HIDE DEF l
  <2>14. Kept(disp, l)
    BY <1>4, <2>4, <2>7, <2>13 DEF Kept, cd
  <2>15. cl \in Tables /\ Grows(logs, cl) /\ y \in Inboxes
    BY <2>6 DEF Good, cl
  <2>16. w = Durable(l, cl)
    BY DEF cl
  <2>17. w.notes = {} /\ Kept(l, w.d)
    BY <2>13, <2>15, <2>16, CommitNone
  <2>18. Good(w.d, w.logs, y) /\ Grows(cl, w.logs)
    <3>1. Good(w.d, w.logs, Got(y, w.notes, l.no)) /\ Grows(cl, w.logs)
      BY <2>11, <2>16, CommitGood
    <3> QED
      BY <2>15, <2>17, <3>1, GotNone
  <2>19. Grows(logs, w.logs)
    BY <2>15, <2>18, GrowsTrans
  <2>20. Kept(disp, w.d)
    BY <2>14, <2>17 DEF Kept
  <2> HIDE DEF w, c, y
  <2> QED
    BY <2>2, <2>3, <2>11, <2>14, <2>15, <2>18, <2>19, <2>20 DEF Sent, cl
<1> QED
  BY <1>9, <1>10

LEMMA UserSend == ASSUME Types, Good(disp, logs, inbox), user_send PROVE Sent
<1>0. disp \in Disp /\ logs \in Tables /\ inbox \in Inboxes /\ Running(disp) /\ Unsent(disp) /\ Logged(disp, logs)
      /\ disp.pc = "user" /\ disp.ev \in Events /\ disp.left \subseteq Providers /\ disp.users \subseteq Users
      /\ disp.cur \in Users /\ disp.cur \notin disp.users
  BY DEF Good, Running, user_send, Disp
<1>1. PICK p \in disp.left, ok \in BOOLEAN, fb_ok \in BOOLEAN, committed \in BOOLEAN, drawn \in BOOLEAN :
        LET k == Key(p, disp.cur)
            fb_key == Key(p, "org")
            d == [disp EXCEPT !.left = @ \ {p}]
            reachable == p \in Direct /\ p \in dest[disp.cur].mapped
            falls_back == ~ok /\ ~disp.org /\ fb_key \notin disp.sent /\ ~_is_rate_limited(fb_key, {"minute"})
            c == _record_delivery(Counted(Fallback(d, fb_key), fb_key), logs, committed, drawn)
            f == _log_delivery(c.d, c.logs, fb_key,
                   NewRow("fallback_org", IF fb_ok THEN "delivered" ELSE "failed", NULL), FALSE, drawn)
            row == NewRow("direct_user", IF ok THEN "delivered" ELSE "failed", NULL)
            limited == _is_rate_limited(k, {"minute", "window"})
        IN  \/ /\ limited
               /\ disp' = _log_delivery(d, logs, k, NewRow("direct_user", "rate_limited", NULL), TRUE, drawn)
               /\ UNCHANGED <<logs, inbox, changes>>
            \/ /\ ~limited /\ falls_back
               /\ disp' = _log_delivery(f, c.logs, k, row, TRUE, drawn)
               /\ logs' = c.logs
               /\ Receive(c.notes)
               /\ Commits(committed)
            \/ /\ ~limited /\ ~falls_back /\ (ok => reachable)
               /\ disp' = _log_delivery(IF ok THEN Counted([d EXCEPT !.sent = @ \cup {k}], k) ELSE d,
                                        logs, k, row, TRUE, drawn)
               /\ UNCHANGED <<logs, inbox, changes>>
  BY Zenon DEF user_send
<1> DEFINE k == <<p, disp.cur, disp.ev.type>>
           g == <<p, "org", disp.ev.type>>
           d == TakeOut(disp, p)
<1>2. /\ k \in Keys /\ k[1] = p /\ k[2] = disp.cur /\ k[3] = disp.ev.type /\ Key(p, disp.cur) = k
      /\ g \in Keys /\ g[1] = p /\ g[2] = "org" /\ g[3] = disp.ev.type /\ Key(p, "org") = g
  BY <1>0, KeyIs DEF Key
<1>3. "org" \notin Users
  BY NotificationsAssumption
<1>4. d \in Disp /\ Good(d, logs, inbox) /\ Kept(disp, d) /\ d.left = disp.left \ {p} /\ d.sent = disp.sent
      /\ d.pend = disp.pend
  BY <1>0, TakeIs, TakeGood
<1>5. k \notin disp.sent
  BY <1>0 DEF Unsent
<1>6. ~Used(disp, logs, k)
  BY <1>0, <1>2 DEF Logged, Done
<1>7. ~Used(d, logs, k)
  BY <1>0, <1>6, UsedTake
<1>8. Grows(logs, logs)
  BY DEF Grows
<1>9. k # g
  BY <1>0, <1>2, <1>3
<1> HIDE DEF k, g, d
<1>a. /\ Fresh(disp, NewRow("direct_user", "rate_limited", NULL))
      /\ Fresh(disp, NewRow("direct_user", IF ok THEN "delivered" ELSE "failed", NULL))
      /\ Fresh(disp, NewRow("fallback_org", IF fb_ok THEN "delivered" ELSE "failed", NULL))
  BY <1>0, NewRowIs
<1>b. /\ k[3] = d.ev.type /\ d.no = disp.no /\ d.pc = "user" /\ d.cur = disp.cur /\ d.users = disp.users
      /\ Unsent(d)
  BY <1>0, <1>2, <1>4 DEF Kept, Good
\* A log row under k when the provider is left behind: the key is done with.
<1>c. ASSUME NEW s, NEW b, NEW y, NEW row, Good(s, b, y), Fresh(disp, row), Kept(d, s), s.left = d.left, ~Used(s, b, k)
      PROVE  /\ Good(_log_delivery(s, b, k, row, TRUE, drawn), b, y)
             /\ Kept(disp, _log_delivery(s, b, k, row, TRUE, drawn))
  <2> DEFINE r == _log_delivery(s, b, k, row, TRUE, drawn)
  <2>1. Fresh(s, row) /\ k[3] = s.ev.type
    BY <1>b, <1>c DEF Kept, Fresh
  <2>2. Done(s, k)
    BY <1>0, <1>2, <1>3, <1>4, <1>b, <1>c DEF Done, Kept
  <2>3. Good(r, b, y)
    BY <1>2, <1>c, <2>1, <2>2, LogGood
  <2>4. s \in Disp
    BY <1>c DEF Good
  <2>5. LogResult(s, b, k, row, TRUE, r)
    BY <1>2, <2>1, <2>4, LogIs DEF Fresh
  <2>6. Kept(disp, r)
    BY <1>4, <1>c, <2>5 DEF Kept, LogResult
  <2> QED
    BY <2>3, <2>6
<1>d. Kept(d, d) /\ changes \in Nat
  BY DEF Kept, Types
<1>10. CASE /\ disp' = _log_delivery(d, logs, k, NewRow("direct_user", "rate_limited", NULL), TRUE, drawn)
            /\ UNCHANGED <<logs, inbox, changes>>
  <2> DEFINE row == NewRow("direct_user", "rate_limited", NULL)
  <2>1. Fresh(disp, row)
    BY <1>a
  <2> HIDE DEF row
  <2>2. /\ Good(_log_delivery(d, logs, k, row, TRUE, drawn), logs, inbox)
        /\ Kept(disp, _log_delivery(d, logs, k, row, TRUE, drawn))
    BY <1>4, <1>7, <1>c, <1>d, <2>1
  <2> QED
    BY <1>8, <1>d, <1>10, <2>2 DEF Sent, row
<1>11. CASE LET row == NewRow("direct_user", IF ok THEN "delivered" ELSE "failed", NULL) IN
            /\ disp' = _log_delivery(IF ok THEN SendTo(d, k) ELSE d, logs, k, row, TRUE, drawn)
            /\ UNCHANGED <<logs, inbox, changes>>
  <2> DEFINE row == NewRow("direct_user", IF ok THEN "delivered" ELSE "failed", NULL)
             s == IF ok THEN SendTo(d, k) ELSE d
  <2>1. Fresh(disp, row)
    BY <1>a
  <2>2. Good(s, logs, inbox) /\ Kept(d, s) /\ s.left = d.left /\ ~Used(s, logs, k)
    <3>1. CASE ok
      <4> DEFINE e == SendTo(d, k)
      <4>1. k \notin d.sent /\ k[2] \notin d.users /\ k[1] \notin d.left /\ d.pc # "org"
        BY <1>0, <1>2, <1>4, <1>5, <1>b
      <4>2. Good(e, logs, inbox)
        BY <1>2, <1>4, <4>1, SendGood
      <4>3. Kept(d, e) /\ e.left = d.left /\ ~Used(e, logs, k)
        BY <1>2, <1>4, <1>7, <1>b, <4>1, SendIs, UsedSend
      <4> QED
        BY <3>1, <4>2, <4>3
    <3>2. CASE ~ok
      BY <1>4, <1>7, <1>d, <3>2
    <3> QED
      BY <3>1, <3>2
  <2>3. disp' = _log_delivery(s, logs, k, row, TRUE, drawn) /\ UNCHANGED <<logs, inbox, changes>>
    BY <1>11
  <2> HIDE DEF row, s
  <2>4. /\ Good(_log_delivery(s, logs, k, row, TRUE, drawn), logs, inbox)
        /\ Kept(disp, _log_delivery(s, logs, k, row, TRUE, drawn))
    BY <1>c, <2>1, <2>2
  <2> QED
    BY <1>8, <1>d, <2>3, <2>4 DEF Sent
<1>12. CASE LET c == _record_delivery(SendTo(d, g), logs, committed, drawn)
                f == _log_delivery(c.d, c.logs, g,
                       NewRow("fallback_org", IF fb_ok THEN "delivered" ELSE "failed", NULL), FALSE, drawn)
                row == NewRow("direct_user", IF ok THEN "delivered" ELSE "failed", NULL)
            IN  /\ g \notin disp.sent
                /\ disp' = _log_delivery(f, c.logs, k, row, TRUE, drawn)
                /\ logs' = c.logs
                /\ Receive(c.notes)
                /\ Commits(committed)
  <2> DEFINE e == SendTo(d, g)
             c == _record_delivery(e, logs, committed, drawn)
             y == Got(inbox, c.notes, disp.no)
             row == NewRow("direct_user", IF ok THEN "delivered" ELSE "failed", NULL)
             fb == NewRow("fallback_org", IF fb_ok THEN "delivered" ELSE "failed", NULL)
             cd == c.d
             cl == c.logs
             f == _log_delivery(cd, cl, g, fb, FALSE, drawn)
  <2>1. inbox' = y /\ logs' = cl /\ disp' = _log_delivery(f, cl, k, row, TRUE, drawn) /\ g \notin disp.sent
        /\ changes' \in Nat
    BY <1>12, CommitsCounts DEF Receive, Got
  <2>2. Fresh(disp, row) /\ Fresh(disp, fb)
    BY <1>a
  <2>3. ~Used(disp, logs, g)
    BY <1>0, <1>2, <2>1 DEF Logged, Done
  <2>4. ~Used(d, logs, g)
    BY <1>0, <2>3, UsedTake DEF d
  <2>5. /\ Good(e, logs, inbox) /\ e \in Disp /\ Kept(d, e) /\ e.left = d.left /\ g \in e.sent
        /\ ~Used(e, logs, g) /\ ~Used(e, logs, k)
    <3>1. g \notin d.sent /\ g[2] \notin d.users /\ g[2] # d.cur /\ d.pc # "org"
      BY <1>0, <1>2, <1>3, <1>4, <1>b, <2>1
    <3>2. Good(e, logs, inbox)
      BY <1>2, <1>4, <3>1, SendGood
    <3> QED
      BY <1>2, <1>4, <1>7, <1>b, <2>4, <3>1, <3>2, SendIs, UsedSend
  <2> HIDE DEF row, fb, e
  <2>6. e.no = disp.no /\ e.ev = disp.ev
    BY <1>4, <2>5 DEF Kept
  <2>7. Good(cd, cl, y) /\ Grows(logs, cl)
    BY <2>5, <2>6, RecordGood
  <2>8. cd \in Disp /\ Kept(e, cd) /\ cd.sent = e.sent /\ cd.left = e.left
    BY <1>0, <2>5, RecordIs DEF Good
  <2>9. ~Used(cd, cl, g) /\ ~Used(cd, cl, k)
    BY <1>0, <1>2, <2>5, UsedRecord DEF Good
  <2> HIDE DEF c, y, cd, cl
  <2>10. Fresh(cd, fb) /\ g[3] = cd.ev.type /\ Done(cd, g)
    <3>1. cd.no = disp.no /\ cd.ev = disp.ev /\ g \in cd.sent
      BY <2>5, <2>6, <2>8 DEF Kept
    <3> QED
      BY <1>2, <1>3, <2>2, <3>1 DEF Fresh, Done
  <2>11. Good(f, cl, y)
    BY <1>2, <2>7, <2>9, <2>10, LogGood
  <2>12. LogResult(cd, cl, g, fb, FALSE, f)
    BY <1>2, <2>8, <2>10, LogIs DEF Fresh
  <2> HIDE DEF f
  <2>13. ~Used(f, cl, k)
    BY <1>9, <2>9, <2>12, UsedLog
  <2>14. Kept(d, f) /\ f.left = d.left
    BY <2>5, <2>8, <2>12 DEF LogResult, Kept
  <2>15. /\ Good(_log_delivery(f, cl, k, row, TRUE, drawn), cl, y)
         /\ Kept(disp, _log_delivery(f, cl, k, row, TRUE, drawn))
    BY <1>c, <2>2, <2>11, <2>13, <2>14
  <2> QED
    BY <2>1, <2>7, <2>15 DEF Sent
<1> QED
  BY <1>1, <1>2, <1>10, <1>11, <1>12, Zenon DEF d, TakeOut, SendTo, Fallback

LEMMA OpenUser == ASSUME Types, Good(disp, logs, inbox), open_user
  PROVE  Good(disp', logs', inbox') /\ logs' = logs /\ disp'.no = disp.no /\ disp'.pc # "idle"
<1>0. disp \in Disp /\ logs \in Tables /\ inbox \in Inboxes /\ Running(disp) /\ Unsent(disp) /\ Logged(disp, logs)
      /\ Held(disp, logs) /\ Receipts(disp, logs, inbox) /\ UNCHANGED <<logs, inbox>> /\ disp.left = {}
      /\ disp.pc \in {"org", "user"} /\ disp.provs \subseteq Providers /\ disp.users \subseteq Users
  BY DEF Good, open_user, Disp
<1>1. PICK u \in disp.users :
        disp' = IF allows_event(dest[u], disp.ev.type)
                THEN [disp EXCEPT !.pc = "user", !.users = @ \ {u}, !.left = disp.provs, !.cur = u,
                                  !.notes = @ \cup (IF disp.note \in {"new", "flushed"} THEN {disp.cur} ELSE {}),
                                  !.note = "new", !.made = @ \cup {u}]
                ELSE [disp EXCEPT !.users = @ \ {u}]
  BY DEF open_user
<1>2. u \in Users /\ "org" \notin Users
  BY <1>0, NotificationsAssumption
<1>3. CASE disp' = [disp EXCEPT !.users = @ \ {u}]
  <2> DEFINE r == [disp EXCEPT !.users = @ \ {u}]
  <2>1. /\ r \in Disp /\ r.pc = disp.pc /\ r.ev = disp.ev /\ r.no = disp.no /\ r.left = disp.left
        /\ r.users = disp.users \ {u} /\ r.some = disp.some /\ r.cur = disp.cur /\ r.note = disp.note
        /\ r.notes = disp.notes /\ r.pend = disp.pend /\ r.sent = disp.sent /\ r.count = disp.count
        /\ r.made = disp.made /\ r.swept = disp.swept
    BY <1>0 DEF Disp
  <2> HIDE DEF r
  <2>2. Running(r) /\ Held(r, logs)
    BY <1>0, <2>1 DEF Running, Held
  <2>3. Unsent(r)
    BY <1>0, <2>1 DEF Unsent
  <2>4. Logged(r, logs)
    BY <1>0, <2>1 DEF Logged, Used, Done
  <2>5. Repeat(r, logs) <=> Repeat(disp, logs)
    BY <2>1 DEF Repeat
  <2>6. Receipts(r, logs, inbox)
    BY <1>0, <2>1, <2>5 DEF Receipts
  <2>7. disp' = r
    BY <1>3 DEF r
  <2> QED
    BY <1>0, <2>1, <2>2, <2>3, <2>4, <2>6, <2>7 DEF Good
<1>4. CASE disp' = [disp EXCEPT !.pc = "user", !.users = @ \ {u}, !.left = disp.provs, !.cur = u,
                                !.notes = @ \cup (IF disp.note \in {"new", "flushed"} THEN {disp.cur} ELSE {}),
                                !.note = "new", !.made = @ \cup {u}]
  <2> DEFINE N == disp.notes \cup (IF disp.note \in {"new", "flushed"} THEN {disp.cur} ELSE {})
             r == [disp EXCEPT !.pc = "user", !.users = @ \ {u}, !.left = disp.provs, !.cur = u,
                               !.notes = N, !.note = "new", !.made = @ \cup {u}]
  <2>0. disp' = r
    BY <1>0, <1>4 DEF Disp
  <2>a. N \subseteq Users
    BY <1>0 DEF Running, Disp
  <2> HIDE DEF N
  <2>1. /\ r \in Disp /\ r.pc = "user" /\ r.ev = disp.ev /\ r.no = disp.no /\ r.left = disp.provs
        /\ r.users = disp.users \ {u} /\ r.some = disp.some /\ r.cur = u /\ r.note = "new"
        /\ r.notes = N /\ r.pend = disp.pend /\ r.sent = disp.sent /\ r.count = disp.count
        /\ r.made = disp.made \cup {u} /\ r.swept = disp.swept
    BY <1>0, <1>2, <2>a DEF Disp
  <2> HIDE DEF r
  <2>2. Running(r) /\ Held(r, logs)
    BY <1>0, <1>2, <2>1 DEF Running, Held
  <2>3. Unsent(r)
    BY <1>0, <1>1, <2>1 DEF Unsent
  <2>4. Logged(r, logs)
    <3>1. \A k \in Keys : Used(r, logs, k) => Used(disp, logs, k)
      BY <2>1 DEF Used
    <3>2. \A k \in Keys : Done(disp, k) => Done(r, k)
      BY <1>1, <2>1 DEF Done
    <3> QED
      BY <1>0, <3>1, <3>2 DEF Logged
  <2>5. Repeat(r, logs) <=> Repeat(disp, logs)
    BY <2>1 DEF Repeat
  <2>6. Receipts(r, logs, inbox)
    BY <1>0, <1>1, <2>1, <2>5 DEF Receipts, N
  <2> QED
    BY <1>0, <2>0, <2>1, <2>2, <2>3, <2>4, <2>6 DEF Good
<1> QED
  BY <1>1, <1>3, <1>4

LEMMA RestingIs ==
  /\ Resting \in Disp /\ Resting.pc = "idle" /\ Resting.no = 0 /\ Resting.made = {}
  /\ Resting.count = <<>> /\ Resting.pend = <<>> /\ Resting.note = NoRow /\ Resting.sent = {}
<1>1. <<>> \in Pending /\ <<>> \in Counts /\ 0 \in 0 .. MaxEvents
  BY EmptyIs, NotificationsAssumption
<1> QED
  BY <1>1 DEF Resting, Disp

LEMMA Finish == ASSUME Types, Good(disp, logs, inbox), finish
  PROVE  /\ disp' \in Disp /\ disp'.pc = "idle" /\ disp'.no = disp.no /\ disp'.count = <<>> /\ disp'.pend = <<>>
         /\ LostReceiptIsRepeat' /\ logs' \in Tables /\ inbox' \in Inboxes /\ Grows(logs, logs')
         /\ disp'.no \in 1 .. MaxEvents
         /\ \A k \in Keys : logs'[k] # NULL => logs[k] # NULL \/ logs'[k].no = disp.no
         /\ UNCHANGED <<integ, work, bounds>>
<1>0. disp \in Disp /\ logs \in Tables /\ inbox \in Inboxes /\ Held(disp, logs) /\ Receipts(disp, logs, inbox)
      /\ disp.no \in 1 .. MaxEvents /\ disp.made \in SUBSET Users /\ disp.swept \in SUBSET Users /\ disp.ev \in Events /\ UNCHANGED <<integ, work, bounds>>
  BY DEF Good, Running, Disp, finish, config
<1> DEFINE c == Durable(disp, logs)
           r == [Resting EXCEPT !.no = disp.no, !.ev = disp.ev, !.made = disp.made, !.swept = disp.swept]
<1>1. PICK committed \in BOOLEAN :
        /\ disp.some => committed
        /\ logs' = IF committed THEN c.logs ELSE logs
        /\ inbox' = Got(inbox, IF committed THEN c.notes ELSE {}, disp.no)
        /\ disp' = r
  BY Zenon DEF finish, Receive, Got
<1>2. /\ disp' \in Disp /\ disp'.pc = "idle" /\ disp'.no = disp.no /\ disp'.ev = disp.ev
      /\ disp'.made = disp.made /\ disp'.count = <<>> /\ disp'.pend = <<>> /\ disp'.swept = disp.swept
  <2>1. disp.no \in 0 .. MaxEvents /\ disp.ev \in Events
    BY <1>0
  <2>2. r = [Resting EXCEPT !.no = disp.no, !.ev = disp.ev, !.made = disp.made, !.swept = disp.swept]
    OBVIOUS
  <2> HIDE DEF r
  <2>3. /\ r \in Disp /\ r.pc = "idle" /\ r.no = disp.no /\ r.ev = disp.ev
        /\ r.made = disp.made /\ r.count = <<>> /\ r.pend = <<>> /\ r.swept = disp.swept
    BY <1>0, <2>1, <2>2, RestingIs DEF Disp
  <2> QED
    BY <1>1, <2>3
<1>3. /\ c.d \in Disp /\ Kept(disp, c.d) /\ c.d.notes = {} /\ c.d.note \notin {"new", "flushed"}
      /\ c.d.swept = disp.swept /\ c.logs = Over(disp.pend, logs)
  BY <1>0, CommitIs
<1>4. Good(c.d, c.logs, Got(inbox, c.notes, disp.no)) /\ Grows(logs, c.logs)
  BY CommitGood
<1>a. \A k \in Keys : c.logs[k] # NULL => logs[k] # NULL \/ c.logs[k].no = disp.no
  BY <1>0, <1>3, CommitRows
<1> HIDE DEF c, r
<1>5. CASE committed
  <2>1. Good(c.d, logs', inbox') /\ logs' = c.logs
    BY <1>1, <1>4, <1>5
  <2>2. LostReceiptIsRepeat'
    <3>1. ASSUME NEW u \in disp.made PROVE inbox'[u][disp.no] # NoRow \/ u \in disp.swept \/ Repeat(disp', logs')
      BY <1>2, <1>3, <2>1, <3>1 DEF Good, Receipts, Kept, Repeat
    <3> QED
      BY <1>2, <3>1 DEF LostReceiptIsRepeat, Repeat
  <2> QED
    BY <1>0, <1>2, <1>4, <1>a, <2>1, <2>2 DEF Good
<1>6. CASE ~committed
  <2>1. disp.made = {}
    BY <1>0, <1>1, <1>6 DEF Receipts
  <2>2. LostReceiptIsRepeat'
    BY <1>2, <2>1 DEF LostReceiptIsRepeat
  <2>3. logs' = logs /\ inbox' = inbox
    BY <1>0, <1>1, <1>6, GotNone
  <2> QED
    BY <1>0, <1>2, <2>2, <2>3 DEF Grows
<1> QED
  BY <1>5, <1>6

\* The users an event is for are members.
LEMMA RoutingIs ==
  ASSUME NEW e \in Events
  PROVE  resolve_routing(e).org \in BOOLEAN /\ resolve_routing(e).users \subseteq Users
<1>1. /\ e.type \in {"top_actions", "approval_pending", "execution_failed", "critical_alert"}
      /\ e.priority \in {"low", "medium", "high"} /\ e.related \subseteq Users /\ e.targets \subseteq Users
  BY NotificationsAssumption
<1> DEFINE named == IF e.related # {} THEN e.related ELSE approver_audience
           base == CASE e.type = "top_actions"      -> [org |-> TRUE, users |-> {}]
                     [] e.type = "approval_pending" -> [org |-> FALSE, users |-> named]
                     [] e.type = "execution_failed" -> [org |-> FALSE, users |-> e.related]
                     [] e.type = "critical_alert"   -> [org |-> TRUE, users |-> named]
           explicit == IF e.target = "user" THEN [org |-> FALSE, users |-> e.targets]
                       ELSE [org |-> base.org, users |-> base.users \cup e.targets]
           all == CASE e.priority = "high"   -> [org |-> TRUE, users |-> explicit.users]
                    [] e.priority = "medium" -> [org |-> FALSE, users |-> explicit.users]
                    [] e.priority = "low"    -> [org |-> TRUE, users |-> {}]
<1>2. resolve_routing(e) = all
  BY Zenon DEF resolve_routing
<1>3. named \subseteq Users
  BY <1>1 DEF approver_audience
<1> HIDE DEF named
<1>4. base.users \subseteq Users
  BY <1>1, <1>3
<1> HIDE DEF base
<1>5. explicit.users \subseteq Users
  BY <1>1, <1>4
<1> HIDE DEF explicit
<1>6. all.org \in BOOLEAN /\ all.users \subseteq Users
  BY <1>1, <1>5
<1> QED
  BY <1>2, <1>6

LEMMA Dispatch == ASSUME DispatchInv, NEW e \in Events, dispatch_routed(e)
  PROVE  /\ disp' \in Disp /\ logs' = logs /\ inbox' = inbox
         /\ events' \in 0 .. MaxEvents /\ events' >= events /\ disp'.no <= events'
         /\ disp'.pc # "idle" => Good(disp', logs', inbox')
         /\ disp'.pc = "idle" => /\ LostReceiptIsRepeat' /\ disp'.count = <<>> /\ disp'.pend = <<>>
                                 /\ disp'.made = {}
         /\ UNCHANGED <<integ, work, changes, crashes>>
<1>0. /\ events' = events + 1 /\ events' \in 1 .. MaxEvents /\ events \in Nat /\ MaxEvents \in Nat
      /\ UNCHANGED <<integ, work, logs, inbox, changes, crashes>>
      /\ logs \in Tables /\ inbox \in Inboxes /\ integ \subseteq Providers
      /\ \A k \in Keys : logs[k] # NULL => logs[k].no <= events
  BY NotificationsAssumption DEF dispatch_routed, DispatchInv, Types, config
<1> DEFINE o == resolve_routing(e).org
           us == resolve_routing(e).users
           lf == IF o THEN integ ELSE {}
           sm == us # {}
           r == [Resting EXCEPT !.pc = "org", !.ev = e, !.no = events', !.org = o,
                                !.provs = integ, !.left = lf, !.users = us, !.some = sm]
<1>1. disp' = Resting \/ disp' = r
  BY Zenon DEF dispatch_routed
<1>2. o \in BOOLEAN /\ us \subseteq Users
  BY RoutingIs
<1> HIDE DEF o, us
<1>a. lf \subseteq Providers /\ sm \in BOOLEAN
  BY <1>0
<1>b. /\ Resting \in Disp /\ Resting.note = NoRow /\ Resting.sent = {} /\ Resting.made = {}
      /\ Resting.count = <<>> /\ Resting.pend = <<>>
  BY RestingIs
<1> HIDE DEF lf, sm
<1>3. CASE disp' = Resting
  <2>1. disp' \in Disp /\ disp'.pc = "idle" /\ disp'.no = 0 /\ disp'.made = {} /\ disp'.count = <<>> /\ disp'.pend = <<>>
    BY <1>3, RestingIs
  <2> QED
    BY <1>0, <2>1 DEF LostReceiptIsRepeat
<1>4. CASE disp' = r
  <2> DEFINE n == events'
  <2>a. n \in 0 .. MaxEvents /\ e \in Events \cup {NULL} /\ integ \in SUBSET Providers
        /\ lf \in SUBSET Providers /\ us \in SUBSET Users
    BY <1>0, <1>2, <1>a
  <2>b. r = [Resting EXCEPT !.pc = "org", !.ev = e, !.no = n, !.org = o,
                            !.provs = integ, !.left = lf, !.users = us, !.some = sm]
    OBVIOUS
  <2> HIDE DEF r, n
  <2>c. r \in Disp
    BY <1>2, <1>a, <1>b, <2>a, <2>b DEF Disp
  <2>d. /\ r.pc = "org" /\ r.ev = e /\ r.no = n /\ r.left = lf /\ r.users = us /\ r.some = sm
        /\ r.note = Resting.note /\ r.pend = Resting.pend /\ r.sent = Resting.sent
        /\ r.count = Resting.count /\ r.made = Resting.made
    BY <1>b, <2>b DEF Disp
  <2>1. /\ r \in Disp /\ r.pc = "org" /\ r.ev = e /\ r.no = events' /\ r.left \subseteq Providers /\ r.users = us
        /\ r.some = sm /\ r.note = NoRow /\ r.pend = <<>> /\ r.sent = {} /\ r.count = <<>> /\ r.made = {}
    BY <1>a, <1>b, <2>c, <2>d DEF n
  <2>2. Running(r)
    BY <1>0, <2>1 DEF Running, NoRow
  <2>3. Held(r, logs)
    <3>1. \A k \in Keys : logs[k] # NULL => logs[k].no <= r.no
      <4>1. ASSUME NEW k \in Keys, logs[k] # NULL PROVE logs[k].no <= r.no
        <5>1. logs[k].no \in Nat /\ logs[k].no <= events
          BY <1>0, <4>1, RowIsRow
        <5> QED
          BY <1>0, <2>1, <5>1
      <4> QED
        BY <4>1
    <3> QED
      BY <2>1, <3>1, EmptyIs DEF Held
  <2>4. Unsent(r)
    BY <2>1, EmptyIs DEF Unsent
  <2>5. Logged(r, logs)
    <3>1. ASSUME NEW k \in Keys PROVE ~Used(r, logs, k)
      <4>1. logs[k] # NULL => logs[k].no \in Nat /\ logs[k].no <= events
        BY <1>0, RowIsRow
      <4> QED
        BY <1>0, <2>1, <4>1, EmptyIs DEF Used
    <3> QED
      BY <3>1 DEF Logged
  <2>6. Receipts(r, logs, inbox)
    BY <2>1 DEF Receipts, NoRow, sm
  <2> QED
    BY <1>0, <1>4, <2>1, <2>2, <2>3, <2>4, <2>5, <2>6 DEF Good
<1> QED
  BY <1>1, <1>3, <1>4

------------------------------------------------------------------------------
(* the steps of the others *)

\* No row comes or goes or changes its event; no inbox row goes.
SameRows(b, c) == \A k \in Keys : (b[k] = NULL <=> c[k] = NULL) /\ (b[k] # NULL => c[k].no = b[k].no)
KeepsMarks(x, y) == \A u \in Users, i \in 1 .. MaxEvents : x[u][i] # NoRow => y[u][i] # NoRow

LEMMA FrameGood ==
  ASSUME NEW d, NEW b, NEW x, NEW c \in Tables, NEW y \in Inboxes, Good(d, b, x), SameRows(b, c), KeepsMarks(x, y)
  PROVE  Good(d, c, y)
<1>0. d \in Disp /\ Running(d) /\ Held(d, b) /\ Unsent(d) /\ Logged(d, b) /\ Receipts(d, b, x)
  BY DEF Good
<1>1. Held(d, c)
  <2>1. \A k \in DOMAIN d.pend : k \in Keys
    BY <1>0, PendIsRow DEF Disp
  <2> QED
    BY <1>0, <2>1 DEF Held, SameRows
<1>2. Logged(d, c)
  BY <1>0 DEF Logged, Used, SameRows
<1>3. Repeat(d, b) => Repeat(d, c)
  BY DEF Repeat, SameRows
<1>4. Receipts(d, c, y)
  <2>1. d.made \subseteq Users /\ d.no \in 1 .. MaxEvents
    BY <1>0 DEF Disp, Running
  <2>2. ASSUME NEW u \in d.made, x[u][d.no] # NoRow PROVE y[u][d.no] # NoRow
    BY <2>1, <2>2 DEF KeepsMarks
  <2> QED
    BY <1>0, <1>3, <2>2 DEF Receipts
<1> QED
  BY <1>0, <1>1, <1>2, <1>4 DEF Good

LEMMA Frame ==
  ASSUME DispatchInv, Types', disp' = disp, SameRows(logs, logs'), KeepsMarks(inbox, inbox'), events' >= events
  PROVE  DispatchInv'
<1>0. logs' \in Tables /\ inbox' \in Inboxes /\ logs \in Tables /\ disp \in Disp /\ events \in Nat /\ events' \in Nat
  BY NotificationsAssumption DEF DispatchInv, Types
<1>1. disp'.pc # "idle" => Good(disp', logs', inbox')
  BY <1>0, FrameGood DEF DispatchInv
<1>2. disp'.no <= events'
  <2>1. disp.no \in Nat /\ disp.no <= events
    BY <1>0 DEF DispatchInv, Disp
  <2> QED
    BY <1>0, <2>1
<1>3. ASSUME NEW k \in Keys, logs'[k] # NULL PROVE logs'[k].no <= events'
  <2>1. logs[k] # NULL /\ logs'[k].no = logs[k].no
    BY <1>3 DEF SameRows
  <2>2. logs[k].no \in Nat /\ logs[k].no <= events
    BY <1>0, <2>1, RowIsRow DEF DispatchInv
  <2> QED
    BY <1>0, <2>1, <2>2
<1>4. ASSUME disp.pc = "idle" PROVE LostReceiptIsRepeat'
  <2>1. SUFFICES ASSUME NEW u \in disp.made
                 PROVE  inbox'[u][disp.no] # NoRow \/ u \in disp.swept
                        \/ \E k \in Keys : k[3] = disp.ev.type /\ logs'[k] # NULL /\ logs'[k].no < disp.no
    BY DEF LostReceiptIsRepeat
  <2>2. u \in Users /\ disp.no \in 1 .. MaxEvents
    BY <1>0, <1>4, <2>1 DEF DispatchInv, Disp
  <2>3. inbox[u][disp.no] # NoRow \/ u \in disp.swept
        \/ \E k \in Keys : k[3] = disp.ev.type /\ logs[k] # NULL /\ logs[k].no < disp.no
    BY <1>4, <2>1 DEF DispatchInv, LostReceiptIsRepeat
  <2> QED
    BY <2>2, <2>3 DEF KeepsMarks, SameRows
<1> QED
  BY <1>1, <1>2, <1>3, <1>4 DEF DispatchInv

LEMMA SameRowsRefl == SameRows(logs, logs) /\ KeepsMarks(inbox, inbox)
  BY DEF SameRows, KeepsMarks

\* A row is rewritten, with its event.
LEMMA Rewritten ==
  ASSUME logs \in Tables, NEW k \in Keys, logs[k] # NULL, NEW row \in LogRow, row.no = logs[k].no,
         logs' = [logs EXCEPT ![k] = row]
  PROVE  logs' \in Tables /\ SameRows(logs, logs')
<1>1. logs \in [Keys -> LogRow \cup {NULL}] /\ row # NULL
  BY NotificationsAssumption DEF Tables
<1>2. logs' \in [Keys -> LogRow \cup {NULL}]
  BY <1>1
<1>3. logs'[k] = row /\ \A j \in Keys : j # k => logs'[j] = logs[j]
  BY <1>1
<1> QED
  BY <1>1, <1>2, <1>3 DEF Tables, SameRows

LEMMA AsleepIs == Asleep \in Work /\ Asleep.pc = "idle" /\ Asleep.left = {} /\ DOMAIN Asleep.rows = {}
<1>1. <<>> \in Pending /\ DOMAIN <<>> = {}
  BY EmptyIs
<1> QED
  BY <1>1 DEF Asleep, Work

\* A pass of w is replaced.
LEMMA WorkTypes ==
  ASSUME Types, logs' \in Tables, SameRows(logs, logs'), NEW w \in Workers, NEW s \in Work,
         work' = [work EXCEPT ![w] = s], s.left \subseteq DOMAIN s.rows,
         s.pc = "result" => s.cur \in DOMAIN s.rows, \A k \in DOMAIN s.rows : logs[k] # NULL,
         integ' \subseteq Providers, inbox' \in Inboxes, disp' \in Disp,
         events' \in 0 .. MaxEvents, changes' \in Nat, crashes' \in Nat
  PROVE  Types'
<1>1. work \in [Workers -> Work] /\ work' \in [Workers -> Work]
  BY DEF Types
<1>2. ASSUME NEW v \in Workers
      PROVE  /\ work'[v].left \subseteq DOMAIN work'[v].rows
             /\ work'[v].pc = "result" => work'[v].cur \in DOMAIN work'[v].rows
             /\ \A k \in DOMAIN work'[v].rows : logs'[k] # NULL
  <2>1. /\ work'[v].left \subseteq DOMAIN work'[v].rows
        /\ work'[v].pc = "result" => work'[v].cur \in DOMAIN work'[v].rows
        /\ \A k \in DOMAIN work'[v].rows : logs[k] # NULL
    BY <1>1 DEF Types
  <2>2. DOMAIN work'[v].rows \subseteq Keys
    <3>1. work'[v].rows \in Pending
      BY <1>1 DEF Work
    <3> QED
      BY <3>1, PendingIs
  <2> QED
    BY <2>1, <2>2 DEF SameRows
<1> QED
  BY <1>1, <1>2 DEF Types

\* The passes stay as they are.
LEMMA StillTypes ==
  ASSUME Types, logs' \in Tables, \A k \in Keys : logs[k] # NULL => logs'[k] # NULL, work' = work,
         integ' \subseteq Providers, inbox' \in Inboxes, disp' \in Disp,
         events' \in 0 .. MaxEvents, changes' \in Nat, crashes' \in Nat
  PROVE  Types'
<1>1. ASSUME NEW v \in Workers, NEW k \in DOMAIN work[v].rows PROVE logs'[k] # NULL
  <2>1. work[v].rows \in Pending /\ logs[k] # NULL
    BY <1>1 DEF Types, Work
  <2> QED
    BY <1>1, <2>1, PendingIs
<1> QED
  BY <1>1 DEF Types

LEMMA WorkerTypes ==
  ASSUME Types, NEW w \in Workers, WorkerStep(w)
  PROVE  Types' /\ SameRows(logs, logs') /\ UNCHANGED <<inbox, disp, integ, bounds>>
<1>0. /\ logs \in Tables /\ work \in [Workers -> Work] /\ work[w] \in Work /\ work[w].rows \in Pending
      /\ inbox \in Inboxes /\ disp \in Disp /\ integ \subseteq Providers /\ events \in 0 .. MaxEvents
      /\ changes \in Nat /\ crashes \in Nat
      /\ work[w].left \subseteq DOMAIN work[w].rows /\ DOMAIN work[w].rows \subseteq Keys
      /\ work[w].pc = "result" => work[w].cur \in DOMAIN work[w].rows
      /\ \A k \in DOMAIN work[w].rows : logs[k] # NULL
  BY PendingIs DEF Types, Work
<1>1. UNCHANGED <<inbox, disp, integ, bounds>>
  BY DEF WorkerStep, get_retryable_logs, execute_retry, RetryResult, expire_old_snoozes, config
<1>2. UNCHANGED <<events, changes, crashes>>
  BY <1>1 DEF bounds
<1>3. CASE get_retryable_logs(w)
  <2> DEFINE ks == {k \in Keys : Retryable(logs[k])}
             rows == [k \in ks |-> logs[k]]
             s == [work[w] EXCEPT !.pc = "retry", !.left = ks, !.rows = rows]
  <2>1. \A k \in ks : k \in Keys /\ logs[k] # NULL /\ logs[k] \in LogRow
    BY <1>0, RowIsRow DEF Retryable
  <2>2. rows \in Pending /\ DOMAIN rows = ks /\ ks \in SUBSET Keys
    BY <2>1, PendingIs
  <2>3. work' = [work EXCEPT ![w] = s] /\ logs' = logs
    BY <1>0, <1>3 DEF get_retryable_logs, Work
  <2> HIDE DEF ks, rows
  <2>4. s \in Work /\ s.left = ks /\ s.rows = rows /\ s.pc = "retry"
    BY <1>0, <2>2 DEF Work
  <2> HIDE DEF s
  <2>5. SameRows(logs, logs')
    BY <2>3 DEF SameRows
  <2> QED
    BY <1>0, <1>1, <1>2, <2>1, <2>2, <2>3, <2>4, <2>5, WorkTypes
<1>4. CASE execute_retry(w)
  <2>1. PICK k \in work[w].left :
          \/ /\ logs' = [logs EXCEPT ![k].attempts = @ + 1]
             /\ work' = [work EXCEPT ![w].pc = "result", ![w].left = @ \ {k}, ![w].cur = k]
          \/ /\ logs' = [logs EXCEPT ![k].status = "permanently_failed", ![k].next = NULL]
             /\ work' = [work EXCEPT ![w].left = @ \ {k}]
    BY <1>4 DEF execute_retry
  <2>2. k \in Keys /\ k \in DOMAIN work[w].rows /\ logs[k] # NULL /\ logs[k] \in LogRow
    BY <1>0, RowIsRow
  <2>3. CASE /\ logs' = [logs EXCEPT ![k].attempts = @ + 1]
             /\ work' = [work EXCEPT ![w].pc = "result", ![w].left = @ \ {k}, ![w].cur = k]
    <3> DEFINE row == [logs[k] EXCEPT !.attempts = @ + 1]
               s == [work[w] EXCEPT !.pc = "result", !.left = @ \ {k}, !.cur = k]
    <3>1. logs' = [logs EXCEPT ![k] = row] /\ work' = [work EXCEPT ![w] = s]
      BY <1>0, <2>2, <2>3 DEF Tables, Work
    <3>2. row \in LogRow /\ row.no = logs[k].no
      BY <2>2 DEF LogRow
    <3>3. s \in Work /\ s.left = work[w].left \ {k} /\ s.rows = work[w].rows /\ s.cur = k
      BY <1>0, <2>2 DEF Work
    <3> HIDE DEF row, s
    <3>4. logs' \in Tables /\ SameRows(logs, logs')
      BY <1>0, <2>2, <3>1, <3>2, Rewritten
    <3> QED
      BY <1>0, <1>1, <1>2, <2>2, <3>1, <3>3, <3>4, WorkTypes
  <2>4. CASE /\ logs' = [logs EXCEPT ![k].status = "permanently_failed", ![k].next = NULL]
             /\ work' = [work EXCEPT ![w].left = @ \ {k}]
    <3> DEFINE row == [logs[k] EXCEPT !.status = "permanently_failed", !.next = NULL]
               s == [work[w] EXCEPT !.left = @ \ {k}]
    <3>1. logs' = [logs EXCEPT ![k] = row] /\ work' = [work EXCEPT ![w] = s]
      BY <1>0, <2>2, <2>4 DEF Tables, Work
    <3>2. row \in LogRow /\ row.no = logs[k].no
      BY <2>2 DEF LogRow
    <3>3. s \in Work /\ s.left = work[w].left \ {k} /\ s.rows = work[w].rows /\ s.cur = work[w].cur /\ s.pc = work[w].pc
      BY <1>0 DEF Work
    <3> HIDE DEF row, s
    <3>4. logs' \in Tables /\ SameRows(logs, logs')
      BY <1>0, <2>2, <3>1, <3>2, Rewritten
    <3> QED
      BY <1>0, <1>1, <1>2, <2>2, <3>1, <3>3, <3>4, WorkTypes
  <2> QED
    BY <2>1, <2>3, <2>4
<1>5. CASE RetryResult(w)
  <2> DEFINE k == work[w].cur
             n == work[w].rows[k].retries + 1
             s == [work[w] EXCEPT !.pc = "retry", !.cur = NULL]
  <2>1. k \in Keys /\ logs[k] # NULL /\ logs[k] \in LogRow /\ n \in Nat
    <3>1. k \in DOMAIN work[w].rows
      BY <1>0, <1>5 DEF RetryResult
    <3>2. work[w].rows[k] \in LogRow
      BY <1>0, <3>1, PendIsRow
    <3> QED
      BY <1>0, <3>1, <3>2, RowIsRow DEF LogRow
  <2>2. PICK ok \in BOOLEAN :
          logs' = [logs EXCEPT ![k].retries = n,
                     ![k].status = IF ok THEN "delivered" ELSE IF n < MAX_RETRIES THEN "failed" ELSE "permanently_failed",
                     ![k].next = IF ~ok /\ n < MAX_RETRIES THEN "waiting" ELSE NULL]
    BY <1>5 DEF RetryResult
  <2>3. work' = [work EXCEPT ![w] = s]
    BY <1>0, <1>5 DEF RetryResult, Work
  <2> HIDE DEF k, n
  <2> DEFINE st == IF ok THEN "delivered" ELSE IF n < MAX_RETRIES THEN "failed" ELSE "permanently_failed"
             nx == IF ~ok /\ n < MAX_RETRIES THEN "waiting" ELSE NULL
             row == [logs[k] EXCEPT !.retries = n, !.status = st, !.next = nx]
  <2>4. st \in {"delivered", "failed", "permanently_failed"} /\ nx \in {NULL, "waiting"}
    OBVIOUS
  <2>5. logs' = [logs EXCEPT ![k] = row]
    BY <1>0, <2>1, <2>2 DEF Tables
  <2> HIDE DEF st, nx
  <2>6. row \in LogRow /\ row.no = logs[k].no
    BY <2>1, <2>4 DEF LogRow
  <2> HIDE DEF row
  <2>7. logs' \in Tables /\ SameRows(logs, logs')
    BY <1>0, <2>1, <2>5, <2>6, Rewritten
  <2>8. s \in Work /\ s.left = work[w].left /\ s.rows = work[w].rows /\ s.pc = "retry"
    BY <1>0 DEF Work
  <2> HIDE DEF s
  <2> QED
    BY <1>0, <1>1, <1>2, <2>3, <2>7, <2>8, WorkTypes
<1>6. CASE expire_old_snoozes(w)
  <2>1. work' = [work EXCEPT ![w] = Asleep] /\ logs' = logs
    BY <1>6 DEF expire_old_snoozes
  <2>2. SameRows(logs, logs')
    BY <2>1 DEF SameRows
  <2> QED
    BY <1>0, <1>1, <1>2, <2>1, <2>2, AsleepIs, WorkTypes
<1> QED
  BY <1>3, <1>4, <1>5, <1>6 DEF WorkerStep

\* The steps that only change inboxes.
InboxStep ==
  \/ emit_to_users
  \/ \E u \in Users : mark_all_read(u)
  \/ \E u \in Users, i \in 1 .. MaxEvents : mark_notification_read(u, i) \/ acknowledge_notification(u, i)

LEMMA InboxKept ==
  ASSUME Types, InboxStep
  PROVE  /\ inbox' \in Inboxes /\ KeepsMarks(inbox, inbox') /\ UNCHANGED <<logs, disp, work, integ, crashes>>
         /\ events' \in 0 .. MaxEvents /\ events' >= events /\ changes' \in Nat
<1>0. /\ inbox \in [Users -> [1 .. MaxEvents -> Marks]] /\ events \in 0 .. MaxEvents /\ changes \in Nat
      /\ MaxEvents \in Nat
  BY NotificationsAssumption DEF Types, Inboxes
<1>2. CASE emit_to_users
  <2>1. PICK users : inbox' = [u \in Users |-> IF u \in users THEN [inbox[u] EXCEPT ![events'] = "unread"] ELSE inbox[u]]
    BY <1>2 DEF emit_to_users
  <2>2. events' \in 1 .. MaxEvents /\ events' >= events /\ changes' \in Nat
        /\ UNCHANGED <<logs, disp, work, integ, crashes>>
    BY <1>0, <1>2 DEF emit_to_users, config
  <2> DEFINE f == [u \in Users |-> IF u \in users THEN [inbox[u] EXCEPT ![events'] = "unread"] ELSE inbox[u]]
  <2>3. ASSUME NEW u \in Users
        PROVE  /\ f[u] \in [1 .. MaxEvents -> Marks]
               /\ \A i \in 1 .. MaxEvents : inbox[u][i] # NoRow => f[u][i] # NoRow
    <3>1. inbox[u] \in [1 .. MaxEvents -> Marks]
      BY <1>0
    <3>2. f[u] = [inbox[u] EXCEPT ![events'] = "unread"] \/ f[u] = inbox[u]
      OBVIOUS
    <3> QED
      BY <2>2, <3>1, <3>2 DEF Marks, NoRow
  <2>4. inbox' = [u \in Users |-> f[u]]
    BY <2>1
  <2> HIDE DEF f
  <2>5. inbox' \in Inboxes
    BY <2>3, <2>4 DEF Inboxes
  <2>6. KeepsMarks(inbox, inbox')
    BY <2>3, <2>4 DEF KeepsMarks
  <2>7. events' \in 0 .. MaxEvents
    BY <1>0, <2>2
  <2> QED
    BY <2>2, <2>5, <2>6, <2>7
<1>3. ASSUME NEW u \in Users, mark_all_read(u)
      PROVE  inbox' \in Inboxes /\ KeepsMarks(inbox, inbox')
  <2> DEFINE g == [i \in DOMAIN inbox[u] |-> IF inbox[u][i] = "unread" THEN "read" ELSE inbox[u][i]]
  <2>1. inbox' = [inbox EXCEPT ![u] = g]
    BY <1>3 DEF mark_all_read
  <2>2. g \in [1 .. MaxEvents -> Marks] /\ \A i \in 1 .. MaxEvents : inbox[u][i] # NoRow => g[i] # NoRow
    BY <1>0 DEF Marks, NoRow
  <2> HIDE DEF g
  <2> QED
    BY <1>0, <2>1, <2>2 DEF Inboxes, KeepsMarks
<1>4. ASSUME NEW u \in Users, NEW i \in 1 .. MaxEvents,
             mark_notification_read(u, i) \/ acknowledge_notification(u, i)
      PROVE  inbox' \in Inboxes /\ KeepsMarks(inbox, inbox')
  <2>1. PICK m \in Marks : m # NoRow /\ inbox' = [inbox EXCEPT ![u][i] = m]
    <3>1. CASE mark_notification_read(u, i)
      <4> DEFINE m == IF inbox[u][i] = "unread" THEN "read" ELSE inbox[u][i]
      <4>1. inbox' = [inbox EXCEPT ![u][i] = m] /\ inbox[u][i] # NoRow
        BY <3>1 DEF mark_notification_read
      <4>2. m \in Marks /\ m # NoRow
        BY <1>0, <4>1 DEF Marks, NoRow
      <4> QED
        BY <4>1, <4>2
    <3>2. CASE acknowledge_notification(u, i)
      <4>1. inbox' = [inbox EXCEPT ![u][i] = "acknowledged"] /\ "acknowledged" \in Marks /\ "acknowledged" # NoRow
        BY <3>2 DEF acknowledge_notification, Marks, NoRow
      <4> QED
        BY <4>1
    <3> QED
      BY <1>4, <3>1, <3>2
  <2> QED
    BY <1>0, <2>1 DEF Inboxes, KeepsMarks
<1>5. CASE ~emit_to_users
  <2>1. /\ events' = events /\ changes' \in Nat
        /\ UNCHANGED <<logs, disp, work, integ, crashes>>
    BY <1>0, <1>5 DEF InboxStep, mark_all_read, mark_notification_read, acknowledge_notification, Change, config
  <2> QED
    BY <1>0, <1>3, <1>4, <1>5, <2>1 DEF InboxStep
<1> QED
  BY <1>2, <1>5

\* The administrators' steps and those of time that leave logs and inboxes alone.
QuietStep ==
  \/ \E p \in Providers : upsert_integration(p)
  \/ update_policy \/ create_snooze \/ delete_snooze
  \/ \E u \in Users : patch_destination(u)
  \/ Elapse \/ SnoozeEnds

LEMMA QuietKept ==
  ASSUME Types, QuietStep
  PROVE  /\ integ' \subseteq Providers /\ UNCHANGED <<logs, inbox, disp, work, events, crashes>> /\ changes' \in Nat
<1>0. integ \subseteq Providers /\ changes \in Nat
  BY DEF Types
<1>1. ASSUME NEW p \in Providers, upsert_integration(p)
      PROVE  /\ integ' \subseteq Providers /\ UNCHANGED <<logs, inbox, disp, work, events, crashes>> /\ changes' \in Nat
  BY <1>0, <1>1 DEF upsert_integration, Change
<1>2. CASE update_policy \/ create_snooze \/ delete_snooze \/ (\E u \in Users : patch_destination(u))
  BY <1>0, <1>2 DEF update_policy, create_snooze, delete_snooze, patch_destination, Change
<1>3. CASE Elapse \/ SnoozeEnds
  BY <1>0, <1>3 DEF Elapse, SnoozeEnds, config, bounds
<1> QED
  BY <1>1, <1>2, <1>3 DEF QuietStep

LEMMA BackoffKept ==
  ASSUME Types, BackoffEnds
  PROVE  /\ logs' \in Tables /\ SameRows(logs, logs') /\ UNCHANGED <<inbox, disp, work, integ, bounds>>
         /\ \A k \in Keys : logs[k] # NULL => /\ logs'[k].retries = logs[k].retries
                                              /\ logs'[k].attempts = logs[k].attempts
<1>1. PICK k \in Keys : logs[k] # NULL /\ logs' = [logs EXCEPT ![k].next = "due"]
  BY DEF BackoffEnds
<1>2. UNCHANGED <<inbox, disp, work, integ, bounds>> /\ logs \in Tables
  BY DEF BackoffEnds, config, Types
<1> DEFINE row == [logs[k] EXCEPT !.next = "due"]
<1>3. logs[k] \in LogRow
  BY <1>1, <1>2, RowIsRow
<1>4. logs' = [logs EXCEPT ![k] = row]
  BY <1>1
<1>5. row \in LogRow /\ row.no = logs[k].no /\ row.retries = logs[k].retries /\ row.attempts = logs[k].attempts
  BY <1>3 DEF LogRow
<1> HIDE DEF row
<1>6. logs' \in Tables /\ SameRows(logs, logs')
  BY <1>1, <1>2, <1>4, <1>5, Rewritten
<1>7. \A j \in Keys : logs'[j] = IF j = k THEN row ELSE logs[j]
  BY <1>2, <1>4 DEF Tables
<1> QED
  BY <1>2, <1>5, <1>6, <1>7

\* Next, with the administrators' steps sorted by what they touch.
LEMMA Steps ==
  ASSUME Next
  PROVE  \/ \E e \in Events : dispatch_routed(e)
         \/ DispatchStep
         \/ \E w \in Workers : WorkerStep(w)
         \/ InboxStep \/ QuietStep \/ BackoffEnds \/ Crash
  BY DEF Next, Admin, InboxStep, QuietStep

LEMMA CrashKept ==
  ASSUME Types, Crash
  PROVE  /\ Types' /\ UNCHANGED <<logs, inbox, integ, events>> /\ crashes' = crashes + 1
         /\ \/ disp' = Resting /\ work' = work
            \/ disp' = disp /\ \E w \in Workers : work' = [work EXCEPT ![w] = Asleep]
<1>0. /\ logs \in Tables /\ inbox \in Inboxes /\ integ \subseteq Providers /\ events \in 0 .. MaxEvents
      /\ changes \in Nat /\ crashes \in Nat /\ disp \in Disp
  BY DEF Types
<1>1. UNCHANGED <<logs, inbox, integ, events, changes>> /\ crashes' = crashes + 1
  BY DEF Crash, config
<1>2. SameRows(logs, logs')
  BY <1>1 DEF SameRows
<1>3. CASE disp' = Resting /\ work' = work
  BY <1>0, <1>1, <1>3, RestingIs, StillTypes
<1>4. ASSUME disp' = disp, NEW w \in Workers, work' = [work EXCEPT ![w] = Asleep] PROVE Types'
  <2>1. /\ inbox' \in Inboxes /\ integ' \subseteq Providers /\ events' \in 0 .. MaxEvents
        /\ changes' \in Nat /\ crashes' \in Nat /\ logs' \in Tables
    BY <1>0, <1>1
  <2>2. /\ Asleep \in Work /\ Asleep.left \subseteq DOMAIN Asleep.rows /\ Asleep.pc # "result"
        /\ \A k \in DOMAIN Asleep.rows : logs[k] # NULL
    BY AsleepIs
  <2> QED
    BY <1>0, <1>1, <1>2, <1>4, <2>1, <2>2, WorkTypes
<1>5. \/ disp' = Resting /\ work' = work
      \/ disp' = disp /\ \E w \in Workers : work' = [work EXCEPT ![w] = Asleep]
  BY DEF Crash
<1> QED
  BY <1>1, <1>3, <1>4, <1>5

LEMMA SendNext ==
  ASSUME DispatchInv, disp.pc # "idle", Sent, UNCHANGED <<integ, work, events, crashes>>
  PROVE  DispatchInv'
<1>0. /\ Types /\ disp \in Disp /\ logs \in Tables /\ integ \subseteq Providers /\ events \in 0 .. MaxEvents
      /\ changes \in Nat /\ crashes \in Nat /\ disp.no <= events /\ events' = events
      /\ UNCHANGED <<integ, work, events, crashes>> /\ changes' \in Nat
  BY DEF DispatchInv, Types, Sent
<1>1. Good(disp', logs', inbox') /\ disp'.no = disp.no /\ disp'.pc = disp.pc
  BY DEF Sent, Kept
<1>2. disp' \in Disp /\ logs' \in Tables /\ inbox' \in Inboxes /\ Held(disp', logs')
  BY <1>1 DEF Good
<1>3. \A k \in Keys : logs[k] # NULL => logs'[k] # NULL
  BY DEF Sent, Grows
<1>4. Types'
  BY <1>0, <1>2, <1>3, StillTypes
<1>5. ASSUME NEW k \in Keys, logs'[k] # NULL PROVE logs'[k].no <= events'
  <2>1. logs'[k].no \in Nat /\ disp.no \in Nat /\ events \in Nat
    BY <1>0, <1>2, <1>5, RowIsRow, NotificationsAssumption DEF Disp
  <2>2. logs'[k].no <= disp.no
    BY <1>1, <1>2, <1>5 DEF Held
  <2> QED
    BY <1>0, <2>1, <2>2
<1> QED
  BY <1>0, <1>1, <1>4, <1>5 DEF DispatchInv

LEMMA DispatchNext == ASSUME DispatchInv, [Next]_vars PROVE DispatchInv'
<1>0. /\ Types /\ disp \in Disp /\ logs \in Tables /\ inbox \in Inboxes /\ integ \subseteq Providers
      /\ events \in 0 .. MaxEvents /\ events \in Nat /\ changes \in Nat /\ crashes \in Nat
      /\ (disp.pc # "idle" => Good(disp, logs, inbox))
  BY NotificationsAssumption DEF DispatchInv, Types
<1>1. ASSUME NEW e \in Events, dispatch_routed(e) PROVE DispatchInv'
  <2>1. /\ disp' \in Disp /\ logs' = logs /\ inbox' = inbox
        /\ events' \in 0 .. MaxEvents /\ events' >= events /\ disp'.no <= events'
        /\ disp'.pc # "idle" => Good(disp', logs', inbox')
        /\ disp'.pc = "idle" => /\ LostReceiptIsRepeat' /\ disp'.count = <<>> /\ disp'.pend = <<>>
                                /\ disp'.made = {}
        /\ UNCHANGED <<integ, work, changes, crashes>>
    BY <1>1, Dispatch
  <2>2. Types'
    BY <1>0, <2>1, StillTypes
  <2>3. ASSUME NEW k \in Keys, logs[k] # NULL PROVE logs[k].no <= events'
    <3>1. logs[k].no \in Nat /\ logs[k].no <= events
      BY <1>0, <2>3, RowIsRow DEF DispatchInv
    <3> QED
      BY <1>0, <2>1, <3>1
  <2> QED
    BY <2>1, <2>2, <2>3 DEF DispatchInv
<1>2. CASE DispatchStep
  <2>1. disp.pc # "idle" /\ UNCHANGED <<integ, work, events, crashes>>
    BY <1>0, <1>2 DEF DispatchStep, org_send, open_user, user_send, finish, config, bounds
  <2>2. CASE org_send \/ user_send
    BY <1>0, <2>1, <2>2, OrgSend, UserSend, SendNext
  <2>3. CASE open_user
    <3>1. Good(disp', logs', inbox') /\ logs' = logs /\ disp'.no = disp.no /\ disp'.pc # "idle"
      BY <1>0, <2>1, <2>3, OpenUser
    <3>0. changes' = changes
      BY <2>3 DEF open_user, bounds
    <3>2. Types'
      BY <1>0, <2>1, <3>0, <3>1, StillTypes DEF Good
    <3> QED
      BY <2>1, <3>1, <3>2 DEF DispatchInv, bounds
  <2>4. CASE finish
    <3>1. /\ disp' \in Disp /\ disp'.pc = "idle" /\ disp'.no = disp.no /\ disp'.count = <<>> /\ disp'.pend = <<>>
          /\ LostReceiptIsRepeat' /\ logs' \in Tables /\ inbox' \in Inboxes /\ Grows(logs, logs')
          /\ disp'.no \in 1 .. MaxEvents /\ UNCHANGED bounds
          /\ \A k \in Keys : logs'[k] # NULL => logs[k] # NULL \/ logs'[k].no = disp.no
      BY <1>0, <2>1, <2>4, Finish
    <3>2. \A k \in Keys : logs[k] # NULL => logs'[k] = logs[k]
      BY <3>1 DEF Grows
    <3>3. Types'
      BY <1>0, <2>1, <3>1, <3>2, StillTypes DEF bounds
    <3> QED
      BY <2>1, <3>1, <3>2, <3>3 DEF DispatchInv, bounds
  <2> QED
    BY <1>2, <2>2, <2>3, <2>4 DEF DispatchStep
<1>3. ASSUME NEW w \in Workers, WorkerStep(w) PROVE DispatchInv'
  <2>1. Types' /\ SameRows(logs, logs') /\ UNCHANGED <<inbox, disp, events>>
    BY <1>0, <1>3, WorkerTypes DEF bounds
  <2>2. KeepsMarks(inbox, inbox')
    BY <2>1 DEF KeepsMarks
  <2> QED
    BY <1>0, <2>1, <2>2, Frame
<1>4. CASE InboxStep
  <2>1. /\ inbox' \in Inboxes /\ KeepsMarks(inbox, inbox') /\ UNCHANGED <<logs, disp, work, integ, crashes>>
        /\ events' \in 0 .. MaxEvents /\ events' >= events /\ changes' \in Nat
    BY <1>0, <1>4, InboxKept
  <2>2. SameRows(logs, logs')
    BY <2>1 DEF SameRows
  <2>3. Types'
    BY <1>0, <2>1, StillTypes
  <2> QED
    BY <2>1, <2>2, <2>3, Frame
<1>5. CASE QuietStep
  <2>1. integ' \subseteq Providers /\ UNCHANGED <<logs, inbox, disp, work, events, crashes>> /\ changes' \in Nat
    BY <1>0, <1>5, QuietKept
  <2>2. SameRows(logs, logs') /\ KeepsMarks(inbox, inbox')
    BY <2>1 DEF SameRows, KeepsMarks
  <2>3. Types'
    BY <1>0, <2>1, StillTypes
  <2> QED
    BY <1>0, <2>1, <2>2, <2>3, Frame
<1>6. CASE BackoffEnds
  <2>1. logs' \in Tables /\ SameRows(logs, logs') /\ UNCHANGED <<inbox, disp, work, integ, events, changes, crashes>>
    BY <1>0, <1>6, BackoffKept DEF bounds
  <2>2. KeepsMarks(inbox, inbox') /\ \A k \in Keys : logs[k] # NULL => logs'[k] # NULL
    BY <2>1 DEF KeepsMarks, SameRows
  <2>3. Types'
    BY <1>0, <2>1, <2>2, StillTypes
  <2> QED
    BY <1>0, <2>1, <2>2, <2>3, Frame
<1>7. CASE Crash
  <2>1. /\ Types' /\ UNCHANGED <<logs, inbox, integ, events>>
        /\ \/ disp' = Resting
           \/ disp' = disp
    BY <1>0, <1>7, CrashKept
  <2>2. CASE disp' = Resting
    <3>1. disp'.pc = "idle" /\ disp'.no = 0 /\ disp'.made = {} /\ disp'.count = <<>> /\ disp'.pend = <<>>
      BY <2>2, RestingIs
    <3>2. LostReceiptIsRepeat'
      BY <3>1 DEF LostReceiptIsRepeat
    <3> QED
      BY <1>0, <2>1, <3>1, <3>2 DEF DispatchInv
  <2>3. CASE disp' = disp
    <3>1. SameRows(logs, logs') /\ KeepsMarks(inbox, inbox')
      BY <2>1 DEF SameRows, KeepsMarks
    <3> QED
      BY <1>0, <2>1, <2>3, <3>1, Frame
  <2> QED
    BY <2>1, <2>2, <2>3
<1>8. CASE UNCHANGED vars
  <2>1. UNCHANGED <<logs, inbox, disp, work, integ, events, changes, crashes>>
    BY <1>8 DEF vars, config, bounds
  <2>2. SameRows(logs, logs') /\ KeepsMarks(inbox, inbox')
    BY <2>1 DEF SameRows, KeepsMarks
  <2>3. Types'
    BY <1>0, <2>1, StillTypes
  <2> QED
    BY <1>0, <2>1, <2>2, <2>3, Frame
<1> QED
  BY <1>1, <1>2, <1>3, <1>4, <1>5, <1>6, <1>7, <1>8, Steps

LEMMA DispatchInit == ASSUME Init PROVE DispatchInv
<1>1. /\ integ \subseteq Providers /\ logs \in Tables /\ events = 0 /\ changes = 0 /\ crashes = 0
      /\ disp = Resting /\ work = [w \in Workers |-> Asleep] /\ \A k \in Keys : logs[k] = NULL
  BY NotificationsAssumption DEF Init, Tables
<1>2. inbox \in Inboxes
  BY DEF Init, Inboxes, Marks
<1>3. work \in [Workers -> Work] /\ \A w \in Workers : work[w] = Asleep
  BY <1>1, AsleepIs
<1>4. Types
  BY <1>1, <1>2, <1>3, AsleepIs, RestingIs, NotificationsAssumption DEF Types
<1>5. LostReceiptIsRepeat
  BY <1>1, RestingIs DEF LostReceiptIsRepeat
<1> QED
  BY <1>1, <1>4, <1>5, RestingIs DEF DispatchInv

LEMMA DispatchSafe == Spec => []DispatchInv
<1>1. Init => DispatchInv
  BY DispatchInit
<1>2. DispatchInv /\ [Next]_vars => DispatchInv'
  BY DispatchNext
<1> QED
  BY <1>1, <1>2, PTL DEF Spec

\* For one event a channel gets one message, whatever the routing, the integrations, the
\* users' mappings, the outcomes of the sends and the rollbacks are, with any number of
\* providers, users and workers (dispatch_routed, sent_keys).
THEOREM OneMessagePerChannel == Spec => []OneCopyPerChannel
<1>1. DispatchInv => OneCopyPerChannel
  <2>1. ASSUME DispatchInv, disp.pc # "idle" PROVE OneCopyPerChannel
    BY <2>1 DEF DispatchInv, Good, Unsent, OneCopyPerChannel
  <2>2. ASSUME DispatchInv, disp.pc = "idle" PROVE OneCopyPerChannel
    BY <2>2, EmptyIs DEF DispatchInv, OneCopyPerChannel
  <2> QED
    BY <2>1, <2>2
<1> QED
  BY <1>1, DispatchSafe, PTL

\* A user for whom dispatch_routed made an inbox row has it when the call is over, unless
\* the row was pending when a commit failed and was swallowed (_record_delivery), or an
\* earlier event of the kind left a delivery log: no mix of providers, direct sends,
\* fallbacks and commits loses it otherwise (_log_delivery's rollback).
THEOREM ReceiptsLostOnlyToRepeats == Spec => []LostReceiptIsRepeat
<1>1. DispatchInv => LostReceiptIsRepeat
  BY DEF DispatchInv, LostReceiptIsRepeat
<1> QED
  BY <1>1, DispatchSafe, PTL

------------------------------------------------------------------------------
(* the number of attempts, with one worker *)

LEMMA Alone ==
  ASSUME OneWorker, NEW w \in Workers
  PROVE  /\ \A k : Trying(k) <=> work[w].pc = "result" /\ work[w].cur = k
         /\ \A k : Trying(k)' <=> work'[w].pc = "result" /\ work'[w].cur = k
  BY DEF OneWorker, Trying

\* What was counted of a row stays, and a new row has been sent once.
SameCounts(b, c) ==
  \A k \in Keys : /\ b[k] # NULL => c[k] # NULL /\ c[k].retries = b[k].retries /\ c[k].attempts = b[k].attempts
                  /\ b[k] = NULL /\ c[k] # NULL => c[k].retries = 0 /\ c[k].attempts = 1

LEMMA GrowsCounts == ASSUME Grows(logs, logs') PROVE SameCounts(logs, logs')
  BY NotificationsAssumption DEF Grows, SameCounts

LEMMA OneAndMore == ASSUME NEW c \in Nat PROVE 1 <= 1 + 0 + c + 0 /\ 1 <= 1 + 0 + c + 1
  OBVIOUS

\* A step of somebody else.
LEMMA OthersKeep ==
  ASSUME Types, Loaded, Trials, SameCounts(logs, logs'), work' = work, crashes' \in Nat, crashes' >= crashes,
         logs' \in Tables
  PROVE  Loaded' /\ Trials'
<1>1. /\ logs \in Tables /\ crashes \in Nat /\ MAX_RETRIES \in Nat
      /\ \A w \in Workers : /\ work[w].left \subseteq Keys
                            /\ work[w].pc = "result" => work[w].cur \in Keys
  BY PendingIs, NotificationsAssumption DEF Types, Work
<1>2. ASSUME NEW w \in Workers, NEW k \in Keys, InPass(w, k) PROVE InPass(w, k)'
  BY <1>2 DEF InPass, SameCounts
<1>3. Loaded'
  BY <1>1, <1>2 DEF Loaded
<1>4. \A k : Trying(k)' <=> Trying(k)
  BY DEF Trying
<1>5. ASSUME NEW k \in Keys, logs'[k] # NULL
      PROVE  /\ logs'[k].retries <= MAX_RETRIES
             /\ logs'[k].attempts <= 1 + logs'[k].retries + crashes' + (IF Trying(k)' THEN 1 ELSE 0)
  <2>1. CASE logs[k] = NULL
    <3>1. logs'[k].retries = 0 /\ logs'[k].attempts = 1
      BY <1>5, <2>1 DEF SameCounts
    <3>2. 1 <= 1 + 0 + crashes' + 0 /\ 1 <= 1 + 0 + crashes' + 1
      BY OneAndMore, Zenon
    <3>3. 0 <= MAX_RETRIES
      BY <1>1
    <3>4. CASE Trying(k)'
      BY <3>1, <3>2, <3>3, <3>4
    <3>5. CASE ~Trying(k)'
      BY <3>1, <3>2, <3>3, <3>5
    <3> QED
      BY <3>4, <3>5
  <2>2. CASE logs[k] # NULL
    <3>1. logs'[k].retries = logs[k].retries /\ logs'[k].attempts = logs[k].attempts
      BY <2>2 DEF SameCounts
    <3>2. logs[k].attempts \in Nat /\ logs[k].retries \in Nat
      BY <1>1, <2>2, RowIsRow
    <3>3. /\ logs[k].retries <= MAX_RETRIES
          /\ logs[k].attempts <= 1 + logs[k].retries + crashes + (IF Trying(k) THEN 1 ELSE 0)
      BY <2>2 DEF Trials
    <3> QED
      BY <1>1, <1>4, <3>1, <3>2, <3>3
  <2> QED
    BY <2>1, <2>2
<1> QED
  BY <1>3, <1>5 DEF Trials

\* A pass that ends in an attempt or none: the attempt is one more with a crash only.
LEMMA PassEnds ==
  ASSUME OneWorker, Types, Loaded, Trials, NEW w \in Workers, work' = [work EXCEPT ![w] = Asleep],
         logs' = logs, crashes' \in Nat,
         \/ crashes' = crashes /\ work[w].pc # "result"
         \/ crashes' = crashes + 1
  PROVE  Loaded' /\ Trials'
<1>1. logs \in Tables /\ crashes \in Nat /\ work \in [Workers -> Work]
  BY DEF Types
<1>2. work'[w] = Asleep /\ work'[w].pc = "idle" /\ \A v \in Workers : v = w
  BY <1>1, AsleepIs DEF OneWorker
<1>3. Loaded'
  BY <1>2 DEF Loaded
<1>4. /\ \A k : Trying(k) <=> work[w].pc = "result" /\ work[w].cur = k
      /\ \A k : ~Trying(k)'
  BY <1>2, Alone
<1>5. ASSUME NEW k \in Keys, logs[k] # NULL
      PROVE  /\ logs[k].retries <= MAX_RETRIES
             /\ logs[k].attempts <= 1 + logs[k].retries + crashes'
  <2>1. logs[k].attempts \in Nat /\ logs[k].retries \in Nat
    BY <1>1, <1>5, RowIsRow
  <2>2. /\ logs[k].retries <= MAX_RETRIES
        /\ logs[k].attempts <= 1 + logs[k].retries + crashes + (IF Trying(k) THEN 1 ELSE 0)
    BY <1>5 DEF Trials
  <2>3. crashes' = crashes => ~Trying(k)
    BY <1>1, <1>4
  <2> QED
    BY <1>1, <2>1, <2>2, <2>3
<1>6. ASSUME NEW k \in Keys, logs'[k] # NULL
      PROVE  /\ logs'[k].retries <= MAX_RETRIES
             /\ logs'[k].attempts <= 1 + logs'[k].retries + crashes' + (IF Trying(k)' THEN 1 ELSE 0)
  <2>1. logs[k].attempts \in Nat /\ logs[k].retries \in Nat
    BY <1>1, <1>6, RowIsRow
  <2> QED
    BY <1>4, <1>5, <1>6, <2>1
<1> QED
  BY <1>3, <1>6 DEF Trials

\* The steps of the pass w: s is its next state.
LEMMA PassGoesOn ==
  ASSUME OneWorker, Types, NEW w \in Workers, NEW s \in Work, work' = [work EXCEPT ![w] = s], crashes' = crashes,
         logs' \in Tables,
         s.pc # "idle", \A k \in s.left : InPass(w, k)', s.pc = "result" => InPass(w, s.cur)' /\ s.cur \notin s.left,
         \A k \in Keys : logs'[k] # NULL =>
            /\ logs'[k].retries <= MAX_RETRIES
            /\ s.pc = "result" /\ s.cur = k => logs'[k].attempts <= 2 + logs'[k].retries + crashes
            /\ s.pc # "result" \/ s.cur # k => logs'[k].attempts <= 1 + logs'[k].retries + crashes
  PROVE  Loaded' /\ Trials'
<1>1. work \in [Workers -> Work] /\ crashes \in Nat
  BY DEF Types
<1>2. work'[w] = s /\ \A v \in Workers : v = w
  BY <1>1 DEF OneWorker
<1>3. Loaded'
  BY <1>2 DEF Loaded
<1>4. \A k : Trying(k)' <=> s.pc = "result" /\ s.cur = k
  BY <1>2, Alone
<1>5. ASSUME NEW k \in Keys, logs'[k] # NULL
      PROVE  /\ logs'[k].retries <= MAX_RETRIES
             /\ logs'[k].attempts <= 1 + logs'[k].retries + crashes' + (IF Trying(k)' THEN 1 ELSE 0)
  <2>1. logs'[k].attempts \in Nat /\ logs'[k].retries \in Nat
    BY <1>5, RowIsRow
  <2>2. CASE Trying(k)'
    <3>1. logs'[k].attempts <= 2 + logs'[k].retries + crashes
      BY <1>4, <1>5, <2>2
    <3>2. logs'[k].attempts <= 1 + logs'[k].retries + crashes + 1
      BY <1>1, <2>1, <3>1
    <3> QED
      BY <1>5, <2>2, <3>2
  <2>3. CASE ~Trying(k)'
    <3>1. logs'[k].attempts <= 1 + logs'[k].retries + crashes
      BY <1>4, <1>5, <2>3
    <3>2. logs'[k].attempts <= 1 + logs'[k].retries + crashes + 0
      BY <1>1, <2>1, <3>1
    <3> QED
      BY <1>5, <2>3, <3>2
  <2> QED
    BY <2>2, <2>3
<1> QED
  BY <1>3, <1>5 DEF Trials

LEMMA WorkerRetries ==
  ASSUME OneWorker, Types, Loaded, Trials, NEW w \in Workers, WorkerStep(w)
  PROVE  Loaded' /\ Trials'
<1>0. /\ logs \in Tables /\ work \in [Workers -> Work] /\ work[w] \in Work /\ work[w].rows \in Pending
      /\ crashes \in Nat /\ MAX_RETRIES \in Nat
      /\ work[w].left \subseteq DOMAIN work[w].rows /\ DOMAIN work[w].rows \subseteq Keys
      /\ work[w].pc = "result" => work[w].cur \in DOMAIN work[w].rows
  BY PendingIs, NotificationsAssumption DEF Types, Work
<1>1. crashes' = crashes /\ Types' /\ logs' \in Tables
  BY WorkerTypes DEF bounds, Types
<1>2. ASSUME NEW k \in Keys, logs[k] # NULL
      PROVE  /\ logs[k].attempts \in Nat /\ logs[k].retries \in Nat /\ logs[k].retries <= MAX_RETRIES
             /\ ~(work[w].pc = "result" /\ work[w].cur = k) => logs[k].attempts <= 1 + logs[k].retries + crashes
             /\ logs[k].attempts <= 2 + logs[k].retries + crashes
  <2>1. logs[k].attempts \in Nat /\ logs[k].retries \in Nat
    BY <1>0, <1>2, RowIsRow
  <2>2. /\ logs[k].retries <= MAX_RETRIES
        /\ logs[k].attempts <= 1 + logs[k].retries + crashes + (IF Trying(k) THEN 1 ELSE 0)
    BY <1>2 DEF Trials
  <2>3. Trying(k) <=> work[w].pc = "result" /\ work[w].cur = k
    BY Alone
  <2>4. CASE Trying(k)
    BY <1>0, <2>1, <2>2, <2>3, <2>4
  <2>5. CASE ~Trying(k)
    BY <1>0, <2>1, <2>2, <2>3, <2>5
  <2> QED
    BY <2>4, <2>5
<1>3. CASE get_retryable_logs(w)
  <2> DEFINE ks == {k \in Keys : Retryable(logs[k])}
             rows == [k \in ks |-> logs[k]]
             s == [work[w] EXCEPT !.pc = "retry", !.left = ks, !.rows = rows]
  <2>1. \A k \in ks : k \in Keys /\ logs[k] # NULL /\ logs[k].retries < MAX_RETRIES /\ rows[k] = logs[k]
    BY DEF Retryable
  <2>2. rows \in Pending /\ ks \in SUBSET Keys
    BY <1>0, <2>1, RowIsRow, PendingIs
  <2>3. work' = [work EXCEPT ![w] = s] /\ logs' = logs /\ work[w].pc = "idle"
    BY <1>0, <1>3 DEF get_retryable_logs, Work
  <2> HIDE DEF ks, rows
  <2>4. s \in Work /\ s.left = ks /\ s.rows = rows /\ s.pc = "retry"
    BY <1>0, <2>2 DEF Work
  <2> HIDE DEF s
  <2>5. work'[w] = s
    BY <1>0, <2>3
  <2>6. \A k \in s.left : InPass(w, k)'
    BY <2>1, <2>3, <2>4, <2>5 DEF InPass
  <2> QED
    BY <1>1, <1>2, <2>3, <2>4, <2>6, PassGoesOn
<1>4. CASE execute_retry(w)
  <2>1. PICK k \in work[w].left :
          \/ /\ logs' = [logs EXCEPT ![k].attempts = @ + 1]
             /\ work' = [work EXCEPT ![w].pc = "result", ![w].left = @ \ {k}, ![w].cur = k]
          \/ /\ logs' = [logs EXCEPT ![k].status = "permanently_failed", ![k].next = NULL]
             /\ work' = [work EXCEPT ![w].left = @ \ {k}]
    BY <1>4 DEF execute_retry
  <2>2. work[w].pc = "retry" /\ \A j \in work[w].left : j \in Keys /\ InPass(w, j)
    BY <1>0, <1>4 DEF execute_retry, Loaded
  <2>3. k \in Keys /\ logs[k] # NULL /\ logs[k] \in LogRow
    BY <1>0, <2>2, RowIsRow DEF InPass
  <2>4. CASE /\ logs' = [logs EXCEPT ![k].attempts = @ + 1]
             /\ work' = [work EXCEPT ![w].pc = "result", ![w].left = @ \ {k}, ![w].cur = k]
    <3> DEFINE row == [logs[k] EXCEPT !.attempts = @ + 1]
               s == [work[w] EXCEPT !.pc = "result", !.left = @ \ {k}, !.cur = k]
    <3>1. logs' = [logs EXCEPT ![k] = row] /\ work' = [work EXCEPT ![w] = s]
      BY <1>0, <2>3, <2>4 DEF Tables, Work
    <3>2. row \in LogRow /\ row.retries = logs[k].retries /\ row.attempts = logs[k].attempts + 1 /\ row # NULL
      BY <2>3, NotificationsAssumption DEF LogRow
    <3>3. s \in Work /\ s.left = work[w].left \ {k} /\ s.rows = work[w].rows /\ s.cur = k /\ s.pc = "result"
      BY <1>0, <2>3 DEF Work
    <3> HIDE DEF row, s
    <3>4. work'[w] = s /\ \A j \in Keys : logs'[j] = IF j = k THEN row ELSE logs[j]
      BY <1>0, <3>1 DEF Tables
    <3>5. \A j \in work[w].left : InPass(w, j)'
      BY <2>2, <3>2, <3>3, <3>4 DEF InPass
    <3>6. ASSUME NEW j \in Keys, logs'[j] # NULL
          PROVE  /\ logs'[j].retries <= MAX_RETRIES
                 /\ j = k => logs'[j].attempts <= 2 + logs'[j].retries + crashes
                 /\ j # k => logs'[j].attempts <= 1 + logs'[j].retries + crashes
      <4>1. CASE j = k
        BY <1>0, <1>2, <2>2, <2>3, <3>2, <3>4, <4>1
      <4>2. CASE j # k
        BY <1>2, <2>2, <3>4, <3>6, <4>2
      <4> QED
        BY <4>1, <4>2
    <3> QED
      BY <1>1, <3>1, <3>3, <3>5, <3>6, PassGoesOn
  <2>5. CASE /\ logs' = [logs EXCEPT ![k].status = "permanently_failed", ![k].next = NULL]
             /\ work' = [work EXCEPT ![w].left = @ \ {k}]
    <3> DEFINE row == [logs[k] EXCEPT !.status = "permanently_failed", !.next = NULL]
               s == [work[w] EXCEPT !.left = @ \ {k}]
    <3>1. logs' = [logs EXCEPT ![k] = row] /\ work' = [work EXCEPT ![w] = s]
      BY <1>0, <2>3, <2>5 DEF Tables, Work
    <3>2. row.retries = logs[k].retries /\ row.attempts = logs[k].attempts
      BY <2>3 DEF LogRow
    <3>3. s \in Work /\ s.left = work[w].left \ {k} /\ s.rows = work[w].rows /\ s.pc = "retry"
      BY <1>0, <2>2 DEF Work
    <3> HIDE DEF row, s
    <3>4. work'[w] = s /\ \A j \in Keys : logs'[j] = IF j = k THEN row ELSE logs[j]
      BY <1>0, <3>1 DEF Tables
    <3>5. \A j \in s.left : InPass(w, j)'
      BY <2>2, <3>3, <3>4 DEF InPass
    <3>6. ASSUME NEW j \in Keys, logs'[j] # NULL
          PROVE  /\ logs'[j].retries <= MAX_RETRIES
                 /\ logs'[j].attempts <= 1 + logs'[j].retries + crashes
      <4>1. CASE j = k
        BY <1>2, <2>2, <2>3, <3>2, <3>4, <4>1
      <4>2. CASE j # k
        BY <1>2, <2>2, <3>4, <3>6, <4>2
      <4> QED
        BY <4>1, <4>2
    <3> QED
      BY <1>1, <3>1, <3>3, <3>5, <3>6, PassGoesOn
  <2> QED
    BY <2>1, <2>4, <2>5
<1>5. CASE RetryResult(w)
  <2> DEFINE k == work[w].cur
             n == work[w].rows[k].retries + 1
             s == [work[w] EXCEPT !.pc = "retry", !.cur = NULL]
  <2>1. /\ k \in Keys /\ k \notin work[w].left /\ InPass(w, k) /\ work[w].pc = "result"
        /\ \A j \in work[w].left : j \in Keys /\ InPass(w, j)
    BY <1>0, <1>5 DEF RetryResult, Loaded
  <2>2. logs[k] # NULL /\ logs[k] \in LogRow /\ n = logs[k].retries + 1 /\ n <= MAX_RETRIES /\ n \in Nat
    BY <1>0, <2>1, RowIsRow DEF InPass
  <2>3. PICK ok \in BOOLEAN :
          logs' = [logs EXCEPT ![k].retries = n,
                     ![k].status = IF ok THEN "delivered" ELSE IF n < MAX_RETRIES THEN "failed" ELSE "permanently_failed",
                     ![k].next = IF ~ok /\ n < MAX_RETRIES THEN "waiting" ELSE NULL]
    BY <1>5 DEF RetryResult
  <2>4. work' = [work EXCEPT ![w] = s]
    BY <1>0, <1>5 DEF RetryResult, Work
  <2> HIDE DEF k, n
  <2> DEFINE st == IF ok THEN "delivered" ELSE IF n < MAX_RETRIES THEN "failed" ELSE "permanently_failed"
             nx == IF ~ok /\ n < MAX_RETRIES THEN "waiting" ELSE NULL
             row == [logs[k] EXCEPT !.retries = n, !.status = st, !.next = nx]
  <2>5. logs' = [logs EXCEPT ![k] = row]
    BY <1>0, <2>1, <2>2, <2>3 DEF Tables
  <2> HIDE DEF st, nx
  <2>6. row.retries = n /\ row.attempts = logs[k].attempts
    BY <2>2 DEF LogRow
  <2> HIDE DEF row
  <2>7. s \in Work /\ s.left = work[w].left /\ s.rows = work[w].rows /\ s.pc = "retry"
    BY <1>0 DEF Work
  <2> HIDE DEF s
  <2>8. work'[w] = s /\ \A j \in Keys : logs'[j] = IF j = k THEN row ELSE logs[j]
    BY <1>0, <2>4, <2>5 DEF Tables
  <2>9. \A j \in s.left : InPass(w, j)'
    BY <2>1, <2>7, <2>8 DEF InPass
  <2>10. ASSUME NEW j \in Keys, logs'[j] # NULL
         PROVE  /\ logs'[j].retries <= MAX_RETRIES
                /\ logs'[j].attempts <= 1 + logs'[j].retries + crashes
    <3>1. CASE j = k
      BY <1>0, <1>2, <2>1, <2>2, <2>6, <2>8, <3>1
    <3>2. CASE j # k
      BY <1>2, <2>1, <2>8, <2>10, <3>2 DEF k
    <3> QED
      BY <3>1, <3>2
  <2> QED
    BY <1>1, <2>4, <2>7, <2>9, <2>10, PassGoesOn
<1>6. CASE expire_old_snoozes(w)
  <2>1. work' = [work EXCEPT ![w] = Asleep] /\ logs' = logs /\ work[w].pc # "result"
    BY <1>6 DEF expire_old_snoozes
  <2> QED
    BY <1>0, <1>1, <2>1, PassEnds
<1> QED
  BY <1>3, <1>4, <1>5, <1>6 DEF WorkerStep

LEMMA RetryNext == ASSUME OneWorker, RetryInv, [Next]_vars PROVE RetryInv'
<1>0. DispatchInv /\ Types /\ Loaded /\ Trials /\ DispatchInv' /\ Types' /\ logs \in Tables /\ logs' \in Tables
      /\ crashes \in Nat /\ (disp.pc # "idle" => Good(disp, logs, inbox))
  BY DispatchNext DEF RetryInv, DispatchInv, Types
<1>1. ASSUME work' = work, crashes' = crashes, SameCounts(logs, logs') PROVE RetryInv'
  BY <1>0, <1>1, OthersKeep DEF RetryInv
<1>2. ASSUME logs' = logs PROVE SameCounts(logs, logs')
  BY <1>2 DEF SameCounts
<1>3. ASSUME NEW e \in Events, dispatch_routed(e) PROVE RetryInv'
  BY <1>1, <1>2, <1>3 DEF dispatch_routed
<1>4. CASE DispatchStep
  <2>1. disp.pc # "idle" /\ work' = work /\ crashes' = crashes
    BY <1>4 DEF DispatchStep, org_send, open_user, user_send, finish, bounds
  <2>2. CASE org_send \/ user_send
    BY <1>0, <1>1, <2>1, <2>2, OrgSend, UserSend, GrowsCounts DEF Sent
  <2>3. CASE open_user
    BY <1>1, <1>2, <2>1, <2>3 DEF open_user
  <2>4. CASE finish
    BY <1>0, <1>1, <2>1, <2>4, Finish, GrowsCounts
  <2> QED
    BY <1>4, <2>2, <2>3, <2>4 DEF DispatchStep
<1>5. ASSUME NEW w \in Workers, WorkerStep(w) PROVE RetryInv'
  BY <1>0, <1>5, WorkerRetries DEF RetryInv
<1>6. CASE InboxStep
  BY <1>0, <1>1, <1>2, <1>6, InboxKept
<1>7. CASE QuietStep
  BY <1>0, <1>1, <1>2, <1>7, QuietKept
<1>8. CASE BackoffEnds
  <2>1. /\ work' = work /\ crashes' = crashes /\ SameRows(logs, logs')
        /\ \A k \in Keys : logs[k] # NULL => /\ logs'[k].retries = logs[k].retries
                                             /\ logs'[k].attempts = logs[k].attempts
    BY <1>0, <1>8, BackoffKept DEF bounds
  <2>2. SameCounts(logs, logs')
    BY <2>1 DEF SameCounts, SameRows
  <2> QED
    BY <1>1, <2>1, <2>2
<1>9. CASE Crash
  <2>1. /\ logs' = logs /\ crashes' = crashes + 1
        /\ work' = work \/ \E w \in Workers : work' = [work EXCEPT ![w] = Asleep]
    BY <1>0, <1>9, CrashKept
  <2>2. CASE work' = work
    <3>1. crashes' \in Nat /\ crashes' >= crashes
      BY <1>0, <2>1
    <3> QED
      BY <1>0, <1>2, <2>1, <2>2, <3>1, OthersKeep DEF RetryInv
  <2>3. ASSUME NEW w \in Workers, work' = [work EXCEPT ![w] = Asleep] PROVE RetryInv'
    <3>1. crashes' \in Nat
      BY <1>0, <2>1
    <3> QED
      BY <1>0, <2>1, <2>3, <3>1, PassEnds DEF RetryInv
  <2> QED
    BY <2>1, <2>2, <2>3
<1>10. CASE UNCHANGED vars
  BY <1>1, <1>2, <1>10 DEF vars, bounds
<1> QED
  BY <1>3, <1>4, <1>5, <1>6, <1>7, <1>8, <1>9, <1>10, Steps

\* Where runs of the worker do not overlap, a delivery is tried 1 + MAX_RETRIES times and
\* once more for every process that died, whatever the providers answer and however
\* often cron starts the worker (execute_retry commits the count after the send).
THEOREM AttemptsAreBounded == OneWorker /\ Spec => []AttemptBound
<1> SUFFICES ASSUME OneWorker PROVE Spec => []AttemptBound
  OBVIOUS
<1>1. Init => RetryInv
  <2>1. ASSUME Init PROVE Loaded /\ Trials
    <3>1. work = [w \in Workers |-> Asleep] /\ \A k \in Keys : logs[k] = NULL
      BY <2>1 DEF Init
    <3>2. \A w \in Workers : work[w].pc = "idle"
      BY <3>1, AsleepIs
    <3> QED
      BY <3>1, <3>2 DEF Loaded, Trials
  <2> QED
    BY <2>1, DispatchInit DEF RetryInv
<1>2. RetryInv /\ [Next]_vars => RetryInv'
  BY RetryNext
<1>3. RetryInv => AttemptBound
  <2>1. ASSUME RetryInv, NEW k \in Keys, logs[k] # NULL PROVE logs[k].attempts <= 1 + MAX_RETRIES + crashes
    <3>1. logs \in Tables /\ crashes \in Nat /\ MAX_RETRIES \in Nat
      BY <2>1, NotificationsAssumption DEF RetryInv, DispatchInv, Types
    <3>2. logs[k].attempts \in Nat /\ logs[k].retries \in Nat /\ logs[k] \in LogRow
      BY <2>1, <3>1, RowIsRow
    <3>3. logs[k].retries <= MAX_RETRIES /\ (Trying(k) => logs[k].retries < MAX_RETRIES)
      BY <2>1 DEF RetryInv, Trials, Trying, Loaded, InPass
    <3>4. logs[k].attempts <= 1 + logs[k].retries + crashes + (IF Trying(k) THEN 1 ELSE 0)
      BY <2>1 DEF RetryInv, Trials
    <3>5. CASE Trying(k)
      BY <3>1, <3>2, <3>3, <3>4, <3>5
    <3>6. CASE ~Trying(k)
      BY <3>1, <3>2, <3>3, <3>4, <3>6
    <3> QED
      BY <3>5, <3>6
  <2> QED
    BY <2>1 DEF AttemptBound
<1> QED
  BY <1>1, <1>2, <1>3, PTL DEF Spec
================================================================================
