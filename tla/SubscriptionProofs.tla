------------------------- MODULE SubscriptionProofs -------------------------
(***************************************************************************)
(* What a subscription costs and to whom it belongs: the pool the numbers  *)
(* come from (NumberPool) and the cycles that are charged (Billing), for   *)
(* every set of numbers, workspaces, handlers and runs and any number of   *)
(* crashes.                                                                *)
(*                                                                         *)
(* The endpoints of the pool take no lock; the argument is that an UPDATE  *)
(* ... WHERE status = 'available' is enough of one.  While a number has no *)
(* subscription row, its claimant is the only handler that can touch it;   *)
(* once it has a row the row stays, so a later claimant is turned away,    *)
(* and it can only have come because a grace period of the number had      *)
(* ended.  What breaks this is a catch block of the purchase that frees a  *)
(* row it no longer has a claim to; such numbers are loose, and nothing    *)
(* but the record of who paid is promised of them.                         *)
(*                                                                         *)
(* A billing run decides on a due list that other runs make stale.  The    *)
(* argument is that a stale entry is behind by exactly the one cycle that  *)
(* was paid this very day, whose reference then keeps money and anchor     *)
(* where they are; it needs every run to end on the day it began.          *)
(***************************************************************************)
EXTENDS NumberPool, Billing, TLAPS


Claiming == {"checking", "paying", "subscribing", "trying", "failing"}
Serving == {"simulating", "releasing", "reclaiming", "freeing", "marking", "billing"}
Claims(h, n) == handler[h].pc \in Claiming /\ handler[h].number = n

\* A handler at work has a number, and a buyer is a workspace.
JobInv ==
  \A h \in Handlers :
    /\ handler[h].pc # "idle" => handler[h].number \in Numbers
    /\ handler[h].pc \in Claiming \cup {"simulating"} => handler[h].tenant \in Tenants

\* A number without a row belongs to its one claimant; a number with a row was
\* claimed after its grace period, or is the claimant's own, whose sandbox
\* purchase failed late; unless a catch block freed it for nothing.
ClaimInv ==
  \A h \in Handlers, n \in Numbers :
    Claims(h, n) /\ n \notin loose =>
      IF status[n] = "none"
      THEN /\ owner[n] = handler[h].tenant
           /\ \A g \in Handlers : Claims(g, n) => g = h
      ELSE \/ handler[h].pc = "checking" /\ n \in expired
           \/ handler[h].pc = "failing"

\* The money is taken before the row is written, but for sandbox.
PaidInv ==
  \A h \in Handlers :
    At(h, "subscribing") => <<handler[h].tenant, handler[h].number>> \in paid

\* Whoever read a row finds it there later; the sweeps touch expired numbers.
RowInv ==
  \A h \in Handlers :
    LET n == handler[h].number IN
    /\ handler[h].pc \in Serving => status[n] # "none"
    /\ handler[h].pc \in {"freeing", "marking"} => n \in expired

\* What expired remembers.
ExpiryInv ==
  \A n \in Numbers :
    grace[n] = "over" \/ status[n] = "released" => n \in expired

PoolInv ==
  /\ PoolOK /\ HeldWasPaid
  /\ JobInv /\ ClaimInv /\ PaidInv /\ RowInv /\ ExpiryInv

LEMMA InitPool == Init => PoolInv
BY NumberPoolAssumption
DEF Init, Idle, Job, PoolInv, PoolOK, TypeOK, RentedIsOutOfPool, HeldWasPaid,
    JobInv, ClaimInv, PaidInv, RowInv, ExpiryInv, Claims, Claiming, Serving, At,
    Statuses, Rented

-----------------------------------------------------------------------------
\* The buyer: claim, check, pay, subscribe.
LEMMA ClaimNumberInv ==
  ASSUME PoolInv, NEW h \in Handlers, NEW n \in Numbers, NEW t \in Tenants,
         ClaimNumber(h, n, t)
  PROVE  PoolInv'
<1> USE DEF ClaimNumber, Starts, Job, subVars, historyVars, PoolInv, PoolOK, TypeOK
<1>1. TypeOK'
  OBVIOUS
<1>2. t # None /\ owner[n] = None
  BY NumberPoolAssumption
<1>3. status[n] \in Rented => n \in expired \cup loose
  <2>1. ASSUME status[n] # "none" PROVE tenant[n] \in Tenants
    <3>1. <<tenant[n], n>> \in Tenants \X Numbers
      BY <2>1 DEF HeldWasPaid
    <3>2. QED BY <3>1
  <2>2. QED BY <1>2, <2>1, NumberPoolAssumption DEF RentedIsOutOfPool, Rented
<1>4. RentedIsOutOfPool'
  BY <1>3 DEF RentedIsOutOfPool
<1>5. JobInv' /\ HeldWasPaid' /\ ExpiryInv'
  BY DEF JobInv, HeldWasPaid, ExpiryInv
<1>6. ClaimInv'
  <2>1. status[n] = "none" \/ n \in expired \cup loose
    BY <1>3 DEF Rented, Statuses, ExpiryInv
  <2>2. ASSUME NEW g \in Handlers, Claims(g, n), status[n] = "none", n \notin loose
        PROVE  FALSE
    BY <1>2, <2>2, NumberPoolAssumption
    DEF ClaimInv, JobInv, Claims
  <2>3. QED BY <1>2, <2>1, <2>2 DEF ClaimInv, Claims, Claiming
<1>7. PaidInv' /\ RowInv'
  BY DEF PaidInv, RowInv, At, Serving
<1>8. QED BY <1>1, <1>4, <1>5, <1>6, <1>7

LEMMA CheckSubscriptionInv ==
  ASSUME PoolInv, NEW h \in Handlers, NEW isSandbox \in BOOLEAN,
         CheckSubscription(h, isSandbox)
  PROVE  PoolInv'
<1> USE DEF CheckSubscription, RollBack, Goes, Ends, At, Idle, Job, subVars,
            historyVars, PoolInv, PoolOK, TypeOK
<1> DEFINE n == handler[h].number
<1>1. TypeOK'
  OBVIOUS
<1>2. n \in Numbers /\ Claims(h, n) /\ handler[h].tenant \in Tenants
  BY DEF JobInv, Claims, Claiming
<1>3. status[n] # "none" => n \in expired \cup loose
  BY <1>2 DEF ClaimInv
<1>4. RentedIsOutOfPool'
  BY <1>2, <1>3 DEF RentedIsOutOfPool
<1>5. JobInv' /\ HeldWasPaid' /\ ExpiryInv'
  BY <1>2 DEF JobInv, Claiming, HeldWasPaid, ExpiryInv
<1>6. ClaimInv'
  BY <1>2 DEF ClaimInv, Claims, Claiming
<1>7. PaidInv' /\ RowInv'
  BY DEF PaidInv, RowInv, Serving
<1>8. QED BY <1>1, <1>4, <1>5, <1>6, <1>7

LEMMA PayInv ==
  ASSUME PoolInv, NEW h \in Handlers, NEW outcome, Pay(h, outcome)
  PROVE  PoolInv'
<1> USE DEF Pay, RollBack, Goes, Ends, At, Idle, Job, subVars,
            historyVars, PoolInv, PoolOK, TypeOK
<1> DEFINE n == handler[h].number
<1>1. n \in Numbers /\ Claims(h, n) /\ handler[h].tenant \in Tenants
  BY DEF JobInv, Claims, Claiming
<1>2. TypeOK'
  BY <1>1
<1>3. status[n] = "none" \/ n \in loose
  BY <1>1 DEF ClaimInv
<1>4. RentedIsOutOfPool'
  BY <1>1, <1>3 DEF RentedIsOutOfPool, Rented
<1>5. JobInv' /\ HeldWasPaid' /\ ExpiryInv'
  BY <1>1 DEF JobInv, Claiming, HeldWasPaid, ExpiryInv
<1>6. ClaimInv'
  BY <1>1, <1>3 DEF ClaimInv, Claims, Claiming
<1>7. PaidInv' /\ RowInv'
  BY DEF PaidInv, RowInv, Serving
<1>8. QED BY <1>2, <1>4, <1>5, <1>6, <1>7

LEMMA SubscribeInv ==
  ASSUME PoolInv, NEW h \in Handlers, NEW succeeds \in BOOLEAN,
         Subscribe(h, succeeds)
  PROVE  PoolInv'
<1> USE DEF Subscribe, Goes, Ends, At, Idle, Job, subVars, historyVars, PoolInv,
            PoolOK, TypeOK
<1> DEFINE n == handler[h].number
<1>1. n \in Numbers /\ Claims(h, n) /\ handler[h].tenant \in Tenants
  BY DEF JobInv, Claims, Claiming
<1>2. TypeOK'
  BY <1>1 DEF Statuses, Rented
<1>3. n \notin loose =>
        /\ status[n] = "none" /\ owner[n] = handler[h].tenant
        /\ \A g \in Handlers : Claims(g, n) => g = h
  BY <1>1 DEF ClaimInv
<1>4. RentedIsOutOfPool'
  BY <1>1, <1>3 DEF RentedIsOutOfPool, Rented
<1>5. HeldWasPaid'
  BY <1>1 DEF HeldWasPaid, PaidInv
<1>6. JobInv' /\ ExpiryInv'
  BY <1>1 DEF JobInv, Claiming, ExpiryInv
<1>7. ClaimInv'
  BY <1>1, <1>3 DEF ClaimInv, Claims, Claiming
<1>8. PaidInv'
  BY DEF PaidInv
<1>9. RowInv'
  BY <1>1 DEF RowInv, JobInv, Serving
<1>10. QED BY <1>2, <1>4, <1>5, <1>6, <1>7, <1>8, <1>9

LEMMA SimulateInv ==
  ASSUME PoolInv, NEW h \in Handlers, NEW succeeds \in BOOLEAN,
         Simulate(h, succeeds)
  PROVE  PoolInv'
<1> USE DEF Simulate, Goes, Ends, At, Idle, Job, subVars, historyVars, PoolInv,
            PoolOK, TypeOK
<1> DEFINE n == handler[h].number
<1>1. n \in Numbers /\ status[n] # "none" /\ handler[h].tenant \in Tenants
  BY DEF JobInv, RowInv, Serving
<1>2. TypeOK'
  BY <1>1
<1>3. RentedIsOutOfPool' /\ HeldWasPaid' /\ ExpiryInv'
  BY DEF RentedIsOutOfPool, HeldWasPaid, ExpiryInv
<1>4. JobInv' /\ PaidInv' /\ RowInv'
  BY <1>1 DEF JobInv, PaidInv, RowInv, Claiming, Serving
<1>5. ClaimInv'
  BY <1>1 DEF ClaimInv, Claims, Claiming
<1>6. QED BY <1>2, <1>3, <1>4, <1>5

\* The catch block frees the claim, or makes the number loose.
LEMMA CatchInv ==
  ASSUME PoolInv, NEW h \in Handlers, CatchPurchase(h) PROVE PoolInv'
<1> USE DEF CatchPurchase, RollBack, Ends, At, Idle, Job, subVars, historyVars,
            PoolInv, PoolOK, TypeOK
<1> DEFINE n == handler[h].number
<1>1. n \in Numbers
  BY DEF JobInv
<1>2. TypeOK' /\ loose \subseteq loose'
  BY <1>1
<1>3. \/ n \in loose' \/ owner[n] = None
      \/ Claims(h, n) /\ status[n] = "none"
  BY <1>1 DEF Claims, Claiming
<1>4. RentedIsOutOfPool'
  BY <1>1, <1>2, <1>3 DEF RentedIsOutOfPool, Rented
<1>5. JobInv' /\ HeldWasPaid' /\ ExpiryInv'
  BY DEF JobInv, Claiming, HeldWasPaid, ExpiryInv
<1>6. ClaimInv'
  BY <1>1, <1>2, <1>3 DEF ClaimInv, Claims, Claiming
<1>7. PaidInv' /\ RowInv'
  BY DEF PaidInv, RowInv, Serving
<1>8. QED BY <1>2, <1>4, <1>5, <1>6, <1>7

-----------------------------------------------------------------------------
\* A handler that reads a row leaves everything else alone.
LEMMA ReadRowInv ==
  ASSUME PoolInv, NEW h \in Handlers, NEW n \in Numbers,
         \/ ReadForRelease(h, n) \/ ReadForReclaim(h, n)
         \/ ListExpired(h, n) \/ ListDue(h, n)
  PROVE  PoolInv'
<1> USE DEF Starts, Job, subVars, historyVars, PoolInv, PoolOK, TypeOK
<1> DEFINE Reads(pc) == Starts(h, pc, n, tenant[n])
<1>1. /\ status[n] # "none"
      /\ \/ Reads("releasing") \/ Reads("reclaiming") \/ Reads("billing")
         \/ Reads("freeing") /\ n \in expired
      /\ UNCHANGED <<owner, status, tenant, cancelled, grace, closed,
                     historyVars, crashes>>
  BY DEF ReadForRelease, ReadForReclaim, ListExpired, ListDue, ExpiryInv
<1>2. TypeOK'
  BY <1>1
<1>3. RentedIsOutOfPool' /\ HeldWasPaid' /\ ExpiryInv'
  BY <1>1 DEF RentedIsOutOfPool, HeldWasPaid, ExpiryInv
<1>4. JobInv' /\ PaidInv' /\ RowInv'
  BY <1>1 DEF JobInv, PaidInv, RowInv, Claiming, At
<1>5. ClaimInv'
  BY <1>1 DEF ClaimInv, Claims, Claiming
<1>6. QED BY <1>2, <1>3, <1>4, <1>5

\* Release, reclaim and billing change the row, which is there and stays.
LEMMA WriteRowInv ==
  ASSUME PoolInv, NEW h \in Handlers,
         \/ Release(h) \/ Reclaim(h) \/ MarkReleased(h)
         \/ \E affordable \in BOOLEAN : Bill(h, affordable)
  PROVE  PoolInv'
<1> USE DEF Ends, At, Idle, Job, subVars, historyVars, PoolInv, PoolOK, TypeOK
<1> DEFINE n == handler[h].number
<1>1. /\ n \in Numbers /\ status[n] # "none"
      /\ At(h, "marking") => n \in expired
  BY DEF Release, Reclaim, MarkReleased, Bill, JobInv, RowInv, Serving
<1>2. /\ status' \in [Numbers -> Statuses]
      /\ cancelled' \in [Numbers -> BOOLEAN]
      /\ grace' \in [Numbers -> {"none", "running", "over"}]
      /\ handler' = [handler EXCEPT ![h] = Idle]
      /\ UNCHANGED <<owner, tenant, closed, historyVars, crashes>>
      /\ \A m \in Numbers :
           /\ m # n => status'[m] = status[m]
           /\ m = n => /\ status'[m] # "none"
                       /\ status'[m] = "released" => m \in expired
           /\ grace'[m] = "over" => grace[m] = "over"
  <2>1. CASE Release(h)
    BY <1>1, <2>1 DEF Release, Statuses, Rented
  <2>2. CASE Reclaim(h)
    BY <1>1, <2>2 DEF Reclaim, Statuses, Rented
  <2>3. CASE MarkReleased(h)
    BY <1>1, <2>3 DEF MarkReleased, Statuses
  <2>4. ASSUME NEW affordable \in BOOLEAN, Bill(h, affordable) PROVE <1>2!:
    BY <1>1, <2>4 DEF Bill, Statuses, Rented, ExpiryInv
  <2>5. QED BY <2>1, <2>2, <2>3, <2>4
<1>3. TypeOK'
  BY <1>2
<1>4. RentedIsOutOfPool' /\ HeldWasPaid'
  BY <1>1, <1>2 DEF RentedIsOutOfPool, HeldWasPaid, ExpiryInv, Statuses
<1>5. ExpiryInv'
  BY <1>1, <1>2 DEF ExpiryInv
<1>6. JobInv' /\ PaidInv'
  BY <1>2 DEF JobInv, PaidInv, Claiming
<1>7. RowInv'
  BY <1>1, <1>2 DEF RowInv, JobInv, Serving
<1>8. ClaimInv'
  BY <1>1, <1>2 DEF ClaimInv, Claims, Claiming
<1>9. QED BY <1>3, <1>4, <1>5, <1>6, <1>7, <1>8

\* The grace sweep frees only numbers whose grace period has ended.
LEMMA FreeInv ==
  ASSUME PoolInv, NEW h \in Handlers, Free(h) PROVE PoolInv'
<1> USE DEF Free, RollBack, Goes, At, Job, subVars, historyVars, PoolInv, PoolOK,
            TypeOK
<1> DEFINE n == handler[h].number
<1>1. n \in Numbers /\ status[n] # "none" /\ n \in expired
  BY DEF JobInv, RowInv, Serving
<1>2. TypeOK'
  OBVIOUS
<1>3. RentedIsOutOfPool' /\ HeldWasPaid' /\ ExpiryInv'
  BY <1>1 DEF RentedIsOutOfPool, HeldWasPaid, ExpiryInv
<1>4. JobInv' /\ PaidInv' /\ RowInv'
  BY <1>1 DEF JobInv, PaidInv, RowInv, Claiming
<1>5. ClaimInv'
  BY <1>1 DEF ClaimInv, Claims, Claiming
<1>6. QED BY <1>2, <1>3, <1>4, <1>5

\* The clock, and workspaces that close.
LEMMA ClockInv ==
  ASSUME PoolInv,
         \/ \E n \in Numbers : GraceEnds(n)
         \/ \E t \in Tenants : CloseWorkspace(t) \/ SweepClosed(t)
  PROVE  PoolInv'
<1> USE DEF subVars, historyVars, PoolInv, PoolOK, TypeOK
<1>1. /\ closed' \subseteq Tenants
      /\ grace' \in [Numbers -> {"none", "running", "over"}]
      /\ cancelled' \in [Numbers -> BOOLEAN]
      /\ expired \subseteq expired' /\ expired' \subseteq Numbers
      /\ \A n \in Numbers : grace'[n] = "over" => grace[n] = "over" \/ n \in expired'
      /\ UNCHANGED <<owner, status, tenant, handler, paid, simulated, loose,
                     crashes>>
  <2>1. ASSUME NEW n \in Numbers, GraceEnds(n) PROVE <1>1!:
    BY <2>1 DEF GraceEnds
  <2>2. ASSUME NEW t \in Tenants, CloseWorkspace(t) PROVE <1>1!:
    BY <2>2 DEF CloseWorkspace
  <2>3. ASSUME NEW t \in Tenants, SweepClosed(t) PROVE <1>1!:
    BY <2>3 DEF SweepClosed
  <2>4. QED BY <2>1, <2>2, <2>3
<1>2. TypeOK' /\ RentedIsOutOfPool' /\ HeldWasPaid' /\ ExpiryInv'
  BY <1>1 DEF RentedIsOutOfPool, HeldWasPaid, ExpiryInv
<1>3. JobInv' /\ PaidInv' /\ RowInv' /\ ClaimInv'
  BY <1>1 DEF JobInv, PaidInv, RowInv, ClaimInv, Claims, At
<1>4. QED BY <1>2, <1>3

\* A handler that dies leaves its claim behind, and nobody else has one.
LEMMA CrashInv ==
  ASSUME PoolInv, NEW h \in Handlers, Crash(h) PROVE PoolInv'
<1> USE DEF Crash, Ends, Idle, Job, At, subVars, historyVars, PoolInv, PoolOK,
            TypeOK
<1>1. TypeOK'
  BY NumberPoolAssumption
<1>2. RentedIsOutOfPool' /\ HeldWasPaid' /\ ExpiryInv'
  BY DEF RentedIsOutOfPool, HeldWasPaid, ExpiryInv
<1>3. JobInv' /\ PaidInv' /\ RowInv'
  BY DEF JobInv, PaidInv, RowInv, Claiming, Serving
<1>4. ClaimInv'
  BY DEF ClaimInv, Claims, Claiming
<1>5. QED BY <1>1, <1>2, <1>3, <1>4

-----------------------------------------------------------------------------
LEMMA NextPool == PoolInv /\ [Next]_vars => PoolInv'
<1> SUFFICES ASSUME PoolInv, [Next]_vars PROVE PoolInv'
  OBVIOUS
<1>1. ASSUME NEW h \in Handlers, NEW n \in Numbers,
             \/ \E t \in Tenants : ClaimNumber(h, n, t)
             \/ ReadForRelease(h, n) \/ ReadForReclaim(h, n)
             \/ ListExpired(h, n) \/ ListDue(h, n)
      PROVE  PoolInv'
  BY <1>1, ClaimNumberInv, ReadRowInv
<1>2. ASSUME NEW h \in Handlers, Works(h) PROVE PoolInv'
  BY <1>2, CheckSubscriptionInv, PayInv, SubscribeInv, SimulateInv, CatchInv,
     WriteRowInv, FreeInv
  DEF Works
<1>3. ASSUME NEW h \in Handlers, Crash(h) PROVE PoolInv'
  BY <1>3, CrashInv
<1>4. CASE \/ \E n \in Numbers : GraceEnds(n)
           \/ \E t \in Tenants : CloseWorkspace(t) \/ SweepClosed(t)
  BY <1>4, ClockInv
<1>5. CASE UNCHANGED vars
  BY <1>5
  DEF vars, subVars, historyVars, PoolInv, PoolOK, TypeOK, RentedIsOutOfPool,
      HeldWasPaid, JobInv, ClaimInv, PaidInv, RowInv, ExpiryInv, Claims, At
<1>6. QED BY <1>1, <1>2, <1>3, <1>4, <1>5 DEF Next

(* Until its grace period has ended once, a rented number, bought live or in
   sandbox, is out of the pool and assigned to its subscriber, whatever
   requests, sweeps, billing runs and crashes overlap, unless a catch block of
   the purchase freed it without a claim (numbers/purchase.post.ts,
   cron/numbers-grace.post.ts). *)
THEOREM PoolIsAlwaysOK == Spec => []PoolOK
<1>1. PoolInv => PoolOK
  BY DEF PoolInv
<1>2. QED BY InitPool, NextPool, <1>1, PTL DEF Spec

(* From the debit to the insert the number is claimed for the payer and has no
   other subscriber: nobody pays for a number that they cannot get, unless a
   refusal freed it twice (numbers/purchase.post.ts). *)
THEOREM PayerAlwaysGetsTheNumber == Spec => []PayerGetsTheNumber
<1>1. PoolInv => PayerGetsTheNumber
  <2>1. ASSUME PoolInv, NEW h \in Handlers, At(h, "subscribing"),
               handler[h].number \notin loose
        PROVE  LET n == handler[h].number IN
               status[n] = "none" /\ owner[n] = handler[h].tenant
    <3>1. handler[h].number \in Numbers /\ Claims(h, handler[h].number)
      BY <2>1 DEF PoolInv, JobInv, At, Claims, Claiming
    <3>2. QED BY <2>1, <3>1 DEF PoolInv, ClaimInv, At
  <2>2. QED BY <2>1 DEF PayerGetsTheNumber
<1>2. QED BY InitPool, NextPool, <1>1, PTL DEF Spec

(* Whoever holds a number was debited for that number or took it in sandbox
   mode (numbers/purchase.post.ts, numbers/reclaim.post.ts). *)
THEOREM HeldWasAlwaysPaid == Spec => []HeldWasPaid
<1>1. PoolInv => HeldWasPaid
  BY DEF PoolInv
<1>2. QED BY InitPool, NextPool, <1>1, PTL DEF Spec

(* A number that was ever subscribed stays with that subscriber, in the pool
   or out of it: released and freed, it is offered for sale and every other
   buyer is turned away (numbers/purchase.post.ts:88). *)
THEOREM NumberIsNeverResold ==
  Spec => [][\A n \in Numbers :
               status[n] # "none" =>
                 status'[n] # "none" /\ tenant'[n] = tenant[n]]_vars
<1>1. ASSUME PoolInv, [Next]_vars
      PROVE  [\A n \in Numbers :
                status[n] # "none" =>
                  status'[n] # "none" /\ tenant'[n] = tenant[n]]_vars
  <2> USE DEF vars, subVars
  <2>1. CASE Next
    <3>1. TypeOK
      BY <1>1 DEF PoolInv, PoolOK
    <3>2. CASE \E h \in Handlers, succeeds \in BOOLEAN : Subscribe(h, succeeds)
      BY <3>1, <3>2 DEF TypeOK, Subscribe
    <3>3. CASE \E h \in Handlers :
                 \/ Release(h) \/ Reclaim(h) \/ MarkReleased(h)
                 \/ \E affordable \in BOOLEAN : Bill(h, affordable)
      BY <3>1, <3>3 DEF TypeOK, Release, Reclaim, MarkReleased, Bill
    <3>4. CASE UNCHANGED <<status, tenant>>
      BY <3>4
    <3>5. QED BY <2>1, <3>2, <3>3, <3>4
              DEF Next, Works, ClaimNumber, CheckSubscription, Pay, Simulate,
                  CatchPurchase, Free, Crash,
                  ReadForRelease, ReadForReclaim, ListExpired, ListDue,
                  GraceEnds, CloseWorkspace, SweepClosed
  <2>2. QED BY <1>1, <2>1
<1>2. QED BY <1>1, InitPool, NextPool, PTL DEF Spec

-----------------------------------------------------------------------------
(* Cycles: Billing. *)
\* A run under way began today: none of them spans midnight.
TodayInv ==
  \A j \in Jobs :
    IF job[j].pc = "idle" THEN job[j] = IdleRun ELSE job[j].now = today

\* No reference is of a day to come.
DatesInv == \A i \in Items, d \in Days : <<i, d>> \in refs => d <= today

Paid(n) == <<n, today>> \in refs

\* What a run knows of a number is as it listed it, or was paid since: then it
\* is one cycle behind.
Knows(run) ==
  /\ \A e \in run.due :
       e.item \in Subscriptions =>
         e.fee # 0 /\ (Paid(e.item) \/ e.cycle = anchor[e.item])
  /\ run.pc = "advancing" => run.item = Plan
  /\ run.pc = "suspending" => run.item \in Subscriptions
  /\ run.pc = "charging" /\ run.item \in Subscriptions =>
       anchor[run.item] =
         IF Paid(run.item) THEN run.cycle + Period ELSE run.cycle
EntryInv == \A j \in Jobs : Knows(job[j])

\* Money moves with the moves that bring it.
MoneyInv == balance <= 3 * moves

\* A cycle of a number.
IsCycle(c) == FirstAnchor <= c /\ (c - FirstAnchor) % Period = 0

\* The cycles before the anchor have been charged, once each, and no others.
CycleInv ==
  \A n \in Subscriptions :
    /\ IsCycle(anchor[n])
    /\ \A c \in Days : billed[n][c] = IF IsCycle(c) /\ c < anchor[n] THEN 1 ELSE 0

BillingInv ==
  /\ BillingTypeOK /\ MoneyInv
  /\ TodayInv /\ DatesInv /\ EntryInv /\ CycleInv

\* A number is its quotient times the divisor, and a remainder.
LEMMA Division ==
  ASSUME NEW P \in Nat \ {0}, NEW a \in Nat
  PROVE  /\ a \div P \in Nat /\ a % P \in Nat /\ a % P < P
         /\ a = P * (a \div P) + (a % P)
  OBVIOUS

\* Larger quotients are apart by a whole divisor.
LEMMA Multiples ==
  ASSUME NEW P \in Nat \ {0}, NEW p \in Nat, NEW q \in Nat
  PROVE  /\ p < q => P * p + P <= P * q
         /\ P * (p + 1) = P * p + P
  OBVIOUS

\* A cycle before the next is the one at hand.
LEMMA NextMultiple ==
  ASSUME NEW P \in Nat \ {0}, NEW a \in Nat, NEW b \in Nat,
         a % P = 0, b % P = 0, a <= b, b < a + P
  PROVE  a = b
<1> DEFINE p == a \div P  q == b \div P
<1>1. p \in Nat /\ q \in Nat /\ a = P * p /\ b = P * q
  BY Division
<1>2. P * p \in Nat /\ P * q \in Nat
  BY <1>1
<1> HIDE DEF p, q
<1>3. ~(p < q) /\ ~(q < p)
  BY <1>1, <1>2, Multiples
<1>4. QED BY <1>1, <1>3

\* One cycle later is a cycle again.
LEMMA MultipleAgain ==
  ASSUME NEW P \in Nat \ {0}, NEW a \in Nat, a % P = 0
  PROVE  (a + P) % P = 0
<1> DEFINE p == a \div P  q == (a + P) \div P  r == (a + P) % P
<1>1. p \in Nat /\ q \in Nat /\ r \in Nat /\ r < P /\ a = P * p
  BY Division
<1>2. P * p + P = P * q + r
  <2>1. a + P = P * q + r
    BY Division
  <2>2. QED BY <1>1, <2>1
<1>3. P * p \in Nat /\ P * q \in Nat
  BY <1>1
<1> HIDE DEF p, q, r
<1>4. ~(q < p + 1) /\ ~(p + 1 < q)
  <2>1. q < p + 1 => P * q + P <= P * p + P
    BY <1>1, Multiples
  <2>2. p + 1 < q => P * (p + 1) + P <= P * q
    BY <1>1, Multiples
  <2>3. QED BY <1>1, <1>2, <1>3, <2>1, <2>2, Multiples
<1>5. P * q = P * p + P
  BY <1>1, <1>4, Multiples
<1>6. r = 0
  BY <1>1, <1>2, <1>3, <1>5
<1>7. QED BY <1>6 DEF r

LEMMA CycleAgain == ASSUME NEW c \in Nat, IsCycle(c) PROVE IsCycle(c + Period)
<1>1. Period \in Nat \ {0}
  BY BillingAssumption
<1>2. PICK a \in Nat : c = a + 1 /\ a % Period = 0
  BY DEF IsCycle, FirstAnchor
<1>3. (a + Period) % Period = 0
  BY <1>1, <1>2, MultipleAgain
<1>4. 1 <= c + Period /\ (c + Period) - 1 = a + Period
  BY <1>1, <1>2
<1>5. QED BY <1>3, <1>4 DEF IsCycle, FirstAnchor

LEMMA NoCycleBetween ==
  ASSUME NEW c \in Nat, NEW d \in Nat, IsCycle(c), IsCycle(d), c <= d, d < c + Period
  PROVE  d = c
<1>1. Period \in Nat \ {0}
  BY BillingAssumption
<1>2. PICK a \in Nat : c = a + 1 /\ a % Period = 0
  BY DEF IsCycle, FirstAnchor
<1>3. PICK b \in Nat : d = b + 1 /\ b % Period = 0
  BY DEF IsCycle, FirstAnchor
<1>4. a <= b /\ b < a + Period
  BY <1>1, <1>2, <1>3
<1>5. QED BY <1>1, <1>2, <1>3, <1>4, NextMultiple

-----------------------------------------------------------------------------
\* The types, in the parts that an action changes together.
CountsTyped == /\ today \in Nat /\ today <= MaxDays
               /\ moves \in Nat /\ moves <= MaxMoves /\ deaths \in 0 .. MaxDeaths
FundsTyped == balance \in Int /\ -Limit <= balance /\ balance <= 3 * MaxMoves
TermsTyped ==
  /\ terms \in [postpaid : BOOLEAN, limit : {0, Limit}, suspended : {FALSE}]
  /\ planFee \in PlanFees
StandingTyped == standing \in [Subscriptions -> {"active", "suspended"}]
AnchorsTyped == anchor \in [Items -> Nat]
BooksTyped == refs \subseteq Items \X Days /\ billed \in [Items -> [Days -> Nat]]
RunsTyped == job \in [Jobs -> RunStates]

AllTyped == /\ CountsTyped /\ FundsTyped /\ TermsTyped /\ StandingTyped
            /\ AnchorsTyped /\ BooksTyped /\ RunsTyped

LEMMA Bounds ==
  /\ Limit \in Nat /\ MaxMoves \in Nat /\ MaxDeaths \in Nat /\ MaxDays \in Nat \ {0}
  /\ Period \in Nat \ {0} /\ NumberFee \in Nat \ {0} /\ PlanFees \subseteq Nat
  /\ Plan \notin Subscriptions
  BY BillingAssumption

LEMMA Types == BillingTypeOK <=> AllTyped
<1>1. today \in Days <=> today \in Nat /\ today <= MaxDays
  BY Bounds DEF Days
<1>2. moves \in 0 .. MaxMoves <=> moves \in Nat /\ moves <= MaxMoves
  BY Bounds
<1>3. balance \in -Limit .. 3 * MaxMoves <=> FundsTyped
  BY Bounds DEF FundsTyped
<1>4. QED BY <1>1, <1>2, <1>3
          DEF BillingTypeOK, CountsTyped, TermsTyped, StandingTyped, AnchorsTyped,
              BooksTyped, RunsTyped, AllTyped

LEMMA TypesNext == BillingTypeOK' <=> AllTyped'
  BY Types, PTL

\* A run goes on to a state of a run; nothing else has a type that moves.
LEMMA RunGoesOn ==
  ASSUME BillingTypeOK, NEW j \in Jobs, NEW r \in RunStates, job' = [job EXCEPT ![j] = r],
         UNCHANGED <<today, balance, terms, planFee, standing, anchor, refs, billed, moves, deaths>>
  PROVE  BillingTypeOK'
<1>1. AllTyped
  BY Types
<1>2. RunsTyped'
  BY <1>1 DEF AllTyped, RunsTyped
<1>3. AllTyped'
  BY <1>1, <1>2 DEF AllTyped, CountsTyped, FundsTyped, TermsTyped, StandingTyped,
                    AnchorsTyped, BooksTyped
<1>4. QED BY <1>3, TypesNext

LEMMA InitBilling == BillingInit => BillingInv
<1> SUFFICES ASSUME BillingInit PROVE BillingInv
  OBVIOUS
<1> USE BillingAssumption DEF BillingInit, Items, Days
<1>1. IdleRun \in RunStates
  BY DEF IdleRun, RunStates
<1>2. BillingTypeOK
  BY <1>1 DEF BillingTypeOK, FirstAnchor
<1>3. MoneyInv /\ TodayInv /\ DatesInv /\ EntryInv
  BY DEF MoneyInv, TodayInv, DatesInv, EntryInv, Knows, IdleRun
<1>4. CycleInv
  BY DEF CycleInv, IsCycle, FirstAnchor
<1>5. QED BY <1>2, <1>3, <1>4 DEF BillingInv

\* What moves neither money nor anchor leaves the cycles as they are.
LEMMA QuietStep ==
  ASSUME BillingInv, UNCHANGED <<today, balance, anchor, refs, billed, moves>>,
         BillingTypeOK', TodayInv', EntryInv'
  PROVE  BillingInv'
  BY DEF BillingInv, MoneyInv, DatesInv, CycleInv

\* What a run knows does not depend on the others.
LEMMA EntryGoesOn ==
  ASSUME RunsTyped, EntryInv, NEW j \in Jobs, NEW r, job' = [job EXCEPT ![j] = r],
         UNCHANGED <<today, refs, anchor>>, Knows(r)
  PROVE  EntryInv'
<1>1. Knows(r)'
  BY DEF Knows, Paid
<1>2. ASSUME NEW k \in Jobs, k # j PROVE Knows(job[k])'
  <2>1. PICK o : o = job[k]
    OBVIOUS
  <2>2. Knows(o)'
    BY <2>1 DEF EntryInv, Knows, Paid
  <2>3. job'[k] = o
    BY <1>2, <2>1 DEF RunsTyped
  <2>4. QED BY <2>2, <2>3
<1>3. job'[j] = r
  BY DEF RunsTyped
<1>4. QED BY <1>1, <1>2, <1>3 DEF EntryInv

\* A step that leaves true what is known keeps it for every run.
LEMMA EntryStep ==
  ASSUME EntryInv, NEW j \in Jobs, NEW r, Knows(r),
         \A k \in Jobs : job'[k] = IF k = j THEN r ELSE job[k],
         \A run : Knows(run) => Knows(run)'
  PROVE  EntryInv'
<1>1. ASSUME NEW k \in Jobs PROVE Knows(job[k])'
  <2>1. PICK run : run = IF k = j THEN r ELSE job[k]
    OBVIOUS
  <2>2. Knows(run)'
    BY <2>1 DEF EntryInv
  <2>3. QED BY <2>1, <2>2
<1>2. QED BY <1>1 DEF EntryInv

LEMMA StartRunInv == ASSUME BillingInv, NEW j \in Jobs, StartRun(j) PROVE BillingInv'
<1> USE Bounds DEF BillingInv
<1>0. AllTyped
  BY Types
<1>1. \A n \in Subscriptions : Entry(n) = [item |-> n, cycle |-> anchor[n], fee |-> NumberFee]
  BY DEF Entry, Fee
<1> DEFINE listed == {Entry(n) : n \in {m \in Subscriptions :
                        standing[m] = "active" /\ anchor[m] <= today}}
<1>2. \A e \in listed : /\ e \in Entries /\ e.item \in Subscriptions
                        /\ e.fee = NumberFee /\ e.cycle = anchor[e.item]
  BY <1>0, <1>1 DEF Entries, AllTyped, CountsTyped, AnchorsTyped, Items, Days
<1>3. listed \in SUBSET Entries
  BY <1>2
<1>4. job' = [job EXCEPT ![j] = [IdleRun EXCEPT !.pc = "numbers", !.now = today, !.due = listed]]
  BY DEF StartRun
<1> HIDE DEF listed
<1>5. PICK r \in RunStates :
        r = [pc |-> "numbers", now |-> today, due |-> listed,
             item |-> Plan, cycle |-> 0, fee |-> 0]
  <2>1. 0 \in Days /\ today \in Days /\ Plan \in Items
    BY <1>0 DEF AllTyped, CountsTyped, Items, Days
  <2>2. QED BY <1>3, <2>1 DEF RunStates
<1>6. /\ r.pc = "numbers" /\ r.now = today /\ r.due = listed
      /\ job' = [job EXCEPT ![j] = r]
      /\ UNCHANGED <<today, balance, terms, planFee, standing, anchor, refs, billed, moves, deaths>>
  BY <1>4, <1>5 DEF StartRun, IdleRun
<1>7. BillingTypeOK'
  BY <1>6, RunGoesOn
<1>8. TodayInv'
  BY <1>0, <1>6 DEF TodayInv
<1>9. Knows(r)
  BY <1>2, <1>6 DEF Knows
<1>10. EntryInv'
  BY <1>0, <1>6, <1>9, EntryGoesOn DEF AllTyped
<1>11. QED BY <1>6, <1>7, <1>8, <1>10, QuietStep

LEMMA ListPlansInv == ASSUME BillingInv, NEW j \in Jobs, ListPlans(j) PROVE BillingInv'
<1> USE Bounds DEF BillingInv
<1>0. AllTyped
  BY Types
<1> PICK o \in RunStates : o = job[j]
  BY DEF BillingTypeOK
<1> DEFINE listed == IF anchor[Plan] <= job[j].now THEN {Entry(Plan)} ELSE {}
<1>1. Entry(Plan) = [item |-> Plan, cycle |-> anchor[Plan], fee |-> planFee]
  BY DEF Entry, Fee
<1>2. \A e \in listed : e \in Entries /\ e.item \notin Subscriptions
  BY <1>0, <1>1 DEF Entries, RunStates, AllTyped, AnchorsTyped, TermsTyped, Items, Days
<1>3. job' = [job EXCEPT ![j] = [o EXCEPT !.pc = "plans", !.due = listed]]
  BY DEF ListPlans
<1> HIDE DEF listed
<1>4. PICK r \in RunStates : r = [o EXCEPT !.pc = "plans", !.due = listed]
  BY <1>2 DEF RunStates
<1>5. /\ o.pc = "numbers" /\ r.pc = "plans" /\ r.now = o.now /\ r.due = listed
      /\ job' = [job EXCEPT ![j] = r]
      /\ UNCHANGED <<today, balance, terms, planFee, standing, anchor, refs, billed, moves, deaths>>
  BY <1>3, <1>4 DEF ListPlans, RunStates
<1>6. BillingTypeOK'
  BY <1>5, RunGoesOn
<1>7. TodayInv'
  BY <1>5 DEF TodayInv
<1>8. EntryInv'
  <2>1. Knows(r)
    BY <1>2, <1>5 DEF Knows
  <2>2. QED BY <1>0, <1>5, <2>1, EntryGoesOn DEF AllTyped
<1>9. QED BY <1>5, <1>6, <1>7, <1>8, QuietStep

LEMMA DecideInv ==
  ASSUME BillingInv, NEW j \in Jobs, NEW e \in job[j].due, Decide(j, e)
  PROVE  BillingInv'
<1> USE Bounds DEF BillingInv
<1>0. AllTyped
  BY Types
<1> PICK o \in RunStates : o = job[j]
  BY DEF BillingTypeOK
<1> PICK next : next = Decision(e, o.now)
  OBVIOUS
<1>1. /\ e \in o.due /\ o.pc \in {"numbers", "plans"}
      /\ e.item \in Items /\ e.cycle \in Days /\ e.fee \in Nat
  BY DEF Decide, RunStates, Entries
<1>2. /\ next \in {"numbers", "plans", "charging", "suspending", "advancing"}
      /\ next = "advancing" => e.fee = 0
      /\ next = "suspending" => e.item \in Subscriptions
      /\ next = "charging" => <<e.item, o.now>> \notin refs
  BY <1>1 DEF Decision, Phase, Items
<1>3. job' = [job EXCEPT ![j] = [o EXCEPT !.pc = next, !.due = o.due \ {e},
                       !.item = e.item, !.cycle = e.cycle, !.fee = e.fee]]
  BY DEF Decide, Turns
<1>4. PICK r \in RunStates :
        r = [o EXCEPT !.pc = next, !.due = o.due \ {e},
                      !.item = e.item, !.cycle = e.cycle, !.fee = e.fee]
  BY <1>1, <1>2 DEF RunStates
<1>5. /\ r.pc = next /\ r.now = o.now /\ r.due = o.due \ {e}
      /\ r.item = e.item /\ r.cycle = e.cycle
      /\ job' = [job EXCEPT ![j] = r]
      /\ UNCHANGED <<today, balance, terms, planFee, standing, anchor, refs, billed, moves, deaths>>
  BY <1>3, <1>4 DEF Decide
<1>6. BillingTypeOK'
  BY <1>5, RunGoesOn
<1>7. TodayInv'
  BY <1>1, <1>2, <1>5 DEF TodayInv
<1>8. EntryInv'
  <2>1. o.now = today
    BY <1>1 DEF TodayInv
  <2>2. e.item \in Subscriptions =>
          e.fee # 0 /\ (Paid(e.item) \/ e.cycle = anchor[e.item])
    BY <1>1 DEF EntryInv, Knows
  <2>3. r.pc = "advancing" => r.item = Plan
    BY <1>1, <1>2, <1>5, <2>2 DEF Items
  <2>4. r.pc = "charging" /\ r.item \in Subscriptions =>
          ~Paid(r.item) /\ anchor[r.item] = r.cycle
    BY <1>2, <1>5, <2>1, <2>2 DEF Paid
  <2>5. \A d \in r.due : d.item \in Subscriptions =>
          d.fee # 0 /\ (Paid(d.item) \/ d.cycle = anchor[d.item])
    BY <1>5 DEF EntryInv, Knows
  <2>6. Knows(r)
    BY <1>2, <1>5, <2>3, <2>4, <2>5 DEF Knows
  <2>7. QED BY <1>0, <1>5, <2>6, EntryGoesOn DEF AllTyped
<1>9. QED BY <1>5, <1>6, <1>7, <1>8, QuietStep

LEMMA RefusedInv == ASSUME BillingInv, NEW j \in Jobs, Refused(j) PROVE BillingInv'
<1> USE Bounds DEF BillingInv
<1>0. AllTyped
  BY Types
<1> PICK o \in RunStates : o = job[j]
  BY DEF BillingTypeOK
<1>1. PICK r \in RunStates :
        r = [o EXCEPT !.pc = IF o.item = Plan THEN "plans" ELSE "suspending"]
  BY DEF RunStates
<1>2. /\ o.pc = "charging" /\ r.pc \in {"plans", "suspending"}
      /\ r.pc = "suspending" => r.item \in Subscriptions
      /\ r.now = o.now /\ r.due = o.due
      /\ job' = [job EXCEPT ![j] = r]
      /\ UNCHANGED <<today, balance, terms, planFee, standing, anchor, refs, billed, moves, deaths>>
  BY <1>1 DEF Refused, RunStates, Items
<1>3. BillingTypeOK'
  BY <1>2, RunGoesOn
<1>4. TodayInv'
  BY <1>2 DEF TodayInv
<1>5. EntryInv'
  <2>1. Knows(r)
    BY <1>2 DEF EntryInv, Knows
  <2>2. QED BY <1>0, <1>2, <2>1, EntryGoesOn DEF AllTyped
<1>6. QED BY <1>2, <1>3, <1>4, <1>5, QuietStep

LEMMA SuspendInv == ASSUME BillingInv, NEW j \in Jobs, Suspend(j) PROVE BillingInv'
<1> USE Bounds DEF BillingInv
<1>0. AllTyped
  BY Types
<1> PICK o \in RunStates : o = job[j]
  BY DEF BillingTypeOK
<1>1. PICK r \in RunStates : r = [o EXCEPT !.pc = "numbers"]
  BY DEF RunStates
<1>2. /\ o.pc = "suspending" /\ r.pc = "numbers" /\ r.now = o.now /\ r.due = o.due
      /\ job' = [job EXCEPT ![j] = r]
      /\ UNCHANGED <<today, balance, terms, planFee, anchor, refs, billed, moves, deaths>>
  BY <1>1 DEF Suspend
<1>3. BillingTypeOK'
  <2>1. job' \in [Jobs -> RunStates]
    BY <1>2 DEF BillingTypeOK
  <2>2. standing' \in [Subscriptions -> {"active", "suspended"}]
    BY DEF Suspend, BillingTypeOK
  <2>3. QED BY <1>2, <2>1, <2>2 DEF BillingTypeOK
<1>4. TodayInv'
  BY <1>2 DEF TodayInv
<1>5. EntryInv'
  <2>1. Knows(r)
    BY <1>2 DEF EntryInv, Knows
  <2>2. QED BY <1>0, <1>2, <2>1, EntryGoesOn DEF AllTyped
<1>6. QED BY <1>2, <1>3, <1>4, <1>5, QuietStep

\* A run ends, or dies.
LEMMA RunOverInv ==
  ASSUME BillingInv, NEW j \in Jobs, EndRun(j) \/ RunDies(j) PROVE BillingInv'
<1> USE Bounds DEF BillingInv
<1>0. AllTyped
  BY Types
<1>1. /\ job' = [job EXCEPT ![j] = IdleRun] /\ deaths' \in 0 .. MaxDeaths
      /\ UNCHANGED <<today, balance, terms, planFee, standing, anchor, refs, billed, moves>>
  BY DEF EndRun, RunDies, BillingTypeOK
<1>2. IdleRun \in RunStates
  BY DEF IdleRun, RunStates, Items, Days
<1>3. BillingTypeOK'
  <2>1. job' \in [Jobs -> RunStates]
    BY <1>1, <1>2 DEF BillingTypeOK
  <2>2. QED BY <1>1, <2>1 DEF BillingTypeOK
<1>4. TodayInv'
  BY <1>1 DEF TodayInv, IdleRun
<1>5. EntryInv'
  <2>1. Knows(IdleRun)
    BY DEF Knows, IdleRun
  <2>2. QED BY <1>0, <1>1, <2>1, EntryGoesOn DEF AllTyped
<1>6. QED BY <1>1, <1>3, <1>4, <1>5, QuietStep

\* Only a plan advances without a charge.
LEMMA AdvanceInv == ASSUME BillingInv, NEW j \in Jobs, Advance(j) PROVE BillingInv'
<1> USE Bounds DEF BillingInv
<1>0. AllTyped
  BY Types
<1> PICK o \in RunStates : o = job[j]
  BY DEF BillingTypeOK
<1>1. o.pc = "advancing" /\ o.item = Plan /\ o.cycle \in Nat
  BY DEF Advance, EntryInv, Knows, RunStates, Days
<1>2. PICK r \in RunStates : r = [o EXCEPT !.pc = "plans"]
  BY DEF RunStates
<1>3. /\ r.pc = "plans" /\ r.now = o.now /\ r.due = o.due
      /\ job' = [job EXCEPT ![j] = r] /\ anchor' = [anchor EXCEPT ![Plan] = o.cycle + Period]
      /\ UNCHANGED <<today, balance, terms, planFee, standing, refs, billed, moves, deaths>>
  BY <1>0, <1>1, <1>2 DEF Advance
<1>4. BillingTypeOK'
  <2>1. AnchorsTyped' /\ RunsTyped'
    <3>1. o.cycle + Period \in Nat
      BY <1>1
    <3>2. QED BY <1>0, <1>3, <3>1 DEF AllTyped, AnchorsTyped, RunsTyped
  <2>2. AllTyped'
    BY <1>0, <1>3, <2>1 DEF AllTyped, CountsTyped, FundsTyped, TermsTyped, StandingTyped, BooksTyped
  <2>3. QED BY <2>2, TypesNext
<1>5. TodayInv'
  BY <1>0, <1>1, <1>3 DEF TodayInv
<1>6. \A n \in Subscriptions : anchor'[n] = anchor[n]
  BY <1>0, <1>3 DEF AllTyped
<1>7. EntryInv'
  <2>1. \A run : Knows(run) => Knows(run)'
    BY <1>3, <1>6 DEF Knows, Paid
  <2>2. Knows(r)
    BY <1>3 DEF EntryInv, Knows
  <2>3. \A k \in Jobs : job'[k] = IF k = j THEN r ELSE job[k]
    BY <1>0, <1>3 DEF AllTyped, RunsTyped
  <2>4. QED BY <2>1, <2>2, <2>3, EntryStep
<1>8. MoneyInv' /\ DatesInv' /\ CycleInv'
  BY <1>3, <1>6 DEF MoneyInv, DatesInv, CycleInv
<1>9. QED BY <1>4, <1>5, <1>7, <1>8

LEMMA ChargeInv == ASSUME BillingInv, NEW j \in Jobs, Charge(j) PROVE BillingInv'
<1> USE Bounds DEF BillingInv
<1>0. AllTyped
  BY Types
<1> PICK o \in RunStates : o = job[j]
  BY <1>0 DEF AllTyped, RunsTyped
<1> PICK i \in Items, c \in Nat, f \in Nat : i = o.item /\ c = o.cycle /\ f = o.fee /\ c \in Days
  BY DEF RunStates, Days
<1>1. o.pc = "charging" /\ o.now = today
  BY DEF Charge, TodayInv
<1>2. PICK r \in RunStates : r = [o EXCEPT !.pc = Phase(i)]
  BY DEF RunStates, Phase
<1>3. /\ r.pc \in {"numbers", "plans"} /\ r.now = o.now /\ r.due = o.due
      /\ job' = [job EXCEPT ![j] = r] /\ anchor' = [anchor EXCEPT ![i] = c + Period]
      /\ UNCHANGED <<today, terms, planFee, standing, moves, deaths>>
  BY <1>0, <1>2 DEF Charge, Phase
<1>4. \/ <<i, today>> \in refs /\ UNCHANGED <<balance, refs, billed>>
      \/ /\ <<i, today>> \notin refs /\ CanSpend(terms, balance, f)
         /\ balance' = balance - f /\ refs' = refs \cup {<<i, today>>}
         /\ billed' = [billed EXCEPT ![i][c] = @ + 1]
  BY <1>1 DEF Charge
<1>5. CanSpend(terms, balance, f) => balance - f >= -Limit
  BY <1>0 DEF CanSpend, Floor, AllTyped, TermsTyped, FundsTyped
<1>6. BillingTypeOK'
  <2>1. RunsTyped'
    BY <1>0, <1>3 DEF AllTyped, RunsTyped
  <2>2. AnchorsTyped'
    <3>1. c + Period \in Nat
      OBVIOUS
    <3>2. QED BY <1>0, <1>3, <3>1 DEF AllTyped, AnchorsTyped
  <2>3. FundsTyped'
    BY <1>0, <1>4, <1>5 DEF AllTyped, FundsTyped
  <2>4. refs' \subseteq Items \X Days
    <3>1. today \in Days
      BY <1>0 DEF AllTyped, CountsTyped, Days
    <3>2. QED BY <1>0, <1>4, <3>1 DEF AllTyped, BooksTyped
  <2>5. billed' \in [Items -> [Days -> Nat]]
    <3>1. PICK b \in [Days -> Nat] : b = billed[i]
      BY <1>0 DEF AllTyped, BooksTyped
    <3>2. [b EXCEPT ![c] = b[c] + 1] \in [Days -> Nat]
      OBVIOUS
    <3>3. billed' = billed \/ billed' = [billed EXCEPT ![i] = [b EXCEPT ![c] = b[c] + 1]]
      BY <1>4, <3>1
    <3>4. QED BY <1>0, <3>2, <3>3 DEF AllTyped, BooksTyped
  <2>6. AllTyped'
    BY <1>0, <1>3, <2>1, <2>2, <2>3, <2>4, <2>5
       DEF AllTyped, CountsTyped, TermsTyped, StandingTyped, BooksTyped
  <2>7. QED BY <2>6, TypesNext
<1>7. TodayInv'
  BY <1>0, <1>1, <1>3 DEF TodayInv
<1>8. MoneyInv' /\ DatesInv'
  <2>1. balance' <= balance
    BY <1>0, <1>4 DEF AllTyped, FundsTyped
  <2>2. MoneyInv'
    BY <1>0, <1>3, <1>4, <2>1 DEF MoneyInv, AllTyped, FundsTyped, CountsTyped
  <2>3. DatesInv'
    BY <1>0, <1>3, <1>4 DEF DatesInv, AllTyped, CountsTyped
  <2>4. QED BY <2>2, <2>3
<1>9. \A k \in Jobs : job'[k] = IF k = j THEN r ELSE job[k]
  BY <1>0, <1>3 DEF AllTyped, RunsTyped
<1>10. Knows(r)
  BY <1>3 DEF EntryInv, Knows
\* The item charged is paid today; the others are as they were.
<1>11. /\ anchor'[i] = c + Period /\ <<i, today>> \in refs'
       /\ \A n \in Items : n # i => /\ anchor'[n] = anchor[n] /\ billed'[n] = billed[n]
                                    /\ Paid(n)' <=> Paid(n)
  BY <1>0, <1>3, <1>4 DEF AllTyped, AnchorsTyped, BooksTyped, Paid
<1>12. CASE i = Plan
  <2>1. \A n \in Subscriptions : /\ anchor'[n] = anchor[n] /\ billed'[n] = billed[n]
                                 /\ Paid(n)' <=> Paid(n)
    BY <1>11, <1>12 DEF Items
  <2>2. \A run : Knows(run) => Knows(run)'
    BY <2>1 DEF Knows
  <2>3. EntryInv'
    BY <1>9, <1>10, <2>2, EntryStep
  <2>4. CycleInv'
    <3> SUFFICES ASSUME NEW n \in Subscriptions
                 PROVE  /\ IsCycle(anchor'[n])
                        /\ \A d \in Days : billed'[n][d] = IF IsCycle(d) /\ d < anchor'[n] THEN 1 ELSE 0
      BY DEF CycleInv
    <3>1. anchor'[n] = anchor[n] /\ billed'[n] = billed[n]
      BY <2>1
    <3>2. QED BY <3>1 DEF CycleInv
  <2>5. QED BY <1>6, <1>7, <1>8, <2>3, <2>4
<1>13. CASE i \in Subscriptions
  <2>1. anchor[i] = IF Paid(i) THEN c + Period ELSE c
    BY <1>1, <1>13 DEF EntryInv, Knows
  <2>2. Paid(i)'
    BY <1>3, <1>11 DEF Paid
  <2>3. \A run : Knows(run) => Knows(run)'
    BY <1>11, <1>13, <2>1, <2>2 DEF Knows, Items
  <2>4. EntryInv'
    BY <1>9, <1>10, <2>3, EntryStep
  <2>5. CycleInv'
    <3>1. CASE Paid(i)
      <4>1. anchor' = anchor /\ billed' = billed
        BY <1>0, <1>3, <1>4, <2>1, <3>1 DEF AllTyped, AnchorsTyped, Paid
      <4>2. QED BY <4>1 DEF CycleInv
    <3>2. CASE ~Paid(i)
      <4>1. anchor[i] = c /\ IsCycle(c)
        BY <1>13, <2>1, <3>2 DEF CycleInv
      <4>2. IsCycle(c + Period)
        BY <4>1, CycleAgain
      <4>3. \A d \in Nat : IsCycle(d) /\ d < c + Period /\ ~(d < c) => d = c
        BY <4>1, NoCycleBetween
      <4>4. \A d \in Days : billed'[i][d] = IF d = c THEN billed[i][d] + 1 ELSE billed[i][d]
        BY <1>0, <1>4, <3>2 DEF Paid, AllTyped, BooksTyped
      <4>5. ASSUME NEW d \in Days
            PROVE  billed'[i][d] = IF IsCycle(d) /\ d < c + Period THEN 1 ELSE 0
        <5>1. d \in Nat
          BY DEF Days
        <5>2. billed[i][d] = IF IsCycle(d) /\ d < c THEN 1 ELSE 0
          BY <1>13, <4>1 DEF CycleInv
        <5>3. IsCycle(d) /\ d < c + Period <=> d = c \/ (IsCycle(d) /\ d < c)
          BY <4>1, <4>3, <5>1
        <5>4. QED BY <4>4, <5>1, <5>2, <5>3
      <4>6. ASSUME NEW n \in Subscriptions, n # i
            PROVE  /\ IsCycle(anchor'[n])
                   /\ \A d \in Days : billed'[n][d] = IF IsCycle(d) /\ d < anchor'[n] THEN 1 ELSE 0
        <5>1. anchor'[n] = anchor[n] /\ billed'[n] = billed[n]
          BY <1>11, <4>6 DEF Items
        <5>2. QED BY <5>1 DEF CycleInv
      <4>7. QED BY <1>11, <4>2, <4>5, <4>6 DEF CycleInv
    <3>3. QED BY <3>1, <3>2
  <2>6. QED BY <1>6, <1>7, <1>8, <2>4, <2>5
<1>14. QED BY <1>12, <1>13 DEF Items

\* What the tenant, its calls and operators do moves money and terms only.
LEMMA MovesInv ==
  ASSUME BillingInv,
         \/ Use \/ \E amount \in 1 .. 3 : TopUp(amount)
         \/ \E postpaid \in BOOLEAN : SetTerms(postpaid)
         \/ \E fee \in PlanFees : ChangePlan(fee)
  PROVE  BillingInv'
<1> USE Bounds DEF BillingInv
<1>1. AllTyped
  BY Types
<1> DEFINE Quiet == UNCHANGED <<today, standing, anchor, refs, job, billed, deaths>>
           Terms == [postpaid : BOOLEAN, limit : {0, Limit}, suspended : {FALSE}]
           Moved == /\ Quiet /\ moves' = moves + 1 /\ moves < MaxMoves
                    /\ balance' \in Int /\ -Limit <= balance' /\ balance' <= balance + 3
                    /\ terms' \in Terms /\ planFee' \in PlanFees
<1>2. /\ balance \in Int /\ -Limit <= balance /\ terms \in Terms /\ planFee \in PlanFees
  BY <1>1 DEF AllTyped, FundsTyped, TermsTyped
<1> HIDE DEF Terms
<1>3. ASSUME Use PROVE Moved
  <2>1. Quiet /\ moves' = moves + 1 /\ moves < MaxMoves /\ UNCHANGED <<terms, planFee>>
    BY ONLY <1>3, Zenon DEF Use, Moves
  <2>2. balance' = balance - 1 /\ balance - 1 >= -Limit
    BY <1>1, <1>3 DEF Use, CanSpend, Floor, AllTyped, TermsTyped
  <2>3. QED BY <1>2, <2>1, <2>2
<1>4. ASSUME NEW amount \in 1 .. 3, TopUp(amount) PROVE Moved
  <2>1. Quiet /\ moves' = moves + 1 /\ moves < MaxMoves /\ UNCHANGED <<terms, planFee>>
        /\ balance' = balance + amount
    BY ONLY <1>4, Zenon DEF TopUp, Moves
  <2>2. QED BY <1>2, <2>1
<1>5. ASSUME NEW postpaid \in BOOLEAN, SetTerms(postpaid) PROVE Moved
  <2>1. PICK t \in Terms : t = terms
    BY <1>2 DEF Terms
  <2>2. PICK limit \in {0, Limit} : terms' = [terms EXCEPT !.postpaid = postpaid, !.limit = limit]
    BY <1>5, Zenon DEF SetTerms
  <2>3. terms' \in Terms
    BY <2>1, <2>2 DEF Terms
  <2>4. Quiet /\ moves' = moves + 1 /\ moves < MaxMoves /\ UNCHANGED <<balance, planFee>>
    BY ONLY <1>5, Zenon DEF SetTerms, Moves
  <2>5. QED BY <1>2, <2>3, <2>4
<1>6. ASSUME NEW fee \in PlanFees, ChangePlan(fee) PROVE Moved
  <2>1. Quiet /\ moves' = moves + 1 /\ moves < MaxMoves /\ UNCHANGED <<terms, balance>>
        /\ planFee' = fee
    BY ONLY <1>6, Zenon DEF ChangePlan, Moves
  <2>2. QED BY <1>2, <2>1
<1>7. Moved
  BY <1>3, <1>4, <1>5, <1>6
<1>8. MoneyInv'
  BY <1>1, <1>7 DEF MoneyInv, AllTyped, FundsTyped, CountsTyped
<1>9. BillingTypeOK'
  <2>1. FundsTyped' /\ CountsTyped'
    BY <1>1, <1>7, <1>8 DEF AllTyped, CountsTyped, FundsTyped, MoneyInv
  <2>2. TermsTyped'
    BY <1>7 DEF TermsTyped, Terms
  <2>3. AllTyped'
    BY <1>1, <1>7, <2>1, <2>2 DEF AllTyped, StandingTyped, AnchorsTyped, BooksTyped, RunsTyped
  <2>4. QED BY <2>3, TypesNext
<1>10. TodayInv' /\ DatesInv' /\ CycleInv'
  BY <1>7 DEF TodayInv, DatesInv, CycleInv
<1>11. EntryInv'
  BY <1>7 DEF EntryInv, Knows, Paid
<1>12. QED BY <1>8, <1>9, <1>10, <1>11

\* A new day finds no run at work and no reference of its own.
LEMMA DayPassesInv == ASSUME BillingInv, ~SpanMidnight, DayPasses PROVE BillingInv'
<1> USE Bounds DEF BillingInv
<1>0. AllTyped
  BY Types
<1>1. /\ today < MaxDays /\ today' = today + 1
      /\ UNCHANGED <<balance, terms, planFee, standing, anchor, refs, job, billed, moves, deaths>>
  BY DEF DayPasses
<1>2. \A j \in Jobs : job[j].pc = "idle"
  BY DEF DayPasses
<1>3. \A j \in Jobs : job[j] = IdleRun
  BY <1>2 DEF TodayInv
<1>4. BillingTypeOK'
  <2>1. CountsTyped'
    BY <1>0, <1>1 DEF AllTyped, CountsTyped
  <2>2. AllTyped'
    BY <1>0, <1>1, <2>1 DEF AllTyped, FundsTyped, TermsTyped, StandingTyped, AnchorsTyped,
                            BooksTyped, RunsTyped
  <2>3. QED BY <2>2, TypesNext
<1>5. TodayInv'
  BY <1>1, <1>2, <1>3 DEF TodayInv
<1>6. EntryInv'
  <2>1. Knows(IdleRun)'
    BY DEF Knows, IdleRun
  <2>2. \A k \in Jobs : job'[k] = IdleRun
    BY <1>1, <1>3
  <2>3. ASSUME NEW k \in Jobs PROVE Knows(job[k])'
    <3>1. PICK run : run = IdleRun
      OBVIOUS
    <3>2. Knows(run)'
      BY <2>1, <3>1
    <3>3. QED BY <2>2, <3>1, <3>2
  <2>4. QED BY <2>3 DEF EntryInv
<1>7. MoneyInv' /\ DatesInv' /\ CycleInv'
  BY <1>0, <1>1 DEF MoneyInv, DatesInv, CycleInv, AllTyped, CountsTyped, Days
<1>8. QED BY <1>4, <1>5, <1>6, <1>7

LEMMA NextBilling ==
  ASSUME ~SpanMidnight PROVE BillingInv /\ [BillingNext]_billingVars => BillingInv'
<1> SUFFICES ASSUME BillingInv, [BillingNext]_billingVars PROVE BillingInv'
  OBVIOUS
<1>1. ASSUME NEW j \in Jobs, StartRun(j) \/ Runs(j) \/ RunDies(j) PROVE BillingInv'
  BY <1>1, StartRunInv, ListPlansInv, DecideInv, RefusedInv, SuspendInv, RunOverInv,
     AdvanceInv, ChargeInv DEF Runs
<1>2. CASE UNCHANGED billingVars
  <2> USE <1>2 DEF billingVars
  <2>1. BillingTypeOK' /\ TodayInv' /\ EntryInv'
    BY DEF BillingInv, BillingTypeOK, TodayInv, EntryInv, Knows, Paid
  <2>2. QED BY <2>1, QuietStep
<1>3. QED BY <1>1, <1>2, MovesInv, DayPassesInv DEF BillingNext

(* server/utils/billing.ts:3-4: however many runs of a day overlap, come late
   and die, a cycle of a number is charged once, for any number of numbers and
   any fees.  The hypothesis is that a run ends on the day on which it began. *)
THEOREM CyclesAreAlwaysOK ==
  ASSUME ~SpanMidnight PROVE BillingSpec => []CyclesOK
<1>1. BillingInv => CyclesOK
  <2> SUFFICES ASSUME BillingInv, NEW n \in Subscriptions, NEW c \in Days
               PROVE  BillingTypeOK /\ billed[n][c] <= 1
    BY DEF CyclesOK, ChargedOncePerCycle, BillingInv
  <2>1. billed[n][c] = 0 \/ billed[n][c] = 1
    BY DEF BillingInv, CycleInv
  <2>2. QED BY <2>1 DEF BillingInv
<1>2. QED BY <1>1, InitBilling, NextBilling, PTL DEF BillingSpec

(* No cycle of a number is skipped, and none is charged ahead: those charged
   are exactly those before the anchor (server/utils/billing.ts:103-104). *)
THEOREM NoCycleIsEverSkipped ==
  ASSUME ~SpanMidnight PROVE BillingSpec => []NoCycleSkipped
<1>1. BillingInv => NoCycleSkipped
  <2> SUFFICES ASSUME BillingInv, NEW n \in Subscriptions, NEW c \in Days
               PROVE  billed[n][c] > 0 <=>
                        c >= FirstAnchor /\ c < anchor[n] /\ (c - FirstAnchor) % Period = 0
    BY DEF NoCycleSkipped
  <2>1. billed[n][c] = IF IsCycle(c) /\ c < anchor[n] THEN 1 ELSE 0
    BY DEF BillingInv, CycleInv
  <2>2. QED BY <2>1 DEF IsCycle, FirstAnchor, Days
<1>2. QED BY <1>1, InitBilling, NextBilling, PTL DEF BillingSpec
=============================================================================
