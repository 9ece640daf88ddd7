----------------------------- MODULE NumberPool -----------------------------
(***************************************************************************)
(* Phone numbers between the pool and the workspaces that rent them: the   *)
(* purchase, release and reclaim endpoints of server/api/numbers, the      *)
(* grace sweep and the closed-workspace sweep of server/api/cron, and what *)
(* a billing run does to a subscription.  Each endpoint reads, decides and *)
(* writes in separate statements, with no lock, so requests, sweeps and    *)
(* billing runs overlap; a handler may die between two statements.         *)
(***************************************************************************)
EXTENDS Naturals

CONSTANTS
  Numbers,     \* telephone numbers in the inventory
  Tenants,
  Handlers,    \* requests and cron jobs being served at the same time
  None,
  MaxCrashes   \* bound on handlers that die half-way

ASSUME NumberPoolAssumption ==
  /\ None \notin Tenants /\ None \notin Numbers
  /\ MaxCrashes \in Nat

VARIABLES
  owner,      \* inventory: soldToTenantId, or None while "available"
  status,     \* subscription status; "none" when there is no row
  tenant,     \* the subscription's tenant
  cancelled,  \* cancelledAt is set
  grace,      \* graceEndsAt: "none", still "running", or "over"
  closed,     \* workspaces closed with their last member, thirty days ago:
              \* nobody is left to send them requests
  handler,    \* what each handler is in the middle of
  paid,       \* history: <<tenant, number>> purchases debited
  simulated,  \* history: <<tenant, number>> purchases made in sandbox mode
  expired,    \* history: numbers whose grace period once ended
  loose,      \* history: numbers put on sale by a catch block that had no
              \* claim to give back any more
  crashes

subVars == <<status, tenant, cancelled, grace>>
historyVars == <<paid, simulated, expired, loose>>
vars == <<owner, subVars, closed, handler, historyVars, crashes>>

Rented == {"active", "suspended", "cancelled"}
Statuses == Rented \cup {"none", "released"}

Job(pc, n, t) == [pc |-> pc, number |-> n, tenant |-> t]
Idle == Job("idle", None, None)
Goes(h, pc) ==
  handler' = [handler EXCEPT ![h] = Job(pc, handler[h].number, handler[h].tenant)]
Ends(h) == handler' = [handler EXCEPT ![h] = Idle]
Starts(h, pc, n, t) ==
  /\ handler[h].pc = "idle"
  /\ handler' = [handler EXCEPT ![h] = Job(pc, n, t)]
At(h, pc) == handler[h].pc = pc

Init ==
  /\ owner = [n \in Numbers |-> None]
  /\ status = [n \in Numbers |-> "none"]
  /\ tenant = [n \in Numbers |-> None]
  /\ cancelled = [n \in Numbers |-> FALSE]
  /\ grace = [n \in Numbers |-> "none"]
  /\ closed = {}
  /\ handler = [h \in Handlers |-> Idle]
  /\ paid = {} /\ simulated = {} /\ expired = {} /\ loose = {}
  /\ crashes = 0

-----------------------------------------------------------------------------
\* Mutant of ClaimNumber: the claim does not look whether it is available.
ClaimAnyNumber(h, n, t) ==
  /\ t \notin closed
  /\ Starts(h, "checking", n, t)
  /\ owner' = [owner EXCEPT ![n] = t]
  /\ UNCHANGED <<subVars, closed, historyVars, crashes>>

\* POST /api/numbers/purchase.  UPDATE ... WHERE status = 'available' claims.
ClaimNumber(h, n, t) ==
  /\ owner[n] = None
  /\ t \notin closed
  /\ Starts(h, "checking", n, t)
  /\ owner' = [owner EXCEPT ![n] = t]
  /\ UNCHANGED <<subVars, closed, historyVars, crashes>>

RollBack(n) == owner' = [owner EXCEPT ![n] = None]

\* A subscription row for this number, of any status, refuses the buyer.  The
\* mode is a switch of the workspace, read after the claim: a purchase in
\* sandbox holds the same inventory row and pays nothing.
CheckSubscription(h, isSandbox) ==
  LET n == handler[h].number IN
  /\ At(h, "checking")
  /\ IF status[n] # "none"
     THEN RollBack(n) /\ Ends(h)
     ELSE Goes(h, IF isSandbox THEN "trying" ELSE "paying") /\ UNCHANGED owner
  /\ UNCHANGED <<subVars, closed, historyVars, crashes>>

\* Mutant of Pay: a wallet that cannot cover it is only not debited.
PayIfAffordable(h, outcome) ==
  /\ At(h, "paying")
  /\ paid' = IF outcome = "debited"
             THEN paid \cup {<<handler[h].tenant, handler[h].number>>} ELSE paid
  /\ Goes(h, "subscribing")
  /\ UNCHANGED <<owner, subVars, closed, simulated, expired, loose, crashes>>

\* The wallet, or the card through it, covers the first month and is debited;
\* or it is too short, which returns the claim and then throws into the catch
\* block; or a statement throws.
Pay(h, outcome) ==
  LET n == handler[h].number IN
  /\ At(h, "paying")
  /\ \/ /\ outcome = "debited"
        /\ paid' = paid \cup {<<handler[h].tenant, n>>}
        /\ Goes(h, "subscribing") /\ UNCHANGED owner
     \/ outcome = "short" /\ RollBack(n) /\ Goes(h, "refused") /\ UNCHANGED paid
     \/ outcome = "throws" /\ Goes(h, "failing") /\ UNCHANGED <<owner, paid>>
  /\ UNCHANGED <<subVars, closed, simulated, expired, loose, crashes>>

\* The row is inserted as "active" (telnum is unique), or the insert throws.
\* A live purchase is then done; one in sandbox goes on to the wallet, the
\* prices and the simulated ledger entry, inside the same try.
Subscribe(h, succeeds) ==
  LET n == handler[h].number
      buyer == handler[h].tenant
      trying == At(h, "trying")
  IN
  /\ trying \/ At(h, "subscribing")
  /\ IF succeeds /\ status[n] = "none"
     THEN /\ status' = [status EXCEPT ![n] = "active"]
          /\ tenant' = [tenant EXCEPT ![n] = buyer]
          /\ simulated' = IF trying THEN simulated \cup {<<buyer, n>>} ELSE simulated
          /\ IF trying THEN Goes(h, "simulating") ELSE Ends(h)
     ELSE Goes(h, "failing") /\ UNCHANGED <<status, tenant, simulated>>
  /\ UNCHANGED <<owner, cancelled, grace, closed, paid, expired, loose, crashes>>

Simulate(h, succeeds) ==
  /\ At(h, "simulating")
  /\ IF succeeds THEN Ends(h) ELSE Goes(h, "failing")
  /\ UNCHANGED <<owner, subVars, closed, historyVars, crashes>>

\* The catch block frees the row by its id, without a look at who has it: after
\* a refusal that had freed it already, or under the subscription of a sandbox
\* purchase that failed late.
CatchPurchase(h) ==
  LET n == handler[h].number
      stray == \/ At(h, "refused") /\ owner[n] # None
               \/ At(h, "failing") /\ status[n] # "none"
  IN
  /\ At(h, "refused") \/ At(h, "failing")
  /\ RollBack(n)
  /\ loose' = IF stray THEN loose \cup {n} ELSE loose
  /\ Ends(h)
  /\ UNCHANGED <<subVars, closed, paid, simulated, expired, crashes>>

\* POST release: refuses only a row that is "cancelled" already.
ReadForRelease(h, n) ==
  /\ status[n] \notin {"none", "cancelled"} /\ tenant[n] \notin closed
  /\ Starts(h, "releasing", n, tenant[n])
  /\ UNCHANGED <<owner, subVars, closed, historyVars, crashes>>
Release(h) ==
  LET n == handler[h].number IN
  /\ At(h, "releasing")
  /\ status' = [status EXCEPT ![n] = "cancelled"]
  /\ cancelled' = [cancelled EXCEPT ![n] = TRUE]
  /\ grace' = [grace EXCEPT ![n] = "running"]
  /\ Ends(h)
  /\ UNCHANGED <<owner, tenant, closed, historyVars, crashes>>

\* POST reclaim: the grace period is compared with the clock at the read.
ReadForReclaim(h, n) ==
  /\ status[n] = "cancelled" /\ grace[n] # "over" /\ tenant[n] \notin closed
  /\ Starts(h, "reclaiming", n, tenant[n])
  /\ UNCHANGED <<owner, subVars, closed, historyVars, crashes>>
Reclaim(h) ==
  LET n == handler[h].number IN
  /\ At(h, "reclaiming")
  /\ status' = [status EXCEPT ![n] = "active"]
  /\ cancelled' = [cancelled EXCEPT ![n] = FALSE]
  /\ grace' = [grace EXCEPT ![n] = "none"]
  /\ Ends(h)
  /\ UNCHANGED <<owner, tenant, closed, historyVars, crashes>>

-----------------------------------------------------------------------------
GraceEnds(n) ==
  /\ grace[n] = "running"
  /\ grace' = [grace EXCEPT ![n] = "over"]
  /\ expired' = expired \cup {n}
  /\ UNCHANGED <<owner, status, tenant, cancelled, closed, handler, paid,
                 simulated, loose, crashes>>

\* Mutant of ListExpired: every cancelled row is listed.
ListCancelled(h, n) ==
  /\ status[n] = "cancelled"
  /\ Starts(h, "freeing", n, tenant[n])
  /\ UNCHANGED <<owner, subVars, closed, historyVars, crashes>>

\* POST cron/numbers-grace lists expired rows, frees each and marks it.
ListExpired(h, n) ==
  /\ status[n] = "cancelled" /\ grace[n] = "over"
  /\ Starts(h, "freeing", n, tenant[n])
  /\ UNCHANGED <<owner, subVars, closed, historyVars, crashes>>
Free(h) ==
  /\ At(h, "freeing")
  /\ RollBack(handler[h].number)
  /\ Goes(h, "marking")
  /\ UNCHANGED <<subVars, closed, historyVars, crashes>>
\* Mutant of MarkReleased: the row is left as it was.
MarkNothing(h) ==
  /\ At(h, "marking") /\ Ends(h)
  /\ UNCHANGED <<owner, subVars, closed, historyVars, crashes>>

MarkReleased(h) ==
  LET n == handler[h].number IN
  /\ At(h, "marking")
  /\ status' = [status EXCEPT ![n] = "released"]
  /\ grace' = [grace EXCEPT ![n] = "none"]
  /\ Ends(h)
  /\ UNCHANGED <<owner, tenant, cancelled, closed, historyVars, crashes>>

\* closeWorkspace; POST cron/closed-workspaces thirty days later stamps the
\* rows that carry no cancelledAt, and leaves their status alone.
CloseWorkspace(t) ==
  /\ t \notin closed
  /\ \A h \in Handlers : handler[h].tenant # t   \* nothing runs for thirty days
  /\ closed' = closed \cup {t}
  /\ UNCHANGED <<owner, subVars, handler, historyVars, crashes>>
SweepClosed(t) ==
  LET swept == {n \in Numbers : tenant[n] = t /\ ~cancelled[n]} IN
  /\ t \in closed /\ swept # {}
  /\ cancelled' = [n \in Numbers |-> n \in swept \/ cancelled[n]]
  /\ grace' = [n \in Numbers |-> IF n \in swept THEN "over" ELSE grace[n]]
  /\ expired' = expired \cup swept
  /\ UNCHANGED <<owner, status, tenant, closed, handler, paid, simulated, loose,
                 crashes>>

\* runMonthlyBilling lists the active rows that are due, and comes to each
\* of them later: it charges, or suspends by id.
ListDue(h, n) ==
  /\ status[n] = "active"
  /\ Starts(h, "billing", n, tenant[n])
  /\ UNCHANGED <<owner, subVars, closed, historyVars, crashes>>
Bill(h, affordable) ==
  LET n == handler[h].number IN
  /\ At(h, "billing")
  /\ IF affordable
     THEN UNCHANGED status
     ELSE status' = [status EXCEPT ![n] = "suspended"]
  /\ Ends(h)
  /\ UNCHANGED <<owner, tenant, cancelled, grace, closed, historyVars, crashes>>

Crash(h) ==
  /\ ~At(h, "idle") /\ crashes < MaxCrashes
  /\ crashes' = crashes + 1
  /\ Ends(h)
  /\ UNCHANGED <<owner, subVars, closed, historyVars>>

Works(h) ==
  \/ \E outcome \in {"debited", "short", "throws"} : Pay(h, outcome)
  \/ \E yes \in BOOLEAN :
       \/ CheckSubscription(h, yes) \/ Subscribe(h, yes) \/ Simulate(h, yes)
       \/ Bill(h, yes)
  \/ CatchPurchase(h) \/ Release(h) \/ Reclaim(h) \/ Free(h) \/ MarkReleased(h)

Next ==
  \/ \E h \in Handlers :
       \/ \E n \in Numbers :
            \/ \E t \in Tenants : ClaimNumber(h, n, t)
            \/ ReadForRelease(h, n) \/ ReadForReclaim(h, n)
            \/ ListExpired(h, n) \/ ListDue(h, n)
       \/ Works(h) \/ Crash(h)
  \/ \E n \in Numbers : GraceEnds(n)
  \/ \E t \in Tenants : CloseWorkspace(t) \/ SweepClosed(t)

Spec == Init /\ [][Next]_vars

(* A handler that runs goes on; the clock moves; both sweeps run again and
   again (the grace sweep every hour).  Clients need not do anything. *)
FairSpec ==
  /\ Spec
  /\ \A h \in Handlers : WF_vars(Works(h))
  /\ \A n \in Numbers :
       /\ WF_vars(GraceEnds(n))
       /\ SF_vars(\E h \in Handlers : ListExpired(h, n))
  /\ \A t \in Tenants : WF_vars(SweepClosed(t))

-----------------------------------------------------------------------------
TypeOK ==
  /\ owner \in [Numbers -> Tenants \cup {None}]
  /\ status \in [Numbers -> Statuses]
  /\ tenant \in [Numbers -> Tenants \cup {None}]
  /\ cancelled \in [Numbers -> BOOLEAN]
  /\ grace \in [Numbers -> {"none", "running", "over"}]
  /\ closed \subseteq Tenants
  /\ handler \in [Handlers ->
       [pc : {"idle", "checking", "paying", "subscribing", "trying",
              "simulating", "refused", "failing", "releasing", "reclaiming",
              "freeing", "marking", "billing"},
        number : Numbers \cup {None}, tenant : Tenants \cup {None}]]
  /\ paid \subseteq Tenants \X Numbers
  /\ simulated \subseteq Tenants \X Numbers
  /\ expired \subseteq Numbers /\ loose \subseteq Numbers
  /\ crashes \in 0 .. MaxCrashes

(* Until its grace period has ended once, a rented number, bought live or in
   sandbox, is out of the pool and assigned to the workspace that rents it,
   whatever requests, billing runs and crashes overlap: unless a catch block of
   the purchase put it on sale without a claim to give back. *)
RentedIsOutOfPool ==
  \A n \in Numbers :
    status[n] \in Rented /\ n \notin expired \cup loose => owner[n] = tenant[n]

(* The number and its subscription are written by separate statements of
   purchase, release, reclaim and the sweeps; they never disagree about who has
   the number before a grace period of it has ended, but for that. *)
PoolOK == TypeOK /\ RentedIsOutOfPool

(* Nobody pays for a number that is not theirs to get: from the debit to the
   insert the number is claimed for the payer and nobody else subscribes, in
   sandbox or live; unless somebody's refusal freed it twice. *)
PayerGetsTheNumber ==
  \A h \in Handlers :
    At(h, "subscribing") /\ handler[h].number \notin loose =>
      LET n == handler[h].number IN
      status[n] = "none" /\ owner[n] = handler[h].tenant

(* A number is held by one workspace, which was debited for it or took it in
   sandbox mode: no failure, retry or crash of a live purchase leaves a number
   held that nobody paid for. *)
HeldWasPaid ==
  \A n \in Numbers : status[n] # "none" => <<tenant[n], n>> \in paid \cup simulated

(* A released number whose grace ended leaves the "cancelled" state: it goes
   back to the pool, or its owner reclaimed it just in time. *)
ExpiredIsReturned ==
  \A n \in Numbers :
    status[n] = "cancelled" /\ grace[n] = "over" ~>
      ~(status[n] = "cancelled" /\ grace[n] = "over")
=============================================================================
