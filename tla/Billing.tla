------------------------------- MODULE Billing -------------------------------
(***************************************************************************)
(* Recurring charges of one workspace: runMonthlyBilling of                *)
(* server/utils/billing.ts, run by the daily cron and by hand from the     *)
(* command line (server/db/run-billing.ts).  A run takes the date once,    *)
(* lists what is due, and comes to each entry later: it reads, decides,    *)
(* and then either debits and moves the anchor in one transaction, or      *)
(* suspends the number by id.  Runs, calls, top-ups and operators overlap. *)
(***************************************************************************)
EXTENDS WalletOps

CONSTANTS
  Subscriptions, \* number subscriptions
  Plan,         \* the workspace's plan
  NumberFee,    \* what a cycle of a number costs
  PlanFees,     \* what a cycle of a plan may cost; a custom plan costs nothing
  Period,       \* days of a cycle
  Jobs,         \* runs that may overlap
  SpanMidnight, \* TRUE when a run may end on the day after it began
  Limit,        \* the credit limit granted with postpaid
  MaxDays, MaxMoves, MaxDeaths

Items == Subscriptions \cup {Plan}

ASSUME BillingAssumption ==
  /\ Plan \notin Subscriptions
  /\ NumberFee \in Nat \ {0} /\ PlanFees \subseteq Nat
  /\ Period \in Nat \ {0} /\ SpanMidnight \in BOOLEAN
  /\ {Limit, MaxMoves, MaxDeaths} \subseteq Nat /\ MaxDays \in Nat \ {0}

VARIABLES
  today,
  balance,
  terms,     \* the tenant's: postpaid, credit limit, suspension
  planFee,   \* of the plan the workspace is on
  standing,  \* status of each number subscription
  anchor,    \* nextBillingAt and planNextBillingAt
  refs,      \* ledger references of debits: <<item, date>>
  job,       \* what each run is doing, and the due list it has left
  billed,    \* history: how often each cycle of an item was charged
  moves, deaths

billingVars == <<today, balance, terms, planFee, standing, anchor, refs, job, billed, moves, deaths>>

Days == 0 .. MaxDays
FirstAnchor == 1
IdleRun == [pc |-> "idle", now |-> 0, due |-> {}, item |-> Plan, cycle |-> 0, fee |-> 0]
Fee(i) == IF i = Plan THEN planFee ELSE NumberFee
Entry(i) == [item |-> i, cycle |-> anchor[i], fee |-> Fee(i)]

BillingInit ==
  /\ today = 1
  /\ balance = 0 /\ planFee \in PlanFees
  /\ terms = [postpaid |-> FALSE, limit |-> 0, suspended |-> FALSE]
  /\ standing = [n \in Subscriptions |-> "active"]
  /\ anchor = [i \in Items |-> FirstAnchor]
  /\ refs = {}
  /\ job = [j \in Jobs |-> IdleRun]
  /\ billed = [i \in Items |-> [d \in Days |-> 0]]
  /\ moves = 0 /\ deaths = 0

-----------------------------------------------------------------------------
StartRun(j) ==
  /\ job[j].pc = "idle"
  /\ job' = [job EXCEPT ![j] =
       [IdleRun EXCEPT !.pc = "numbers", !.now = today,
          !.due = {Entry(n) : n \in {m \in Subscriptions :
                     standing[m] = "active" /\ anchor[m] <= today}}]]
  /\ UNCHANGED <<today, balance, terms, planFee, standing, anchor, refs, billed, moves, deaths>>

\* Mutant of ListPlans: only a plan due this very day is listed.
ListPlansOfToday(j) ==
  /\ job[j].pc = "numbers" /\ job[j].due = {}
  /\ job' = [job EXCEPT ![j].pc = "plans",
       ![j].due = IF anchor[Plan] = job[j].now THEN {Entry(Plan)} ELSE {}]
  /\ UNCHANGED <<today, balance, terms, planFee, standing, anchor, refs, billed, moves, deaths>>

\* When the numbers are through, the plan; then the run ends.
ListPlans(j) ==
  /\ job[j].pc = "numbers" /\ job[j].due = {}
  /\ job' = [job EXCEPT ![j].pc = "plans",
       ![j].due = IF anchor[Plan] <= job[j].now THEN {Entry(Plan)} ELSE {}]
  /\ UNCHANGED <<today, balance, terms, planFee, standing, anchor, refs, billed, moves, deaths>>
EndRun(j) ==
  /\ job[j].pc = "plans" /\ job[j].due = {}
  /\ job' = [job EXCEPT ![j] = IdleRun]
  /\ UNCHANGED <<today, balance, terms, planFee, standing, anchor, refs, billed, moves, deaths>>

\* Back to the list, when an entry has been dealt with.
Phase(i) == IF i = Plan THEN "plans" ELSE "numbers"
Turns(j, pc, e, rest) ==
  job' = [job EXCEPT ![j].pc = pc, ![j].due = rest,
                     ![j].item = e.item, ![j].cycle = e.cycle, ![j].fee = e.fee]

\* The wallet, an earlier debit of that date, and the tenant are read, and
\* decide: nothing to do, a charge, or a suspension.  A plan is never
\* suspended, nor the number of a postpaid workspace at its limit.
Decision(e, now) ==
  IF e.fee = 0 THEN "advancing"
  ELSE IF <<e.item, now>> \in refs THEN Phase(e.item)
  ELSE IF CanSpend(terms, balance, e.fee) THEN "charging"
  ELSE IF e.item = Plan \/ terms.postpaid THEN Phase(e.item)
  ELSE "suspending"
Decide(j, e) ==
  /\ job[j].pc \in {"numbers", "plans"} /\ e \in job[j].due
  /\ Turns(j, Decision(e, job[j].now), e, job[j].due \ {e})
  /\ UNCHANGED <<today, balance, terms, planFee, standing, anchor, refs, billed, moves, deaths>>

\* Mutants of Charge: the anchor moves on from today; the reference is not
\* looked up.
ChargeFromToday(j) ==
  LET i == job[j].item  ref == <<i, job[j].now>> IN
  /\ job[j].pc = "charging"
  /\ ref \in refs \/ CanSpend(terms, balance, job[j].fee)
  /\ anchor' = [anchor EXCEPT ![i] = job[j].now + Period]
  /\ IF ref \in refs THEN UNCHANGED <<balance, refs, billed>>
     ELSE /\ balance' = balance - job[j].fee
          /\ refs' = refs \cup {ref}
          /\ billed' = [billed EXCEPT ![i][job[j].cycle] = @ + 1]
  /\ job' = [job EXCEPT ![j].pc = Phase(i)]
  /\ UNCHANGED <<today, terms, planFee, standing, moves, deaths>>
ChargeAgain(j) ==
  LET i == job[j].item IN
  /\ job[j].pc = "charging" /\ CanSpend(terms, balance, job[j].fee)
  /\ anchor' = [anchor EXCEPT ![i] = job[j].cycle + Period]
  /\ balance' = balance - job[j].fee
  /\ refs' = refs \cup {<<i, job[j].now>>}
  /\ billed' = [billed EXCEPT ![i][job[j].cycle] = @ + 1]
  /\ job' = [job EXCEPT ![j].pc = Phase(i)]
  /\ UNCHANGED <<today, terms, planFee, standing, moves, deaths>>

\* debitInTransaction, under the wallet lock, together with the anchor, which
\* moves on from where the list saw it; a repeated reference moves no money.
Charge(j) ==
  LET i == job[j].item  ref == <<i, job[j].now>> IN
  /\ job[j].pc = "charging"
  /\ ref \in refs \/ CanSpend(terms, balance, job[j].fee)
  /\ anchor' = [anchor EXCEPT ![i] = job[j].cycle + Period]
  /\ IF ref \in refs THEN UNCHANGED <<balance, refs, billed>>
     ELSE /\ balance' = balance - job[j].fee
          /\ refs' = refs \cup {ref}
          /\ billed' = [billed EXCEPT ![i][job[j].cycle] = @ + 1]
  /\ job' = [job EXCEPT ![j].pc = Phase(i)]
  /\ UNCHANGED <<today, terms, planFee, standing, moves, deaths>>

\* The debit was refused after all: a plan stays due, a number is suspended,
\* postpaid or not.
Refused(j) ==
  LET i == job[j].item IN
  /\ job[j].pc = "charging"
  /\ <<i, job[j].now>> \notin refs /\ ~CanSpend(terms, balance, job[j].fee)
  /\ job' = [job EXCEPT ![j].pc = IF i = Plan THEN "plans" ELSE "suspending"]
  /\ UNCHANGED <<today, balance, terms, planFee, standing, anchor, refs, billed, moves, deaths>>

Suspend(j) ==
  /\ job[j].pc = "suspending"
  /\ standing' = [standing EXCEPT ![job[j].item] = "suspended"]
  /\ job' = [job EXCEPT ![j].pc = "numbers"]
  /\ UNCHANGED <<today, balance, terms, planFee, anchor, refs, billed, moves, deaths>>

\* A plan that costs nothing only moves on.
Advance(j) ==
  /\ job[j].pc = "advancing"
  /\ anchor' = [anchor EXCEPT ![job[j].item] = job[j].cycle + Period]
  /\ job' = [job EXCEPT ![j].pc = "plans"]
  /\ UNCHANGED <<today, balance, terms, planFee, standing, refs, billed, moves, deaths>>

-----------------------------------------------------------------------------
Moves == moves < MaxMoves /\ moves' = moves + 1
Use ==
  /\ Moves /\ CanSpend(terms, balance, 1) /\ balance' = balance - 1
  /\ UNCHANGED <<today, terms, planFee, standing, anchor, refs, job, billed, deaths>>
TopUp(amount) ==
  /\ Moves /\ balance' = balance + amount
  /\ UNCHANGED <<today, terms, planFee, standing, anchor, refs, job, billed, deaths>>
SetTerms(postpaid) ==
  /\ Moves /\ postpaid # terms.postpaid
  /\ terms' = [terms EXCEPT !.postpaid = postpaid,
                              !.limit = IF postpaid THEN Limit ELSE 0]
  /\ UNCHANGED <<today, balance, planFee, standing, anchor, refs, job, billed, deaths>>

ChangePlan(fee) ==
  /\ Moves /\ planFee' = fee
  /\ UNCHANGED <<today, balance, terms, standing, anchor, refs, job, billed, deaths>>

DayPasses ==
  /\ today < MaxDays /\ today' = today + 1
  /\ \A j \in Jobs : job[j].pc = "idle" \/ (SpanMidnight /\ job[j].now = today)
  /\ UNCHANGED <<balance, terms, planFee, standing, anchor, refs, job, billed, moves, deaths>>
RunDies(j) ==
  /\ job[j].pc # "idle" /\ deaths < MaxDeaths
  /\ deaths' = deaths + 1
  /\ job' = [job EXCEPT ![j] = IdleRun]
  /\ UNCHANGED <<today, balance, terms, planFee, standing, anchor, refs, billed, moves>>

Runs(j) ==
  \/ ListPlans(j) \/ EndRun(j) \/ Charge(j) \/ Refused(j) \/ Suspend(j) \/ Advance(j)
  \/ \E e \in job[j].due : Decide(j, e)
BillingNext ==
  \/ \E j \in Jobs : StartRun(j) \/ Runs(j) \/ RunDies(j)
  \/ Use \/ (\E amount \in 1 .. 3 : TopUp(amount))
  \/ (\E postpaid \in BOOLEAN : SetTerms(postpaid))
  \/ (\E fee \in PlanFees : ChangePlan(fee))
  \/ DayPasses

BillingSpec == BillingInit /\ [][BillingNext]_billingVars

(* The scheduler calls again and again, days pass, and a run goes on. *)
FairBillingSpec ==
  /\ BillingSpec /\ SF_billingVars(DayPasses)
  /\ \A j \in Jobs : SF_billingVars(StartRun(j)) /\ WF_billingVars(Runs(j))

-----------------------------------------------------------------------------
Entries == [item : Items, cycle : Days, fee : PlanFees \cup {NumberFee}]
RunStates ==
  [pc : {"idle", "numbers", "plans", "charging", "suspending", "advancing"},
   now : Days, item : Items, cycle : Days, fee : Nat, due : SUBSET Entries]

BillingTypeOK ==
  /\ today \in Days /\ balance \in -Limit .. 3 * MaxMoves
  /\ terms \in [postpaid : BOOLEAN, limit : {0, Limit}, suspended : {FALSE}]
  /\ standing \in [Subscriptions -> {"active", "suspended"}]
  /\ anchor \in [Items -> Nat]
  /\ refs \subseteq Items \X Days
  /\ job \in [Jobs -> RunStates]
  /\ planFee \in PlanFees
  /\ billed \in [Items -> [Days -> Nat]]
  /\ moves \in 0 .. MaxMoves /\ deaths \in 0 .. MaxDeaths

(* billing.ts:3-4, "Idempotent per cycle (the ledger reference includes the
   billing date)": overlapping runs of one day charge a cycle of a number
   once, through crashes and late runs.  Runs on both sides of midnight charge
   it twice. *)
ChargedOncePerCycle == \A n \in Subscriptions, c \in Days : billed[n][c] <= 1

(* Days, anchors and ledger references stay consistent, and a cycle is charged
   once (billing.ts:3-4), as overlapping runs of a day leave them. *)
CyclesOK == BillingTypeOK /\ ChargedOncePerCycle

(* No cycle of a number is skipped and none is charged ahead: the cycles
   charged are exactly those before the anchor, however late a run finds them
   due, and whatever it does again after a crash. *)
NoCycleSkipped ==
  \A i \in Subscriptions :
    \A c \in Days : billed[i][c] > 0 <=>
      c >= FirstAnchor /\ c < anchor[i] /\ (c - FirstAnchor) % Period = 0

(* billing.ts:185-186: an unpaid plan keeps its anchor and "a later wallet
   credit allows the next run to collect this fee".  A plan does not stay due
   for ever in front of a wallet that covers it; one cycle a day is collected. *)
PlanIsCollected ==
  []<>(\/ anchor[Plan] > today \/ <<Plan, today>> \in refs
       \/ ~CanSpend(terms, balance, planFee))
==============================================================================
