------------------------------ MODULE Invoicing ------------------------------
(***************************************************************************)
(* The invoices of one postpaid workspace (server/utils/invoicing.ts), the *)
(* daily job that keeps them and chases them (server/api/cron/billing), and *)
(* what a payment settles (credit in server/utils/wallet.ts).  The negative *)
(* balance is the debt.  Nothing here takes a lock: usage, payments and the *)
(* job interleave between any two statements, and may die there.  Time is   *)
(* counted in days; whatever starts on a day ends on it.                    *)
(***************************************************************************)
EXTENDS Integers, FiniteSets

CONSTANTS
  Jobs,        \* runs of the daily job that may overlap
  Payers,      \* payments being credited
  Terms,       \* paymentTermsDays
  Limit,       \* creditLimitMinor
  Daily,       \* TRUE when the scheduler never misses a day
  MaxCharges, MaxPays, MaxCrashes,
  MaxInvoices  \* bound on the invoices ever issued

ASSUME InvoicingAssumption ==
  /\ Terms \in Nat \ {0} /\ Limit \in Nat \ {0} /\ Daily \in BOOLEAN
  /\ {MaxCharges, MaxPays, MaxCrashes, MaxInvoices} \subseteq Nat
  /\ Jobs \cap Payers = {}

VARIABLES
  balance, suspended,
  invoice,   \* number -> status, amount, days left, last reminder
  job,       \* what each run of the daily job is doing, and what it has read
  payer,     \* what each payment still has to settle
  ran,       \* the daily job has run today
  settled,   \* history: invoices that payments marked since dunning listed
  charges, pays, crashes

records == <<settled, charges, pays, crashes>>
vars == <<balance, suspended, invoice, job, payer, ran, records>>

Numbers == 1 .. MaxInvoices
Never == -1
Owed == IF balance < 0 THEN -balance ELSE 0
Open == {n \in Numbers : invoice[n].status = "open"}

NoInvoice == [status |-> "none", amount |-> 0, left |-> 0, reminded |-> Never]
IdleJob == [pc |-> "idle", owed |-> 0, clear |-> FALSE, seen |-> 0,
            amount |-> 0, left |-> 0, list |-> {}, reminded |-> Never]
IdlePayer == [pc |-> "idle", list |-> {}]

\* What a run has read is forgotten with the step that used it.
Goes(j, pc) ==
  job' = [job EXCEPT ![j] = [IdleJob EXCEPT !.pc = pc, !.list = job[j].list]]

Init ==
  /\ balance = 0 /\ suspended = FALSE
  /\ invoice = [n \in Numbers |-> NoInvoice]
  /\ job = [j \in Jobs |-> IdleJob]
  /\ payer = [p \in Payers |-> IdlePayer]
  /\ ran = FALSE /\ settled = {}
  /\ charges = 0 /\ pays = 0 /\ crashes = 0

-----------------------------------------------------------------------------
\* Usage debits the wallet, when canSpend allows it.
Charge ==
  /\ charges < MaxCharges
  /\ ~suspended /\ balance - 1 >= -Limit
  /\ balance' = balance - 1 /\ charges' = charges + 1
  /\ UNCHANGED <<suspended, invoice, job, payer, ran, settled, pays, crashes>>

\* credit: the movement commits; when it clears the debt, three statements
\* outside its transaction settle what it paid.
Pay(p, amount) ==
  /\ payer[p].pc = "idle" /\ pays < MaxPays
  /\ balance' = balance + amount /\ pays' = pays + 1
  /\ payer' = IF balance + amount >= 0
              THEN [payer EXCEPT ![p].pc = "lifting"] ELSE payer
  /\ UNCHANGED <<suspended, invoice, job, ran, settled, charges, crashes>>
LiftSuspension(p) ==
  /\ payer[p].pc = "lifting"
  /\ suspended' = FALSE
  /\ payer' = [payer EXCEPT ![p].pc = "listing"]
  /\ UNCHANGED <<balance, invoice, job, ran, records>>
ListToSettle(p) ==
  /\ payer[p].pc = "listing"
  /\ payer' = [payer EXCEPT ![p] = [pc |-> "marking", list |-> Open]]
  /\ UNCHANGED <<balance, suspended, invoice, job, ran, records>>
MarkPaid(p) ==
  /\ payer[p].pc = "marking"
  /\ invoice' = [n \in Numbers |-> IF n \in payer[p].list
                   THEN [invoice[n] EXCEPT !.status = "paid"] ELSE invoice[n]]
  /\ payer' = [payer EXCEPT ![p] = IdlePayer]
  /\ settled' = settled \cup payer[p].list
  /\ UNCHANGED <<balance, suspended, job, ran, charges, pays, crashes>>

-----------------------------------------------------------------------------
\* runInvoiceSync: the balance, the open invoice, and a write by its id.
StartRun(j) ==
  /\ job[j].pc = "idle"
  /\ ran' = TRUE
  /\ job' = [job EXCEPT ![j] = [IdleJob EXCEPT !.pc = "reading",
                                  !.owed = Owed, !.clear = balance >= 0]]
  /\ UNCHANGED <<balance, suspended, invoice, payer, records>>

\* Mutant of ReadOpen: an invoice past its due date is not found.
ReadOpenNotDue(j) ==
  LET current == {n \in Open : invoice[n].left > 0} IN
  /\ job[j].pc = "reading"
  /\ \/ \E n \in current :
          job' = [job EXCEPT ![j].pc = "patching", ![j].seen = n,
                    ![j].amount = invoice[n].amount, ![j].left = invoice[n].left]
     \/ /\ current = {}
        /\ IF job[j].owed > 0
           THEN job' = [job EXCEPT ![j].pc = "numbering"]
           ELSE Goes(j, "listing")
  /\ UNCHANGED <<balance, suspended, invoice, payer, ran, records>>

ReadOpen(j) ==
  /\ job[j].pc = "reading"
  /\ \/ \E n \in Open :   \* the latest
          /\ \A m \in Open : m <= n
          /\ job' = [job EXCEPT ![j].pc = "patching", ![j].seen = n,
                       ![j].amount = invoice[n].amount, ![j].left = invoice[n].left]
     \/ /\ Open = {}
        /\ IF job[j].owed > 0
           THEN job' = [job EXCEPT ![j].pc = "numbering"]
           ELSE Goes(j, "listing")
  /\ UNCHANGED <<balance, suspended, invoice, payer, ran, records>>

\* Mutants of Patched: every past-due invoice gets fresh terms; the amount stays
\* as it was issued.
PatchedWithTerms(i, k) ==
  IF k.owed = 0
  THEN IF k.clear THEN [i EXCEPT !.status = "paid"] ELSE i
  ELSE IF k.left = 0
  THEN [i EXCEPT !.amount = k.owed, !.left = Terms, !.reminded = Never]
  ELSE [i EXCEPT !.amount = k.owed]
PatchedNever(i, k) ==
  IF k.owed = 0 /\ k.clear THEN [i EXCEPT !.status = "paid"] ELSE i

\* Nothing owed: the invoice lying around is settled.  Otherwise its amount
\* follows the debt, and one that grew past its due date gets fresh terms; its
\* last reminder is then too far from the new due date to count as sent.
Patched(i, k) ==
  IF k.owed = 0
  THEN IF k.clear THEN [i EXCEPT !.status = "paid"] ELSE i
  ELSE IF k.owed > k.amount /\ k.left = 0
  THEN [i EXCEPT !.amount = k.owed, !.left = Terms,
                 !.reminded = IF i.left = 0 THEN Never ELSE @]
  ELSE [i EXCEPT !.amount = IF k.owed = k.amount THEN @ ELSE k.owed]
PatchInvoice(j) ==
  /\ job[j].pc = "patching"
  /\ invoice' = [invoice EXCEPT ![job[j].seen] = Patched(@, job[j])]
  /\ Goes(j, "listing")
  /\ UNCHANGED <<balance, suspended, payer, ran, records>>

\* The number is count(*) + 1, and unique: the loser of a race throws.
CountInvoices(j) ==
  LET count == Cardinality({n \in Numbers : invoice[n].status # "none"}) IN
  /\ job[j].pc = "numbering" /\ count < MaxInvoices
  /\ job' = [job EXCEPT ![j].pc = "issuing", ![j].seen = count + 1]
  /\ UNCHANGED <<balance, suspended, invoice, payer, ran, records>>
IssueInvoice(j) ==
  /\ job[j].pc = "issuing"
  /\ invoice' = [invoice EXCEPT ![job[j].seen] =
       IF @.status # "none" THEN @
       ELSE [NoInvoice EXCEPT !.status = "open", !.amount = job[j].owed,
                              !.left = Terms]]
  /\ Goes(j, "listing")
  /\ UNCHANGED <<balance, suspended, payer, ran, records>>

-----------------------------------------------------------------------------
\* Mutant of Listed: invoices that were paid are listed too.
ListedPaidToo ==
  {[number |-> n, left |-> invoice[n].left, reminded |-> invoice[n].reminded] :
     n \in {m \in Numbers : invoice[m].status # "none"}}

\* runDunning: every open invoice as it was when listed.
Listed == {[number |-> n, left |-> invoice[n].left,
            reminded |-> invoice[n].reminded] : n \in Open}
ListOpen(j) ==
  /\ job[j].pc = "listing"
  /\ job' = [job EXCEPT ![j] = [IdleJob EXCEPT !.pc = "chasing", !.list = Listed]]
  /\ settled' = {}
  /\ UNCHANGED <<balance, suspended, invoice, payer, ran, charges, pays, crashes>>

\* The next invoice, with the tenant read beside it, decides what to write.
Verdict(i) ==
  CASE i.left = 0 -> IF suspended THEN "chasing" ELSE "suspending"
    [] i.left \in {1, 3} /\ i.reminded # i.left -> "reminding"
    [] OTHER -> "chasing"
Chase(j, i) ==
  /\ job[j].pc = "chasing" /\ i \in job[j].list
  /\ job' = [job EXCEPT ![j] = [IdleJob EXCEPT !.pc = Verdict(i),
               !.list = job[j].list \ {i}, !.seen = i.number, !.left = i.left]]
  /\ UNCHANGED <<balance, suspended, invoice, payer, ran, records>>
Suspend(j) ==
  /\ job[j].pc = "suspending"
  /\ suspended' = TRUE
  /\ Goes(j, "chasing")
  /\ UNCHANGED <<balance, invoice, payer, ran, records>>
Remind(j) ==
  LET n == job[j].seen IN
  /\ job[j].pc = "reminding"
  /\ invoice' = [invoice EXCEPT ![n].reminded = invoice[n].left]
  /\ Goes(j, "chasing")
  /\ UNCHANGED <<balance, suspended, payer, ran, records>>
EndRun(j) ==
  /\ job[j].pc = "chasing" /\ job[j].list = {}
  /\ job' = [job EXCEPT ![j] = IdleJob]
  /\ UNCHANGED <<balance, suspended, invoice, payer, ran, records>>

-----------------------------------------------------------------------------
DayPasses ==
  /\ \A j \in Jobs : job[j].pc = "idle"
  /\ \A p \in Payers : payer[p].pc = "idle"
  /\ Daily => ran
  /\ ran' = FALSE
  /\ invoice' = [n \in Numbers |-> [invoice[n] EXCEPT
                   !.left = IF @ = 0 THEN 0 ELSE @ - 1]]
  /\ UNCHANGED <<balance, suspended, job, payer, records>>

Crash ==
  /\ crashes < MaxCrashes /\ crashes' = crashes + 1
  /\ \/ \E j \in Jobs : /\ job[j].pc # "idle"
                        /\ job' = [job EXCEPT ![j] = IdleJob] /\ UNCHANGED payer
     \/ \E p \in Payers : /\ payer[p].pc # "idle"
                          /\ payer' = [payer EXCEPT ![p] = IdlePayer] /\ UNCHANGED job
  /\ UNCHANGED <<balance, suspended, invoice, ran, settled, charges, pays>>

Settles(p) == LiftSuspension(p) \/ ListToSettle(p) \/ MarkPaid(p)
Runs(j) ==
  \/ ReadOpen(j) \/ PatchInvoice(j) \/ CountInvoices(j) \/ IssueInvoice(j)
  \/ ListOpen(j) \/ (\E i \in job[j].list : Chase(j, i))
  \/ Suspend(j) \/ Remind(j) \/ EndRun(j)

Next ==
  \/ Charge \/ DayPasses \/ Crash
  \/ \E p \in Payers : (\E a \in 1 .. Limit : Pay(p, a)) \/ Settles(p)
  \/ \E j \in Jobs : StartRun(j) \/ Runs(j)

Spec == Init /\ [][Next]_vars

(* The clock moves, what has started goes on, and the scheduler calls the job
   again and again.  Nobody need use the service, or pay. *)
FairSpec ==
  /\ Spec
  /\ SF_vars(DayPasses)
  /\ \A j \in Jobs : WF_vars(Runs(j)) /\ SF_vars(StartRun(j))
  /\ \A p \in Payers : WF_vars(Settles(p))

-----------------------------------------------------------------------------
Invoices == [status : {"none", "open", "paid"}, amount : 0 .. Limit,
             left : 0 .. Terms, reminded : Never .. Terms]
Entries == [number : Numbers, left : 0 .. Terms, reminded : Never .. Terms]
JobStates ==
  [pc : {"idle", "reading", "patching", "numbering", "issuing",
         "listing", "chasing", "suspending", "reminding"},
   owed : 0 .. Limit, clear : BOOLEAN, seen : 0 .. MaxInvoices,
   amount : 0 .. Limit, left : 0 .. Terms, list : SUBSET Entries,
   reminded : {Never}]
PayerStates == [pc : {"idle", "lifting", "listing", "marking"}, list : SUBSET Numbers]

TypeOK ==
  /\ balance \in -Limit .. MaxPays * Limit /\ suspended \in BOOLEAN
  /\ invoice \in [Numbers -> Invoices]
  /\ job \in [Jobs -> JobStates] /\ payer \in [Payers -> PayerStates]
  /\ ran \in BOOLEAN /\ settled \subseteq Numbers
  /\ charges \in 0 .. MaxCharges /\ pays \in 0 .. MaxPays
  /\ crashes \in 0 .. MaxCrashes

(* invoicing.ts:221, "At most one open invoice per tenant": it holds as long
   as the daily job does not overlap with itself, whatever is paid or used
   meanwhile.  Two overlapping runs issue two. *)
AtMostOneOpen == Cardinality(Open) <= 1

(* The invoices of a workspace, as days missed, crashes and payments leave
   them: well formed, and at most one of them open (invoicing.ts:221). *)
InvoicesOK == TypeOK /\ AtMostOneOpen

(* A workspace is suspended only for an invoice that really is past due,
   although dunning decides on a list read earlier: fresh terms given by the
   sync (invoicing.ts:241-251) are never overtaken, and the invoice is open, or
   a payment has settled it since it was listed. *)
SuspendedOnlyPastDue ==
  [][~suspended /\ suspended' =>
       \E n \in Numbers : /\ invoice[n].left = 0
                          /\ invoice[n].status = "open" \/ n \in settled]_vars

(* "Collections still works": once usage stops, a workspace that stays in debt
   is suspended, through every patch, roll, race and crash before that. *)
DebtIsCollected == balance < 0 ~> (suspended \/ balance >= 0)

(* The open invoice "always states that debt" (invoicing.ts:197-199): once
   usage and payments stop, some open invoice carries exactly what is owed. *)
DebtIsInvoiced ==
  <>[](balance < 0 => \E n \in Open : invoice[n].amount = Owed)
=============================================================================
