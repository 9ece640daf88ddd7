--------------------------- MODULE InvoicingProofs ---------------------------
(***************************************************************************)
(* Invoices and suspensions for any terms, limit, payments, usage, missed  *)
(* days and crashes, while the daily job does not overlap with itself.     *)
(*                                                                         *)
(* Nothing here takes a lock; the argument is about what a run of the job  *)
(* has read.  Whoever is about to issue found no invoice open, and none    *)
(* has opened since, for payments only close them.  The list that dunning  *)
(* works from stays true of the days left, for only the job itself gives   *)
(* fresh terms, and no day passes while a job is at work.                  *)
(***************************************************************************)
EXTENDS Invoicing, FiniteSetTheorems, TLAPS

\* The daily job does not overlap with itself.
OneJob == \A j, k \in Jobs : j = k

\* The types, in the parts that an action changes together.  Money comes with
\* the payments.
FundsTyped == /\ balance \in Int /\ -Limit <= balance /\ balance <= pays * Limit
              /\ pays \in Nat /\ pays <= MaxPays
FlagsTyped == suspended \in BOOLEAN /\ ran \in BOOLEAN /\ settled \subseteq Numbers
CountsTyped == charges \in 0 .. MaxCharges /\ crashes \in 0 .. MaxCrashes
InvoicesTyped == invoice \in [Numbers -> Invoices]
JobsTyped == job \in [Jobs -> JobStates]
PayersTyped == payer \in [Payers -> PayerStates]
AllTyped == /\ FundsTyped /\ FlagsTyped /\ CountsTyped
            /\ InvoicesTyped /\ JobsTyped /\ PayersTyped

NoneOpen == \A n \in Numbers : invoice[n].status # "open"
OneOpen == \A m, n \in Numbers :
             invoice[m].status = "open" /\ invoice[n].status = "open" => m = n

\* It was open when dunning listed it.
Behind(n) == invoice[n].status = "open" \/ n \in settled

\* What a run knows fits the invoices: whoever is about to issue found none open,
\* and a list, or a verdict drawn from it, is as it was read.
Fits(run) ==
  /\ run.pc \in {"idle", "reading", "patching", "numbering", "issuing", "listing"} =>
       run.list = {}
  /\ run.pc \in {"numbering", "issuing"} => NoneOpen
  /\ run.pc \in {"patching", "issuing", "suspending", "reminding"} => run.seen \in Numbers
  /\ run.pc \in {"patching", "suspending", "reminding"} => invoice[run.seen].status # "none"
  /\ run.pc = "suspending" => invoice[run.seen].left = 0 /\ Behind(run.seen)
  /\ \A i \in run.list : /\ i.number \in Numbers /\ invoice[i.number].status # "none"
                         /\ invoice[i.number].left = i.left /\ Behind(i.number)
JobInv == \A j \in Jobs : Fits(job[j])

\* A payment settles what was once issued.
PayerInv == \A p \in Payers : \A n \in payer[p].list : invoice[n].status # "none"

InvoicingInv == AllTyped /\ JobInv /\ PayerInv /\ OneOpen

-----------------------------------------------------------------------------
LEMMA Bounds ==
  /\ Limit \in Nat \ {0} /\ Terms \in Nat \ {0} /\ MaxPays \in Nat /\ MaxCharges \in Nat
  /\ MaxCrashes \in Nat /\ MaxInvoices \in Nat
  BY InvoicingAssumption

LEMMA NumbersAreSeen == Numbers \subseteq 0 .. MaxInvoices
  BY Bounds DEF Numbers

LEMMA Product ==
  ASSUME NEW L \in Nat, NEW p \in Nat
  PROVE  p * L \in Nat /\ (p + 1) * L = p * L + L
  OBVIOUS

LEMMA ProductGrows ==
  ASSUME NEW L \in Nat, NEW p \in Nat, NEW q \in Nat, p <= q
  PROVE  p * L <= q * L
  OBVIOUS

LEMMA Types == AllTyped => TypeOK
<1> SUFFICES ASSUME AllTyped PROVE TypeOK
  OBVIOUS
<1>1. pays * Limit \in Nat /\ MaxPays * Limit \in Nat /\ pays * Limit <= MaxPays * Limit
  BY Bounds, Product, ProductGrows DEF AllTyped, FundsTyped
<1>2. balance \in -Limit .. MaxPays * Limit /\ pays \in 0 .. MaxPays
  BY <1>1, Bounds DEF AllTyped, FundsTyped
<1>3. QED BY <1>2 DEF AllTyped, FlagsTyped, CountsTyped, InvoicesTyped, JobsTyped,
                      PayersTyped, TypeOK

LEMMA OwedIsTyped == ASSUME FundsTyped PROVE Owed \in 0 .. Limit
  BY Bounds DEF FundsTyped, Owed

LEMMA IdleIsTyped == IdleJob \in JobStates /\ IdlePayer \in PayerStates
  BY Bounds DEF IdleJob, JobStates, IdlePayer, PayerStates

LEMMA BlankIsTyped == NoInvoice \in Invoices
  BY Bounds DEF NoInvoice, Invoices, Never

LEMMA InitInvoicing == Init => InvoicingInv
<1> SUFFICES ASSUME Init PROVE InvoicingInv
  OBVIOUS
<1>1. NoInvoice \in Invoices
  BY BlankIsTyped
<1>2. FundsTyped
  BY Bounds, Product DEF Init, FundsTyped
<1>3. AllTyped
  <2>1. CountsTyped
    BY Bounds DEF Init, CountsTyped
  <2>2. FlagsTyped
    BY Zenon DEF Init, FlagsTyped
  <2>3. InvoicesTyped /\ JobsTyped /\ PayersTyped
    BY <1>1, IdleIsTyped DEF Init, InvoicesTyped, JobsTyped, PayersTyped
  <2>4. QED BY <1>2, <2>1, <2>2, <2>3 DEF AllTyped
<1>4. Fits(IdleJob)
  BY DEF Fits, IdleJob
<1>5. JobInv
  BY <1>4 DEF JobInv, Init
<1>6. PayerInv /\ OneOpen
  BY DEF Init, PayerInv, OneOpen, IdlePayer, NoInvoice
<1>7. QED BY <1>3, <1>5, <1>6 DEF InvoicingInv

\* What a run knows stays true when invoices are only settled.
LEMMA FitsStays ==
  ASSUME NEW run, Fits(run), NoneOpen => NoneOpen',
         \A n \in Numbers : /\ invoice'[n].left = invoice[n].left
                            /\ invoice[n].status # "none" => invoice'[n].status # "none"
                            /\ Behind(n) => Behind(n)'
  PROVE  Fits(run)'
  BY DEF Fits

\* A run goes on and leaves the invoices alone.
LEMMA JobGoesOn ==
  ASSUME InvoicingInv, NEW j \in Jobs, NEW r \in JobStates, Fits(r),
         job' = [job EXCEPT ![j] = r],
         UNCHANGED <<balance, invoice, payer, settled, charges, pays>>,
         suspended' \in BOOLEAN, ran' \in BOOLEAN, crashes' \in 0 .. MaxCrashes
  PROVE  InvoicingInv'
<1> USE DEF InvoicingInv
<1>1. AllTyped'
  BY DEF AllTyped, FundsTyped, FlagsTyped, CountsTyped, InvoicesTyped, JobsTyped, PayersTyped
<1>2. \A k \in Jobs : job'[k] = IF k = j THEN r ELSE job[k]
  BY DEF AllTyped, JobsTyped
<1>3. NoneOpen => NoneOpen'
  BY DEF NoneOpen
<1>4. ASSUME NEW k \in Jobs PROVE Fits(job[k])'
  <2>1. PICK run : run = IF k = j THEN r ELSE job[k]
    OBVIOUS
  <2>2. Fits(run)
    BY <2>1 DEF JobInv
  <2>3. Fits(run)'
    BY <1>3, <2>2, FitsStays DEF Behind
  <2>4. QED BY <1>2, <2>1, <2>3
<1>5. JobInv'
  BY <1>4 DEF JobInv
<1>6. PayerInv' /\ OneOpen'
  BY DEF PayerInv, OneOpen
<1>7. QED BY <1>1, <1>5, <1>6

LEMMA StartRunInv == ASSUME InvoicingInv, NEW j \in Jobs, StartRun(j) PROVE InvoicingInv'
<1> PICK owed \in 0 .. Limit : owed = Owed
  BY OwedIsTyped DEF InvoicingInv, AllTyped
<1>1. PICK clear \in BOOLEAN : clear = (balance >= 0)
  <2>1. (balance >= 0) \in BOOLEAN
    BY DEF InvoicingInv
  <2>2. QED BY ONLY <2>1, Zenon
<1>2. PICK r \in JobStates : r = [IdleJob EXCEPT !.pc = "reading", !.owed = owed, !.clear = clear]
  BY IdleIsTyped DEF JobStates
<1>3. Fits(r)
  BY <1>2 DEF Fits, IdleJob
<1>4. job' = [job EXCEPT ![j] = r]
  BY <1>1, <1>2 DEF StartRun
<1>5. QED BY <1>3, <1>4, JobGoesOn DEF StartRun, records, InvoicingInv, AllTyped, FlagsTyped,
             CountsTyped

LEMMA ReadOpenInv == ASSUME InvoicingInv, NEW j \in Jobs, ReadOpen(j) PROVE InvoicingInv'
<1>1. PICK o \in JobStates : o = job[j] /\ Fits(o)
  BY DEF InvoicingInv, AllTyped, JobsTyped, JobInv
<1>2. o.pc = "reading"
  BY ONLY <1>1, ReadOpen(j), Zenon DEF ReadOpen
<1>3. o.list = {}
  BY <1>1, <1>2 DEF Fits
<1>4. /\ UNCHANGED <<balance, suspended, invoice, payer, ran, settled, charges, pays, crashes>>
      /\ suspended' \in BOOLEAN /\ ran' \in BOOLEAN /\ crashes' \in 0 .. MaxCrashes
  <2>1. UNCHANGED <<balance, suspended, invoice, payer, ran, records>>
    BY ONLY ReadOpen(j), Zenon DEF ReadOpen
  <2>2. QED BY <2>1 DEF records, InvoicingInv, AllTyped, FlagsTyped, CountsTyped
<1>5. CASE \E n \in Open : job' = [job EXCEPT ![j].pc = "patching", ![j].seen = n,
                 ![j].amount = invoice[n].amount, ![j].left = invoice[n].left]
  <2>0. PICK n \in Open : job' = [job EXCEPT ![j].pc = "patching", ![j].seen = n,
                            ![j].amount = invoice[n].amount, ![j].left = invoice[n].left]
    BY ONLY <1>5, Zenon
  <2>1. n \in Numbers /\ invoice[n].status = "open"
    BY DEF Open
  <2>2. invoice[n].amount \in 0 .. Limit /\ invoice[n].left \in 0 .. Terms
    BY <2>1 DEF InvoicingInv, AllTyped, InvoicesTyped, Invoices
  <2>3. PICK r \in JobStates :
          r = [o EXCEPT !.pc = "patching", !.seen = n,
                        !.amount = invoice[n].amount, !.left = invoice[n].left]
    BY <2>1, <2>2, NumbersAreSeen DEF JobStates
  <2>4. r.pc = "patching" /\ r.seen = n /\ r.list = {}
    BY <1>3, <2>3 DEF JobStates
  <2>5. Fits(r)
    BY <2>1, <2>4 DEF Fits
  <2>6. job' = [job EXCEPT ![j] = r]
    BY <1>1, <2>0, <2>3 DEF InvoicingInv
  <2>7. QED BY <2>5, <2>6, JobGoesOn, <1>4
<1>6. CASE Open = {} /\ job' = [job EXCEPT ![j].pc = "numbering"]
  <2>1. NoneOpen
    BY <1>6 DEF NoneOpen, Open
  <2>2. PICK r \in JobStates : r = [o EXCEPT !.pc = "numbering"]
    BY DEF JobStates
  <2>3. r.pc = "numbering" /\ r.list = {}
    BY <1>3, <2>2 DEF JobStates
  <2>4. Fits(r)
    BY <2>1, <2>3 DEF Fits
  <2>5. job' = [job EXCEPT ![j] = r]
    BY <1>1, <1>6, <2>2 DEF InvoicingInv
  <2>6. QED BY <2>4, <2>5, JobGoesOn, <1>4
<1>7. CASE Goes(j, "listing")
  <2>1. PICK r \in JobStates : r = [IdleJob EXCEPT !.pc = "listing", !.list = o.list]
    BY IdleIsTyped DEF JobStates
  <2>2. r.pc = "listing" /\ r.list = {}
    BY <1>3, <2>1 DEF IdleJob
  <2>3. Fits(r)
    BY <2>2 DEF Fits
  <2>4. job' = [job EXCEPT ![j] = r]
    BY <1>1, <1>7, <2>1 DEF Goes
  <2>5. QED BY <2>3, <2>4, JobGoesOn, <1>4
<1>8. QED BY ONLY <1>5, <1>6, <1>7, ReadOpen(j), Zenon DEF ReadOpen

LEMMA CountInvoicesInv ==
  ASSUME InvoicingInv, NEW j \in Jobs, CountInvoices(j) PROVE InvoicingInv'
<1> DEFINE count == Cardinality({n \in Numbers : invoice[n].status # "none"})
<1>1. count \in Nat
  <2>1. IsFiniteSet(Numbers)
    BY Bounds, FS_Interval DEF Numbers
  <2>2. {n \in Numbers : invoice[n].status # "none"} \subseteq Numbers
    OBVIOUS
  <2>3. QED BY <2>1, <2>2, FS_Subset, FS_CardinalityType
<1>2. /\ job[j].pc = "numbering" /\ count < MaxInvoices
      /\ job' = [job EXCEPT ![j].pc = "issuing", ![j].seen = count + 1]
      /\ UNCHANGED <<balance, suspended, invoice, payer, ran, records>>
  BY DEF CountInvoices
<1> HIDE DEF count
<1>3. PICK next \in Numbers : next = count + 1
  BY <1>1, <1>2, Bounds DEF Numbers
<1>4. PICK o \in JobStates : o = job[j] /\ Fits(o)
  BY DEF InvoicingInv, AllTyped, JobsTyped, JobInv
<1>5. PICK r \in JobStates : r = [o EXCEPT !.pc = "issuing", !.seen = next]
  BY NumbersAreSeen DEF JobStates
<1>6. r.pc = "issuing" /\ r.seen = next /\ r.list = o.list
  BY <1>5 DEF JobStates
<1>7. Fits(r)
  BY <1>2, <1>4, <1>6 DEF Fits
<1>8. job' = [job EXCEPT ![j] = r]
  BY <1>2, <1>3, <1>4, <1>5 DEF InvoicingInv
<1>9. QED BY <1>2, <1>7, <1>8, JobGoesOn DEF records, InvoicingInv, AllTyped, FlagsTyped,
             CountsTyped

LEMMA ChaseInv ==
  ASSUME InvoicingInv, NEW j \in Jobs, NEW i \in job[j].list, Chase(j, i) PROVE InvoicingInv'
<1>1. PICK o \in JobStates : o = job[j] /\ Fits(o)
  BY DEF InvoicingInv, AllTyped, JobsTyped, JobInv
<1>2. /\ i \in Entries /\ i \in o.list /\ i.number \in Numbers /\ i.left \in 0 .. Terms
      /\ invoice[i.number].status # "none" /\ invoice[i.number].left = i.left
  BY <1>1 DEF JobStates, Entries, Fits
<1>3. PICK next \in {"chasing", "suspending", "reminding"} :
        next = Verdict(i) /\ (next = "suspending" => i.left = 0)
  BY DEF Verdict
<1>4. PICK r \in JobStates :
        r = [IdleJob EXCEPT !.pc = next, !.list = o.list \ {i}, !.seen = i.number, !.left = i.left]
  BY <1>2, IdleIsTyped, NumbersAreSeen DEF JobStates
<1>5. r.pc = next /\ r.list = o.list \ {i} /\ r.seen = i.number
  BY <1>4 DEF IdleJob
<1>6. Fits(r)
  BY <1>1, <1>2, <1>3, <1>5 DEF Fits
<1>7. job' = [job EXCEPT ![j] = r]
  BY <1>1, <1>3, <1>4 DEF Chase
<1>8. QED BY <1>6, <1>7, JobGoesOn DEF Chase, records, InvoicingInv, AllTyped, FlagsTyped,
             CountsTyped

LEMMA SuspendInv == ASSUME InvoicingInv, NEW j \in Jobs, Suspend(j) PROVE InvoicingInv'
<1>1. PICK o \in JobStates : o = job[j] /\ Fits(o)
  BY DEF InvoicingInv, AllTyped, JobsTyped, JobInv
<1>2. PICK r \in JobStates : r = [IdleJob EXCEPT !.pc = "chasing", !.list = o.list]
  BY IdleIsTyped DEF JobStates
<1>3. r.pc = "chasing" /\ r.list = o.list
  BY <1>2 DEF IdleJob
<1>4. Fits(r)
  BY <1>1, <1>3 DEF Fits
<1>5. job' = [job EXCEPT ![j] = r]
  BY <1>1, <1>2 DEF Suspend, Goes
<1>6. QED BY <1>4, <1>5, JobGoesOn DEF Suspend, records, InvoicingInv, AllTyped, FlagsTyped,
             CountsTyped

\* A run ends, or dies.
LEMMA RunOverInv ==
  ASSUME InvoicingInv, NEW j \in Jobs, job' = [job EXCEPT ![j] = IdleJob],
         UNCHANGED <<balance, suspended, invoice, payer, ran, settled, charges, pays>>,
         crashes' \in 0 .. MaxCrashes
  PROVE  InvoicingInv'
<1>1. Fits(IdleJob)
  BY DEF Fits, IdleJob
<1>2. QED BY <1>1, IdleIsTyped, JobGoesOn DEF InvoicingInv, AllTyped, FlagsTyped

\* A run writes invoices: it is the only one, and it keeps what was issued.
LEMMA JobWrites ==
  ASSUME InvoicingInv, OneJob, NEW j \in Jobs, NEW r \in JobStates, Fits(r)',
         job' = [job EXCEPT ![j] = r], invoice' \in [Numbers -> Invoices],
         \A n \in Numbers : invoice[n].status # "none" => invoice'[n].status # "none",
         OneOpen', settled' \subseteq Numbers,
         UNCHANGED <<balance, suspended, payer, ran, charges, pays, crashes>>
  PROVE  InvoicingInv'
<1> USE DEF InvoicingInv
<1>1. AllTyped'
  BY DEF AllTyped, FundsTyped, FlagsTyped, CountsTyped, InvoicesTyped, JobsTyped, PayersTyped
<1>2. \A k \in Jobs : k = j /\ job'[k] = r
  BY DEF OneJob, AllTyped, JobsTyped
<1>3. JobInv'
  BY <1>2 DEF JobInv
<1>4. PayerInv'
  BY DEF PayerInv, AllTyped, PayersTyped, PayerStates
<1>5. QED BY <1>1, <1>3, <1>4

LEMMA ListOpenInv ==
  ASSUME InvoicingInv, OneJob, NEW j \in Jobs, ListOpen(j) PROVE InvoicingInv'
<1>1. \A i \in Listed : /\ i \in Entries /\ invoice[i.number].status = "open"
                        /\ invoice[i.number].left = i.left
  BY DEF Listed, Open, Entries, InvoicingInv, AllTyped, InvoicesTyped, Invoices
<1>2. /\ job' = [job EXCEPT ![j] = [IdleJob EXCEPT !.pc = "chasing", !.list = Listed]]
      /\ settled' = {}
      /\ UNCHANGED <<balance, suspended, invoice, payer, ran, charges, pays, crashes>>
  BY DEF ListOpen
<1>3. PICK list \in SUBSET Entries : list = Listed
  BY <1>1
<1>4. PICK r \in JobStates : r = [IdleJob EXCEPT !.pc = "chasing", !.list = list]
  BY IdleIsTyped DEF JobStates, IdleJob
<1>5. r.pc = "chasing" /\ r.list = list
  BY <1>4 DEF IdleJob
<1>6. Fits(r)'
  BY <1>1, <1>2, <1>3, <1>5 DEF Fits, Entries, Behind
<1>7. OneOpen' /\ invoice' \in [Numbers -> Invoices]
  BY <1>2 DEF InvoicingInv, OneOpen, AllTyped, InvoicesTyped
<1>8. QED BY <1>2, <1>3, <1>4, <1>6, <1>7, JobWrites

LEMMA PatchInvoiceInv ==
  ASSUME InvoicingInv, OneJob, NEW j \in Jobs, PatchInvoice(j) PROVE InvoicingInv'
<1>1. PICK o \in JobStates : o = job[j] /\ Fits(o)
  BY DEF InvoicingInv, AllTyped, JobsTyped, JobInv
<1>2. /\ o.pc = "patching" /\ invoice' = [invoice EXCEPT ![o.seen] = Patched(@, o)]
      /\ job' = [job EXCEPT ![j] = [IdleJob EXCEPT !.pc = "listing", !.list = o.list]]
      /\ UNCHANGED <<balance, suspended, payer, ran, settled, charges, pays, crashes>>
  BY <1>1 DEF PatchInvoice, Goes, records
<1>3. o.seen \in Numbers /\ o.list = {} /\ o.owed \in 0 .. Limit
  BY <1>1, <1>2 DEF Fits, JobStates
<1> PICK n \in Numbers : n = o.seen
  BY <1>3
<1> PICK i \in Invoices : i = invoice[n]
  BY DEF InvoicingInv, AllTyped, InvoicesTyped
<1>4. i.status # "none"
  BY <1>1, <1>2 DEF Fits
<1>5. /\ Patched(i, o) \in Invoices
      /\ Patched(i, o).status = i.status \/ Patched(i, o).status = "paid"
  <2>1. i.amount \in 0 .. Limit /\ i.left \in 0 .. Terms /\ i.reminded \in Never .. Terms
    BY DEF Invoices
  <2>2. Terms \in 0 .. Terms /\ Never \in Never .. Terms
    BY Bounds DEF Never
  <2>3. QED BY <1>3, <2>1, <2>2 DEF Patched, Invoices
<1>6. PICK k \in Invoices : k = Patched(i, o) /\ (k.status = i.status \/ k.status = "paid")
  BY <1>5
<1>7. invoice' = [invoice EXCEPT ![n] = k]
  BY <1>2, <1>6
<1>8. /\ invoice' \in [Numbers -> Invoices]
      /\ \A m \in Numbers : invoice[m].status # "none" => invoice'[m].status # "none"
  BY <1>4, <1>6, <1>7 DEF InvoicingInv, AllTyped, InvoicesTyped
<1>9. \A m \in Numbers : invoice'[m].status = "open" => invoice[m].status = "open"
  BY <1>6, <1>7 DEF InvoicingInv
<1>10. OneOpen'
  BY <1>9 DEF InvoicingInv, OneOpen
<1>11. PICK r \in JobStates : r = [IdleJob EXCEPT !.pc = "listing", !.list = o.list]
  BY IdleIsTyped DEF JobStates
<1>12. Fits(r)'
  <2>1. r.pc = "listing" /\ r.list = {}
    BY <1>3, <1>11 DEF IdleJob
  <2>2. QED BY <2>1 DEF Fits
<1>13. QED BY <1>2, <1>8, <1>10, <1>11, <1>12, JobWrites DEF InvoicingInv, AllTyped, FlagsTyped

LEMMA IssueInvoiceInv ==
  ASSUME InvoicingInv, OneJob, NEW j \in Jobs, IssueInvoice(j) PROVE InvoicingInv'
<1>1. PICK o \in JobStates : o = job[j] /\ Fits(o)
  BY DEF InvoicingInv, AllTyped, JobsTyped, JobInv
<1> DEFINE fresh == [NoInvoice EXCEPT !.status = "open", !.amount = o.owed, !.left = Terms]
<1>2. /\ o.pc = "issuing"
      /\ invoice' = [invoice EXCEPT ![o.seen] = IF @.status # "none" THEN @ ELSE fresh]
      /\ job' = [job EXCEPT ![j] = [IdleJob EXCEPT !.pc = "listing", !.list = o.list]]
      /\ UNCHANGED <<balance, suspended, payer, ran, settled, charges, pays, crashes>>
  BY <1>1 DEF IssueInvoice, Goes, records
<1>3. o.seen \in Numbers /\ o.list = {} /\ o.owed \in 0 .. Limit /\ NoneOpen
  BY <1>1, <1>2 DEF Fits, JobStates
<1>4. fresh \in Invoices
  <2>1. Terms \in 0 .. Terms /\ Never \in Never .. Terms
    BY Bounds DEF Never
  <2>2. PICK blank \in Invoices : blank = NoInvoice
    BY BlankIsTyped
  <2>3. QED BY <1>3, <2>1, <2>2 DEF Invoices
<1> PICK n \in Numbers : n = o.seen
  BY <1>3
<1> PICK i \in Invoices : i = invoice[n]
  BY DEF InvoicingInv, AllTyped, InvoicesTyped
<1>5. PICK k \in Invoices : k = (IF i.status # "none" THEN i ELSE fresh) /\ k.status # "none"
  BY <1>4 DEF NoInvoice
<1>6. invoice' = [invoice EXCEPT ![n] = k]
  BY <1>2, <1>5
<1>7. /\ invoice' \in [Numbers -> Invoices]
      /\ \A m \in Numbers : invoice[m].status # "none" => invoice'[m].status # "none"
  BY <1>5, <1>6 DEF InvoicingInv, AllTyped, InvoicesTyped
<1>8. OneOpen'
  <2>1. \A m \in Numbers : invoice'[m].status = "open" => m = n
    BY <1>3, <1>6 DEF NoneOpen
  <2>2. QED BY <2>1 DEF OneOpen
<1>9. PICK r \in JobStates : r = [IdleJob EXCEPT !.pc = "listing", !.list = o.list]
  BY IdleIsTyped DEF JobStates
<1>10. Fits(r)'
  <2>1. r.pc = "listing" /\ r.list = {}
    BY <1>3, <1>9 DEF IdleJob
  <2>2. QED BY <2>1 DEF Fits
<1>11. QED BY <1>2, <1>7, <1>8, <1>9, <1>10, JobWrites DEF InvoicingInv, AllTyped, FlagsTyped

LEMMA RemindInv ==
  ASSUME InvoicingInv, OneJob, NEW j \in Jobs, Remind(j) PROVE InvoicingInv'
<1>1. PICK o \in JobStates : o = job[j] /\ Fits(o)
  BY DEF InvoicingInv, AllTyped, JobsTyped, JobInv
<1>2. /\ o.pc = "reminding"
      /\ invoice' = [invoice EXCEPT ![o.seen].reminded = invoice[o.seen].left]
      /\ job' = [job EXCEPT ![j] = [IdleJob EXCEPT !.pc = "chasing", !.list = o.list]]
      /\ UNCHANGED <<balance, suspended, payer, ran, settled, charges, pays, crashes>>
  BY <1>1 DEF Remind, Goes, records
<1> PICK n \in Numbers : n = o.seen
  BY <1>1, <1>2 DEF Fits
<1> PICK i \in Invoices : i = invoice[n]
  BY DEF InvoicingInv, AllTyped, InvoicesTyped
<1>3. PICK k \in Invoices : k = [i EXCEPT !.reminded = i.left]
  <2>1. i.left \in Never .. Terms
    BY Bounds DEF Invoices, Never
  <2>2. QED BY <2>1 DEF Invoices
<1>4. k.status = i.status /\ k.left = i.left
  BY <1>3 DEF Invoices
<1>5. invoice' = [invoice EXCEPT ![n] = k]
  BY <1>2, <1>3 DEF InvoicingInv
<1>6. /\ invoice' \in [Numbers -> Invoices]
      /\ \A m \in Numbers :
           invoice'[m].status = invoice[m].status /\ invoice'[m].left = invoice[m].left
  BY <1>4, <1>5 DEF InvoicingInv, AllTyped, InvoicesTyped
<1>7. OneOpen'
  BY <1>6 DEF InvoicingInv, OneOpen
<1>8. PICK r \in JobStates : r = [IdleJob EXCEPT !.pc = "chasing", !.list = o.list]
  BY IdleIsTyped DEF JobStates
<1>9. Fits(r)'
  <2>1. r.pc = "chasing" /\ r.list = o.list
    BY <1>8 DEF IdleJob
  <2>2. Fits(r)
    BY <1>1, <2>1 DEF Fits
  <2>3. NoneOpen => NoneOpen'
    BY <1>6 DEF NoneOpen
  <2>4. QED BY <1>2, <1>6, <2>2, <2>3, FitsStays DEF Behind
<1>10. settled' \subseteq Numbers
  BY <1>2 DEF InvoicingInv, AllTyped, FlagsTyped
<1>11. QED BY <1>2, <1>6, <1>7, <1>8, <1>9, <1>10, JobWrites

-----------------------------------------------------------------------------
\* What is not the job: it leaves what the job knows as it is.
LEMMA OthersMove ==
  ASSUME InvoicingInv, UNCHANGED job, AllTyped', PayerInv',
         \A n \in Numbers : /\ invoice'[n].left = invoice[n].left
                            /\ invoice[n].status # "none" => invoice'[n].status # "none"
                            /\ invoice'[n].status = "open" => invoice[n].status = "open"
                            /\ Behind(n) => Behind(n)'
  PROVE  InvoicingInv'
<1> USE DEF InvoicingInv
<1>1. NoneOpen => NoneOpen'
  BY DEF NoneOpen
<1>2. ASSUME NEW k \in Jobs PROVE Fits(job[k])'
  <2>1. PICK run : run = job[k]
    OBVIOUS
  <2>2. Fits(run)'
    BY <1>1, <2>1, FitsStays DEF JobInv
  <2>3. QED BY <2>1, <2>2
<1>3. JobInv'
  BY <1>2 DEF JobInv
<1>4. OneOpen'
  BY DEF OneOpen
<1>5. QED BY <1>3, <1>4

LEMMA ChargeInv == ASSUME InvoicingInv, Charge PROVE InvoicingInv'
<1>1. FundsTyped' /\ CountsTyped'
  BY Bounds, Product DEF Charge, InvoicingInv, AllTyped, FundsTyped, CountsTyped
<1>2. AllTyped'
  BY <1>1 DEF Charge, InvoicingInv, AllTyped, FlagsTyped, InvoicesTyped, JobsTyped, PayersTyped
<1>3. PayerInv'
  BY DEF Charge, InvoicingInv, PayerInv
<1>4. QED BY <1>2, <1>3, OthersMove DEF Charge, Behind

LEMMA PayInv ==
  ASSUME InvoicingInv, NEW p \in Payers, NEW amount \in 1 .. Limit, Pay(p, amount)
  PROVE  InvoicingInv'
<1>1. /\ balance' = balance + amount /\ pays' = pays + 1 /\ pays < MaxPays
      /\ payer' = payer \/ payer' = [payer EXCEPT ![p].pc = "lifting"]
      /\ UNCHANGED <<suspended, invoice, job, ran, settled, charges, crashes>>
  BY ONLY Pay(p, amount), Zenon DEF Pay
<1>2. FundsTyped'
  <2>1. (pays + 1) * Limit = pays * Limit + Limit /\ pays * Limit \in Nat
    BY Bounds, Product DEF InvoicingInv, AllTyped, FundsTyped
  <2>2. amount \in Int /\ 1 <= amount /\ amount <= Limit /\ Limit \in Nat /\ MaxPays \in Nat
    BY Bounds
  <2>3. /\ balance' \in Int /\ -Limit <= balance' /\ balance' <= pays' * Limit
        /\ pays' \in Nat /\ pays' <= MaxPays
    BY <1>1, <2>1, <2>2 DEF InvoicingInv, AllTyped, FundsTyped
  <2>4. QED BY <2>3 DEF FundsTyped
<1>3. PICK w \in PayerStates : w = payer[p]
  BY DEF InvoicingInv, AllTyped, PayersTyped
<1> PICK v \in PayerStates : v = [w EXCEPT !.pc = "lifting"]
  BY DEF PayerStates
<1>4. v.list = w.list
  BY DEF PayerStates
<1>5. payer' = payer \/ payer' = [payer EXCEPT ![p] = v]
  BY <1>1, <1>3 DEF InvoicingInv
<1>6. PayersTyped' /\ \A q \in Payers : payer'[q].list = payer[q].list
  BY <1>3, <1>4, <1>5 DEF InvoicingInv, AllTyped, PayersTyped
<1>7. AllTyped'
  BY <1>1, <1>2, <1>6 DEF InvoicingInv, AllTyped, FlagsTyped, CountsTyped, InvoicesTyped, JobsTyped
<1>8. PayerInv'
  BY <1>1, <1>6 DEF InvoicingInv, PayerInv
<1>9. QED BY <1>1, <1>7, <1>8, OthersMove DEF Behind

\* A payment goes on to what it settles.
LEMMA PayerGoesOn ==
  ASSUME InvoicingInv, NEW p \in Payers, NEW w \in PayerStates,
         payer' = [payer EXCEPT ![p] = w], \A n \in w.list : invoice[n].status # "none",
         UNCHANGED <<balance, invoice, job, ran, settled, charges, pays>>,
         suspended' \in BOOLEAN, crashes' \in 0 .. MaxCrashes
  PROVE  InvoicingInv'
<1>1. AllTyped'
  BY DEF InvoicingInv, AllTyped, FundsTyped, FlagsTyped, CountsTyped, InvoicesTyped, JobsTyped,
         PayersTyped
<1>2. PayerInv'
  BY DEF InvoicingInv, PayerInv
<1>3. QED BY <1>1, <1>2, OthersMove DEF Behind

LEMMA SettlesInv == ASSUME InvoicingInv, NEW p \in Payers, Settles(p) PROVE InvoicingInv'
<1> PICK o \in PayerStates : o = payer[p]
  BY DEF InvoicingInv, AllTyped, PayersTyped
<1>1. suspended \in BOOLEAN /\ crashes \in 0 .. MaxCrashes
  BY DEF InvoicingInv, AllTyped, FlagsTyped, CountsTyped
<1>2. CASE LiftSuspension(p)
  <2> PICK w \in PayerStates : w = [o EXCEPT !.pc = "listing"]
    BY DEF PayerStates
  <2>1. w.list = o.list
    BY DEF PayerStates
  <2>2. payer' = [payer EXCEPT ![p] = w]
    BY <1>2 DEF LiftSuspension
  <2>3. \A n \in w.list : invoice[n].status # "none"
    BY <2>1 DEF InvoicingInv, PayerInv
  <2>4. QED BY <1>1, <1>2, <2>2, <2>3, PayerGoesOn DEF LiftSuspension, records
<1>3. CASE ListToSettle(p)
  <2>0. Open \in SUBSET Numbers
    BY DEF Open
  <2>1. PICK w \in PayerStates : w = [pc |-> "marking", list |-> Open]
    BY <2>0 DEF PayerStates
  <2>2. QED BY <1>1, <1>3, <2>1, PayerGoesOn DEF ListToSettle, records, Open
<1>4. CASE MarkPaid(p)
  <2>1. /\ payer' = [payer EXCEPT ![p] = IdlePayer]
        /\ settled' = settled \cup payer[p].list
        /\ UNCHANGED <<balance, suspended, job, ran, charges, pays, crashes>>
    BY <1>4 DEF MarkPaid
  <2>2. ASSUME NEW n \in Numbers
        PROVE  /\ invoice'[n] \in Invoices /\ invoice'[n].left = invoice[n].left
               /\ invoice'[n].status = invoice[n].status \/ invoice'[n].status = "paid"
               /\ Behind(n) => Behind(n)'
    <3>1. PICK i \in Invoices : i = invoice[n]
      BY DEF InvoicingInv, AllTyped, InvoicesTyped
    <3>2. invoice'[n] = i \/ invoice'[n] = [i EXCEPT !.status = "paid"]
      BY <1>4, <3>1 DEF MarkPaid
    <3>3. invoice'[n] # invoice[n] => n \in settled'
      BY <1>4, <2>1 DEF MarkPaid
    <3>4. Behind(n) => Behind(n)'
      BY <2>1, <3>3 DEF Behind
    <3>5. QED BY <3>1, <3>2, <3>4 DEF Invoices
  <2>3. InvoicesTyped'
    BY <1>4, <2>2 DEF MarkPaid, InvoicesTyped
  <2>4. PayersTyped'
    BY <2>1, IdleIsTyped DEF InvoicingInv, AllTyped, PayersTyped
  <2>5. settled' \subseteq Numbers
    BY <2>1 DEF InvoicingInv, AllTyped, FlagsTyped, PayersTyped, PayerStates
  <2>6. AllTyped'
    BY <2>1, <2>3, <2>4, <2>5
    DEF InvoicingInv, AllTyped, FundsTyped, FlagsTyped, CountsTyped, JobsTyped
  <2>7. PayerInv'
    <3>1. \A q \in Payers : payer'[q].list \subseteq payer[q].list \cap Numbers
      BY <2>1 DEF InvoicingInv, AllTyped, PayersTyped, PayerStates, IdlePayer
    <3>2. QED BY <2>2, <3>1 DEF InvoicingInv, PayerInv
  <2>8. QED BY <2>1, <2>2, <2>6, <2>7, OthersMove
<1>5. QED BY <1>2, <1>3, <1>4 DEF Settles

\* A day passes over no job and no payment at work.
LEMMA DayPassesInv == ASSUME InvoicingInv, DayPasses PROVE InvoicingInv'
<1>1. /\ \A j \in Jobs : job[j].pc = "idle"
      /\ ran' = FALSE
      /\ UNCHANGED <<balance, suspended, job, payer, settled, charges, pays, crashes>>
  BY DEF DayPasses, records
<1>2. ASSUME NEW n \in Numbers
      PROVE  invoice'[n] \in Invoices /\ invoice'[n].status = invoice[n].status
  <2>1. PICK i \in Invoices : i = invoice[n]
    BY DEF InvoicingInv, AllTyped, InvoicesTyped
  <2>2. PICK left \in 0 .. Terms : left = IF i.left = 0 THEN 0 ELSE i.left - 1
    BY Bounds DEF Invoices
  <2>3. invoice'[n] = [i EXCEPT !.left = left]
    BY <2>1, <2>2 DEF DayPasses
  <2>4. QED BY <2>1, <2>3 DEF Invoices
<1>3. InvoicesTyped'
  BY <1>2 DEF DayPasses, InvoicesTyped
<1>4. AllTyped'
  BY <1>1, <1>3 DEF InvoicingInv, AllTyped, FundsTyped, FlagsTyped, CountsTyped, JobsTyped,
                    PayersTyped
<1>5. JobInv'
  <2>1. ASSUME NEW k \in Jobs PROVE Fits(job[k])'
    <3>1. PICK run : run = job[k]
      OBVIOUS
    <3>2. run.pc = "idle" /\ run.list = {}
      BY <1>1, <3>1 DEF InvoicingInv, JobInv, Fits
    <3>3. Fits(run)'
      BY <3>2 DEF Fits
    <3>4. QED BY <1>1, <3>1, <3>3
  <2>2. QED BY <2>1 DEF JobInv
<1>6. PayerInv'
  BY <1>1, <1>2 DEF InvoicingInv, PayerInv, AllTyped, PayersTyped, PayerStates
<1>7. OneOpen'
  BY <1>2 DEF InvoicingInv, OneOpen
<1>8. QED BY <1>4, <1>5, <1>6, <1>7 DEF InvoicingInv

LEMMA CrashInv == ASSUME InvoicingInv, Crash PROVE InvoicingInv'
<1>1. crashes' \in 0 .. MaxCrashes /\ UNCHANGED <<balance, suspended, invoice, ran, settled, charges, pays>>
  BY Bounds DEF Crash, InvoicingInv, AllTyped, CountsTyped
<1>2. CASE \E j \in Jobs : job' = [job EXCEPT ![j] = IdleJob] /\ UNCHANGED payer
  BY <1>1, <1>2, RunOverInv
<1>3. ASSUME NEW p \in Payers, payer' = [payer EXCEPT ![p] = IdlePayer], UNCHANGED job
      PROVE  InvoicingInv'
  BY <1>1, <1>3, IdleIsTyped, PayerGoesOn DEF IdlePayer, InvoicingInv, AllTyped, FlagsTyped
<1>4. QED BY <1>2, <1>3 DEF Crash

LEMMA NextInvoicing ==
  ASSUME OneJob PROVE InvoicingInv /\ [Next]_vars => InvoicingInv'
<1> SUFFICES ASSUME InvoicingInv, [Next]_vars PROVE InvoicingInv'
  OBVIOUS
<1>1. ASSUME NEW j \in Jobs, EndRun(j) PROVE InvoicingInv'
  <2>1. /\ job' = [job EXCEPT ![j] = IdleJob]
        /\ UNCHANGED <<balance, suspended, invoice, payer, ran, settled, charges, pays, crashes>>
    BY <1>1 DEF EndRun, records
  <2>2. QED BY <2>1, RunOverInv DEF InvoicingInv, AllTyped, CountsTyped
<1>2. ASSUME NEW j \in Jobs, StartRun(j) \/ Runs(j) PROVE InvoicingInv'
  BY <1>1, <1>2, StartRunInv, ReadOpenInv, PatchInvoiceInv, CountInvoicesInv, IssueInvoiceInv,
     ListOpenInv, ChaseInv, SuspendInv, RemindInv DEF Runs
<1>3. CASE UNCHANGED vars
  <2>1. UNCHANGED <<balance, suspended, invoice, job, payer, ran, settled, charges, pays, crashes>>
    BY <1>3 DEF vars, records
  <2>2. AllTyped' /\ PayerInv'
    BY <2>1 DEF InvoicingInv, AllTyped, FundsTyped, FlagsTyped, CountsTyped, InvoicesTyped,
                JobsTyped, PayersTyped, PayerInv
  <2>3. QED BY <2>1, <2>2, OthersMove DEF Behind
<1>4. QED BY <1>2, <1>3, ChargeInv, DayPassesInv, CrashInv, PayInv, SettlesInv DEF Next

(* server/utils/invoicing.ts:221, "At most one open invoice per tenant": for any
   terms, limit, usage, payments, missed days and crashes.  The hypothesis is
   that the daily job does not overlap with itself. *)
THEOREM InvoicesAreAlwaysOK ==
  ASSUME OneJob PROVE Spec => []InvoicesOK
<1>1. InvoicingInv => InvoicesOK
  <2> SUFFICES ASSUME InvoicingInv PROVE InvoicesOK
    OBVIOUS
  <2>1. CASE Open = {}
    BY <2>1, Types, FS_EmptySet DEF InvoicingInv, InvoicesOK, AtMostOneOpen
  <2>2. ASSUME NEW n \in Open PROVE InvoicesOK
    <3>1. Open = {n}
      BY DEF InvoicingInv, OneOpen, Open
    <3>2. Cardinality(Open) = 1
      BY <3>1, FS_Singleton
    <3>3. QED BY <3>2, Types DEF InvoicingInv, InvoicesOK, AtMostOneOpen
  <2>3. QED BY <2>1, <2>2
<1>2. QED BY <1>1, InitInvoicing, NextInvoicing, PTL DEF Spec

(* Dunning decides on a list and writes later (server/utils/invoicing.ts:158-176):
   an invoice it suspends for is past due at that very moment, and is open, or
   was settled by a payment since it was listed. *)
THEOREM OnlyPastDueIsSuspended ==
  ASSUME OneJob PROVE Spec => SuspendedOnlyPastDue
<1>1. ASSUME InvoicingInv, Next, ~suspended, suspended'
      PROVE  \E n \in Numbers : invoice[n].left = 0 /\ Behind(n)
  <2>1. ~Charge /\ ~DayPasses /\ ~Crash
    BY ONLY <1>1, Zenon DEF Charge, DayPasses, Crash
  <2>2. \A p \in Payers : ~Settles(p) /\ \A a \in 1 .. Limit : ~Pay(p, a)
    BY ONLY <1>1, Zenon DEF Settles, LiftSuspension, ListToSettle, MarkPaid, Pay
  <2>3. \A j \in Jobs : /\ ~StartRun(j) /\ ~ReadOpen(j) /\ ~PatchInvoice(j)
                        /\ ~CountInvoices(j) /\ ~IssueInvoice(j) /\ ~ListOpen(j)
                        /\ \A i \in job[j].list : ~Chase(j, i)
                        /\ ~Remind(j) /\ ~EndRun(j)
    BY ONLY <1>1, Zenon DEF StartRun, ReadOpen, PatchInvoice, CountInvoices, IssueInvoice,
                            ListOpen, Chase, Remind, EndRun
  <2>4. PICK j \in Jobs : Suspend(j)
    BY <1>1, <2>1, <2>2, <2>3 DEF Next, Runs
  <2>5. Fits(job[j]) /\ job[j].pc = "suspending"
    BY <1>1, <2>4 DEF InvoicingInv, JobInv, Suspend
  <2>6. QED BY <2>5 DEF Fits
<1>2. InvoicingInv /\ [Next]_vars =>
        [~suspended /\ suspended' =>
           \E n \in Numbers : invoice[n].left = 0 /\ Behind(n)]_vars
  BY <1>1
<1>3. InvoicingInv /\ [Next]_vars =>
        [~suspended /\ suspended' =>
           \E n \in Numbers : /\ invoice[n].left = 0
                              /\ invoice[n].status = "open" \/ n \in settled]_vars
  BY <1>2 DEF Behind
<1>4. QED BY <1>3, InitInvoicing, NextInvoicing, PTL DEF Spec, SuspendedOnlyPastDue

=============================================================================
