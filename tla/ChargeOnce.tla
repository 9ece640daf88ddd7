----------------------------- MODULE ChargeOnce -----------------------------
(***************************************************************************)
(* What automatic top-up promises a workspace: a debit that crosses the    *)
(* threshold queues at most one charge; the charge is either withdrawn     *)
(* before anybody asked for money or submitted for good; the provider is   *)
(* asked at most once; and the wallet is credited only for money that was  *)
(* captured, once.  AutoTopup shows that the attempts, leases, workers and *)
(* webhooks of server/utils/auto-topup-*.ts implement this.                *)
(***************************************************************************)
EXTENDS Naturals

CONSTANT Triggers   \* the debits that may trigger a charge

VARIABLES
  stage,     \* how far the charge of a trigger has come
  posts,     \* how often the provider was asked for the money
  captured,  \* triggers whose money the provider took
  credited   \* triggers whose money reached the wallet

chargeVars == <<stage, posts, captured, credited>>

Stages == {"none", "queued", "withdrawn", "submitted", "refused", "settled"}
Open(r) == stage[r] \in {"queued", "submitted"}

ChargeInit ==
  /\ stage = [r \in Triggers |-> "none"]
  /\ posts = [r \in Triggers |-> 0]
  /\ captured = {}
  /\ credited = {}

\* A debit crosses the threshold while no other charge is open.
Queue(r) ==
  /\ stage[r] = "none"
  /\ \A q \in Triggers : ~Open(q)
  /\ stage' = [stage EXCEPT ![r] = "queued"]
  /\ UNCHANGED <<posts, captured, credited>>

\* The charge is no longer wanted, and nobody asked for the money yet.
Withdraw(r) ==
  /\ stage[r] = "queued"
  /\ stage' = [stage EXCEPT ![r] = "withdrawn"]
  /\ UNCHANGED <<posts, captured, credited>>

\* The point of no return: from here the charge may happen.
Submit(r) ==
  /\ stage[r] = "queued"
  /\ stage' = [stage EXCEPT ![r] = "submitted"]
  /\ UNCHANGED <<posts, captured, credited>>

Ask(r) ==
  /\ stage[r] = "submitted" /\ posts[r] = 0
  /\ posts' = [posts EXCEPT ![r] = 1]
  /\ UNCHANGED <<stage, captured, credited>>

\* The provider takes the money, possibly after it had reported a failure.
Capture(r) ==
  /\ posts[r] = 1 /\ r \notin captured
  /\ captured' = captured \cup {r}
  /\ UNCHANGED <<stage, posts, credited>>

Refuse(r) ==
  /\ stage[r] = "submitted" /\ posts[r] = 1
  /\ stage' = [stage EXCEPT ![r] = "refused"]
  /\ UNCHANGED <<posts, captured, credited>>

\* The wallet is credited; charges it makes needless are withdrawn with it.
Settle(r, needless) ==
  /\ stage[r] \in {"submitted", "refused"}
  /\ r \in captured /\ r \notin credited
  /\ \A q \in needless : stage[q] = "queued"
  /\ stage' = [q \in Triggers |-> IF q = r THEN "settled"
                                  ELSE IF q \in needless THEN "withdrawn"
                                  ELSE stage[q]]
  /\ credited' = credited \cup {r}
  /\ UNCHANGED <<posts, captured>>

ChargeNext ==
  \E r \in Triggers :
    \/ Queue(r) \/ Withdraw(r) \/ Submit(r) \/ Ask(r)
    \/ Capture(r) \/ Refuse(r)
    \/ \E needless \in SUBSET Triggers : Settle(r, needless)

ChargeSpec == ChargeInit /\ [][ChargeNext]_chargeVars
-----------------------------------------------------------------------------
ChargeTypeOK ==
  /\ stage \in [Triggers -> Stages]
  /\ posts \in [Triggers -> 0 .. 1]
  /\ captured \subseteq Triggers
  /\ credited \subseteq Triggers

(* Money enters the wallet only if the provider took it, and the provider
   takes only what it was asked for by a charge nobody withdrew. *)
CreditedWasCaptured ==
  /\ credited \subseteq captured
  /\ \A r \in Triggers : stage[r] = "settled" <=> r \in credited
  /\ \A r \in captured : posts[r] = 1
  /\ \A r \in Triggers :
       posts[r] = 1 => stage[r] \in {"submitted", "refused", "settled"}

(* Two low-balance debits never have two charges open at the same time. *)
OneOpenCharge == \A q, r \in Triggers : Open(q) /\ Open(r) => q = r
=============================================================================
