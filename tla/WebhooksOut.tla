---------------------------- MODULE WebhooksOut ----------------------------
(***************************************************************************)
(* Events for the clients' own servers (server/utils/webhooks-out.ts).     *)
(* emitWebhook queues a delivery for every endpoint that is switched on    *)
(* and subscribes to the event; a scheduler outside the repository asks    *)
(* for a run of dispatchWebhooks every minute or two, which sends what is  *)
(* due, one delivery after the other, and may take longer than that.       *)
(*                                                                         *)
(* Nothing claims a delivery.  A run keeps what it read of a delivery when *)
(* it listed it, and of its endpoint before the request, and writes the    *)
(* counters back from that: two runs at work at once send the same         *)
(* delivery and overwrite each other.                                      *)
(***************************************************************************)
EXTENDS Naturals, FiniteSets

CONSTANTS
  Event, Endpoint,
  Subscribed,   \* pairs of an event and an endpoint that asked for it
  MaxRuns,      \* requests to /api/cron/webhooks that may be served at once
  Limit,        \* deliveries per run (200)
  MaxAttempts,  \* MAX_ATTEMPTS (4)
  DisableAfter, \* DISABLE_AFTER (20)
  MaxTroubles   \* bound on runs that overlap another or are cut short, and on
                \* enable and delete requests of the client, together

\* One delivery per event and endpoint.
Delivery == Event \X Endpoint

Run == 1 .. MaxRuns
NoDelivery == CHOOSE d \in Delivery : TRUE

ASSUME WebhooksOutAssumption ==
  /\ Delivery # {} /\ Subscribed \subseteq Delivery /\ MaxRuns \in Nat
  /\ Limit \in Nat \ {0} /\ MaxAttempts \in Nat \ {0} /\ DisableAfter \in Nat \ {0}
  /\ MaxTroubles \in Nat

VARIABLES
  emitting, \* what emitWebhook is at, per event
  heard,    \* the endpoints it read
  state,    \* webhook_deliveries.status, "none" without a row
  attempts, \* webhook_deliveries.attempts
  resting,  \* deliveries whose next_attempt_at is still to come
  endpoint, \* webhook_endpoints: "on", "off" (not enabled) or "removed"
  failures, \* webhook_endpoints.consecutive_failures
  pc,       \* what a run is at
  todo,     \* what it listed and has not finished
  at,       \* the delivery it is at
  had,      \* the attempts of each delivery when it was listed
  saw,      \* the failures of the endpoint before the request
  sent,     \* requests made for a delivery, up to MaxAttempts + 1 (history)
  inRow,    \* failed answers of an endpoint in a row, up to DisableAfter (history)
  beenOff,  \* endpoints that have been off or removed (history)
  afterRemoval, \* requests of a run to an endpoint already removed, up to 2 (history)
  raced,    \* two have been at work on the same rows (history)
  broken,   \* a run was cut short (history)
  troubles

emitVars == <<emitting, heard>>
deliveryVars == <<state, attempts, resting>>
endpointVars == <<endpoint, failures>>
runVars == <<pc, todo, at, had, saw>>
history == <<sent, inRow, beenOff, afterRemoval, raced, broken>>
hooksVars == <<emitVars, deliveryVars, endpointVars, runVars, history, troubles>>

Trouble == troubles < MaxTroubles /\ troubles' = troubles + 1

Decided == {"delivered", "failed"}
To(d) == d[2]

HooksInit ==
  /\ emitting = [v \in Event |-> "idle"] /\ heard = [v \in Event |-> {}]
  /\ state = [d \in Delivery |-> "none"] /\ attempts = [d \in Delivery |-> 0]
  /\ resting = {}
  /\ endpoint = [e \in Endpoint |-> "on"] /\ failures = [e \in Endpoint |-> 0]
  /\ pc = [r \in Run |-> "idle"] /\ todo = [r \in Run |-> {}]
  /\ at = [r \in Run |-> NoDelivery]
  /\ had = [r \in Run |-> [d \in Delivery |-> 0]] /\ saw = [r \in Run |-> 0]
  /\ sent = [d \in Delivery |-> 0] /\ inRow = [e \in Endpoint |-> 0]
  /\ beenOff = {} /\ raced = FALSE
  /\ afterRemoval = [r \in Run |-> [e \in Endpoint |-> 0]]
  /\ broken = FALSE /\ troubles = 0

-----------------------------------------------------------------------------
\* emitWebhook reads the endpoints ...
Emit(v) ==
  /\ emitting[v] = "idle" /\ emitting' = [emitting EXCEPT ![v] = "read"]
  /\ heard' = [heard EXCEPT ![v] =
                 {e \in Endpoint : endpoint[e] = "on" /\ <<v, e>> \in Subscribed}]
  /\ UNCHANGED <<deliveryVars, endpointVars, runVars, history, troubles>>

\* ... and inserts all its rows in one statement, which fails, and is dropped,
\* when one of the endpoints has been removed meanwhile.
Enqueue(v) ==
  /\ emitting[v] = "read" /\ emitting' = [emitting EXCEPT ![v] = "done"]
  /\ heard' = [heard EXCEPT ![v] = {}]
  /\ state' = IF \E e \in heard[v] : endpoint[e] = "removed" THEN state
               ELSE [d \in Delivery |->
                       IF d[1] = v /\ To(d) \in heard[v] THEN "pending" ELSE state[d]]
  /\ UNCHANGED <<attempts, resting, endpointVars, runVars, history, troubles>>

\* The time of the next attempt comes.
FallDue(d) ==
  /\ d \in resting /\ resting' = resting \ {d}
  /\ UNCHANGED <<emitVars, state, attempts, endpointVars, runVars, history, troubles>>

-----------------------------------------------------------------------------
\* What dispatchWebhooks asks for.
IsDue(d) == state[d] = "pending" /\ d \notin resting

\* A run lists what is due, in no particular order.
Start(r) ==
  /\ pc[r] = "idle" /\ \A q \in Run : q < r => pc[q] # "idle"
  /\ pc' = [pc EXCEPT ![r] = "working"]
  /\ LET due == {d \in Delivery : IsDue(d)} IN
     \E list \in SUBSET due :
       /\ Cardinality(list) = Limit \/ (list = due /\ Cardinality(due) < Limit)
       /\ list # {}
       /\ todo' = [todo EXCEPT ![r] = list]
       /\ had' = [had EXCEPT ![r] = [d \in Delivery |-> IF d \in list THEN attempts[d] ELSE 0]]
  /\ IF \E q \in Run : pc[q] # "idle"
     THEN Trouble /\ raced' = TRUE
     ELSE UNCHANGED <<troubles, raced>>
  /\ UNCHANGED <<emitVars, deliveryVars, endpointVars, at, saw, sent, inRow, beenOff, afterRemoval, broken>>

\* Mutant of Take: the endpoint is not read for each delivery.
TakeOnce(r, d) ==
  /\ pc[r] = "working" /\ d \in todo[r] /\ at' = [at EXCEPT ![r] = d]
  /\ pc' = [pc EXCEPT ![r] =
       IF endpoint[To(d)] = "on" \/ To(at[r]) = To(d) THEN "sending" ELSE "dropping"]
  /\ saw' = [saw EXCEPT ![r] = failures[To(d)]]
  /\ UNCHANGED <<emitVars, deliveryVars, endpointVars, todo, had, history, troubles>>

\* Mutant of Take: a delivery to an endpoint that is off is passed over.
TakeOrSkip(r, d) ==
  /\ pc[r] = "working" /\ d \in todo[r]
  /\ IF endpoint[To(d)] = "on"
     THEN /\ at' = [at EXCEPT ![r] = d] /\ pc' = [pc EXCEPT ![r] = "sending"]
          /\ saw' = [saw EXCEPT ![r] = failures[To(d)]] /\ UNCHANGED todo
     ELSE todo' = [todo EXCEPT ![r] = @ \ {d}] /\ UNCHANGED <<at, pc, saw>>
  /\ UNCHANGED <<emitVars, deliveryVars, endpointVars, had, history, troubles>>

\* The endpoint of the next delivery is read.
Take(r, d) ==
  /\ pc[r] = "working" /\ d \in todo[r] /\ at' = [at EXCEPT ![r] = d]
  /\ pc' = [pc EXCEPT ![r] = IF endpoint[To(d)] = "on" THEN "sending" ELSE "dropping"]
  /\ saw' = [saw EXCEPT ![r] = failures[To(d)]]
  /\ UNCHANGED <<emitVars, deliveryVars, endpointVars, todo, had, history, troubles>>

\* The delivery at hand is finished.
Done(r) ==
  /\ pc' = [pc EXCEPT ![r] = "working"] /\ todo' = [todo EXCEPT ![r] = @ \ {at[r]}]
  /\ saw' = [saw EXCEPT ![r] = 0]

\* An update of the delivery at hand, of no row when it was removed or pruned.
UpdateRow(d, s, n) ==
  IF state[d] = "none" THEN UNCHANGED <<state, attempts>>
  ELSE state' = [state EXCEPT ![d] = s] /\ attempts' = [attempts EXCEPT ![d] = n]

\* "endpoint removed or disabled"
Drop(r) ==
  /\ pc[r] = "dropping"
  /\ UpdateRow(at[r], "failed", attempts[at[r]])
  /\ Done(r)
  /\ UNCHANGED <<emitVars, resting, endpointVars, at, had, history, troubles>>

\* The request, and its answer: 2xx, or anything else, or none.
Request(r) ==
  /\ pc[r] = "sending"
  /\ LET d == at[r] IN
     /\ sent' = [sent EXCEPT ![d] = IF @ > MaxAttempts THEN @ ELSE @ + 1]
     /\ afterRemoval' = [afterRemoval EXCEPT ![r][To(d)] =
                           IF endpoint[To(d)] = "removed" /\ @ < 2 THEN @ + 1 ELSE @]
     /\ \/ /\ pc' = [pc EXCEPT ![r] = "good"]
           /\ inRow' = [inRow EXCEPT ![To(d)] = 0]
        \/ /\ pc' = [pc EXCEPT ![r] = "bad"]
           /\ inRow' = [inRow EXCEPT ![To(d)] = IF @ < DisableAfter THEN @ + 1 ELSE @]
  /\ UNCHANGED <<emitVars, deliveryVars, endpointVars, todo, at, had, saw, beenOff, raced, broken, troubles>>

Delivered(r) ==
  /\ pc[r] = "good" /\ pc' = [pc EXCEPT ![r] = "resetting"]
  /\ UpdateRow(at[r], "delivered", had[r][at[r]] + 1)
  /\ UNCHANGED <<emitVars, resting, endpointVars, todo, at, had, saw, history, troubles>>

\* Mutant of ResetFailures: the count is left as it is.
KeepFailures(r) ==
  /\ pc[r] = "resetting" /\ Done(r)
  /\ UNCHANGED <<emitVars, deliveryVars, endpointVars, at, had, history, troubles>>

\* consecutiveFailures goes back to zero in a statement of its own.
ResetFailures(r) ==
  /\ pc[r] = "resetting" /\ Done(r)
  /\ failures' = [failures EXCEPT ![To(at[r])] = IF endpoint[To(at[r])] = "removed" THEN @ ELSE 0]
  /\ UNCHANGED <<emitVars, deliveryVars, endpoint, at, had, history, troubles>>

\* Mutant of GivesUp: one attempt too few.
GivesUpEarlier(n) == n + 1 >= MaxAttempts

\* giveUp
GivesUp(n) == n >= MaxAttempts

\* The delivery failed, or rests until its next attempt.
Failed(r) ==
  /\ pc[r] = "bad" /\ pc' = [pc EXCEPT ![r] = "counting"]
  /\ LET d == at[r]
         n == had[r][d] + 1 IN
     /\ UpdateRow(d, IF GivesUp(n) THEN "failed" ELSE "pending", n)
     /\ resting' = IF state[d] = "none" \/ GivesUp(n) THEN resting \ {d} ELSE resting \cup {d}
  /\ UNCHANGED <<emitVars, endpointVars, todo, at, had, saw, history, troubles>>

\* One failure more than was read; the endpoint is switched off by the last.
CountFailure(r) ==
  /\ pc[r] = "counting" /\ Done(r)
  /\ LET e == To(at[r])
         n == saw[r] + 1 IN
     IF endpoint[e] = "removed" THEN UNCHANGED <<endpointVars, beenOff>>
     ELSE /\ failures' = [failures EXCEPT ![e] = n]
          /\ endpoint' = IF n >= DisableAfter THEN [endpoint EXCEPT ![e] = "off"] ELSE endpoint
          /\ beenOff' = IF n >= DisableAfter THEN beenOff \cup {e} ELSE beenOff
  /\ UNCHANGED <<emitVars, deliveryVars, at, had, sent, inRow, afterRemoval, raced, broken, troubles>>

Delete(rows) ==
  /\ state' = [d \in Delivery |-> IF d \in rows THEN "none" ELSE state[d]]
  /\ attempts' = [d \in Delivery |-> IF d \in rows THEN 0 ELSE attempts[d]]
  /\ resting' = resting \ rows

\* The run is over.
End(r) ==
  /\ pc' = [pc EXCEPT ![r] = "idle"] /\ todo' = [todo EXCEPT ![r] = {}]
  /\ at' = [at EXCEPT ![r] = NoDelivery] /\ saw' = [saw EXCEPT ![r] = 0]
  /\ had' = [had EXCEPT ![r] = [d \in Delivery |-> 0]]
  /\ afterRemoval' = [afterRemoval EXCEPT ![r] = [e \in Endpoint |-> 0]]

\* At its end a run deletes the deliveries that are thirty days old, pending or
\* not.
Finish(r) ==
  /\ pc[r] = "working" /\ todo[r] = {} /\ End(r)
  /\ \E old \in {{}, {d \in Delivery : state[d] \in Decided}, Delivery} : Delete(old)
  /\ UNCHANGED <<emitVars, endpointVars, sent, inRow, beenOff, raced, broken, troubles>>

\* A statement of the run fails, or the process dies: the rest of the list is
\* left to the next run.
CutShort(r) ==
  /\ pc[r] # "idle" /\ End(r) /\ Trouble /\ broken' = TRUE
  /\ UNCHANGED <<emitVars, deliveryVars, endpointVars, sent, inRow, beenOff, raced>>

-----------------------------------------------------------------------------
\* The client switches an endpoint on, be it off or not; the count starts anew.
Enable(e) ==
  /\ Trouble
  /\ endpoint[e] # "removed"
  /\ endpoint' = [endpoint EXCEPT ![e] = "on"] /\ failures' = [failures EXCEPT ![e] = 0]
  /\ inRow' = [inRow EXCEPT ![e] = 0]
  /\ raced' = (raced \/ \E r \in Run : pc[r] \notin {"idle", "working"} /\ To(at[r]) = e)
  /\ UNCHANGED <<emitVars, deliveryVars, runVars, sent, beenOff, afterRemoval, broken>>

\* The client removes an endpoint; its deliveries go with it.
Remove(e) ==
  /\ Trouble
  /\ endpoint[e] # "removed" /\ endpoint' = [endpoint EXCEPT ![e] = "removed"]
  /\ Delete({d \in Delivery : To(d) = e})
  /\ beenOff' = beenOff \cup {e}
  /\ UNCHANGED <<emitVars, failures, runVars, sent, inRow, afterRemoval, raced, broken>>

Work(r) ==
  \/ \E d \in Delivery : Take(r, d)
  \/ Drop(r) \/ Request(r) \/ Delivered(r) \/ ResetFailures(r)
  \/ Failed(r) \/ CountFailure(r) \/ Finish(r)

HooksNext ==
  \/ \E v \in Event : Emit(v) \/ Enqueue(v)
  \/ \E d \in Delivery : FallDue(d)
  \/ \E r \in Run : Start(r) \/ Work(r) \/ CutShort(r)
  \/ \E e \in Endpoint : Enable(e) \/ Remove(e)

HooksSpec == HooksInit /\ [][HooksNext]_hooksVars

(* Time passes, runs go on to their ends, and the scheduler asks for others. *)
FairHooksSpec ==
  /\ HooksSpec
  /\ WF_hooksVars(\E d \in Delivery : FallDue(d))
  /\ WF_hooksVars(\E r \in Run : Work(r))
  /\ WF_hooksVars(\E r \in Run : Start(r))

-----------------------------------------------------------------------------
HooksTypeOK ==
  /\ emitting \in [Event -> {"idle", "read", "done"}]
  /\ heard \in [Event -> SUBSET Endpoint]
  /\ state \in [Delivery -> {"none", "pending"} \cup Decided]
  /\ attempts \in [Delivery -> Nat] /\ resting \subseteq Delivery
  /\ endpoint \in [Endpoint -> {"on", "off", "removed"}]
  /\ failures \in [Endpoint -> 0 .. DisableAfter]
  /\ pc \in [Run -> {"idle", "working", "dropping", "sending", "good", "bad",
                    "resetting", "counting"}]
  /\ todo \in [Run -> SUBSET Delivery] /\ at \in [Run -> Delivery]
  /\ had \in [Run -> [Delivery -> Nat]] /\ saw \in [Run -> 0 .. DisableAfter]
  /\ sent \in [Delivery -> 0 .. MaxAttempts + 1]
  /\ inRow \in [Endpoint -> 0 .. DisableAfter]
  /\ beenOff \subseteq Endpoint /\ afterRemoval \in [Run -> [Endpoint -> 0 .. 2]]
  /\ raced \in BOOLEAN /\ broken \in BOOLEAN /\ troubles \in 0 .. MaxTroubles

(* webhooks-out.ts:10, "four attempts over roughly an hour".  A delivery is
   given up only after as many requests, or because its endpoint was off or
   removed; runs that overwrite each other's counter never shorten this. *)
GivenUpOnlyAfterAttempts ==
  \A d \in Delivery :
    state[d] = "failed" => sent[d] >= MaxAttempts \/ To(d) \in beenOff

(* webhooks-out.ts:10, "then we stop".  The attempts are counted after the
   request, from a read before it: as long as no two runs are at work at once
   and none is cut short, no delivery is requested more often. *)
StopsAfterAttempts ==
  \A d \in Delivery : sent[d] <= MaxAttempts \/ raced \/ broken

(* webhooks-out.ts:10.  Four attempts are made of a delivery that is never
   acknowledged: no less while its endpoint is on, however the counter is read
   and written, and no more while runs neither overlap nor break off. *)
AttemptsAreKept == HooksTypeOK /\ GivenUpOnlyAfterAttempts /\ StopsAfterAttempts

(* webhook-endpoints/[id]/index.delete.ts:17-18, "sending to an address
   somebody has just removed is worse than dropping a handful of events".  A
   run that has a list of deliveries for an endpoint makes at most the one
   request it was about to make when the endpoint was removed. *)
OneRequestAfterRemoval ==
  \A r \in Run, e \in Endpoint : afterRemoval[r][e] <= 1

(* webhooks-out.ts:11, "an endpoint that fails twenty times running is switched
   off", and enable.post.ts:4-5, "a fixed endpoint gets a clean run".  It takes
   that many failed answers since the last good one and since it was switched
   on; unless a write from a stale read, or the loss of a reset, came between. *)
SwitchedOffAfterFailuresInRow ==
  [][\A e \in Endpoint :
       endpoint[e] = "on" /\ endpoint'[e] = "off" =>
         inRow[e] >= DisableAfter \/ raced \/ broken]_hooksVars

(* The queue drains: with finitely many events every delivery is acknowledged,
   given up or deleted, whatever the receiver does; where runs overlap it may
   go back to an earlier attempt, and again. *)
QueueDrains ==
  (\E d \in Delivery : state[d] = "pending")
    ~> raced \/ \A d \in Delivery : state[d] # "pending"
=============================================================================
