------------------------------ MODULE CallLog ------------------------------
(***************************************************************************)
(* One call's row of call_events and those who write it.  Carriers report  *)
(* to the web app, which reads the row and updates it afterwards           *)
(* (server/utils/call-log.ts): a report that finishes the call announces   *)
(* it to the client's webhooks and asks for the charge.  The call engine   *)
(* writes the row itself, waits for nothing and asks the web app for the   *)
(* charge only (control-app/src/call-log.ts); calls from the dialplan are  *)
(* posted to the web app and written directly when it does not answer.     *)
(* No step holds a lock: every read may be stale when it is used.          *)
(*                                                                         *)
(* A duration is "zero" or "some" seconds, or "none" (null).  The charge   *)
(* is one debit under the reference of the call, so it is a fact that      *)
(* holds or not (WalletTx: ReferenceMovesMoneyOnce).                       *)
(***************************************************************************)
EXTENDS Naturals

CONSTANTS
  Carrier,    \* webhooks of the carrier about this call, repeats included
  Dialplan,   \* reports the engine posts for calls of the dialplan
  Logged,     \* what the engine logs itself (logCall)
  ByPrefix,   \* those of an escalated call, found by a prefix of its id
  StatusOf,   \* what a report says; a carrier's may leave the status "unsaid"
  DurationOf, \* and the duration it carries
  MaxFaults   \* bound on crashes and on requests that fail

Finished == {"completed", "ended", "missed"}
WebReports == Carrier \cup Dialplan
EngineReports == Logged \cup Dialplan
Reports == Carrier \cup EngineReports

ASSUME CallLogAssumption ==
  /\ Carrier # {} /\ Carrier \cap EngineReports = {} /\ Logged \cap Dialplan = {}
  /\ ByPrefix \subseteq Logged /\ MaxFaults \in Nat
  /\ StatusOf \in [Reports -> {"unsaid", "ringing", "answered"} \cup Finished]
  /\ \A r \in EngineReports : StatusOf[r] # "unsaid"
  /\ DurationOf \in [Reports -> {"none", "zero", "some"}]

VARIABLES
  status,    \* call_events.status, "none" while there is no row
  duration,  \* call_events.duration
  web,       \* where the web app is with a report
  seen,      \* the status it read
  eng,       \* where the engine is with a report
  charging,  \* reports whose charge is on its way
  charged,   \* the debit call_<id> is in the ledger
  announced, \* reports that queued call.completed (history)
  late,      \* reports read after one that announced the call was handled (history)
  slipped,   \* a write has undone that the call is over (history)
  faults     \* crashes and failed requests so far

rowVars == <<status, duration, slipped>>
webVars == <<web, seen, late, announced>>
logVars == <<rowVars, webVars, eng, charging, charged, faults>>

\* The call came in at a carrier, and may be escalated to the engine; or it
\* was placed through the dialplan; or it came in at the engine.  One of the
\* carrier's webhooks never arrives.
LogInit ==
  /\ status = "none" /\ duration = "none" /\ slipped = FALSE
  /\ \E missing \in Carrier :
     \E active \in {(Carrier \ {missing}) \cup ByPrefix, Dialplan, Logged \ ByPrefix} :
       /\ web = [r \in WebReports |-> IF r \in Carrier \cap active THEN "sent" ELSE "away"]
       /\ eng = [r \in EngineReports |-> IF r \in active THEN "issued" ELSE "away"]
  /\ seen = [r \in WebReports |-> "none"]
  /\ late = {} /\ announced = {}
  /\ charging = {} /\ charged = FALSE /\ faults = 0

-----------------------------------------------------------------------------
\* RANK: the order a status may move in.
Rank(s) == IF s \in Finished THEN 3
           ELSE IF s = "answered" THEN 2 ELSE IF s = "ringing" THEN 1 ELSE 0

\* The status the web app writes, decided on the status it read.
Moves(r) == StatusOf[r] # "unsaid" /\ Rank(StatusOf[r]) >= Rank(seen[r])

\* Mutant of Finishes: the status before is not looked at.
FinishesAgain(r, old) == StatusOf[r] \in Finished

\* TERMINAL, before and after: the report finishes the call.
Finishes(r, old) == StatusOf[r] \in Finished /\ old \notin Finished

\* maybeEmitCompleted and maybeChargeCall.
Announce(r, old) ==
  /\ announced' = IF Finishes(r, old) THEN announced \cup {r} ELSE announced
  /\ charging' = IF Finishes(r, old) /\ DurationOf[r] = "some"
                 THEN charging \cup {r} ELSE charging

\* A write that puts a call that is over back among the live ones.
Write(s, d) ==
  /\ status' = s /\ duration' = d
  /\ slipped' = (slipped \/ (status \in Finished /\ s \notin Finished))

\* The handler ends, its local variables with it.
Answer(r) ==
  /\ web' = [web EXCEPT ![r] = "done"] /\ seen' = [seen EXCEPT ![r] = "none"]
  /\ late' = IF r \in announced' THEN late ELSE late \ {r}

-----------------------------------------------------------------------------
\* upsertCallEvent reads the row.  Without one the call is announced and
\* charged before anything is written.
Read(r) ==
  /\ web[r] = "sent"
  /\ seen' = [seen EXCEPT ![r] = status]
  /\ late' = IF \E q \in announced : web[q] = "done" THEN late \cup {r} ELSE late
  /\ IF status = "none"
     THEN web' = [web EXCEPT ![r] = "inserting"] /\ Announce(r, "none")
     ELSE web' = [web EXCEPT ![r] = "updating"] /\ UNCHANGED <<announced, charging>>
  /\ UNCHANGED <<rowVars, eng, charged, faults>>

\* The insert of a second report of a new call fails on the unique index and
\* what it said is lost.
Insert(r) ==
  /\ web[r] = "inserting"
  /\ IF status = "none"
     THEN Write(IF StatusOf[r] = "unsaid" THEN "ringing" ELSE StatusOf[r],
                IF DurationOf[r] = "none" THEN "zero" ELSE DurationOf[r])
     ELSE /\ slipped' = (slipped \/ StatusOf[r] \in Finished)
          /\ UNCHANGED <<status, duration>>
  /\ UNCHANGED announced /\ Answer(r)
  /\ UNCHANGED <<eng, charging, charged, faults>>

Update(r) ==
  /\ web[r] = "updating" /\ web' = [web EXCEPT ![r] = "updated"]
  /\ Write(IF Moves(r) THEN StatusOf[r] ELSE status,
           IF DurationOf[r] = "none" THEN duration ELSE DurationOf[r])
  /\ UNCHANGED <<seen, late, announced, eng, charging, charged, faults>>

\* Only now the move into a terminal state is announced and charged.
AfterUpdate(r) ==
  /\ web[r] = "updated"
  /\ Announce(r, seen[r]) /\ Answer(r)
  /\ UNCHANGED <<rowVars, eng, charged, faults>>

\* chargeCall: the debit is keyed on the call.
Charge(r) ==
  /\ r \in charging /\ charging' = charging \ {r} /\ charged' = TRUE
  /\ UNCHANGED <<rowVars, webVars, eng, faults>>

-----------------------------------------------------------------------------
\* logCall on an escalated call: there must be a row to attach to.
FindPrefix(r) ==
  /\ r \in ByPrefix /\ eng[r] = "issued"
  /\ eng' = [eng EXCEPT ![r] = IF status = "none" THEN "done" ELSE "found"]
  /\ UNCHANGED <<rowVars, webVars, charging, charged, faults>>

\* Mutant of LogCall: an "ended" call is not one that is charged.
LogCallCompleted(r, inferred) ==
  /\ eng[r] = IF r \in ByPrefix THEN "found" ELSE "issued"
  /\ r \in Logged
  /\ Write(StatusOf[r],
           IF DurationOf[r] # "none" \/ status = "none" THEN DurationOf[r]
           ELSE IF duration # "none" \/ StatusOf[r] # "ended" THEN duration
           ELSE inferred)
  /\ eng' = [eng EXCEPT ![r] = IF StatusOf[r] = "completed" THEN "written" ELSE "done"]
  /\ UNCHANGED <<webVars, charging, charged, faults>>

\* The upsert of logCall: the status is written over whatever is there.  The
\* duration is kept, or inferred when an ended call has none.
LogCall(r, inferred) ==
  /\ eng[r] = IF r \in ByPrefix THEN "found" ELSE "issued"
  /\ r \in Logged
  /\ Write(StatusOf[r],
           IF DurationOf[r] # "none" \/ status = "none" THEN DurationOf[r]
           ELSE IF duration # "none" \/ StatusOf[r] # "ended" THEN duration
           ELSE inferred)
  /\ eng' = [eng EXCEPT ![r] = IF StatusOf[r] \in Finished THEN "written" ELSE "done"]
  /\ UNCHANGED <<webVars, charging, charged, faults>>

\* The duration is read back and billed by.
ReadBack(r) ==
  /\ eng[r] = "written"
  /\ eng' = [eng EXCEPT ![r] =
       IF duration = "some" \/ (duration = "none" /\ DurationOf[r] = "some")
       THEN "billing" ELSE "done"]
  /\ UNCHANGED <<rowVars, webVars, charging, charged, faults>>

\* The web app charges (charge-call), whatever becomes of its answer.
AskCharge(r) ==
  /\ eng[r] = "billing" /\ eng' = [eng EXCEPT ![r] = "done"]
  /\ charging' = charging \cup {r}
  /\ UNCHANGED <<rowVars, webVars, charged, faults>>

\* logOutbound posts the report (call-logged) ...
Post(r) ==
  /\ r \in Dialplan /\ eng[r] = "issued"
  /\ eng' = [eng EXCEPT ![r] = "posted"] /\ web' = [web EXCEPT ![r] = "sent"]
  /\ UNCHANGED <<rowVars, seen, late, announced, charging, charged, faults>>

\* ... and is content with an answer, which says nothing of the write;
Posted(r) ==
  /\ r \in Dialplan /\ eng[r] = "posted" /\ web[r] \in {"done", "failed"}
  /\ eng' = [eng EXCEPT ![r] = "done"]
  /\ UNCHANGED <<rowVars, webVars, charging, charged, faults>>

\* or the connection breaks, or four seconds pass,
GiveUp(r) ==
  /\ r \in Dialplan /\ eng[r] = "posted"
  /\ \/ web[r] = "lost" /\ UNCHANGED faults
     \/ faults < MaxFaults /\ faults' = faults + 1
  /\ eng' = [eng EXCEPT ![r] = "fallback"]
  /\ UNCHANGED <<rowVars, webVars, charging, charged>>

\* and writes the row itself, without a charge.
WriteDirectly(r) ==
  /\ r \in Dialplan /\ eng[r] = "fallback" /\ eng' = [eng EXCEPT ![r] = "done"]
  /\ Write(StatusOf[r], DurationOf[r])
  /\ UNCHANGED <<webVars, charging, charged, faults>>

-----------------------------------------------------------------------------
\* The web app restarts: requests in progress and charges on their way are
\* lost.  A carrier that got no answer has its repeats in Carrier.
Crash ==
  /\ faults < MaxFaults /\ faults' = faults + 1
  /\ web' = [r \in WebReports |->
       IF web[r] \in {"inserting", "updating", "updated"} THEN "lost" ELSE web[r]]
  /\ charging' = {}
  /\ UNCHANGED <<rowVars, seen, late, announced, eng, charged>>

\* A request is lost, or a write or a debit fails and is logged and dropped.
Fails(r) ==
  /\ faults < MaxFaults /\ faults' = faults + 1
  /\ \/ /\ r \in charging /\ charging' = charging \ {r} /\ UNCHANGED <<eng, web>>
     \/ /\ r \in EngineReports
        /\ eng[r] \in {"issued", "found", "written", "billing", "fallback"}
        /\ eng' = [eng EXCEPT ![r] = "done"] /\ UNCHANGED <<charging, web>>
     \/ /\ r \in WebReports /\ UNCHANGED <<charging, eng>>
        /\ \/ web[r] = "sent" /\ web' = [web EXCEPT ![r] = "lost"]
           \/ /\ web[r] \in {"sent", "inserting", "updating"}
              /\ web' = [web EXCEPT ![r] = "failed"]
  /\ UNCHANGED <<rowVars, seen, late, announced, charged>>

WebApp ==
  \/ \E r \in WebReports : Read(r) \/ Insert(r) \/ Update(r) \/ AfterUpdate(r)
  \/ \E r \in Reports : Charge(r)
CallEngine ==
  \E r \in EngineReports :
    \/ FindPrefix(r) \/ ReadBack(r) \/ AskCharge(r)
    \/ \E inferred \in {"zero", "some"} : LogCall(r, inferred)
    \/ Post(r) \/ Posted(r) \/ GiveUp(r) \/ WriteDirectly(r)
Faults == Crash \/ \E r \in Reports : Fails(r)
LogNext == WebApp \/ CallEngine \/ Faults

LogSpec == LogInit /\ [][LogNext]_logVars

(* Requests that are being handled are handled to the end.  Each report takes
   finitely many steps, so fairness of each side as a whole is enough. *)
FairLogSpec == LogSpec /\ WF_logVars(WebApp) /\ WF_logVars(CallEngine)

-----------------------------------------------------------------------------
LogTypeOK ==
  /\ status \in {"none", "ringing", "answered"} \cup Finished
  /\ duration \in {"none", "zero", "some"} /\ slipped \in BOOLEAN
  /\ web \in [WebReports -> {"away", "sent", "inserting", "updating", "updated",
                            "done", "failed", "lost"}]
  /\ seen \in [WebReports -> {"none", "ringing", "answered"} \cup Finished]
  /\ late \subseteq WebReports /\ announced \subseteq WebReports
  /\ eng \in [EngineReports -> {"away", "issued", "found", "written", "billing",
                               "posted", "fallback", "done"}]
  /\ charging \subseteq Reports /\ charged \in BOOLEAN
  /\ faults \in Nat

(* server/utils/call-log.ts:46-47, "only on the move into a terminal state, so
   a client hears once about a finished call rather than on every carrier
   update".  Reports that overlap may each announce the call; one that is read
   after another was handled announces it again only when a write has put the
   call back among the live ones. *)
HeardOnce == announced \cap late # {} => slipped

\* An escalation has marked the call as over.
ClosedByEngine ==
  \E r \in ByPrefix : StatusOf[r] \in Finished /\ eng[r] \in {"written", "billing", "done"}

(* Once a report that finishes the call was handled, the client has been told,
   or is about to be, whatever was handled before or meanwhile; the exceptions
   are faults and calls that an escalation has closed first. *)
CompletionIsHeard ==
  (\E r \in Carrier : web[r] = "done" /\ StatusOf[r] \in Finished) =>
    \/ announced # {} \/ \E r \in Carrier : web[r] = "updated"
    \/ faults > 0 \/ ClosedByEngine

(* server/utils/call-log.ts:46-47: the end of a call is told to the client
   once, neither again nor not at all, whatever order its reports take. *)
EndIsToldOnce == LogTypeOK /\ HeardOnce /\ CompletionIsHeard

\* A report is handled that says the call is over, and how long it took.
Handled(r) ==
  /\ StatusOf[r] \in Finished /\ DurationOf[r] = "some"
  /\ IF r \in Carrier THEN web[r] = "done" ELSE eng[r] = "done"

(* server/utils/call-log.ts:161-163, "every carrier's completion passes through
   this function".  Without faults a call that is reported over with a
   duration is charged, on each of the three ways it may be reported; unless
   an escalation has closed the row first. *)
FinishedIsCharged ==
  (\E r \in Reports : Handled(r) /\ ~(r \in Carrier /\ ClosedByEngine))
    ~> charged \/ faults > 0
=============================================================================
