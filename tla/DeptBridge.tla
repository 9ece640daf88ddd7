----------------------------- MODULE DeptBridge -----------------------------
(***************************************************************************)
(* Ringing a team: bridgeToDepartment of control-app/src/bridge.ts.  The   *)
(* engine puts the caller into a bridge, dials every member, joins the     *)
(* first who answers and cancels the others; a hang-up or the end of the   *)
(* ringing window tears the call down.  JavaScript runs from one await to  *)
(* the next without interruption, so a step here is a command to Asterisk  *)
(* with the code up to the next await.  The procedure itself (main), the   *)
(* handler of the member who answered first (taker) and the teardown       *)
(* (clean) interleave.  A hang-up is an event that arrives later, and is   *)
(* lost when nobody listens for it yet.                                    *)
(***************************************************************************)
EXTENDS Naturals, FiniteSets, Sequences

CONSTANTS Members, Caller, None

ASSUME DeptBridgeAssumption == None \notin Members /\ Caller \notin Members

VARIABLES
  main,      \* where bridgeToDepartment is
  taker,     \* where the handler of the winner's StasisStart is
  clean,     \* where the teardown is; "no" until cleanedUp is set
  winner,    \* answeredId
  answered,  \* wasAnswered
  left,      \* legs that the running loop has still to hang up, per loop
  leg,       \* each member's channel at Asterisk
  callerUp,  \* the caller's channel at Asterisk
  bridged,   \* channels in the bridge
  bridgeUp,  \* the bridge exists
  starts,    \* StasisStart events on their way
  ends,      \* StasisEnd events on their way
  reports,   \* what onStatus was told
  belated    \* history: the winner answered into a running teardown

engineVars == <<main, taker, clean, winner, answered, left>>
asteriskVars == <<leg, callerUp, bridged, bridgeUp, starts, ends>>
toldVars == <<reports, belated>>
vars == <<engineVars, asteriskVars, toldVars>>

Init ==
  /\ main = "adding" /\ taker = "none" /\ clean = "no"
  /\ winner = None /\ answered = FALSE
  /\ left = [taker |-> {}, clean |-> {}]
  /\ leg = [m \in Members |-> "none"]
  /\ callerUp = TRUE
  /\ bridged = {} /\ bridgeUp = TRUE
  /\ starts = {} /\ ends = {}
  /\ reports = <<>> /\ belated = FALSE

\* Mutant of Teardown: cleanedUp is not looked at.
TeardownAgain == clean' = "stopping"

\* cleanup() returns at once when it has been called before.
Teardown == clean' = IF clean = "no" THEN "stopping" ELSE clean
\* Hanging up a channel that does not exist, or no longer, is an error that
\* the code ignores.
HungUp(m) == [leg EXCEPT ![m] = IF @ \in {"ringing", "up"} THEN "gone" ELSE @]

-----------------------------------------------------------------------------
\* The caller joins the bridge; or is gone, and the procedure throws.
AddCaller ==
  /\ main = "adding"
  /\ IF callerUp
     THEN main' = "added" /\ bridged' = {Caller} /\ UNCHANGED clean
     ELSE main' = "throwing" /\ Teardown /\ UNCHANGED bridged
  /\ UNCHANGED <<taker, winner, answered, left, leg, callerUp, bridgeUp,
                 starts, ends, toldVars>>

\* From here the caller's end and the members' answers are listened for.
Listen ==
  /\ main = "added" /\ main' = "ringing"
  /\ UNCHANGED <<taker, clean, winner, answered, left, asteriskVars, toldVars>>

\* Ringback is on; every leg gets its channel object at once.
CreateLegs ==
  /\ main = "ringing" /\ main' = "dialing"
  /\ UNCHANGED <<taker, clean, winner, answered, left, asteriskVars, toldVars>>

\* Each leg is dialled when Asterisk has listed its contacts, or fails.
Originate(m, succeeds) ==
  /\ main = "dialing" /\ leg[m] = "none"
  /\ leg' = [leg EXCEPT ![m] = IF succeeds THEN "ringing" ELSE "failed"]
  /\ UNCHANGED <<engineVars, callerUp, bridged, bridgeUp, starts, ends, toldVars>>

\* All are dialled: wait for the outcome, unless every one failed; then the
\* procedure waits for its own teardown, not for one that runs already.
AllDialled ==
  /\ main = "dialing" /\ \A m \in Members : leg[m] # "none"
  /\ IF \A m \in Members : leg[m] = "failed"
     THEN main' = (IF clean = "no" THEN "failing" ELSE "over") /\ Teardown
     ELSE main' = "waiting" /\ UNCHANGED clean
  /\ UNCHANGED <<taker, winner, answered, left, asteriskVars, toldVars>>

\* Mutant of GuardFires: it asks, as the bridge to one member does
\* (bridge.ts:241), whether somebody is connected.
GuardAsksConnected ==
  /\ main = "waiting" /\ ~answered /\ clean = "no"
  /\ Teardown
  /\ UNCHANGED <<main, taker, winner, answered, left, asteriskVars, toldVars>>

\* The ringing window is over and nobody has answered.
GuardFires ==
  /\ main = "waiting" /\ winner = None /\ clean = "no"
  /\ Teardown
  /\ UNCHANGED <<main, taker, winner, answered, left, asteriskVars, toldVars>>

Return ==
  /\ main \in {"throwing", "failing", "waiting"} /\ clean = "done"
  /\ main' = "over"
  /\ UNCHANGED <<taker, clean, winner, answered, left, asteriskVars, toldVars>>

-----------------------------------------------------------------------------
\* Mutant of MemberStarts: whoever answers is taken.
MemberStartsAnyway(m) ==
  /\ m \in starts /\ starts' = starts \ {m}
  /\ IF clean = "done" THEN UNCHANGED <<winner, taker, leg, belated>>
     ELSE /\ winner' = m /\ taker' = "answering" /\ UNCHANGED leg
          /\ belated' = (clean # "no")
  /\ UNCHANGED <<main, clean, answered, left, callerUp, bridged, bridgeUp,
                 ends, reports>>

\* onMemberStasisStart: the first to answer is taken, a later one hung up.
\* After the teardown nobody listens.
MemberStarts(m) ==
  /\ m \in starts /\ starts' = starts \ {m}
  /\ \/ clean = "done" /\ UNCHANGED <<winner, taker, leg, belated>>
     \/ /\ clean # "done" /\ winner # None /\ leg' = HungUp(m)
        /\ UNCHANGED <<winner, taker, belated>>
     \/ /\ clean # "done" /\ winner = None
        /\ winner' = m /\ taker' = "answering" /\ belated' = (clean # "no")
        /\ UNCHANGED leg
  /\ UNCHANGED <<main, clean, answered, left, callerUp, bridged, bridgeUp,
                 ends, reports>>

\* The leg is answered, unless it is gone.
AnswerLeg ==
  /\ taker = "answering"
  /\ IF leg[winner] = "up" THEN taker' = "joining" /\ UNCHANGED clean
     ELSE taker' = "failed" /\ Teardown
  /\ UNCHANGED <<main, winner, answered, left, asteriskVars, toldVars>>

\* It is added to the bridge, unless either is gone.
JoinLeg ==
  /\ taker = "joining"
  /\ IF leg[winner] = "up" /\ bridgeUp
     THEN taker' = "joined" /\ bridged' = bridged \cup {winner} /\ UNCHANGED clean
     ELSE taker' = "failed" /\ Teardown /\ UNCHANGED bridged
  /\ UNCHANGED <<main, winner, answered, left, leg, callerUp, bridgeUp, starts,
                 ends, toldVars>>

\* The member's own hang-up is listened for when all others are cancelled.
Serves(others) == IF others = {} THEN "serving" ELSE "cancelling"

ReportAnswered ==
  LET others == Members \ {winner} IN
  /\ taker = "joined" /\ taker' = Serves(others)
  /\ answered' = TRUE
  /\ reports' = Append(reports, "answered")
  /\ left' = [left EXCEPT !.taker = others]
  /\ UNCHANGED <<main, clean, winner, asteriskVars, belated>>

CancelOther(m) ==
  /\ taker = "cancelling" /\ m \in left.taker
  /\ left' = [left EXCEPT !.taker = @ \ {m}]
  /\ taker' = Serves(left.taker \ {m})
  /\ leg' = HungUp(m) /\ bridged' = bridged \ {m}
  /\ UNCHANGED <<main, clean, winner, answered, callerUp, bridgeUp, starts,
                 ends, toldVars>>

\* Mutant of Heard: only the caller's hang-up is listened for.
HeardOfCaller(x) == x = Caller /\ main \notin {"adding", "added", "throwing"}

\* A hang-up is delivered: it tears the call down if it is listened for.
Heard(x) ==
  \/ x = Caller /\ main \notin {"adding", "added", "throwing"}
  \/ x = winner /\ taker = "serving"
HearEnd(x) ==
  /\ x \in ends /\ ends' = ends \ {x}
  /\ IF Heard(x) THEN Teardown ELSE UNCHANGED clean
  /\ UNCHANGED <<main, taker, winner, answered, left, leg, callerUp, bridged,
                 bridgeUp, starts, toldVars>>

-----------------------------------------------------------------------------
\* cleanup, from one await to the next.  The loop hangs up the legs that have
\* a channel object by now.
ReportEnd ==
  /\ clean = "stopping" /\ clean' = "hanging"
  /\ reports' = Append(reports, IF answered THEN "ended" ELSE "unanswered")
  /\ left' = [left EXCEPT !.clean =
       IF main \in {"dialing", "failing", "waiting", "over"} THEN Members ELSE {}]
  /\ UNCHANGED <<main, taker, winner, answered, asteriskVars, belated>>

HangUpLeg(m) ==
  /\ clean = "hanging" /\ m \in left.clean
  /\ left' = [left EXCEPT !.clean = @ \ {m}]
  /\ leg' = HungUp(m) /\ bridged' = bridged \ {m}
  /\ UNCHANGED <<main, taker, clean, winner, answered, callerUp, bridgeUp,
                 starts, ends, toldVars>>

DestroyBridge ==
  /\ clean = "hanging" /\ left.clean = {} /\ clean' = "closing"
  /\ bridgeUp' = FALSE /\ bridged' = {}
  /\ UNCHANGED <<main, taker, winner, answered, left, leg, callerUp, starts,
                 ends, toldVars>>

\* The caller of an answered call is hung up; the other one is kept for the
\* message that nobody is available.
Close ==
  /\ clean = "closing" /\ clean' = "done"
  /\ callerUp' = (callerUp /\ ~answered)
  /\ UNCHANGED <<main, taker, winner, answered, left, leg, bridged, bridgeUp,
                 starts, ends, toldVars>>

-----------------------------------------------------------------------------
\* People (external): the caller hangs up, members answer, decline or do not
\* hear it, and hang up.
CallerLeaves ==
  /\ callerUp /\ callerUp' = FALSE
  /\ ends' = ends \cup {Caller} /\ bridged' = bridged \ {Caller}
  /\ UNCHANGED <<engineVars, leg, bridgeUp, starts, toldVars>>
MemberAnswers(m) ==
  /\ leg[m] = "ringing" /\ leg' = [leg EXCEPT ![m] = "up"]
  /\ starts' = starts \cup {m}
  /\ UNCHANGED <<engineVars, callerUp, bridged, bridgeUp, ends, toldVars>>
RingEnds(m) ==
  /\ leg[m] = "ringing" /\ leg' = [leg EXCEPT ![m] = "gone"]
  /\ UNCHANGED <<engineVars, callerUp, bridged, bridgeUp, starts, ends, toldVars>>
MemberLeaves(m) ==
  /\ leg[m] = "up" /\ leg' = [leg EXCEPT ![m] = "gone"]
  /\ ends' = ends \cup {m} /\ bridged' = bridged \ {m}
  /\ UNCHANGED <<engineVars, callerUp, bridgeUp, starts, toldVars>>

Engine ==
  \/ AddCaller \/ Listen \/ CreateLegs \/ AllDialled \/ GuardFires \/ Return
  \/ AnswerLeg \/ JoinLeg \/ ReportAnswered \/ ReportEnd \/ DestroyBridge
  \/ Close
  \/ \E m \in Members :
       \/ \E succeeds \in BOOLEAN : Originate(m, succeeds)
       \/ MemberStarts(m) \/ CancelOther(m) \/ HangUpLeg(m)
  \/ \E x \in Members \cup {Caller} : HearEnd(x)
People ==
  \/ CallerLeaves
  \/ \E m \in Members : MemberAnswers(m) \/ RingEnds(m) \/ MemberLeaves(m)
Next == Engine \/ People

Spec == Init /\ [][Next]_vars

(* Commands return, events arrive and timers fire.  A call takes finitely many
   steps of the engine, so fairness of the engine as a whole is enough; people
   need do nothing. *)
FairSpec == Spec /\ WF_vars(Engine)

-----------------------------------------------------------------------------
TypeOK ==
  /\ main \in {"adding", "added", "ringing", "dialing", "waiting", "failing",
               "throwing", "over"}
  /\ taker \in {"none", "answering", "joining", "joined", "cancelling",
                "serving", "failed"}
  /\ clean \in {"no", "stopping", "hanging", "closing", "done"}
  /\ winner \in Members \cup {None} /\ answered \in BOOLEAN
  /\ left \in [taker : SUBSET Members, clean : SUBSET Members]
  /\ leg \in [Members -> {"none", "ringing", "up", "gone", "failed"}]
  /\ callerUp \in BOOLEAN /\ bridgeUp \in BOOLEAN
  /\ bridged \subseteq Members \cup {Caller}
  /\ starts \subseteq Members /\ ends \subseteq Members \cup {Caller}
  /\ reports \in Seq({"answered", "ended", "unanswered"}) /\ belated \in BOOLEAN

(* Nobody but the member who answered first is ever connected with the caller,
   whatever answers, hang-ups and cancellations cross each other. *)
OnlyFirstIsConnected == bridged \ {Caller} \subseteq {winner}

(* The call log hears each thing once, and an end only of a call it was told
   had been answered: hang-ups of both sides, the timeout and a failure to
   join all ask for the same teardown (bridge.ts:283-284). *)
ReportsAreOrderly ==
  \A i, j \in 1 .. Len(reports) :
    /\ reports[i] = reports[j] => i = j
    /\ {reports[i], reports[j]} # {"ended", "unanswered"}
    /\ reports[i] = "ended" => i > 1 /\ reports[i - 1] = "answered"

(* bridge.ts:301-302: when nobody answered "the caller is deliberately kept
   alive to hear the unavailable message".  The engine hangs up only on a caller
   whose call the log heard answered and ended: not on one whose member answers
   while the guard, a failed join or the caller's end has the call reported
   unanswered.  The exception is a member who is taken after the teardown has
   begun: the handler connects him (324-333) and the teardown then finds
   wasAnswered set (303). *)
UnansweredCallerIsKept ==
  [][callerUp /\ ~callerUp' /\ Caller \notin ends' =>
       belated \/ \E i \in 1 .. Len(reports) : reports[i] = "ended"]_vars

(* Ringing ends for the caller, although members and callers do nothing and
   events were missed: a member serves, or the procedure returns. *)
RingingIsDecided == <>(taker = "serving" \/ main = "over")

(* bridge.ts:298-300: when the member hangs up "the caller is still on the line
   with nobody there ... so do it explicitly".  Whatever else the call is doing,
   a member's hang-up that is listened for releases the caller, or the call has
   returned and the caller hears the message. *)
ServedCallerIsReleased ==
  winner \in ends /\ taker = "serving" ~> ~callerUp \/ main = "over"

(* Nobody is stranded on the line: neither while it rings nor after the member
   has gone. *)
CallerIsNotStranded == RingingIsDecided /\ ServedCallerIsReleased
=============================================================================
