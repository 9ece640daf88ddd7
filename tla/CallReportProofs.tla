-------------------------- MODULE CallReportProofs --------------------------
(***************************************************************************)
(* What is said of a call, from the bridge that rings a team to the        *)
(* client's own server.                                                    *)
(*                                                                         *)
(* The bridge (DeptBridge): answeredId is set once, by a handler that runs *)
(* to its next await without interruption; the teardown passes its report  *)
(* once; and the two together can tell only five stories.  While the       *)
(* caller is up, a teardown has begun before anybody was taken, or after a *)
(* failed join, or after the answer was reported: in the first two cases   *)
(* nobody is connected any more unless he answers too late.                *)
(*                                                                         *)
(* The log (CallLog): a report announces the end only if the row it read   *)
(* was not finished, and a report read after the end finds it finished.    *)
(*                                                                         *)
(* The webhooks (WebhooksOut): a run's copies of the counters are behind   *)
(* what has happened, never ahead, so nothing is given up early; while no  *)
(* two runs overlap and none breaks off, they are what has happened, so    *)
(* nothing is sent too often and no endpoint is switched off too early.    *)
(***************************************************************************)
EXTENDS DeptBridge, CallLog, WebhooksOut, SequenceTheorems, TLAPS

\* What onStatus may have been told so far.
Stories == {<<>>, <<"answered">>, <<"unanswered">>, <<"answered", "ended">>,
            <<"unanswered", "answered">>}

\* No winner, no handler; and only a handler past the join has answered.
TakerInv ==
  /\ winner = None => taker = "none"
  /\ answered <=> taker \in {"cancelling", "serving"}

\* The story follows from what the handler and the teardown have passed.
Told == clean \notin {"no", "stopping"}
StoryInv ==
  /\ reports \in Stories
  /\ ~answered /\ ~Told => reports = <<>>
  /\ answered /\ ~Told => reports = <<"answered">>
  /\ ~answered /\ Told => reports = <<"unanswered">>

BridgeInv == TypeOK /\ TakerInv /\ OnlyFirstIsConnected /\ StoryInv

\* Two reports after each other.
LEMMA SecondReport ==
  ASSUME NEW first, NEW second
  PROVE  Append(<<first>>, second) = <<first, second>>
<1>1. <<first>> \in Seq({first, second}) /\ Len(<<first>>) = 1
  OBVIOUS
<1>2. /\ Append(<<first>>, second) \in Seq({first, second})
      /\ Len(Append(<<first>>, second)) = 2
      /\ Append(<<first>>, second)[1] = first
      /\ Append(<<first>>, second)[2] = second
  BY <1>1, AppendProperties
<1>3. <<first, second>> \in Seq({first, second}) /\ Len(<<first, second>>) = 2
  OBVIOUS
<1>4. \A i \in 1 .. 2 : Append(<<first>>, second)[i] = <<first, second>>[i]
  BY <1>2
<1>5. QED BY <1>2, <1>3, <1>4, SeqEqual

LEMMA InitBridgeInv == Init => BridgeInv
<1> SUFFICES ASSUME Init PROVE BridgeInv
  OBVIOUS
<1> USE DeptBridgeAssumption DEF Init
<1>1. TypeOK
  <2>1. left \in [taker : SUBSET Members, clean : SUBSET Members]
    OBVIOUS
  <2>2. leg \in [Members -> {"none", "ringing", "up", "gone", "failed"}]
    OBVIOUS
  <2>3. reports \in Seq({"answered", "ended", "unanswered"})
    OBVIOUS
  <2>4. QED BY <2>1, <2>2, <2>3 DEF TypeOK
<1>2. TakerInv /\ OnlyFirstIsConnected
  BY DEF TakerInv, OnlyFirstIsConnected
<1>3. StoryInv
  BY DEF StoryInv, Stories, Told
<1>4. QED BY <1>1, <1>2, <1>3 DEF BridgeInv

\* Steps that report nothing and leave the handler's progress alone.
LEMMA QuietSteps ==
  ASSUME BridgeInv, TypeOK', UNCHANGED <<winner, answered, taker, reports>>,
         bridged' \subseteq bridged \cup {Caller}, Told' <=> Told
  PROVE  BridgeInv'
<1>1. TakerInv'
  BY DEF BridgeInv, TakerInv
<1>2. OnlyFirstIsConnected'
  BY DEF BridgeInv, OnlyFirstIsConnected
<1>3. StoryInv'
  BY DEF BridgeInv, StoryInv
<1>4. QED BY <1>1, <1>2, <1>3 DEF BridgeInv

LEMMA TeardownKeeps ==
  ASSUME TypeOK, Teardown
  PROVE  /\ clean' \in {"no", "stopping", "hanging", "closing", "done"}
         /\ Told' <=> Told
BY DEF TypeOK, Teardown, Told

LEMMA MainInv ==
  ASSUME BridgeInv,
         \/ AddCaller \/ Listen \/ CreateLegs \/ AllDialled \/ GuardFires
         \/ Return
  PROVE  BridgeInv'
<1> USE DEF BridgeInv, toldVars
<1>1. CASE AddCaller
  <2>1. (Told' <=> Told) /\ clean' \in {"no", "stopping", "hanging", "closing", "done"}
    BY <1>1, TeardownKeeps DEF AddCaller, Told, TypeOK
  <2>2. TypeOK'
    BY <1>1, <2>1 DEF AddCaller, TypeOK
  <2>3. QED BY <1>1, <2>1, <2>2, QuietSteps DEF AddCaller
<1>2. CASE AllDialled
  <2>1. (Told' <=> Told) /\ clean' \in {"no", "stopping", "hanging", "closing", "done"}
    BY <1>2, TeardownKeeps DEF AllDialled, Told, TypeOK
  <2>2. TypeOK'
    BY <1>2, <2>1 DEF AllDialled, TypeOK, asteriskVars
  <2>3. QED BY <1>2, <2>1, <2>2, QuietSteps DEF AllDialled, asteriskVars
<1>3. CASE GuardFires
  <2>1. (Told' <=> Told) /\ clean' \in {"no", "stopping", "hanging", "closing", "done"}
    BY <1>3, TeardownKeeps DEF GuardFires
  <2>2. TypeOK'
    BY <1>3, <2>1 DEF GuardFires, TypeOK, asteriskVars
  <2>3. QED BY <1>3, <2>1, <2>2, QuietSteps DEF GuardFires, asteriskVars
<1>4. CASE Listen \/ CreateLegs \/ Return
  <2>1. TypeOK' /\ (Told' <=> Told)
    BY <1>4 DEF Listen, CreateLegs, Return, TypeOK, asteriskVars, Told
  <2>2. QED BY <1>4, <2>1, QuietSteps DEF Listen, CreateLegs, Return, asteriskVars
<1>5. QED BY <1>1, <1>2, <1>3, <1>4

\* Steps on a member's leg: dialling, hanging up, answering, leaving.
LEMMA LegInv ==
  ASSUME BridgeInv, NEW m \in Members, NEW succeeds \in BOOLEAN,
         \/ Originate(m, succeeds) \/ HangUpLeg(m) \/ MemberAnswers(m)
         \/ RingEnds(m) \/ MemberLeaves(m)
  PROVE  BridgeInv'
<1> USE DEF BridgeInv, engineVars, toldVars
<1>1. UNCHANGED <<main, taker, winner, answered, clean, callerUp, bridgeUp, reports, belated>>
  BY DEF Originate, HangUpLeg, MemberAnswers, RingEnds, MemberLeaves
<1>2. bridged' \subseteq bridged
  BY DEF Originate, HangUpLeg, MemberAnswers, RingEnds, MemberLeaves
<1>3. leg' \in [Members -> {"none", "ringing", "up", "gone", "failed"}]
  BY DEF Originate, HangUpLeg, MemberAnswers, RingEnds, MemberLeaves, HungUp, TypeOK
<1>4. left' \in [taker : SUBSET Members, clean : SUBSET Members]
  <2>1. CASE HangUpLeg(m)
    BY <2>1 DEF HangUpLeg, TypeOK
  <2>2. CASE UNCHANGED left
    BY <2>2 DEF TypeOK
  <2>3. QED BY <2>1, <2>2 DEF Originate, MemberAnswers, RingEnds, MemberLeaves
<1>5. starts' \subseteq Members /\ ends' \subseteq Members \cup {Caller}
  BY DEF Originate, HangUpLeg, MemberAnswers, RingEnds, MemberLeaves, TypeOK
<1>6. TypeOK'
  BY <1>1, <1>2, <1>3, <1>4, <1>5 DEF TypeOK
<1>7. QED BY <1>1, <1>2, <1>6, QuietSteps DEF Told

LEMMA CallerLeavesInv ==
  ASSUME BridgeInv, CallerLeaves PROVE BridgeInv'
<1>1. UNCHANGED <<main, taker, clean, winner, answered, left, leg, bridgeUp, starts, reports, belated>>
  BY DEF CallerLeaves, engineVars, toldVars
<1>2. callerUp' \in BOOLEAN /\ bridged' \subseteq bridged
  BY DEF CallerLeaves
<1>3. ends' \subseteq Members \cup {Caller}
  BY DEF CallerLeaves, BridgeInv, TypeOK
<1>4. TypeOK'
  BY <1>1, <1>2, <1>3 DEF BridgeInv, TypeOK
<1>5. QED BY <1>1, <1>2, <1>4, QuietSteps DEF Told

LEMMA HearEndInv ==
  ASSUME BridgeInv, NEW x \in Members \cup {Caller}, HearEnd(x)
  PROVE  BridgeInv'
<1>1. (Told' <=> Told) /\ clean' \in {"no", "stopping", "hanging", "closing", "done"}
  BY TeardownKeeps DEF HearEnd, BridgeInv, TypeOK, Told
<1>2. TypeOK'
  BY <1>1 DEF HearEnd, BridgeInv, TypeOK, toldVars
<1>3. QED BY <1>1, <1>2, QuietSteps DEF HearEnd, toldVars

LEMMA MemberStartsInv ==
  ASSUME BridgeInv, NEW m \in Members, MemberStarts(m)
  PROVE  BridgeInv'
<1> USE DeptBridgeAssumption DEF BridgeInv, MemberStarts, toldVars
<1>1. TypeOK'
  <2>1. leg' \in [Members -> {"none", "ringing", "up", "gone", "failed"}]
    BY DEF TypeOK, HungUp
  <2>2. /\ winner' \in Members \cup {None} /\ belated' \in BOOLEAN
        /\ taker' \in {taker, "answering"} /\ starts' \subseteq Members
    BY DEF TypeOK
  <2>3. QED BY <2>1, <2>2 DEF TypeOK
<1>2. CASE UNCHANGED <<winner, taker>>
  BY <1>1, <1>2, QuietSteps DEF Told
<1>3. CASE winner = None /\ winner' = m /\ taker' = "answering"
  <2>1. ~answered /\ bridged \ {Caller} = {}
    BY <1>3 DEF TakerInv, OnlyFirstIsConnected, TypeOK
  <2>2. TakerInv' /\ OnlyFirstIsConnected'
    BY <1>3, <2>1 DEF TakerInv, OnlyFirstIsConnected
  <2>3. StoryInv'
    BY DEF StoryInv, Told
  <2>4. QED BY <1>1, <2>2, <2>3
<1>4. QED BY <1>2, <1>3

LEMMA TakerStepsInv ==
  ASSUME BridgeInv, AnswerLeg \/ JoinLeg PROVE BridgeInv'
<1> USE DEF BridgeInv, toldVars
<1>1. /\ ~answered /\ winner # None /\ winner' = winner /\ ~answered'
      /\ taker' \in {"joining", "joined", "failed"}
  BY DEF AnswerLeg, JoinLeg, TakerInv
<1>2. (Told' <=> Told) /\ clean' \in {"no", "stopping", "hanging", "closing", "done"}
  BY TeardownKeeps DEF AnswerLeg, JoinLeg, TypeOK, Told
<1>3. TypeOK'
  BY <1>1, <1>2 DEF AnswerLeg, JoinLeg, TypeOK, asteriskVars
<1>4. TakerInv'
  BY <1>1 DEF TakerInv
<1>5. OnlyFirstIsConnected'
  BY <1>1 DEF AnswerLeg, JoinLeg, OnlyFirstIsConnected, asteriskVars
<1>6. StoryInv'
  BY <1>1, <1>2 DEF AnswerLeg, JoinLeg, StoryInv
<1>7. QED BY <1>3, <1>4, <1>5, <1>6

LEMMA ReportAnsweredInv ==
  ASSUME BridgeInv, ReportAnswered PROVE BridgeInv'
<1> USE DEF BridgeInv, toldVars
<1>1. ~answered /\ winner # None /\ answered' /\ taker' \in {"cancelling", "serving"}
  BY DEF ReportAnswered, TakerInv, Serves
<1>2. reports \in {<<>>, <<"unanswered">>}
  BY <1>1 DEF StoryInv
<1>3. reports' = Append(reports, "answered") /\ UNCHANGED <<clean, winner, asteriskVars>>
  BY DEF ReportAnswered
<1>4. /\ reports = <<>> => reports' = <<"answered">>
      /\ reports = <<"unanswered">> => reports' = <<"unanswered", "answered">>
  <2>1. Append(<<>>, "answered") = <<"answered">>
    OBVIOUS
  <2>2. Append(<<"unanswered">>, "answered") = <<"unanswered", "answered">>
    BY SecondReport
  <2>3. QED BY <1>3, <2>1, <2>2
<1>5. TypeOK'
  <2>1. reports' \in Seq({"answered", "ended", "unanswered"})
    BY <1>3 DEF TypeOK
  <2>2. left' \in [taker : SUBSET Members, clean : SUBSET Members]
    BY DEF ReportAnswered, TypeOK
  <2>3. UNCHANGED <<main, belated>>
    BY DEF ReportAnswered
  <2>4. QED BY <1>1, <1>3, <2>1, <2>2, <2>3 DEF TypeOK, asteriskVars
<1>6. TakerInv' /\ OnlyFirstIsConnected'
  BY <1>1, <1>3 DEF TakerInv, OnlyFirstIsConnected, asteriskVars
<1>7. StoryInv'
  BY <1>1, <1>2, <1>3, <1>4 DEF StoryInv, Stories, Told
<1>8. QED BY <1>5, <1>6, <1>7

LEMMA CancelOtherInv ==
  ASSUME BridgeInv, NEW m \in Members, CancelOther(m) PROVE BridgeInv'
<1> USE DEF BridgeInv, toldVars
<1>1. winner # None /\ taker' \in {"cancelling", "serving"}
  BY DEF CancelOther, TakerInv, Serves
<1>2. TypeOK'
  BY <1>1 DEF CancelOther, TypeOK, HungUp
<1>3. TakerInv' /\ OnlyFirstIsConnected'
  BY <1>1 DEF CancelOther, TakerInv, OnlyFirstIsConnected
<1>4. StoryInv'
  BY DEF CancelOther, StoryInv, Told
<1>5. QED BY <1>2, <1>3, <1>4

LEMMA CleanupInv ==
  ASSUME BridgeInv, ReportEnd \/ DestroyBridge \/ Close PROVE BridgeInv'
<1> USE DEF BridgeInv, toldVars
<1>1. CASE ReportEnd
  <2>1. /\ reports' = Append(reports, IF answered THEN "ended" ELSE "unanswered")
        /\ UNCHANGED <<taker, winner, answered, asteriskVars>>
        /\ clean = "stopping" /\ clean' = "hanging" /\ belated' = belated
    BY <1>1 DEF ReportEnd
  <2>2. IF answered THEN reports' = <<"answered", "ended">>
        ELSE reports' = <<"unanswered">>
    <3>1. CASE answered
      <4>1. reports = <<"answered">>
        BY <2>1, <3>1 DEF StoryInv, Told
      <4>2. QED BY <2>1, <3>1, <4>1, SecondReport
    <3>2. CASE ~answered
      <4>1. reports = <<>>
        BY <2>1, <3>2 DEF StoryInv, Told
      <4>2. QED BY <2>1, <3>2, <4>1
    <3>3. QED BY <3>1, <3>2
  <2>3. TypeOK'
    <3>1. reports' \in Seq({"answered", "ended", "unanswered"})
      BY <2>1 DEF TypeOK
    <3>2. left' \in [taker : SUBSET Members, clean : SUBSET Members]
      BY <1>1 DEF ReportEnd, TypeOK
    <3>3. main' = main
      BY <1>1 DEF ReportEnd
    <3>4. QED BY <2>1, <3>1, <3>2, <3>3 DEF TypeOK, asteriskVars
  <2>4. TakerInv' /\ OnlyFirstIsConnected'
    BY <2>1 DEF TakerInv, OnlyFirstIsConnected, asteriskVars
  <2>5. StoryInv'
    BY <2>1, <2>2 DEF StoryInv, Stories, Told
  <2>6. QED BY <2>3, <2>4, <2>5
<1>2. CASE DestroyBridge \/ Close
  <2>1. TypeOK'
    <3>1. /\ clean' \in {"closing", "done"} /\ callerUp' \in BOOLEAN
          /\ bridgeUp' \in BOOLEAN /\ bridged' \subseteq bridged
          /\ UNCHANGED <<main, taker, winner, answered, left, leg, starts, ends>>
          /\ UNCHANGED toldVars
      BY <1>2 DEF DestroyBridge, Close, TypeOK
    <3>2. QED BY <3>1 DEF TypeOK
  <2>2. QED BY <1>2, <2>1, QuietSteps DEF DestroyBridge, Close, Told
<1>3. QED BY <1>1, <1>2

LEMMA NextBridgeInv == BridgeInv /\ [Next]_vars => BridgeInv'
<1> SUFFICES ASSUME BridgeInv, [Next]_vars PROVE BridgeInv'
  OBVIOUS
<1>1. CASE Engine
  BY <1>1, MainInv, LegInv, HearEndInv, MemberStartsInv, TakerStepsInv,
     ReportAnsweredInv, CancelOtherInv, CleanupInv DEF Engine
<1>2. CASE People
  BY <1>2, LegInv, CallerLeavesInv DEF People
<1>3. CASE UNCHANGED vars
  BY <1>3, QuietSteps
  DEF vars, engineVars, asteriskVars, toldVars, BridgeInv, TypeOK, Told
<1>4. QED BY <1>1, <1>2, <1>3 DEF Next

(* The state of the department bridge always has its type, for any team. *)
THEOREM BridgeTypeCorrect == Spec => []TypeOK
<1>1. BridgeInv => TypeOK
  BY DEF BridgeInv
<1>2. QED BY InitBridgeInv, NextBridgeInv, <1>1, PTL DEF Spec

(* In a team of any size nobody but the first to answer is ever connected
   with the caller. *)
THEOREM OnlyFirstIsEverConnected == Spec => []OnlyFirstIsConnected
<1>1. BridgeInv => OnlyFirstIsConnected
  BY DEF BridgeInv
<1>2. QED BY InitBridgeInv, NextBridgeInv, <1>1, PTL DEF Spec

(* Whatever asks for the teardown, and how often, the call log hears each
   thing once, and an end only after an answer. *)
THEOREM ReportsAreAlwaysOrderly == Spec => []ReportsAreOrderly
<1>1. BridgeInv => ReportsAreOrderly
  <2>1. CASE reports = <<"answered", "ended">>
    BY <2>1 DEF ReportsAreOrderly
  <2>2. CASE reports = <<"unanswered", "answered">>
    BY <2>2 DEF ReportsAreOrderly
  <2>3. CASE reports = <<>>
    BY <2>3 DEF ReportsAreOrderly
  <2>4. CASE reports = <<"answered">>
    BY <2>4 DEF ReportsAreOrderly
  <2>5. CASE reports = <<"unanswered">>
    BY <2>5 DEF ReportsAreOrderly
  <2>6. QED BY <2>1, <2>2, <2>3, <2>4, <2>5 DEF BridgeInv, StoryInv, Stories
<1>2. QED BY InitBridgeInv, NextBridgeInv, <1>1, PTL DEF Spec

\* Who was taken had answered; a caller who is gone stays gone; and a teardown
\* that finds the caller up did not cross an answer, unless it is the answer
\* that came too late.
TakenInv ==
  \A m \in Members : m \in starts \/ m = winner => leg[m] \in {"up", "gone"}
GoneInv == Caller \in ends => ~callerUp
CrossedInv ==
  callerUp /\ clean # "no" /\ ~belated =>
    \/ winner = None \/ taker = "failed"
    \/ answered /\ (Told => reports = <<"answered", "ended">>)
CallerInv == BridgeInv /\ TakenInv /\ GoneInv /\ CrossedInv

LEMMA InitCallerInv == Init => CallerInv
<1> SUFFICES ASSUME Init PROVE TakenInv /\ GoneInv /\ CrossedInv
  BY InitBridgeInv DEF CallerInv
<1>1. QED BY DeptBridgeAssumption DEF Init, TakenInv, GoneInv, CrossedInv

LEMMA NextTakenInv == CallerInv /\ [Next]_vars => TakenInv'
<1> SUFFICES ASSUME CallerInv, [Next]_vars, NEW m \in Members,
                    m \in starts' \/ m = winner'
             PROVE  leg'[m] \in {"up", "gone"}
  BY DEF TakenInv
<1> USE DeptBridgeAssumption DEF CallerInv, BridgeInv, TakenInv
<1>1. leg \in [Members -> {"none", "ringing", "up", "gone", "failed"}]
  BY DEF TypeOK
<1>2. CASE m \in starts \/ m = winner
  <2>1. leg[m] \in {"up", "gone"}
    BY <1>2
  <2>2. leg'[m] = leg[m] \/ leg'[m] = "gone"
    <3>1. CASE Engine
      BY <1>1, <2>1, <3>1
      DEF Engine, AddCaller, Listen, CreateLegs, AllDialled, GuardFires, Return,
          AnswerLeg, JoinLeg, ReportAnswered, ReportEnd, DestroyBridge, Close,
          Originate, MemberStarts, CancelOther, HangUpLeg, HearEnd, HungUp,
          asteriskVars
    <3>2. CASE People
      BY <1>1, <2>1, <3>2
      DEF People, CallerLeaves, MemberAnswers, RingEnds, MemberLeaves
    <3>3. QED BY <3>1, <3>2 DEF Next, vars, asteriskVars
  <2>3. QED BY <2>1, <2>2
<1>3. CASE ~(m \in starts \/ m = winner)
  <2>1. CASE Engine
    BY <1>3, <2>1
    DEF Engine, AddCaller, Listen, CreateLegs, AllDialled, GuardFires, Return,
        AnswerLeg, JoinLeg, ReportAnswered, ReportEnd, DestroyBridge, Close,
        Originate, MemberStarts, CancelOther, HangUpLeg, HearEnd, engineVars,
        asteriskVars
  <2>2. CASE People
    BY <1>1, <1>3, <2>2
    DEF People, CallerLeaves, MemberAnswers, RingEnds, MemberLeaves, engineVars
  <2>3. QED BY <1>3, <2>1, <2>2 DEF Next, vars, engineVars, asteriskVars
<1>4. QED BY <1>2, <1>3

\* Nobody brings a caller back, and his end is heard of when he leaves.
LEMMA CallerGoes ==
  ASSUME TypeOK, [Next]_vars
  PROVE  /\ callerUp' => callerUp
         /\ Caller \in ends' => Caller \in ends \/ ~callerUp'
<1>1. CASE Engine
  <2>1. callerUp' = callerUp \/ Close
    BY <1>1
    DEF Engine, AddCaller, Listen, CreateLegs, AllDialled, GuardFires, Return,
        AnswerLeg, JoinLeg, ReportAnswered, ReportEnd, DestroyBridge,
        Originate, MemberStarts, CancelOther, HangUpLeg, HearEnd, asteriskVars
  <2>2. Close => (callerUp' => callerUp)
    BY DEF Close, TypeOK
  <2>3. ends' \subseteq ends
    BY <1>1
    DEF Engine, AddCaller, Listen, CreateLegs, AllDialled, GuardFires, Return,
        AnswerLeg, JoinLeg, ReportAnswered, ReportEnd, DestroyBridge, Close,
        Originate, MemberStarts, CancelOther, HangUpLeg, HearEnd, asteriskVars
  <2>4. QED BY <2>1, <2>2, <2>3
<1>2. CASE People
  BY <1>2, DeptBridgeAssumption
  DEF People, CallerLeaves, MemberAnswers, RingEnds, MemberLeaves
<1>3. QED BY <1>1, <1>2 DEF Next, vars, asteriskVars

\* A teardown begins for a caller who is up: before anybody is taken, after
\* the join has failed, or when the member who serves him hangs up.
LEMMA TeardownBegins ==
  ASSUME CallerInv, [Next]_vars, callerUp', clean = "no", clean' # "no"
  PROVE  /\ ~Told' /\ (winner' = None \/ taker' = "failed" \/ answered')
<1> USE DEF CallerInv, BridgeInv
<1>1. CASE AddCaller \/ GuardFires
  BY <1>1 DEF AddCaller, GuardFires, Teardown, Told, TakerInv
<1>2. CASE AllDialled
  <2>1. \A m \in Members : leg[m] = "failed"
    BY <1>2 DEF AllDialled
  <2>2. winner = None
    BY <2>1 DEF TakenInv, TypeOK
  <2>3. QED BY <1>2, <2>2 DEF AllDialled, Teardown, Told
<1>3. CASE AnswerLeg \/ JoinLeg
  BY <1>3 DEF AnswerLeg, JoinLeg, Teardown, Told
<1>4. ASSUME NEW x \in Members \cup {Caller}, HearEnd(x)
      PROVE  /\ ~Told' /\ (winner' = None \/ taker' = "failed" \/ answered')
  <2>1. x # Caller /\ Heard(x)
    BY <1>4 DEF HearEnd, GoneInv, asteriskVars
  <2>2. answered
    BY <2>1 DEF Heard, TakerInv
  <2>3. QED BY <1>4, <2>2 DEF HearEnd, Teardown, Told
<1>5. QED
  <2>1. CASE Engine
    BY <1>1, <1>2, <1>3, <1>4, <2>1
    DEF Engine, Listen, CreateLegs, Return, ReportAnswered, ReportEnd,
        DestroyBridge, Close, Originate, MemberStarts, CancelOther, HangUpLeg,
        engineVars
  <2>2. CASE People
    BY <2>2
    DEF People, CallerLeaves, MemberAnswers, RingEnds, MemberLeaves, engineVars
  <2>3. QED BY <2>1, <2>2 DEF Next, vars, engineVars

\* Once it runs, only a belated answer is taken, only an answer before the
\* join is lost, and the end of an answered call is told.
LEMMA TeardownGoesOn ==
  ASSUME CallerInv, [Next]_vars, clean # "no", ~belated'
  PROVE  /\ ~belated
         /\ winner = None => winner' = None
         /\ taker = "failed" => taker' = "failed"
         /\ answered /\ (Told => reports = <<"answered", "ended">>) =>
              answered' /\ (Told' => reports' = <<"answered", "ended">>)
<1> USE DEF CallerInv, BridgeInv, TypeOK
<1>1. ~belated /\ (winner = None => winner' = None)
  <2>1. CASE Engine
    BY <2>1
    DEF Engine, AddCaller, Listen, CreateLegs, AllDialled, GuardFires, Return,
        AnswerLeg, JoinLeg, ReportAnswered, ReportEnd, DestroyBridge, Close,
        Originate, MemberStarts, CancelOther, HangUpLeg, HearEnd, engineVars,
        toldVars
  <2>2. CASE People
    BY <2>2
    DEF People, CallerLeaves, MemberAnswers, RingEnds, MemberLeaves, engineVars,
        toldVars
  <2>3. QED BY <2>1, <2>2 DEF Next, vars, engineVars, toldVars
<1>2. (taker = "failed" => taker' = "failed") /\ (answered => answered')
  <2>1. CASE Engine
    BY <2>1
    DEF Engine, AddCaller, Listen, CreateLegs, AllDialled, GuardFires, Return,
        AnswerLeg, JoinLeg, ReportAnswered, ReportEnd, DestroyBridge, Close,
        Originate, MemberStarts, CancelOther, HangUpLeg, HearEnd, engineVars,
        TakerInv
  <2>2. CASE People
    BY <2>2
    DEF People, CallerLeaves, MemberAnswers, RingEnds, MemberLeaves, engineVars
  <2>3. QED BY <2>1, <2>2 DEF Next, vars, engineVars
<1>3. ASSUME answered, Told => reports = <<"answered", "ended">>, Told'
      PROVE  reports' = <<"answered", "ended">>
  <2>1. CASE ReportEnd
    <3>1. reports = <<"answered">> /\ reports' = Append(reports, "ended")
      BY <1>3, <2>1 DEF ReportEnd, StoryInv, Told
    <3>2. QED BY <3>1, SecondReport
  <2>2. CASE ~ReportEnd
    <3>1. Told /\ reports' = reports
      <4>1. CASE Engine
        BY <1>3, <2>2, <4>1
        DEF Engine, AddCaller, Listen, CreateLegs, AllDialled, GuardFires, Return,
            AnswerLeg, JoinLeg, ReportAnswered, DestroyBridge, Close,
            Originate, MemberStarts, CancelOther, HangUpLeg, HearEnd, engineVars,
            toldVars, TakerInv, Told, Teardown
      <4>2. CASE People
        BY <1>3, <4>2
        DEF People, CallerLeaves, MemberAnswers, RingEnds, MemberLeaves,
            engineVars, toldVars, Told
      <4>3. QED BY <1>3, <4>1, <4>2 DEF Next, vars, engineVars, toldVars, Told
    <3>2. QED BY <1>3, <3>1
  <2>3. QED BY <2>1, <2>2
<1>4. QED BY <1>1, <1>2, <1>3

LEMMA NextCallerInv == CallerInv /\ [Next]_vars => CallerInv'
<1> SUFFICES ASSUME CallerInv, [Next]_vars PROVE CallerInv'
  OBVIOUS
<1>1. BridgeInv' /\ TakenInv'
  BY NextBridgeInv, NextTakenInv DEF CallerInv
<1>2. GoneInv'
  BY CallerGoes DEF CallerInv, BridgeInv, GoneInv
<1>3. CrossedInv'
  <2> SUFFICES ASSUME callerUp', clean' # "no", ~belated'
               PROVE  \/ winner' = None \/ taker' = "failed"
                      \/ answered' /\ (Told' => reports' = <<"answered", "ended">>)
    BY DEF CrossedInv
  <2>1. CASE clean = "no"
    BY <2>1, TeardownBegins
  <2>2. CASE clean # "no"
    BY <2>2, TeardownGoesOn, CallerGoes DEF CallerInv, BridgeInv, CrossedInv
  <2>3. QED BY <2>1, <2>2
<1>4. QED BY <1>1, <1>2, <1>3 DEF CallerInv

(* The engine hangs up only on a caller whose call was told to have ended after
   an answer, unless the answer came too late: no crossing of answers, hang-ups,
   failed joins and the guard takes the line from a caller who is owed the
   message. *)
THEOREM UnansweredCallerIsAlwaysKept == Spec => UnansweredCallerIsKept
<1>1. ASSUME CallerInv, [Next]_vars, callerUp, ~callerUp', Caller \notin ends'
      PROVE  belated \/ \E i \in 1 .. Len(reports) : reports[i] = "ended"
  <2>1. Close
    <3>1. CASE Engine
      BY <1>1, <3>1
      DEF Engine, AddCaller, Listen, CreateLegs, AllDialled, GuardFires, Return,
          AnswerLeg, JoinLeg, ReportAnswered, ReportEnd, DestroyBridge,
          Originate, MemberStarts, CancelOther, HangUpLeg, HearEnd, asteriskVars
    <3>2. CASE People
      BY <1>1, <3>2 DEF People, CallerLeaves, MemberAnswers, RingEnds, MemberLeaves
    <3>3. QED BY <1>1, <3>1, <3>2 DEF Next, vars, asteriskVars
  <2>2. answered /\ Told /\ clean # "no"
    BY <1>1, <2>1 DEF Close, Told
  <2>3. winner # None /\ taker # "failed"
    BY <1>1, <2>2 DEF CallerInv, BridgeInv, TakerInv
  <2>4. belated \/ reports = <<"answered", "ended">>
    BY <1>1, <2>2, <2>3 DEF CallerInv, CrossedInv
  <2>5. reports = <<"answered", "ended">> => Len(reports) = 2 /\ reports[2] = "ended"
    OBVIOUS
  <2>6. QED BY <2>4, <2>5
<1>2. CallerInv /\ [Next]_vars =>
        [callerUp /\ ~callerUp' /\ Caller \notin ends' =>
           belated \/ \E i \in 1 .. Len(reports) : reports[i] = "ended"]_vars
  BY <1>1
<1>3. QED BY InitCallerInv, NextCallerInv, <1>2, PTL DEF Spec, UnansweredCallerIsKept

-----------------------------------------------------------------------------
\* A report that announces the call finishes it, and one that is still to
\* come has announced nothing; the engine's has not been sent before.
AnnouncedInv ==
  /\ \A r \in announced : StatusOf[r] \in Finished
  /\ \A r \in WebReports :
       web[r] \in {"away", "sent"} => r \notin announced \cup late
  /\ \A r \in Dialplan : eng[r] = "issued" => web[r] = "away"
  /\ \A r \in WebReports :
       web[r] = "inserting" /\ StatusOf[r] \in Finished => r \in announced

\* Once a finishing report was handled, or has only its announcement left, the
\* row says so; a report read after that finds it and stays quiet.
OverInv ==
  \/ slipped
  \/ /\ \A r \in WebReports :
          \/ web[r] = "done" /\ r \in announced
          \/ web[r] = "updated" /\ StatusOf[r] \in Finished
          => status \in Finished
     /\ \A r \in late :
          /\ r \notin announced
          /\ web[r] \in {"updating", "updated"} => seen[r] \in Finished
          /\ web[r] # "inserting"

\* The client knows that the call is over, or is about to.
ToldOver ==
  \/ announced # {} \/ faults > 0 \/ ClosedByEngine
  \/ \E r \in Carrier : /\ web[r] = "updated" /\ StatusOf[r] \in Finished
                        /\ seen[r] \notin Finished

\* Either the carrier has nothing to do with the call; or nobody else but an
\* escalation has, and who finds the call over finds the client told.
ToldInv ==
  \/ \A r \in Carrier : web[r] = "away"
  \/ /\ \A r \in EngineReports \ ByPrefix : eng[r] = "away"
     /\ \A r \in Dialplan : web[r] = "away"
     /\ status \in Finished => ToldOver
     /\ \A r \in Carrier :
          seen[r] \in Finished \/ (web[r] = "done" /\ StatusOf[r] \in Finished) => ToldOver

LogInv == LogTypeOK /\ AnnouncedInv /\ OverInv /\ ToldInv

LEMMA InitLog == LogInit => LogInv
<1> USE DEF WebReports, EngineReports, Reports, Finished
<1>1. LogInit => LogTypeOK
  <2> SUFFICES ASSUME LogInit PROVE LogTypeOK
    OBVIOUS
  <2>1. PICK active : /\ web = [r \in WebReports |-> IF r \in Carrier \cap active
                                                     THEN "sent" ELSE "away"]
                      /\ eng = [r \in EngineReports |-> IF r \in active
                                                        THEN "issued" ELSE "away"]
    BY DEF LogInit
  <2>2. QED BY <2>1 DEF LogInit, LogTypeOK
<1>2. LogInit => ToldInv
  BY CallLogAssumption DEF LogInit, ToldInv
<1>3. LogInit => \A r \in WebReports : web[r] \in {"away", "sent"}
  BY DEF LogInit
<1>4. LogInit => \A r \in Dialplan : web[r] = "away"
  BY CallLogAssumption DEF LogInit
<1>5. LogInit => status = "none" /\ announced = {} /\ late = {}
  BY DEF LogInit
<1>6. LogInit => AnnouncedInv /\ OverInv
  BY <1>3, <1>4, <1>5 DEF AnnouncedInv, OverInv
<1>7. QED BY <1>1, <1>2, <1>6 DEF LogInv

LEMMA ReadInv ==
  ASSUME LogInv, NEW r \in WebReports, Read(r) PROVE LogInv'
<1> USE CallLogAssumption
    DEF Read, Announce, Finishes, LogInv, LogTypeOK, WebReports,
        EngineReports, Reports, Finished, rowVars, webVars
<1>1. LogTypeOK'
  OBVIOUS
<1>2. AnnouncedInv'
  BY DEF AnnouncedInv
<1>3. OverInv'
  <2>1. CASE ~slipped
    <3>1. r \notin announced \cup late /\ web[r] = "sent" /\ r \in WebReports
      BY DEF AnnouncedInv
    <3>2. ASSUME NEW q \in announced, web[q] = "done" PROVE status \in Finished
      BY <2>1, <3>2 DEF OverInv
    <3>3. \A q \in late' : q \in late \/ (q = r /\ status \in Finished)
      BY <3>2
    <3>4. \A q \in WebReports : web'[q] \in {"done", "updated"} => web'[q] = web[q]
      OBVIOUS
    <3>5. \A q \in announced' : q \in announced \/ (q = r /\ status = "none")
      OBVIOUS
    <3>6. \A q \in late' : q \notin announced' /\ web'[q] # "inserting"
      BY <2>1, <3>1, <3>3, <3>5 DEF OverInv
    <3>7. \A q \in late' : web'[q] \in {"updating", "updated"} => seen'[q] \in Finished
      BY <2>1, <3>1, <3>3 DEF OverInv
    <3>8. QED BY <2>1, <3>1, <3>4, <3>5, <3>6, <3>7 DEF OverInv
  <2>2. QED BY <2>1 DEF OverInv
<1>4. ToldOver => ToldOver'
  BY DEF ToldOver, ClosedByEngine
<1>5. ToldInv'
  BY <1>4 DEF AnnouncedInv, ToldInv, ToldOver, ClosedByEngine
<1>6. QED BY <1>1, <1>2, <1>3, <1>5

LEMMA InsertInv ==
  ASSUME LogInv, NEW r \in WebReports, Insert(r) PROVE LogInv'
<1> USE CallLogAssumption
    DEF Insert, Write, Answer, LogInv, LogTypeOK, WebReports,
        EngineReports, Reports, Finished, rowVars, webVars
<1>1. LogTypeOK'
  OBVIOUS
<1>2. AnnouncedInv'
  BY DEF AnnouncedInv
<1>3. OverInv'
  BY DEF AnnouncedInv, OverInv
<1>4. ToldOver => ToldOver'
  BY DEF ToldOver, ClosedByEngine
<1>5. ToldInv'
  BY <1>4 DEF AnnouncedInv, ToldInv, ToldOver, ClosedByEngine
<1>6. QED BY <1>1, <1>2, <1>3, <1>5

LEMMA UpdateInv ==
  ASSUME LogInv, NEW r \in WebReports, Update(r) PROVE LogInv'
<1> USE CallLogAssumption
    DEF Update, Write, Moves, LogInv, LogTypeOK, WebReports,
        EngineReports, Reports, Finished, rowVars, webVars
<1>1. LogTypeOK'
  OBVIOUS
<1>2. AnnouncedInv'
  BY DEF AnnouncedInv
<1>3. OverInv'
  <2>1. StatusOf[r] \in Finished => status' \in Finished
    BY DEF Rank
  <2>2. status \in Finished => status' \in Finished \/ slipped'
    OBVIOUS
  <2>3. ASSUME NEW q \in WebReports, ~slipped',
               \/ web'[q] = "done" /\ q \in announced
               \/ web'[q] = "updated" /\ StatusOf[q] \in Finished
        PROVE  status' \in Finished
    <3>1. CASE q = r
      BY <2>1, <2>3, <3>1
    <3>2. CASE q # r
      BY <2>2, <2>3, <3>2 DEF OverInv
    <3>3. QED BY <3>1, <3>2
  <2>4. ASSUME NEW q \in late
        PROVE  web'[q] = web[q] \/ (web[q] = "updating" /\ web'[q] = "updated")
    <3>1. CASE q = r
      BY <3>1
    <3>2. CASE q # r
      BY <3>2
    <3>3. QED BY <3>1, <3>2
  <2>5. QED BY <2>3, <2>4 DEF OverInv
<1>4. ToldOver => ToldOver'
  BY DEF ToldOver, ClosedByEngine
<1>5. ToldInv'
  BY <1>4 DEF AnnouncedInv, ToldInv, ToldOver, ClosedByEngine
<1>6. QED BY <1>1, <1>2, <1>3, <1>5

LEMMA AfterUpdateInv ==
  ASSUME LogInv, NEW r \in WebReports, AfterUpdate(r) PROVE LogInv'
<1> USE CallLogAssumption
    DEF AfterUpdate, Announce, Answer, Finishes, LogInv, LogTypeOK, WebReports,
        EngineReports, Reports, Finished, rowVars, webVars
<1>1. LogTypeOK'
  OBVIOUS
<1>2. AnnouncedInv'
  BY DEF AnnouncedInv
<1>3. OverInv'
  <2>1. CASE ~slipped
    <3>1. \A q \in announced' : q \in announced \/ (q = r /\ seen[r] \notin Finished)
      OBVIOUS
    <3>2. \A q \in late' : q \in late /\ q \notin announced'
      BY <2>1, <3>1 DEF OverInv
    <3>3. \A q \in announced' : web'[q] = "done" => status \in Finished
      BY <2>1 DEF AnnouncedInv, OverInv
    <3>4. QED BY <2>1, <3>2, <3>3 DEF OverInv
  <2>2. QED BY <2>1 DEF OverInv
<1>4. ToldOver => ToldOver'
  BY DEF ToldOver, ClosedByEngine
<1>5. ToldInv'
  BY <1>4 DEF AnnouncedInv, ToldInv, ToldOver, ClosedByEngine
<1>6. QED BY <1>1, <1>2, <1>3, <1>5

LEMMA ChargeInv ==
  ASSUME LogInv, NEW r \in Reports, Charge(r) PROVE LogInv'
<1> USE CallLogAssumption
    DEF Charge, LogInv, LogTypeOK, WebReports,
        EngineReports, Reports, Finished, rowVars, webVars
<1>1. LogTypeOK'
  OBVIOUS
<1>2. AnnouncedInv'
  BY DEF AnnouncedInv
<1>3. OverInv'
  BY DEF AnnouncedInv, OverInv
<1>4. ToldOver => ToldOver'
  BY DEF ToldOver, ClosedByEngine
<1>5. ToldInv'
  BY <1>4 DEF AnnouncedInv, ToldInv, ToldOver, ClosedByEngine
<1>6. QED BY <1>1, <1>2, <1>3, <1>5

LEMMA EngineReadsInv ==
  ASSUME LogInv, NEW r \in EngineReports,
         FindPrefix(r) \/ ReadBack(r) \/ AskCharge(r) \/ Posted(r) PROVE LogInv'
<1> USE CallLogAssumption
    DEF FindPrefix, ReadBack, AskCharge, Posted, LogInv, LogTypeOK, WebReports,
        EngineReports, Reports, Finished, rowVars, webVars
<1>1. LogTypeOK'
  OBVIOUS
<1>2. AnnouncedInv'
  BY DEF AnnouncedInv
<1>3. OverInv'
  BY DEF AnnouncedInv, OverInv
<1>4. ToldOver => ToldOver'
  BY DEF ToldOver, ClosedByEngine
<1>5. ToldInv'
  BY <1>4 DEF AnnouncedInv, ToldInv, ToldOver, ClosedByEngine
<1>6. QED BY <1>1, <1>2, <1>3, <1>5

LEMMA LogCallInv ==
  ASSUME LogInv, NEW r \in EngineReports, NEW inferred \in {"zero", "some"},
         LogCall(r, inferred) PROVE LogInv'
<1> USE CallLogAssumption
    DEF LogCall, Write, LogInv, LogTypeOK, WebReports,
        EngineReports, Reports, Finished, rowVars, webVars
<1>1. LogTypeOK'
  OBVIOUS
<1>2. AnnouncedInv'
  BY DEF AnnouncedInv
<1>3. OverInv'
  BY DEF AnnouncedInv, OverInv
<1>4. ToldOver => ToldOver'
  BY DEF ToldOver, ClosedByEngine
<1>5. ToldInv'
  BY <1>4 DEF AnnouncedInv, ToldInv, ToldOver, ClosedByEngine
<1>6. QED BY <1>1, <1>2, <1>3, <1>5

LEMMA PostInv ==
  ASSUME LogInv, NEW r \in EngineReports, Post(r) PROVE LogInv'
<1> USE CallLogAssumption
    DEF Post, LogInv, LogTypeOK, WebReports,
        EngineReports, Reports, Finished, rowVars, webVars
<1>1. LogTypeOK'
  OBVIOUS
<1>2. AnnouncedInv'
  BY DEF AnnouncedInv
<1>3. OverInv'
  BY DEF AnnouncedInv, OverInv
<1>4. ToldOver => ToldOver'
  BY DEF ToldOver, ClosedByEngine
<1>5. ToldInv'
  BY <1>4 DEF AnnouncedInv, ToldInv, ToldOver, ClosedByEngine
<1>6. QED BY <1>1, <1>2, <1>3, <1>5

LEMMA GiveUpInv ==
  ASSUME LogInv, NEW r \in EngineReports, GiveUp(r) PROVE LogInv'
<1> USE CallLogAssumption
    DEF GiveUp, LogInv, LogTypeOK, WebReports,
        EngineReports, Reports, Finished, rowVars, webVars
<1>1. LogTypeOK'
  OBVIOUS
<1>2. AnnouncedInv'
  BY DEF AnnouncedInv
<1>3. OverInv'
  BY DEF AnnouncedInv, OverInv
<1>4. ToldOver => ToldOver'
  BY DEF ToldOver, ClosedByEngine
<1>5. ToldInv'
  BY <1>4 DEF AnnouncedInv, ToldInv, ToldOver, ClosedByEngine
<1>6. QED BY <1>1, <1>2, <1>3, <1>5

LEMMA WriteDirectlyInv ==
  ASSUME LogInv, NEW r \in EngineReports, WriteDirectly(r) PROVE LogInv'
<1> USE CallLogAssumption
    DEF WriteDirectly, Write, LogInv, LogTypeOK, WebReports,
        EngineReports, Reports, Finished, rowVars, webVars
<1>1. LogTypeOK'
  OBVIOUS
<1>2. AnnouncedInv'
  BY DEF AnnouncedInv
<1>3. OverInv'
  BY DEF AnnouncedInv, OverInv
<1>4. ToldOver => ToldOver'
  BY DEF ToldOver, ClosedByEngine
<1>5. ToldInv'
  BY <1>4 DEF AnnouncedInv, ToldInv, ToldOver, ClosedByEngine
<1>6. QED BY <1>1, <1>2, <1>3, <1>5

LEMMA CrashInv ==
  ASSUME LogInv, Crash PROVE LogInv'
<1> USE CallLogAssumption
    DEF Crash, LogInv, LogTypeOK, WebReports,
        EngineReports, Reports, Finished, rowVars, webVars
<1>1. LogTypeOK'
  OBVIOUS
<1>2. AnnouncedInv'
  BY DEF AnnouncedInv
<1>3. OverInv'
  BY DEF AnnouncedInv, OverInv
<1>4. ToldOver => ToldOver'
  BY DEF ToldOver, ClosedByEngine
<1>5. ToldInv'
  BY <1>4 DEF AnnouncedInv, ToldInv, ToldOver, ClosedByEngine
<1>6. QED BY <1>1, <1>2, <1>3, <1>5

LEMMA FailsInv ==
  ASSUME LogInv, NEW r \in Reports, Fails(r) PROVE LogInv'
<1> USE CallLogAssumption
    DEF Fails, LogInv, LogTypeOK, WebReports,
        EngineReports, Reports, Finished, rowVars, webVars
<1>1. LogTypeOK'
  OBVIOUS
<1>2. AnnouncedInv'
  BY DEF AnnouncedInv
<1>3. OverInv'
  BY DEF AnnouncedInv, OverInv
<1>4. ToldOver => ToldOver'
  BY DEF ToldOver, ClosedByEngine
<1>5. ToldInv'
  BY <1>4 DEF AnnouncedInv, ToldInv, ToldOver, ClosedByEngine
<1>6. QED BY <1>1, <1>2, <1>3, <1>5

LEMMA NextLog == LogInv /\ [LogNext]_logVars => LogInv'
<1> SUFFICES ASSUME LogInv, [LogNext]_logVars PROVE LogInv'
  OBVIOUS
<1>1. CASE WebApp
  BY <1>1, ReadInv, InsertInv, UpdateInv, AfterUpdateInv, ChargeInv DEF WebApp
<1>2. CASE CallEngine
  BY <1>2, EngineReadsInv, LogCallInv, PostInv, GiveUpInv, WriteDirectlyInv
  DEF CallEngine
<1>3. CASE Faults
  BY <1>3, CrashInv, FailsInv DEF Faults
<1>4. CASE UNCHANGED logVars
  BY <1>4 DEF logVars, rowVars, webVars, LogInv, LogTypeOK, AnnouncedInv,
              OverInv, ToldInv, ToldOver, ClosedByEngine
<1>5. QED BY <1>1, <1>2, <1>3, <1>4 DEF LogNext

(* The end of a call is told to the client once, neither again nor not at all,
   for any reports of any carrier, escalation, dialplan and engine in any order
   (server/utils/call-log.ts:46-47); the exceptions are those of the property. *)
THEOREM EndIsAlwaysToldOnce == LogSpec => []EndIsToldOnce
<1>1. LogInv => EndIsToldOnce
  <2> SUFFICES ASSUME LogInv PROVE HeardOnce /\ CompletionIsHeard
    BY DEF LogInv, EndIsToldOnce
  <2>1. HeardOnce
    BY DEF LogInv, OverInv, HeardOnce
  <2>2. CompletionIsHeard
    BY DEF LogInv, ToldInv, ToldOver, CompletionIsHeard
  <2>3. QED BY <2>1, <2>2
<1>2. QED BY InitLog, NextLog, <1>1, PTL DEF LogSpec

-----------------------------------------------------------------------------
\* A run has a delivery at hand; its request has been made; the answer has not
\* been written.
Busy(r) == pc[r] \notin {"idle", "working"}
Asked(r) == pc[r] \in {"good", "bad", "resetting", "counting"}
Unwritten(r) == pc[r] \in {"good", "bad"}

\* Attempts are counted after the request, so there are never more of them.
DeliveryInv ==
  \A d \in Delivery :
    /\ emitting[d[1]] # "done" =>
         state[d] = "none" /\ sent[d] = 0 /\ \A r \in Run : d \notin todo[r]
    /\ state[d] = "none" => attempts[d] = 0
    /\ state[d] = "pending" => attempts[d] < MaxAttempts
    /\ attempts[d] <= sent[d]

\* What a run has read is behind what has happened, never ahead of it.
RunInv ==
  \A r \in Run :
    /\ Busy(r) => at[r] \in todo[r]
    /\ pc[r] = "idle" => todo[r] = {}
    /\ \A d \in todo[r] : had[r][d] < MaxAttempts /\ had[r][d] <= sent[d]
    /\ Unwritten(r) => had[r][at[r]] < sent[at[r]]
    /\ pc[r] \in {"sending", "bad", "counting"} => saw[r] < DisableAfter
    /\ pc[r] = "dropping" => To(at[r]) \in beenOff

\* Only a run that was about to send when the endpoint was removed still does.
RemovalInv ==
  \A r \in Run, e \in Endpoint :
    afterRemoval[r][e] # 0 =>
      /\ afterRemoval[r][e] = 1 /\ endpoint[e] = "removed"
      /\ ~(pc[r] = "sending" /\ To(at[r]) = e)

EndpointInv ==
  \A e \in Endpoint :
    /\ endpoint[e] # "on" => e \in beenOff
    /\ endpoint[e] = "on" => failures[e] < DisableAfter

SoleInv ==
  \/ raced
  \/ \A q, r \in Run : pc[q] # "idle" /\ pc[r] # "idle" => q = r

\* While nobody disturbs a run, its counts are the requests and the failures.
RequestsInv ==
  /\ \A d \in Delivery :
       /\ sent[d] <= MaxAttempts
       /\ state[d] = "pending" /\ (\A r \in Run : Unwritten(r) => at[r] # d)
            => attempts[d] = sent[d]
  /\ \A r \in Run : \A d \in todo[r] :
       sent[d] = IF Asked(r) /\ at[r] = d THEN had[r][d] + 1 ELSE had[r][d]

FailuresInv ==
  /\ \A e \in Endpoint :
       /\ endpoint[e] # "removed"
       /\ \A r \in Run : pc[r] \in {"good", "resetting"} => To(at[r]) # e
       => failures[e] <= inRow[e]
  /\ \A r \in Run :
       /\ pc[r] = "sending" => saw[r] <= inRow[To(at[r])]
       /\ pc[r] \in {"bad", "counting"} => saw[r] < inRow[To(at[r])]

CountInv == ~raced /\ ~broken => RequestsInv /\ FailuresInv

HooksInv ==
  /\ HooksTypeOK /\ DeliveryInv /\ RunInv /\ RemovalInv /\ EndpointInv
  /\ GivenUpOnlyAfterAttempts /\ SoleInv /\ CountInv

LEMMA DeliveryIsPair ==
  ASSUME NEW d \in Delivery PROVE d[1] \in Event /\ To(d) \in Endpoint
  BY DEF Delivery, To

LEMMA InitHooks == HooksInit => HooksInv
<1> SUFFICES ASSUME HooksInit PROVE HooksInv
  OBVIOUS
<1> USE WebhooksOutAssumption DEF HooksInit
<1>1. NoDelivery \in Delivery
  BY DEF NoDelivery
<1>2. HooksTypeOK
  <2>1. /\ at \in [Run -> Delivery] /\ todo \in [Run -> SUBSET Delivery]
        /\ had \in [Run -> [Delivery -> Nat]] /\ saw \in [Run -> 0 .. DisableAfter]
        /\ afterRemoval \in [Run -> [Endpoint -> 0 .. 2]]
    BY <1>1
  <2>2. /\ state \in [Delivery -> {"none", "pending"} \cup Decided]
        /\ attempts \in [Delivery -> Nat] /\ sent \in [Delivery -> 0 .. MaxAttempts + 1]
        /\ failures \in [Endpoint -> 0 .. DisableAfter]
        /\ inRow \in [Endpoint -> 0 .. DisableAfter] /\ troubles \in 0 .. MaxTroubles
    BY DEF Decided
  <2>3. QED BY <2>1, <2>2 DEF HooksTypeOK
<1>3. DeliveryInv /\ RunInv /\ RemovalInv
  BY DEF DeliveryInv, RunInv, RemovalInv, Busy, Unwritten
<1>4. EndpointInv /\ GivenUpOnlyAfterAttempts /\ SoleInv
  BY DEF EndpointInv, GivenUpOnlyAfterAttempts, SoleInv
<1>5. CountInv
  BY DEF CountInv, RequestsInv, FailuresInv
<1>6. QED BY <1>2, <1>3, <1>4, <1>5 DEF HooksInv

\* Whoever is at work and undisturbed is alone.
LEMMA Sole ==
  ASSUME HooksInv, NEW r \in Run, pc[r] # "idle", ~raced
  PROVE  \A q \in Run : q # r => pc[q] = "idle" /\ todo[q] = {}
  BY DEF HooksInv, SoleInv, RunInv

\* One lemma per action: what it reads and writes keeps every part of HooksInv.
LEMMA EmitInv == ASSUME HooksInv, NEW v \in Event, Emit(v) PROVE HooksInv'
<1> USE WebhooksOutAssumption, DeliveryIsPair
    DEF Emit, HooksInv, HooksTypeOK, Decided, emitVars,
        deliveryVars, endpointVars, runVars, history
<1>1. HooksTypeOK'
  OBVIOUS
<1>2. DeliveryInv'
  BY DEF DeliveryInv
<1>3. RunInv'
  BY DEF RunInv, Busy, Unwritten
<1>4. RemovalInv'
  BY DEF RemovalInv
<1>5. EndpointInv'
  BY DEF EndpointInv
<1>6. GivenUpOnlyAfterAttempts'
  BY DEF GivenUpOnlyAfterAttempts
<1>7. SoleInv'
  BY DEF SoleInv
<1>8. CountInv'
  <2> SUFFICES ASSUME ~raced', ~broken' PROVE RequestsInv' /\ FailuresInv'
    BY DEF CountInv
  <2> RequestsInv /\ FailuresInv
    BY DEF CountInv
  <2>1. RequestsInv'
    BY DEF RequestsInv, Asked, Unwritten
  <2>2. FailuresInv'
    BY DEF FailuresInv
  <2>3. QED BY <2>1, <2>2
<1>9. QED BY <1>1, <1>2, <1>3, <1>4, <1>5, <1>6, <1>7, <1>8

LEMMA EnqueueInv == ASSUME HooksInv, NEW v \in Event, Enqueue(v) PROVE HooksInv'
<1> USE WebhooksOutAssumption, DeliveryIsPair
    DEF Enqueue, HooksInv, HooksTypeOK, Decided, emitVars,
        deliveryVars, endpointVars, runVars, history
<1>1. HooksTypeOK'
  OBVIOUS
<1>2. DeliveryInv'
  BY DEF DeliveryInv
<1>3. RunInv'
  BY DEF RunInv, Busy, Unwritten
<1>4. RemovalInv'
  BY DEF RemovalInv
<1>5. EndpointInv'
  BY DEF EndpointInv
<1>6. GivenUpOnlyAfterAttempts'
  BY DEF GivenUpOnlyAfterAttempts
<1>7. SoleInv'
  BY DEF SoleInv
<1>8. CountInv'
  <2> SUFFICES ASSUME ~raced', ~broken' PROVE RequestsInv' /\ FailuresInv'
    BY DEF CountInv
  <2> RequestsInv /\ FailuresInv
    BY DEF CountInv
  <2>1. RequestsInv'
    <3>1. ASSUME NEW d \in Delivery, state'[d] # state[d]
          PROVE  attempts[d] = 0 /\ sent[d] = 0
      BY <3>1 DEF DeliveryInv
    <3>2. ASSUME NEW d \in Delivery, state'[d] = "pending",
                 \A r \in Run : Unwritten(r) => at[r] # d
          PROVE  attempts[d] = sent[d]
      BY <3>1, <3>2 DEF RequestsInv
    <3>3. QED BY <3>2 DEF RequestsInv, Asked, Unwritten
  <2>2. FailuresInv'
    BY DEF FailuresInv
  <2>3. QED BY <2>1, <2>2
<1>9. QED BY <1>1, <1>2, <1>3, <1>4, <1>5, <1>6, <1>7, <1>8

LEMMA FallDueInv == ASSUME HooksInv, NEW d \in Delivery, FallDue(d) PROVE HooksInv'
<1> USE WebhooksOutAssumption, DeliveryIsPair
    DEF FallDue, HooksInv, HooksTypeOK, Decided, emitVars,
        deliveryVars, endpointVars, runVars, history
<1>1. HooksTypeOK'
  OBVIOUS
<1>2. DeliveryInv'
  BY DEF DeliveryInv
<1>3. RunInv'
  BY DEF RunInv, Busy, Unwritten
<1>4. RemovalInv'
  BY DEF RemovalInv
<1>5. EndpointInv'
  BY DEF EndpointInv
<1>6. GivenUpOnlyAfterAttempts'
  BY DEF GivenUpOnlyAfterAttempts
<1>7. SoleInv'
  BY DEF SoleInv
<1>8. CountInv'
  <2> SUFFICES ASSUME ~raced', ~broken' PROVE RequestsInv' /\ FailuresInv'
    BY DEF CountInv
  <2> RequestsInv /\ FailuresInv
    BY DEF CountInv
  <2>1. RequestsInv'
    BY DEF RequestsInv, Asked, Unwritten
  <2>2. FailuresInv'
    BY DEF FailuresInv
  <2>3. QED BY <2>1, <2>2
<1>9. QED BY <1>1, <1>2, <1>3, <1>4, <1>5, <1>6, <1>7, <1>8

LEMMA StartInv == ASSUME HooksInv, NEW r \in Run, Start(r) PROVE HooksInv'
<1>1. PICK list \in SUBSET Delivery :
        /\ list \subseteq {d \in Delivery : IsDue(d)}
        /\ todo' = [todo EXCEPT ![r] = list]
        /\ had' = [had EXCEPT ![r] =
                     [d \in Delivery |-> IF d \in list THEN attempts[d] ELSE 0]]
  BY Zenon DEF Start
<1>2. /\ pc' = [pc EXCEPT ![r] = "working"] /\ raced' \in {raced, TRUE}
      /\ troubles' = troubles \/ (troubles < MaxTroubles /\ troubles' = troubles + 1)
  BY DEF Start, Trouble
<1> USE WebhooksOutAssumption, DeliveryIsPair
    DEF Start, IsDue, Trouble, HooksInv, HooksTypeOK, Decided, emitVars,
        deliveryVars, endpointVars, runVars, history
<1>3. HooksTypeOK'
  <2>1. [d \in Delivery |-> IF d \in list THEN attempts[d] ELSE 0] \in [Delivery -> Nat]
    OBVIOUS
  <2>2. todo' \in [Run -> SUBSET Delivery] /\ had' \in [Run -> [Delivery -> Nat]]
    BY <1>1, <2>1
  <2>3. /\ pc' \in [Run -> {"idle", "working", "dropping", "sending", "good", "bad",
                           "resetting", "counting"}]
        /\ raced' \in BOOLEAN
    BY <1>2 DEF HooksInv
  <2>4. troubles' \in 0 .. MaxTroubles
    BY <1>2 DEF HooksInv
  <2>5. UNCHANGED <<emitting, heard, state, attempts, resting, endpoint, failures, at, saw,
                    sent, inRow, beenOff, afterRemoval, broken>>
    OBVIOUS
  <2>6. QED BY ONLY HooksInv, <2>2, <2>3, <2>4, <2>5 DEF HooksInv, HooksTypeOK, Decided
<1>4. DeliveryInv'
  BY DEF DeliveryInv
<1>5. RunInv'
  BY DEF RunInv, DeliveryInv, Busy, Unwritten
<1>6. RemovalInv'
  BY DEF RemovalInv
<1>7. EndpointInv'
  BY DEF EndpointInv
<1>8. GivenUpOnlyAfterAttempts'
  BY DEF GivenUpOnlyAfterAttempts
<1>9. SoleInv'
  BY DEF SoleInv
<1>10. CountInv'
  <2> SUFFICES ASSUME ~raced', ~broken' PROVE RequestsInv' /\ FailuresInv'
    BY DEF CountInv
  <2> RequestsInv /\ FailuresInv
    BY DEF CountInv
  <2>1. RequestsInv'
    <3>1. \A q \in Run : pc[q] = "idle" /\ todo[q] = {} /\ pc'[q] \in {"idle", "working"}
      BY DEF RunInv
    <3>2. \A d \in list : state[d] = "pending" /\ attempts[d] = sent[d]
      BY <1>1, <3>1 DEF RequestsInv, Unwritten
    <3>3. \A d \in list : had'[r][d] = attempts[d]
      BY <1>1
    <3>4. \A q \in Run : \A d \in todo'[q] : q = r /\ d \in list
      BY <1>1, <3>1
    <3>5. UNCHANGED <<sent, state, attempts>>
      OBVIOUS
    <3>6. \A q \in Run : ~Unwritten(q) /\ ~Asked(q)'
      BY <3>1 DEF Unwritten, Asked
    <3>7. QED BY ONLY RequestsInv, <3>2, <3>3, <3>4, <3>5, <3>6 DEF RequestsInv
  <2>2. FailuresInv'
    <3>1. \A q \in Run : pc[q] = "idle" /\ pc'[q] \in {"idle", "working"}
      OBVIOUS
    <3>2. QED BY <3>1 DEF FailuresInv
  <2>3. QED BY <2>1, <2>2
<1>11. QED BY <1>3, <1>4, <1>5, <1>6, <1>7, <1>8, <1>9, <1>10

LEMMA TakeInv == ASSUME HooksInv, NEW r \in Run, NEW d \in Delivery, Take(r, d) PROVE HooksInv'
<1> USE WebhooksOutAssumption, DeliveryIsPair
    DEF Take, HooksInv, HooksTypeOK, Decided, emitVars,
        deliveryVars, endpointVars, runVars, history
<1>1. HooksTypeOK'
  OBVIOUS
<1>2. DeliveryInv'
  BY DEF DeliveryInv
<1>3. RunInv'
  BY DEF RunInv, EndpointInv, Busy, Unwritten
<1>4. RemovalInv'
  BY DEF RemovalInv
<1>5. EndpointInv'
  BY DEF EndpointInv
<1>6. GivenUpOnlyAfterAttempts'
  BY DEF GivenUpOnlyAfterAttempts
<1>7. SoleInv'
  BY DEF SoleInv
<1>8. CountInv'
  <2> SUFFICES ASSUME ~raced', ~broken' PROVE RequestsInv' /\ FailuresInv'
    BY DEF CountInv
  <2> RequestsInv /\ FailuresInv
    BY DEF CountInv
  <2> \A q \in Run : q # r => pc[q] = "idle" /\ todo[q] = {}
    BY Sole
  <2>1. RequestsInv'
    <3>1. \A q \in Run : ~Asked(q) /\ ~Asked(q)' /\ ~Unwritten(q) /\ ~Unwritten(q)'
      BY DEF Asked, Unwritten
    <3>2. QED BY <3>1 DEF RequestsInv
  <2>2. FailuresInv'
    <3>1. \A q \in Run : pc[q] \in {"idle", "working"}
      OBVIOUS
    <3>2. \A q \in Run : pc'[q] \in {"idle", "dropping", "sending"}
      OBVIOUS
    <3>3. \A e \in Endpoint : endpoint[e] # "removed" => failures[e] <= inRow[e]
      BY <3>1 DEF FailuresInv
    <3>4. \A q \in Run : pc'[q] = "sending" =>
            q = r /\ saw'[q] = failures[To(d)] /\ at'[q] = d /\ endpoint[To(d)] = "on"
      OBVIOUS
    <3>5. QED BY <3>2, <3>3, <3>4 DEF FailuresInv
  <2>3. QED BY <2>1, <2>2
<1>9. QED BY <1>1, <1>2, <1>3, <1>4, <1>5, <1>6, <1>7, <1>8

LEMMA DropInv == ASSUME HooksInv, NEW r \in Run, Drop(r) PROVE HooksInv'
<1> USE WebhooksOutAssumption, DeliveryIsPair
    DEF Drop, UpdateRow, Done, HooksInv, HooksTypeOK, Decided, emitVars,
        deliveryVars, endpointVars, runVars, history
<1>1. HooksTypeOK'
  OBVIOUS
<1>2. DeliveryInv'
  BY DEF DeliveryInv
<1>3. RunInv'
  BY DEF RunInv, Busy, Unwritten
<1>4. RemovalInv'
  BY DEF RemovalInv
<1>5. EndpointInv'
  BY DEF EndpointInv
<1>6. GivenUpOnlyAfterAttempts'
  BY DEF GivenUpOnlyAfterAttempts, RunInv
<1>7. SoleInv'
  BY DEF SoleInv
<1>8. CountInv'
  <2> SUFFICES ASSUME ~raced', ~broken' PROVE RequestsInv' /\ FailuresInv'
    BY DEF CountInv
  <2> RequestsInv /\ FailuresInv
    BY DEF CountInv
  <2> \A q \in Run : q # r => pc[q] = "idle" /\ todo[q] = {}
    BY Sole
  <2>1. RequestsInv'
    BY DEF RequestsInv, Unwritten
  <2>2. FailuresInv'
    <3>1. \A q \in Run : /\ pc[q] \in {"idle", "dropping"}
                        /\ pc'[q] \in {"idle", "working"}
      OBVIOUS
    <3>2. QED BY <3>1 DEF FailuresInv
  <2>3. QED BY <2>1, <2>2
<1>9. QED BY <1>1, <1>2, <1>3, <1>4, <1>5, <1>6, <1>7, <1>8

\* The request is made: only now may what was read fall behind.
LEMMA RequestInv == ASSUME HooksInv, NEW r \in Run, Request(r) PROVE HooksInv'
<1> PICK d \in Delivery : at[r] = d
  BY DEF HooksInv, HooksTypeOK
<1> PICK e \in Endpoint : To(d) = e
  BY DeliveryIsPair
<1> USE WebhooksOutAssumption DEF HooksInv, HooksTypeOK
<1>1. PICK answer \in {"good", "bad"} :
        /\ pc[r] = "sending" /\ pc' = [pc EXCEPT ![r] = answer]
        /\ inRow' = [inRow EXCEPT ![e] =
                       IF answer = "good" THEN 0 ELSE IF @ < DisableAfter THEN @ + 1 ELSE @]
  BY DEF Request
<1>2. /\ sent' = [sent EXCEPT ![d] = IF @ > MaxAttempts THEN @ ELSE @ + 1]
      /\ afterRemoval' = [afterRemoval EXCEPT ![r][e] =
                            IF endpoint[e] = "removed" /\ @ < 2 THEN @ + 1 ELSE @]
  BY DEF Request
<1>3. UNCHANGED <<emitVars, deliveryVars, endpointVars, todo, at, had, saw, beenOff,
                  raced, broken, troubles>>
  BY DEF Request
<1> USE DEF emitVars, deliveryVars, endpointVars
<1>4. HooksTypeOK'
  BY <1>1, <1>2, <1>3
<1>5. \A b \in Delivery : sent[b] \in Nat /\ sent'[b] \in Nat /\ sent[b] <= sent'[b]
  BY <1>2, <1>4
<1>6. \A n \in Nat, b \in Delivery :
        /\ n <= sent[b] => n <= sent'[b]
        /\ n < sent[b] => n < sent'[b]
  BY <1>5
<1>7. \A q \in Run, b \in Delivery : at[q] \in Delivery /\ had[q][b] \in Nat
  OBVIOUS
<1>8. DeliveryInv'
  <2>1. d \in todo[r]
    BY <1>1 DEF RunInv, Busy
  <2>2. \A b \in Delivery : emitting[b[1]] # "done" => b # d
    BY <2>1 DEF DeliveryInv
  <2>3. \A b \in Delivery : attempts[b] <= sent'[b]
    <3>1. \A b \in Delivery : attempts[b] \in Nat /\ attempts[b] <= sent[b]
      BY DEF DeliveryInv
    <3>2. QED BY <1>6, <3>1
  <2>4. QED BY <1>2, <1>3, <2>2, <2>3 DEF DeliveryInv
<1>9. RunInv'
  <2>1. d \in todo[r] /\ had[r][d] < sent'[d] /\ saw[r] < DisableAfter
    <3>1. d \in todo[r] /\ had[r][d] <= sent[d] /\ had[r][d] < MaxAttempts
      BY <1>1 DEF RunInv, Busy
    <3>2. saw[r] < DisableAfter
      BY <1>1 DEF RunInv
    <3>3. had[r][d] \in Nat /\ sent[d] \in Nat
      BY <1>5
    <3>4. sent'[d] = IF sent[d] > MaxAttempts THEN sent[d] ELSE sent[d] + 1
      BY <1>2
    <3>5. QED BY <3>1, <3>2, <3>3, <3>4
  <2>2. \A q \in Run : \A b \in todo[q] : b \in Delivery /\ had[q][b] <= sent[b]
    BY DEF RunInv
  <2>3. \A q \in Run : \A b \in todo[q] : had[q][b] <= sent'[b]
    BY <1>6, <1>7, <2>2
  <2>4. \A q \in Run : Unwritten(q) => had[q][at[q]] < sent[at[q]]
    BY DEF RunInv
  <2>5. \A q \in Run : Unwritten(q) => had[q][at[q]] < sent'[at[q]]
    BY <1>6, <1>7, <2>4
  <2>6. QED BY <1>1, <1>3, <2>1, <2>3, <2>5 DEF RunInv, Busy, Unwritten
<1>10. RemovalInv'
  BY <1>1, <1>2, <1>3 DEF RemovalInv
<1>11. EndpointInv' /\ GivenUpOnlyAfterAttempts'
  <2>1. EndpointInv'
    BY <1>3 DEF EndpointInv
  <2>2. \A b \in Delivery : state[b] = "failed" => sent'[b] >= MaxAttempts \/ To(b) \in beenOff
    BY <1>5 DEF GivenUpOnlyAfterAttempts
  <2>3. QED BY <1>3, <2>1, <2>2 DEF GivenUpOnlyAfterAttempts
<1>12. SoleInv'
  BY <1>1, <1>3 DEF SoleInv
<1>13. CountInv'
  <2> SUFFICES ASSUME ~raced', ~broken' PROVE RequestsInv' /\ FailuresInv'
    BY DEF CountInv
  <2>1. RequestsInv /\ FailuresInv
    BY <1>3 DEF CountInv
  <2>2. \A q \in Run : q # r => pc[q] = "idle" /\ todo[q] = {}
    BY <1>1, <1>3, Sole
  <2>3. RequestsInv'
    <3>1. d \in todo[r] /\ ~Asked(r) /\ Asked(r)' /\ Unwritten(r)'
      BY <1>1 DEF RunInv, Busy, Asked, Unwritten
    <3>2. had[r][d] < MaxAttempts /\ sent[d] = had[r][d]
      BY <2>1, <3>1 DEF RunInv, RequestsInv
    <3>3. sent'[d] = had[r][d] + 1 /\ sent'[d] <= MaxAttempts
      BY <1>2, <3>2
    <3>4. \A q \in Run : ~Unwritten(q)
      BY <1>1, <2>2 DEF Unwritten
    <3>5. \A b \in Delivery : b # d => sent'[b] = sent[b]
      BY <1>2
    <3>6. \A b \in Delivery : sent'[b] <= MaxAttempts
      BY <2>1, <3>3, <3>5 DEF RequestsInv
    <3>7. \A b \in Delivery :
            state[b] = "pending" /\ b # d => attempts[b] = sent'[b]
      BY <2>1, <3>4, <3>5 DEF RequestsInv
    <3>8. \A q \in Run : \A b \in todo[q] :
            /\ q = r
            /\ b # d => sent'[b] = had[q][b]
      BY <1>1, <2>1, <2>2, <3>5 DEF RequestsInv
    <3>9. UNCHANGED <<state, attempts, at, had, todo>>
      BY <1>3
    <3>10. QED BY ONLY <3>1, <3>3, <3>6, <3>7, <3>8, <3>9, at[r] = d DEF RequestsInv
  <2>4. FailuresInv'
    <3>1. saw[r] <= inRow[e] /\ saw[r] < DisableAfter
      BY <1>1, <2>1 DEF FailuresInv, RunInv
    <3>2. pc'[r] = "bad" => saw[r] < inRow'[e] /\ inRow[e] <= inRow'[e]
      BY <1>1, <3>1
    <3>3. \A f \in Endpoint : endpoint[f] # "removed" => failures[f] <= inRow[f]
      BY <1>1, <2>1, <2>2 DEF FailuresInv
    <3>4. \A f \in Endpoint : f # e => inRow'[f] = inRow[f]
      BY <1>1
    <3>5. /\ \A q \in Run : q # r => pc'[q] = "idle"
          /\ pc'[r] = "good" \/ pc'[r] = "bad"
      BY <1>1, <2>2
    <3>6. \A f \in Endpoint : failures[f] \in Nat /\ inRow[f] \in Nat /\ inRow'[f] \in Nat
      BY <1>4
    <3>7. \A f \in Endpoint : endpoint[f] # "removed" /\ (pc'[r] = "good" => f # e)
            => failures[f] <= inRow'[f]
      BY <1>1, <3>2, <3>3, <3>4, <3>5, <3>6
    <3>8. UNCHANGED <<endpoint, failures, at, saw>> /\ To(at[r]) = e
      BY <1>3
    <3>9. QED BY ONLY r \in Run, <3>2, <3>5, <3>7, <3>8 DEF FailuresInv
  <2>5. QED BY <2>3, <2>4
<1>14. QED BY <1>4, <1>8, <1>9, <1>10, <1>11, <1>12, <1>13

LEMMA DeliveredInv == ASSUME HooksInv, NEW r \in Run, Delivered(r) PROVE HooksInv'
<1> USE WebhooksOutAssumption, DeliveryIsPair
    DEF Delivered, UpdateRow, HooksInv, HooksTypeOK, Decided, emitVars,
        deliveryVars, endpointVars, runVars, history
<1>1. HooksTypeOK'
  OBVIOUS
<1>2. DeliveryInv'
  BY DEF DeliveryInv, RunInv, Unwritten
<1>3. RunInv'
  BY DEF RunInv, Busy, Unwritten
<1>4. RemovalInv'
  BY DEF RemovalInv
<1>5. EndpointInv'
  BY DEF EndpointInv
<1>6. GivenUpOnlyAfterAttempts'
  BY DEF GivenUpOnlyAfterAttempts
<1>7. SoleInv'
  BY DEF SoleInv
<1>8. CountInv'
  <2> SUFFICES ASSUME ~raced', ~broken' PROVE RequestsInv' /\ FailuresInv'
    BY DEF CountInv
  <2> RequestsInv /\ FailuresInv
    BY DEF CountInv
  <2>1. RequestsInv'
    BY DEF RequestsInv, SoleInv, RunInv, Busy, Asked, Unwritten
  <2>2. FailuresInv'
    BY DEF FailuresInv
  <2>3. QED BY <2>1, <2>2
<1>9. QED BY <1>1, <1>2, <1>3, <1>4, <1>5, <1>6, <1>7, <1>8

LEMMA ResetInv == ASSUME HooksInv, NEW r \in Run, ResetFailures(r) PROVE HooksInv'
<1> USE WebhooksOutAssumption, DeliveryIsPair
    DEF ResetFailures, Done, HooksInv, HooksTypeOK, Decided, emitVars,
        deliveryVars, endpointVars, runVars, history
<1>1. HooksTypeOK'
  OBVIOUS
<1>2. DeliveryInv'
  BY DEF DeliveryInv
<1>3. RunInv'
  BY DEF RunInv, Busy, Unwritten
<1>4. RemovalInv'
  BY DEF RemovalInv
<1>5. EndpointInv'
  BY DEF EndpointInv
<1>6. GivenUpOnlyAfterAttempts'
  BY DEF GivenUpOnlyAfterAttempts
<1>7. SoleInv'
  BY DEF SoleInv
<1>8. CountInv'
  <2> SUFFICES ASSUME ~raced', ~broken' PROVE RequestsInv' /\ FailuresInv'
    BY DEF CountInv
  <2> RequestsInv /\ FailuresInv
    BY DEF CountInv
  <2> \A q \in Run : q # r => pc[q] = "idle" /\ todo[q] = {}
    BY Sole
  <2>1. RequestsInv'
    <3>1. /\ \A q \in Run : ~Unwritten(q) /\ ~Unwritten(q)' /\ ~Asked(q)'
          /\ \A q \in Run : q # r => ~Asked(q)
      BY DEF Asked, Unwritten
    <3>2. \A q \in Run : \A d \in todo'[q] : d \in todo[q] /\ ~(q = r /\ at[r] = d)
      OBVIOUS
    <3>3. QED BY <3>1, <3>2 DEF RequestsInv
  <2>2. FailuresInv'
    BY DEF FailuresInv
  <2>3. QED BY <2>1, <2>2
<1>9. QED BY <1>1, <1>2, <1>3, <1>4, <1>5, <1>6, <1>7, <1>8

\* The counter goes to one more than was listed, which is at most what was sent.
LEMMA FailedInv == ASSUME HooksInv, NEW r \in Run, Failed(r) PROVE HooksInv'
<1> PICK d \in Delivery : at[r] = d
  BY DEF HooksInv, HooksTypeOK
<1> PICK n \in Nat : had[r][d] + 1 = n
  BY DEF HooksInv, HooksTypeOK
<1>1. /\ pc[r] = "bad" /\ pc' = [pc EXCEPT ![r] = "counting"]
      /\ \/ state[d] = "none" /\ UNCHANGED <<state, attempts>>
         \/ /\ state[d] # "none"
            /\ state' = [state EXCEPT ![d] = IF n >= MaxAttempts THEN "failed" ELSE "pending"]
            /\ attempts' = [attempts EXCEPT ![d] = n]
      /\ resting' \in {resting \ {d}, resting \cup {d}}
      /\ UNCHANGED <<emitVars, endpointVars, todo, at, had, saw, history, troubles>>
  BY DEF Failed, UpdateRow, GivesUp
<1>2. /\ d \in todo[r] /\ n <= MaxAttempts /\ n <= sent[d]
      /\ emitting[d[1]] = "done"
  <2>1. d \in todo[r] /\ had[r][d] < MaxAttempts /\ had[r][d] < sent[d]
    BY <1>1 DEF HooksInv, RunInv, Busy, Unwritten
  <2>2. emitting[d[1]] = "done"
    BY <2>1 DEF HooksInv, DeliveryInv
  <2>3. had[r][d] \in Nat /\ sent[d] \in Nat
    BY DEF HooksInv, HooksTypeOK
  <2>4. QED BY <2>1, <2>2, <2>3, WebhooksOutAssumption
<1> USE WebhooksOutAssumption, DeliveryIsPair, <1>1, <1>2
    DEF HooksInv, HooksTypeOK, Decided, emitVars, endpointVars, history
<1>3. HooksTypeOK'
  <2>1. /\ state' \in [Delivery -> {"none", "pending"} \cup Decided]
        /\ attempts' \in [Delivery -> Nat]
    <3>1. CASE state[d] = "none"
      BY <3>1
    <3>2. CASE state[d] # "none"
      <4>1. attempts' = [attempts EXCEPT ![d] = n]
        BY <3>2
      <4>2. state' = [state EXCEPT ![d] = IF n >= MaxAttempts THEN "failed" ELSE "pending"]
        BY <3>2
      <4>3. attempts' \in [Delivery -> Nat]
        BY ONLY <4>1, HooksInv, n \in Nat DEF HooksInv
      <4>4. state' \in [Delivery -> {"none", "pending"} \cup Decided]
        BY ONLY <4>2, HooksInv DEF HooksInv
      <4>5. QED BY <4>3, <4>4
    <3>3. QED BY <3>1, <3>2
  <2>2. resting' \subseteq Delivery
    OBVIOUS
  <2>3. /\ pc' \in [Run -> {"idle", "working", "dropping", "sending", "good", "bad",
                           "resetting", "counting"}]
        /\ UNCHANGED <<emitting, heard, endpoint, failures, todo, at, had, saw, sent, inRow,
                      beenOff, afterRemoval, raced, broken, troubles>>
    OBVIOUS
  <2>4. QED BY ONLY HooksInv, <2>1, <2>2, <2>3 DEF HooksInv, HooksTypeOK, Decided
<1>4. DeliveryInv'
  BY DEF DeliveryInv
<1>5. RunInv'
  BY DEF RunInv, Busy, Unwritten
<1>6. RemovalInv'
  BY DEF RemovalInv
<1>7. EndpointInv'
  BY DEF EndpointInv
<1>8. GivenUpOnlyAfterAttempts'
  BY DEF GivenUpOnlyAfterAttempts
<1>9. SoleInv'
  BY DEF SoleInv
<1>10. CountInv'
  <2> SUFFICES ASSUME ~raced', ~broken' PROVE RequestsInv' /\ FailuresInv'
    BY DEF CountInv
  <2> RequestsInv /\ FailuresInv
    BY DEF CountInv
  <2> \A q \in Run : q # r => pc[q] = "idle" /\ todo[q] = {}
    BY Sole
  <2>1. RequestsInv'
    <3>1. sent[d] = n
      BY DEF RequestsInv, Asked
    <3>2. \A q \in Run : (Asked(q)' <=> Asked(q)) /\ ~Unwritten(q)'
      BY DEF Asked, Unwritten
    <3>3. \A q \in Run : Unwritten(q) => q = r
      BY DEF Unwritten
    <3>4. \A b \in Delivery : state'[b] = "pending" => attempts'[b] = sent[b]
      BY <3>1, <3>3 DEF RequestsInv
    <3>5. QED BY <3>2, <3>4 DEF RequestsInv
  <2>2. FailuresInv'
    BY DEF FailuresInv
  <2>3. QED BY <2>1, <2>2
<1>11. QED BY <1>3, <1>4, <1>5, <1>6, <1>7, <1>8, <1>9, <1>10

\* One more than was read is at most the failures in a row of an undisturbed run.
LEMMA CountFailureInv == ASSUME HooksInv, NEW r \in Run, CountFailure(r) PROVE HooksInv'
<1> PICK d \in Delivery : at[r] = d
  BY DEF HooksInv, HooksTypeOK
<1> PICK e \in Endpoint : To(d) = e
  BY DeliveryIsPair
<1> PICK n \in Nat : saw[r] + 1 = n
  BY DEF HooksInv, HooksTypeOK
<1>1. /\ pc[r] = "counting" /\ pc' = [pc EXCEPT ![r] = "working"]
      /\ todo' = [todo EXCEPT ![r] = @ \ {d}] /\ saw' = [saw EXCEPT ![r] = 0]
      /\ UNCHANGED <<emitVars, deliveryVars, at, had, sent, inRow, afterRemoval, raced, broken,
                    troubles>>
  BY DEF CountFailure, Done
<1>2. \/ endpoint[e] = "removed" /\ UNCHANGED <<endpoint, failures, beenOff>>
      \/ /\ endpoint[e] # "removed" /\ failures' = [failures EXCEPT ![e] = n]
         /\ endpoint' = IF n >= DisableAfter THEN [endpoint EXCEPT ![e] = "off"] ELSE endpoint
         /\ beenOff' = IF n >= DisableAfter THEN beenOff \cup {e} ELSE beenOff
  BY DEF CountFailure, endpointVars
<1>3. n <= DisableAfter
  BY <1>1, WebhooksOutAssumption DEF HooksInv, HooksTypeOK, RunInv
<1> USE WebhooksOutAssumption, DeliveryIsPair, <1>1, <1>2, <1>3
    DEF HooksInv, HooksTypeOK, Decided, emitVars, deliveryVars
<1>4. HooksTypeOK'
  <2>1. /\ endpoint' \in [Endpoint -> {"on", "off", "removed"}]
        /\ failures' \in [Endpoint -> 0 .. DisableAfter] /\ beenOff' \subseteq Endpoint
    <3>1. n \in 0 .. DisableAfter
      OBVIOUS
    <3>2. QED BY ONLY HooksInv, e \in Endpoint, <1>2, <3>1 DEF HooksInv, HooksTypeOK
  <2>2. todo' \in [Run -> SUBSET Delivery] /\ saw' \in [Run -> 0 .. DisableAfter]
    OBVIOUS
  <2>3. /\ pc' \in [Run -> {"idle", "working", "dropping", "sending", "good", "bad",
                           "resetting", "counting"}]
        /\ UNCHANGED <<emitting, heard, state, attempts, resting, at, had, sent, inRow,
                      afterRemoval, raced, broken, troubles>>
    OBVIOUS
  <2>4. QED BY ONLY HooksInv, <2>1, <2>2, <2>3 DEF HooksInv, HooksTypeOK, Decided
<1>5. DeliveryInv'
  BY DEF DeliveryInv
<1>6. RunInv'
  BY DEF RunInv, Busy, Unwritten
<1>7. RemovalInv'
  BY DEF RemovalInv
<1>8. EndpointInv'
  BY DEF EndpointInv
<1>9. GivenUpOnlyAfterAttempts'
  BY DEF GivenUpOnlyAfterAttempts
<1>10. SoleInv'
  BY DEF SoleInv
<1>11. CountInv'
  <2> SUFFICES ASSUME ~raced', ~broken' PROVE RequestsInv' /\ FailuresInv'
    BY DEF CountInv
  <2> RequestsInv /\ FailuresInv
    BY DEF CountInv
  <2> \A q \in Run : q # r => pc[q] = "idle" /\ todo[q] = {}
    BY Sole
  <2>1. RequestsInv'
    <3>1. /\ \A q \in Run : ~Unwritten(q) /\ ~Unwritten(q)' /\ ~Asked(q)'
          /\ \A q \in Run : q # r => ~Asked(q)
      BY DEF Asked, Unwritten
    <3>2. \A q \in Run : \A b \in todo'[q] : b \in todo[q] /\ ~(q = r /\ b = d)
      OBVIOUS
    <3>3. QED BY <3>1, <3>2 DEF RequestsInv
  <2>2. FailuresInv'
    <3>1. \A q \in Run : pc[q] \in {"idle", "counting"} /\ pc'[q] \in {"idle", "working"}
      OBVIOUS
    <3>2. saw[r] < inRow[e]
      BY DEF FailuresInv
    <3>3. n <= inRow[e]
      BY <3>2
    <3>4. \A f \in Endpoint : endpoint[f] # "removed" => failures[f] <= inRow[f]
      BY <3>1 DEF FailuresInv
    <3>5. \A f \in Endpoint : endpoint'[f] # "removed" => failures'[f] <= inRow[f]
      <4>1. endpoint'[e] # "removed" => failures'[e] <= inRow[e]
        BY <3>3, <3>4
      <4>2. \A f \in Endpoint : f # e =>
              failures'[f] = failures[f] /\ endpoint'[f] = endpoint[f]
        BY ONLY HooksInv, e \in Endpoint, <1>2 DEF HooksInv
      <4>3. QED BY ONLY <3>4, <4>1, <4>2
    <3>6. QED BY <3>1, <3>5 DEF FailuresInv
  <2>3. QED BY <2>1, <2>2
<1>12. QED BY <1>4, <1>5, <1>6, <1>7, <1>8, <1>9, <1>10, <1>11

LEMMA FinishInv == ASSUME HooksInv, NEW r \in Run, Finish(r) PROVE HooksInv'
<1> USE WebhooksOutAssumption, DeliveryIsPair
    DEF Finish, End, Delete, HooksInv, HooksTypeOK, Decided, emitVars,
        deliveryVars, endpointVars, runVars, history
<1>1. HooksTypeOK'
  <2>1. /\ todo' \in [Run -> SUBSET Delivery] /\ saw' \in [Run -> 0 .. DisableAfter]
        /\ at' \in [Run -> Delivery]
    <3>1. NoDelivery \in Delivery
      BY DEF NoDelivery
    <3>2. /\ todo' = [todo EXCEPT ![r] = {}] /\ saw' = [saw EXCEPT ![r] = 0]
          /\ at' = [at EXCEPT ![r] = NoDelivery]
      OBVIOUS
    <3>3. QED BY ONLY HooksInv, WebhooksOutAssumption, <3>1, <3>2 DEF HooksInv, HooksTypeOK
  <2>2. had' \in [Run -> [Delivery -> Nat]]
    <3>1. [d \in Delivery |-> 0] \in [Delivery -> Nat]
      OBVIOUS
    <3>2. had' = [had EXCEPT ![r] = [d \in Delivery |-> 0]]
      OBVIOUS
    <3>3. QED BY ONLY HooksInv, <3>1, <3>2 DEF HooksInv, HooksTypeOK
  <2>3. afterRemoval' \in [Run -> [Endpoint -> 0 .. 2]]
    <3>1. [e \in Endpoint |-> 0] \in [Endpoint -> 0 .. 2]
      OBVIOUS
    <3>2. afterRemoval' = [afterRemoval EXCEPT ![r] = [e \in Endpoint |-> 0]]
      OBVIOUS
    <3>3. QED BY ONLY HooksInv, <3>1, <3>2 DEF HooksInv, HooksTypeOK
  <2>4. /\ state' \in [Delivery -> {"none", "pending"} \cup Decided]
        /\ attempts' \in [Delivery -> Nat] /\ resting' \subseteq Delivery
    OBVIOUS
  <2>5. /\ pc' \in [Run -> {"idle", "working", "dropping", "sending", "good", "bad",
                           "resetting", "counting"}]
        /\ UNCHANGED <<emitting, heard, endpoint, failures, sent, inRow, beenOff, raced,
                      broken, troubles>>
    OBVIOUS
  <2>6. QED BY ONLY HooksInv, <2>1, <2>2, <2>3, <2>4, <2>5 DEF HooksInv, HooksTypeOK, Decided
<1>2. DeliveryInv'
  BY DEF DeliveryInv
<1>3. RunInv'
  BY DEF RunInv, Busy, Unwritten
<1>4. RemovalInv'
  BY DEF RemovalInv
<1>5. EndpointInv'
  BY DEF EndpointInv
<1>6. GivenUpOnlyAfterAttempts'
  BY DEF GivenUpOnlyAfterAttempts
<1>7. SoleInv'
  BY DEF SoleInv
<1>8. CountInv'
  <2> SUFFICES ASSUME ~raced', ~broken' PROVE RequestsInv' /\ FailuresInv'
    BY DEF CountInv
  <2> RequestsInv /\ FailuresInv
    BY DEF CountInv
  <2> \A q \in Run : q # r => pc[q] = "idle" /\ todo[q] = {}
    BY Sole
  <2>1. RequestsInv'
    <3>1. \A q \in Run : ~Unwritten(q) /\ todo'[q] = {}
      BY DEF Unwritten
    <3>2. \A d \in Delivery : state'[d] = "pending" =>
            state[d] = "pending" /\ attempts'[d] = attempts[d]
      OBVIOUS
    <3>3. sent' = sent
      OBVIOUS
    <3>4. QED BY ONLY RequestsInv, <3>1, <3>2, <3>3 DEF RequestsInv
  <2>2. FailuresInv'
    BY DEF FailuresInv
  <2>3. QED BY <2>1, <2>2
<1>9. QED BY <1>1, <1>2, <1>3, <1>4, <1>5, <1>6, <1>7, <1>8

LEMMA CutShortInv == ASSUME HooksInv, NEW r \in Run, CutShort(r) PROVE HooksInv'
<1> USE WebhooksOutAssumption, DeliveryIsPair
    DEF CutShort, End, Trouble, HooksInv, HooksTypeOK, Decided, emitVars,
        deliveryVars, endpointVars, runVars, history
<1>1. HooksTypeOK'
  <2>1. /\ todo' \in [Run -> SUBSET Delivery] /\ saw' \in [Run -> 0 .. DisableAfter]
        /\ at' \in [Run -> Delivery]
    <3>1. NoDelivery \in Delivery
      BY DEF NoDelivery
    <3>2. /\ todo' = [todo EXCEPT ![r] = {}] /\ saw' = [saw EXCEPT ![r] = 0]
          /\ at' = [at EXCEPT ![r] = NoDelivery]
      OBVIOUS
    <3>3. QED BY ONLY HooksInv, WebhooksOutAssumption, <3>1, <3>2 DEF HooksInv, HooksTypeOK
  <2>2. had' \in [Run -> [Delivery -> Nat]]
    <3>1. [d \in Delivery |-> 0] \in [Delivery -> Nat]
      OBVIOUS
    <3>2. had' = [had EXCEPT ![r] = [d \in Delivery |-> 0]]
      OBVIOUS
    <3>3. QED BY ONLY HooksInv, <3>1, <3>2 DEF HooksInv, HooksTypeOK
  <2>3. afterRemoval' \in [Run -> [Endpoint -> 0 .. 2]]
    <3>1. [e \in Endpoint |-> 0] \in [Endpoint -> 0 .. 2]
      OBVIOUS
    <3>2. afterRemoval' = [afterRemoval EXCEPT ![r] = [e \in Endpoint |-> 0]]
      OBVIOUS
    <3>3. QED BY ONLY HooksInv, <3>1, <3>2 DEF HooksInv, HooksTypeOK
  <2>4. /\ pc' \in [Run -> {"idle", "working", "dropping", "sending", "good", "bad",
                           "resetting", "counting"}]
        /\ broken' \in BOOLEAN /\ troubles' \in 0 .. MaxTroubles
    OBVIOUS
  <2>5. UNCHANGED <<emitting, heard, state, attempts, resting, endpoint, failures, sent, inRow,
                    beenOff, raced>>
    OBVIOUS
  <2>6. QED BY ONLY HooksInv, <2>1, <2>2, <2>3, <2>4, <2>5 DEF HooksInv, HooksTypeOK, Decided
<1>2. DeliveryInv'
  BY DEF DeliveryInv
<1>3. RunInv'
  BY DEF RunInv, Busy, Unwritten
<1>4. RemovalInv'
  BY DEF RemovalInv
<1>5. EndpointInv'
  BY DEF EndpointInv
<1>6. GivenUpOnlyAfterAttempts'
  BY DEF GivenUpOnlyAfterAttempts
<1>7. SoleInv'
  BY DEF SoleInv
<1>8. CountInv'
  <2> SUFFICES ASSUME ~raced', ~broken' PROVE RequestsInv' /\ FailuresInv'
    BY DEF CountInv
  <2> RequestsInv /\ FailuresInv
    BY DEF CountInv
  <2>1. RequestsInv'
    BY DEF RequestsInv
  <2>2. FailuresInv'
    BY DEF FailuresInv
  <2>3. QED BY <2>1, <2>2
<1>9. QED BY <1>1, <1>2, <1>3, <1>4, <1>5, <1>6, <1>7, <1>8

LEMMA EnableInv == ASSUME HooksInv, NEW e \in Endpoint, Enable(e) PROVE HooksInv'
<1> USE WebhooksOutAssumption, DeliveryIsPair
    DEF Enable, Trouble, HooksInv, HooksTypeOK, Decided, emitVars,
        deliveryVars, endpointVars, runVars, history
<1>1. HooksTypeOK'
  OBVIOUS
<1>2. DeliveryInv'
  BY DEF DeliveryInv
<1>3. RunInv'
  BY DEF RunInv, Busy, Unwritten
<1>4. RemovalInv'
  BY DEF RemovalInv
<1>5. EndpointInv'
  BY DEF EndpointInv
<1>6. GivenUpOnlyAfterAttempts'
  BY DEF GivenUpOnlyAfterAttempts
<1>7. SoleInv'
  BY DEF SoleInv
<1>8. CountInv'
  <2> SUFFICES ASSUME ~raced', ~broken' PROVE RequestsInv' /\ FailuresInv'
    BY DEF CountInv
  <2> RequestsInv /\ FailuresInv
    BY DEF CountInv
  <2>1. RequestsInv'
    BY DEF RequestsInv, Asked, Unwritten
  <2>2. FailuresInv'
    <3>1. \A r \in Run : pc[r] \notin {"idle", "working"} => To(at[r]) # e
      OBVIOUS
    <3>2. failures'[e] = 0 /\ inRow'[e] = 0 /\ inRow' \in [Endpoint -> 0 .. DisableAfter]
      OBVIOUS
    <3>3. \A f \in Endpoint : f # e =>
            /\ failures'[f] = failures[f] /\ inRow'[f] = inRow[f]
            /\ endpoint'[f] = endpoint[f]
      OBVIOUS
    <3>4. \A r \in Run : To(at[r]) \in Endpoint
      OBVIOUS
    <3>5. \A r \in Run : pc[r] \in {"sending", "bad", "counting"} =>
            inRow'[To(at[r])] = inRow[To(at[r])]
      BY <3>1, <3>3, <3>4
    <3>6. QED BY <3>2, <3>3, <3>5 DEF FailuresInv
  <2>3. QED BY <2>1, <2>2
<1>9. QED BY <1>1, <1>2, <1>3, <1>4, <1>5, <1>6, <1>7, <1>8

LEMMA RemoveInv == ASSUME HooksInv, NEW e \in Endpoint, Remove(e) PROVE HooksInv'
<1> USE WebhooksOutAssumption, DeliveryIsPair
    DEF Remove, Trouble, Delete, HooksInv, HooksTypeOK, Decided, emitVars,
        deliveryVars, endpointVars, runVars, history
<1>1. HooksTypeOK'
  OBVIOUS
<1>2. DeliveryInv'
  BY DEF DeliveryInv
<1>3. RunInv'
  BY DEF RunInv, Busy, Unwritten
<1>4. RemovalInv'
  BY DEF RemovalInv
<1>5. EndpointInv'
  BY DEF EndpointInv
<1>6. GivenUpOnlyAfterAttempts'
  BY DEF GivenUpOnlyAfterAttempts
<1>7. SoleInv'
  BY DEF SoleInv
<1>8. CountInv'
  <2> SUFFICES ASSUME ~raced', ~broken' PROVE RequestsInv' /\ FailuresInv'
    BY DEF CountInv
  <2> RequestsInv /\ FailuresInv
    BY DEF CountInv
  <2>1. RequestsInv'
    BY DEF RequestsInv, Asked, Unwritten
  <2>2. FailuresInv'
    BY DEF FailuresInv
  <2>3. QED BY <2>1, <2>2
<1>9. QED BY <1>1, <1>2, <1>3, <1>4, <1>5, <1>6, <1>7, <1>8


LEMMA NextHooks == HooksInv /\ [HooksNext]_hooksVars => HooksInv'
<1> SUFFICES ASSUME HooksInv, [HooksNext]_hooksVars PROVE HooksInv'
  OBVIOUS
<1>1. ASSUME NEW v \in Event, Emit(v) \/ Enqueue(v) PROVE HooksInv'
  BY <1>1, EmitInv, EnqueueInv
<1>2. ASSUME NEW r \in Run, Work(r) PROVE HooksInv'
  BY <1>2, TakeInv, DropInv, RequestInv, DeliveredInv, ResetInv, FailedInv, CountFailureInv,
     FinishInv DEF Work
<1>3. ASSUME NEW r \in Run, Start(r) \/ CutShort(r) PROVE HooksInv'
  BY <1>3, StartInv, CutShortInv
<1>4. ASSUME NEW e \in Endpoint, Enable(e) \/ Remove(e) PROVE HooksInv'
  BY <1>4, EnableInv, RemoveInv
<1>5. CASE UNCHANGED hooksVars
  <2> USE <1>5 DEF hooksVars, emitVars, deliveryVars, endpointVars, runVars, history
  <2>1. HooksTypeOK' /\ DeliveryInv'
    BY DEF HooksInv, HooksTypeOK, DeliveryInv
  <2>2. RunInv' /\ RemovalInv' /\ EndpointInv' /\ GivenUpOnlyAfterAttempts' /\ SoleInv'
    BY DEF HooksInv, RunInv, RemovalInv, EndpointInv, GivenUpOnlyAfterAttempts, SoleInv,
           Busy, Unwritten
  <2>3. CountInv'
    BY DEF HooksInv, CountInv, RequestsInv, FailuresInv, Asked, Unwritten
  <2>4. QED BY <2>1, <2>2, <2>3 DEF HooksInv
<1>6. QED BY <1>1, <1>2, <1>3, <1>4, <1>5, FallDueInv DEF HooksNext

(* webhooks-out.ts:10: four attempts of a delivery, no less while its endpoint
   is on, whatever counters are overwritten, and no more while no two runs
   overlap and none breaks off; for any events, endpoints and runs. *)
THEOREM AttemptsAreAlwaysKept == HooksSpec => []AttemptsAreKept
<1>1. HooksInv => AttemptsAreKept
  BY WebhooksOutAssumption DEF HooksInv, CountInv, RequestsInv, AttemptsAreKept, StopsAfterAttempts
<1>2. QED BY <1>1, InitHooks, NextHooks, PTL DEF HooksSpec

(* webhook-endpoints/[id]/index.delete.ts:17-18: of any number of runs each makes
   at most the request it was about to make when the endpoint was removed,
   because it reads the endpoint before every delivery. *)
THEOREM OneRequestAfterAnyRemoval == HooksSpec => []OneRequestAfterRemoval
<1>1. HooksInv => OneRequestAfterRemoval
  <2> SUFFICES ASSUME HooksInv, NEW r \in Run, NEW e \in Endpoint
               PROVE afterRemoval[r][e] <= 1
    BY DEF OneRequestAfterRemoval
  <2>1. afterRemoval[r][e] = 0 \/ afterRemoval[r][e] = 1
    BY DEF HooksInv, RemovalInv
  <2>2. QED BY <2>1
<1>2. QED BY <1>1, InitHooks, NextHooks, PTL DEF HooksSpec

(* webhooks-out.ts:11: an endpoint is switched off only after as many failed
   answers in a row as the policy says: what an undisturbed run read, and the
   one failure it adds, are never more than those. *)
THEOREM OffOnlyAfterFailuresInRow == HooksSpec => SwitchedOffAfterFailuresInRow
<1> DEFINE Earned == \A e \in Endpoint :
      endpoint[e] = "on" /\ endpoint'[e] = "off" =>
        inRow[e] >= DisableAfter \/ raced \/ broken
<1>1. HooksInv /\ [HooksNext]_hooksVars => [Earned]_hooksVars
  <2> SUFFICES ASSUME HooksInv, [HooksNext]_hooksVars, NEW e \in Endpoint,
                      endpoint[e] = "on", endpoint'[e] = "off", ~raced, ~broken
               PROVE  inRow[e] >= DisableAfter
    OBVIOUS
  <2> DEFINE Switched(r) == /\ pc[r] = "counting" /\ e = To(at[r])
                            /\ saw[r] + 1 >= DisableAfter
  <2>1. ASSUME NEW r \in Run, CountFailure(r) PROVE Switched(r)
    BY <2>1 DEF CountFailure, HooksInv, HooksTypeOK, endpointVars
  <2>2. ASSUME NEW r \in Run, Start(r) \/ Work(r) \/ CutShort(r) PROVE CountFailure(r)
    BY <2>2 DEF Start, Work, CutShort, Take, Drop, Request, Delivered, ResetFailures, Failed,
                Finish, endpointVars
  <2>3. ASSUME NEW v \in Event, Emit(v) \/ Enqueue(v) PROVE FALSE
    BY <2>3 DEF Emit, Enqueue, endpointVars
  <2>4. ASSUME NEW d \in Delivery, FallDue(d) PROVE FALSE
    BY <2>4 DEF FallDue, endpointVars
  <2>5. ASSUME NEW f \in Endpoint, Enable(f) \/ Remove(f) PROVE FALSE
    BY <2>5 DEF Enable, Remove, HooksInv, HooksTypeOK
  <2>6. ASSUME UNCHANGED hooksVars PROVE FALSE
    BY <2>6 DEF hooksVars, endpointVars
  <2>7. \E r \in Run : Start(r) \/ Work(r) \/ CutShort(r)
    BY <2>3, <2>4, <2>5, <2>6 DEF HooksNext
  <2>8. PICK r \in Run : Start(r) \/ Work(r) \/ CutShort(r)
    BY <2>7
  <2>9. Switched(r)
    <3> HIDE DEF Switched
    <3> QED BY <2>1, <2>2, <2>8
  <2>10. saw[r] < inRow[e]
    BY <2>9 DEF HooksInv, CountInv, FailuresInv
  <2>11. saw[r] \in Nat /\ inRow[e] \in Nat
    BY DEF HooksInv, HooksTypeOK
  <2>12. QED BY <2>9, <2>10, <2>11, WebhooksOutAssumption
<1>2. QED BY <1>1, InitHooks, NextHooks, PTL DEF HooksSpec, SwitchedOffAfterFailuresInRow

=============================================================================
