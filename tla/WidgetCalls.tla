---------------------------- MODULE WidgetCalls ----------------------------
(***************************************************************************)
(* A visitor's call from the website widget, up to the engine: the session *)
(* (server/routes/widget/*.post.ts), the guest SIP endpoint lent to the    *)
(* browser (server/utils/widget-guest.ts), and the browser's script        *)
(* (v1.js.get.ts), for one workspace and one call per visitor.  The script *)
(* asks for the call, then for an endpoint, waits for the microphone and   *)
(* the library, calls, and reports the end with its rating.  The handlers  *)
(* of different visitors interleave at every query; a script may be gone   *)
(* when its answer comes, or have gone on.                                 *)
(*                                                                         *)
(* Time is abstracted: a lease may be older than five minutes at any time, *)
(* and any session may come to be older than twenty minutes, whatever is   *)
(* going on in it.  Only for the cron's hour is its own assumption taken:  *)
(* no conversation and no request lasts that long; a question for the      *)
(* microphone may.                                                         *)
(***************************************************************************)
EXTENDS Naturals, FiniteSets

CONSTANTS
  Visitor,
  Endpoint,  \* sip_endpoints of kind widget_guest, made or not
  None,
  Channels,  \* channels of the workspace's active numbers
  MaxFaults  \* bound on lost answers and failed provisioning

ASSUME WidgetCallsAssumption ==
  /\ IsFiniteSet(Visitor) /\ None \notin Visitor \cup Endpoint
  /\ Channels \in Nat \ {0} /\ MaxFaults \in Nat

VARIABLES
  session,  \* live_call_sessions.status
  endedAt,  \* sessions that have an end
  aged,     \* calls that started more than twenty minutes ago
  made,     \* endpoints provisioned so far
  holder,   \* whose session an endpoint is leased to
  page,     \* the screen of the visitor's page
  starting, \* the endpoint the page was answered, until its call begins
  line,     \* the endpoint the page's call is on
  call,     \* what /widget/call is at
  lease,    \* what /widget/voice-token is at
  listed,   \* the stale leases its sweep has read
  picked,   \* the free endpoint it has read
  rating,   \* what /widget/csat is at
  ensure,   \* what the background provisioning of /widget/config is at
  crossed,  \* two handlers were between the same check and its act (history)
  stolen,   \* endpoints swept from a session that was not over (history)
  hasty,    \* visitors whose session was over before their call began (history)
  lost

serverVars == <<call, lease, listed, picked, rating, ensure>>
tableVars == <<session, endedAt, aged, made, holder>>
pageVars == <<page, starting, line>>
noted == <<crossed, stolen, hasty>>
vars == <<tableVars, serverVars, pageVars, noted, lost>>

Closed == {"ended", "missed"}
MaxEndpoints == Channels

Init ==
  /\ session = [v \in Visitor |-> "none"] /\ endedAt = {}
  /\ aged = {} /\ made = {} /\ holder = [e \in Endpoint |-> None]
  /\ page = [v \in Visitor |-> "form"]
  /\ starting = [v \in Visitor |-> None] /\ line = [v \in Visitor |-> None]
  /\ call = [v \in Visitor |-> "idle"] /\ lease = [v \in Visitor |-> "idle"]
  /\ listed = [v \in Visitor |-> {}] /\ picked = [v \in Visitor |-> None]
  /\ rating = [v \in Visitor |-> "idle"] /\ ensure = "idle"
  /\ crossed = FALSE /\ stolen = {} /\ hasty = {} /\ lost = 0

\* An endpoint is being provisioned, for a visitor or in the background.
Provisioning == ensure = "provisioning" \/ \E v \in Visitor : lease[v] = "provisioning"

-----------------------------------------------------------------------------
\* ensureGuestEndpoint, started by whoever fetches the widget's configuration.
EnsureCount ==
  /\ ensure = "idle"
  /\ ensure' = IF made = {} THEN "provisioning" ELSE "done"
  /\ crossed' = (crossed \/ (made = {} /\ Provisioning))
  /\ UNCHANGED <<tableVars, call, lease, listed, picked, rating, pageVars, stolen, hasty, lost>>

EnsureInsert ==
  /\ ensure = "provisioning" /\ ensure' = "done"
  /\ \/ \E e \in Endpoint \ made : made' = made \cup {e} /\ UNCHANGED lost
     \/ lost < MaxFaults /\ lost' = lost + 1 /\ UNCHANGED made
  /\ UNCHANGED <<session, endedAt, aged, holder, call, lease, listed, picked, rating, pageVars, noted>>

-----------------------------------------------------------------------------
\* The form is sent: /widget/session, and /widget/call with its answer.
Open(v) ==
  /\ page[v] = "form" /\ session[v] = "none"
  /\ session' = [session EXCEPT ![v] = "opened"]
  /\ page' = [page EXCEPT ![v] = "calling"] /\ call' = [call EXCEPT ![v] = "asked"]
  /\ UNCHANGED <<endedAt, aged, made, holder, lease, listed, picked, rating, ensure, starting, line, noted, lost>>

Calling == {v \in Visitor : session[v] = "calling"}

\* liveCallCount, as far as the widget's calls go: a session counts for twenty
\* minutes, whether it is talking or forgotten.
Counted == Calling \ aged

\* Twenty minutes pass; it matters of the calls, and no request takes as long.
Age(v) ==
  /\ v \in Calling /\ lease[v] = "idle" /\ rating[v] = "idle"
  /\ v \notin aged /\ aged' = aged \cup {v}
  /\ UNCHANGED <<session, endedAt, made, holder, serverVars, pageVars, noted, lost>>

\* Mutant of HasChannel: one call more.
HasChannelLoosely == Cardinality(Counted) <= Channels

\* assertChannelAvailable
HasChannel == Cardinality(Counted) < Channels

\* The lines may also be busy with calls of other kinds.
CheckChannels(v) ==
  /\ call[v] = "asked"
  /\ \E room \in BOOLEAN :
       /\ room => HasChannel
       /\ call' = [call EXCEPT ![v] = IF room THEN "marking" ELSE "refusing"]
       /\ crossed' = (crossed \/ (room /\ \E u \in Visitor : call[u] = "marking"))
  /\ UNCHANGED <<tableVars, lease, listed, picked, rating, ensure, pageVars, stolen, hasty, lost>>

\* The page hears of it, if it still waits, and asks for an endpoint at once:
\* it does not look at the answer.
Answered(v) ==
  IF page[v] = "calling"
  THEN page' = [page EXCEPT ![v] = "waiting"] /\ lease' = [lease EXCEPT ![v] = "asked"]
  ELSE UNCHANGED <<page, lease>>

\* Whatever the status is by now.
MarkCall(v) ==
  /\ call[v] \in {"marking", "refusing"} /\ call' = [call EXCEPT ![v] = "idle"]
  /\ session' = [session EXCEPT ![v] = IF call[v] = "marking" THEN "calling" ELSE "missed"]
  /\ Answered(v)
  /\ UNCHANGED <<endedAt, aged, made, holder, listed, picked, rating, ensure, starting, line, noted, lost>>

\* The connection breaks while /widget/call is being handled.
AnswerLost(v) ==
  /\ page[v] = "calling" /\ call[v] # "idle" /\ lost < MaxFaults /\ lost' = lost + 1
  /\ page' = [page EXCEPT ![v] = "rating"]
  /\ UNCHANGED <<tableVars, serverVars, starting, line, noted>>

-----------------------------------------------------------------------------
\* /widget/voice-token: the session must be open.
TokenCheck(v) ==
  /\ lease[v] = "asked"
  /\ lease' = [lease EXCEPT ![v] = IF session[v] \in Closed THEN "idle" ELSE "sweeping"]
  /\ UNCHANGED <<tableVars, call, listed, picked, rating, ensure, pageVars, noted, lost>>

\* "only leases whose session has actually finished"
IsStale(e) == session[holder[e]] \in Closed

\* sweepStale reads the leases that are old ...
SweepList(v) ==
  /\ lease[v] = "sweeping"
  /\ \E stale \in SUBSET {e \in made : holder[e] # None /\ IsStale(e)} :
       /\ listed' = [listed EXCEPT ![v] = stale]
       /\ lease' = [lease EXCEPT ![v] = IF stale = {} THEN "looking" ELSE "freeing"]
  /\ UNCHANGED <<tableVars, call, picked, rating, ensure, pageVars, noted, lost>>

\* ... and frees them, whoever has them by now.
SweepFree(v) ==
  /\ lease[v] = "freeing" /\ lease' = [lease EXCEPT ![v] = "looking"]
  /\ holder' = [e \in Endpoint |-> IF e \in listed[v] THEN None ELSE holder[e]]
  /\ stolen' = stolen \cup {e \in listed[v] : holder[e] # None /\ session[holder[e]] \notin Closed}
  /\ listed' = [listed EXCEPT ![v] = {}]
  /\ UNCHANGED <<session, endedAt, aged, made, call, picked, rating, ensure, pageVars, crossed, hasty, lost>>

\* The answer: a page that is still open asks for the microphone and loads the
\* library, even when the visitor has pressed "End call" meanwhile.
Grant(v, e) ==
  /\ lease' = [lease EXCEPT ![v] = "idle"]
  /\ starting' = IF page[v] = "left" THEN starting ELSE [starting EXCEPT ![v] = e]

\* A free endpoint is picked, if there is one.
Look(v) ==
  /\ lease[v] = "looking"
  /\ IF \E e \in made : holder[e] = None
     THEN /\ \E e \in made : holder[e] = None /\ picked' = [picked EXCEPT ![v] = e]
          /\ lease' = [lease EXCEPT ![v] = "claiming"]
     ELSE lease' = [lease EXCEPT ![v] = "counting"] /\ UNCHANGED picked
  /\ UNCHANGED <<tableVars, call, listed, rating, ensure, pageVars, noted, lost>>

\* Mutant of IsFree: the claim does not look again.
IsFreeAnyway(e) == TRUE

\* "The conditional update is the lock".
IsFree(e) == holder[e] = None

Claim(v) ==
  /\ lease[v] = "claiming"
  /\ IF IsFree(picked[v])
     THEN holder' = [holder EXCEPT ![picked[v]] = v] /\ Grant(v, picked[v])
     ELSE lease' = [lease EXCEPT ![v] = "counting"] /\ UNCHANGED <<holder, starting>>
  /\ picked' = [picked EXCEPT ![v] = None]
  /\ UNCHANGED <<session, endedAt, aged, made, call, listed, rating, ensure, page, line, noted, lost>>

\* n < maxEndpoints
MayProvision == Cardinality(made) < MaxEndpoints

\* No endpoint for this visitor, or a new one, which takes its time.
Count(v) ==
  /\ lease[v] = "counting"
  /\ lease' = [lease EXCEPT ![v] = IF MayProvision THEN "provisioning" ELSE "idle"]
  /\ crossed' = (crossed \/ (MayProvision /\ Provisioning))
  /\ UNCHANGED <<tableVars, call, listed, picked, rating, ensure, pageVars, stolen, hasty, lost>>

Insert(v) ==
  /\ lease[v] = "provisioning"
  /\ \/ \E e \in Endpoint \ made :
          /\ made' = made \cup {e} /\ holder' = [holder EXCEPT ![e] = v] /\ Grant(v, e)
          /\ UNCHANGED lost
     \/ /\ made = Endpoint \/ lost < MaxFaults
        /\ lost' = IF made = Endpoint THEN lost ELSE lost + 1
        /\ lease' = [lease EXCEPT ![v] = "idle"] /\ UNCHANGED <<made, holder, starting>>
  /\ UNCHANGED <<session, endedAt, aged, call, listed, picked, rating, ensure, page, line, noted>>

-----------------------------------------------------------------------------
\* The call begins: from here there is something to hang up.
StartCall(v) ==
  /\ starting[v] # None /\ starting' = [starting EXCEPT ![v] = None]
  /\ line' = [line EXCEPT ![v] = starting[v]]
  /\ UNCHANGED <<tableVars, serverVars, page, noted, lost>>

\* The answer, the microphone or the library is not to be had.
StartFails(v) ==
  /\ starting[v] # None /\ starting' = [starting EXCEPT ![v] = None]
  /\ UNCHANGED <<tableVars, serverVars, page, line, noted, lost>>

\* "End call", or the call is over: what has begun is hung up, what is about to
\* begin is not, and the visitor is asked for a rating.
Finish(v) ==
  /\ page[v] = "waiting" \/ line[v] # None
  /\ page' = [page EXCEPT ![v] = "rating"] /\ line' = [line EXCEPT ![v] = None]
  /\ hasty' = IF lease[v] # "idle" \/ starting[v] # None THEN hasty \cup {v} ELSE hasty
  /\ UNCHANGED <<tableVars, serverVars, starting, crossed, stolen, lost>>

\* It is sent (/widget/csat).  A page that is still on a call may send it twice,
\* the second time perhaps for a session it has forgotten.
Rate(v) ==
  /\ page[v] = "rating" /\ rating[v] = "idle" /\ page' = [page EXCEPT ![v] = "thanked"]
  /\ \/ rating' = [rating EXCEPT ![v] = "asked"]
     \/ v \in hasty /\ UNCHANGED rating
  /\ UNCHANGED <<tableVars, call, lease, listed, picked, ensure, starting, line, noted, lost>>

\* The tab is closed.
CloseTab(v) ==
  /\ page[v] \notin {"form", "left"} /\ page' = [page EXCEPT ![v] = "left"]
  /\ starting' = [starting EXCEPT ![v] = None] /\ line' = [line EXCEPT ![v] = None]
  /\ UNCHANGED <<tableVars, serverVars, noted, lost>>

\* A session is closed; its age is of no account any more.
End(v) ==
  /\ session' = [session EXCEPT ![v] = "ended"] /\ endedAt' = endedAt \cup {v}
  /\ aged' = aged \ {v}

\* The session ends ...
RatingSaved(v) ==
  /\ rating[v] = "asked" /\ rating' = [rating EXCEPT ![v] = "releasing"]
  /\ End(v)
  /\ UNCHANGED <<made, holder, call, lease, listed, picked, ensure, pageVars, noted, lost>>

\* ... and its endpoint is given back (releaseGuestEndpoint).
Release(v) ==
  /\ rating[v] = "releasing" /\ rating' = [rating EXCEPT ![v] = "idle"]
  /\ holder' = [e \in Endpoint |-> IF holder[e] = v THEN None ELSE holder[e]]
  /\ UNCHANGED <<session, endedAt, aged, made, call, lease, listed, picked, ensure, pageVars, noted, lost>>

\* Mutant of IsAbandoned: only calls that were connected.
IsConnected(v) == session[v] = "connected" /\ v \notin endedAt

\* What stale-sessions closes.
IsAbandoned(v) == session[v] = "calling" /\ v \notin endedAt

\* "no real conversation is still open an hour after it started"
InProgress(v) == line[v] # None \/ call[v] # "idle" \/ lease[v] # "idle"

\* The cron comes by an hour later.
StaleSessions(v) ==
  /\ IsAbandoned(v)
  /\ v \in aged /\ ~InProgress(v) /\ rating[v] = "idle"
  /\ End(v)
  /\ hasty' = IF starting[v] # None THEN hasty \cup {v} ELSE hasty
  /\ UNCHANGED <<made, holder, serverVars, pageVars, crossed, stolen, lost>>

Handler(v) ==
  \/ CheckChannels(v) \/ MarkCall(v)
  \/ TokenCheck(v) \/ SweepList(v) \/ SweepFree(v) \/ Look(v) \/ Claim(v)
  \/ Count(v) \/ Insert(v)
  \/ RatingSaved(v) \/ Release(v) \/ StaleSessions(v)

Page(v) ==
  \/ Open(v) \/ AnswerLost(v) \/ StartCall(v) \/ StartFails(v)
  \/ Finish(v) \/ Rate(v) \/ CloseTab(v)
Next ==
  \/ EnsureCount \/ EnsureInsert
  \/ \E v \in Visitor : Handler(v) \/ Page(v) \/ Age(v)

Spec == Init /\ [][Next]_vars

(* Requests are handled to their end, time passes and the cron comes by; of
   visitors and their browsers nothing is assumed. *)
FairSpec == Spec /\ \A v \in Visitor : WF_vars(Handler(v)) /\ WF_vars(Age(v))

-----------------------------------------------------------------------------
TypeOK ==
  /\ session \in [Visitor -> {"none", "opened", "calling"} \cup Closed]
  /\ endedAt \subseteq Visitor /\ aged \subseteq Visitor /\ made \subseteq Endpoint
  /\ holder \in [Endpoint -> Visitor \cup {None}]
  /\ page \in [Visitor -> {"form", "calling", "waiting", "rating", "thanked", "left"}]
  /\ starting \in [Visitor -> Endpoint \cup {None}]
  /\ line \in [Visitor -> Endpoint \cup {None}]
  /\ call \in [Visitor -> {"idle", "asked", "marking", "refusing"}]
  /\ lease \in [Visitor -> {"idle", "asked", "sweeping", "freeing", "looking",
                            "claiming", "counting", "provisioning"}]
  /\ listed \in [Visitor -> SUBSET Endpoint] /\ picked \in [Visitor -> Endpoint \cup {None}]
  /\ rating \in [Visitor -> {"idle", "asked", "releasing"}]
  /\ ensure \in {"idle", "provisioning", "done"}
  /\ crossed \in BOOLEAN /\ stolen \subseteq Endpoint /\ hasty \subseteq Visitor
  /\ lost \in 0 .. MaxFaults

(* widget-guest.ts:66-67, "The conditional update is the lock", and 30-32, a
   lease is not "taken mid-call and handed to someone else".  Two browsers are
   on one endpoint only when a sweep has freed a lease that changed hands after
   it was listed, or when the session of one of them was over before its call
   began: hangupCall finds nothing to hang up then (v1.js.get.ts:313), the
   rating gives the endpoint back, and the call begins all the same (269). *)
OneVisitorPerEndpoint ==
  \A u, v \in Visitor :
    u # v /\ line[u] # None /\ line[u] = line[v] =>
      line[u] \in stolen \/ u \in hasty \/ v \in hasty

(* widget-guest.ts:12-14, "up to the number of channels they pay for", and
   channel-limits.ts:5-7, "a real limit".  Endpoints, and the calls of the last
   twenty minutes, talking or forgotten, stay within the channels as long as no
   two handlers are between the count and the insert or update.  A conversation
   older than that is counted no more, so that more may be going on. *)
WithinChannels ==
  \/ crossed
  \/ Cardinality(made) <= MaxEndpoints /\ Cardinality(Counted) <= Channels

(* csat.post.ts:29-31, "give their guest endpoint back rather than leaving it
   held until the sweeper notices".  A visitor who has rated the call holds no
   endpoint, unless the visitor had ended the call before it began. *)
RatedHoldsNothing ==
  \A v \in Visitor, e \in Endpoint :
    page[v] = "thanked" /\ rating[v] = "idle" => holder[e] # v \/ v \in hasty

(* widget-guest.ts:66-67 and csat.post.ts:29-31.  An endpoint is lent to one
   visitor at a time and not kept by one who has rated, but for the lease that
   a sweep frees too late and for sessions that end before their call begins. *)
LeaseIsExclusive == OneVisitorPerEndpoint /\ RatedHoldsNothing

(* stale-sessions.post.ts:3, "Closes Live Call sessions that never ended".  A
   session is not left calling when nobody talks; one whose visitor had rated
   it before the answer to /widget/call was lost has an end already and is
   passed over. *)
AbandonedIsClosed ==
  \A v \in Visitor :
    session[v] = "calling" /\ line[v] = None
      ~> session[v] # "calling" \/ line[v] # None \/ v \in endedAt
=============================================================================
