----------------------------- MODULE CallQueue -----------------------------
(***************************************************************************)
(* Holding callers when every agent is busy: control-app/src/queue.ts and  *)
(* the routes of control-app/src/index.ts that use it (the widget's calls  *)
(* and ring-all).  A call asks once which agents are free; when none is,   *)
(* it joins the queue, hears where it stands, and looks every five seconds *)
(* whether it is in front and somebody is free, until it is offered to the *)
(* free agents, gives up or hangs up.  Ringing the agents is an outline of *)
(* bridgeToDepartment, which DeptBridge models.                            *)
(*                                                                         *)
(* JavaScript runs from one await to the next without interruption: every  *)
(* action here ends at an await.  The end of a channel is an event, which  *)
(* arrives later and is lost when nobody listens for it.                   *)
(***************************************************************************)
EXTENDS Naturals, Sequences

CONSTANTS
  Caller, Agent,
  MaxPolls,  \* polls that fit into maxWait
  MaxLost    \* bound on endpoint lookups that fail

ASSUME CallQueueAssumption == MaxPolls \in Nat /\ MaxLost \in Nat

VARIABLES
  stage,  \* what the engine is doing with a call
  up,     \* channels at Asterisk
  alive,  \* calls whose end the queue has not heard of
  ends,   \* StasisEnd events on their way
  unread, \* endpoints whose state the call still waits for
  found,  \* endpoints it found free
  polls,  \* polls so far
  queue,  \* the callers who hold, in the order they joined
  legs,   \* per agent, the calls that ring or talk on the endpoint
  joined, \* history: whoever joined the queue, in that order
  faults

askVars == <<unread, found>>
queueVars == <<stage, up, alive, ends, askVars, polls, queue, legs, joined, faults>>

\* Inside holdUntilFree.
Holding == {"waiting", "announcing", "checking", "leaving", "farewell"}

QueueInit ==
  /\ stage = [c \in Caller |-> "none"] /\ up = {} /\ alive = {} /\ ends = {}
  /\ unread = [c \in Caller |-> {}] /\ found = [c \in Caller |-> {}]
  /\ polls = [c \in Caller |-> 0] /\ queue = <<>>
  /\ legs = [a \in Agent |-> {}] /\ joined = <<>> /\ faults = 0

-----------------------------------------------------------------------------
\* Every endpoint is asked for by itself.
Ask(c) == unread' = [unread EXCEPT ![c] = Agent] /\ found' = [found EXCEPT ![c] = {}]

\* A call is answered and asks who is free.
Arrive(c) ==
  /\ stage[c] = "none" /\ stage' = [stage EXCEPT ![c] = "asking"] /\ Ask(c)
  /\ up' = up \cup {c}
  /\ UNCHANGED <<alive, ends, polls, queue, legs, joined, faults>>

\* filterLiveEndpoints: one that is on a call is left out, and so is one that
\* is not registered; one that cannot be looked up is kept.
ReadEndpoint(c, a) ==
  /\ a \in unread[c] /\ unread' = [unread EXCEPT ![c] = @ \ {a}]
  /\ \/ found' = found /\ UNCHANGED faults
     \/ legs[a] = {} /\ found' = [found EXCEPT ![c] = @ \cup {a}] /\ UNCHANGED faults
     \/ /\ legs[a] # {} /\ faults < MaxLost /\ faults' = faults + 1
        /\ found' = [found EXCEPT ![c] = @ \cup {a}]
  /\ UNCHANGED <<stage, up, alive, ends, polls, queue, legs, joined>>

\* Somebody is free: the call never sees the queue.
GoAhead(c) ==
  /\ stage[c] = "asking" /\ unread[c] = {} /\ found[c] # {}
  /\ stage' = [stage EXCEPT ![c] = "offered"]
  /\ UNCHANGED <<up, alive, ends, askVars, polls, queue, legs, joined, faults>>

\* Nobody is: the call listens for its end, joins, and is greeted.
Join(c) ==
  /\ stage[c] = "asking" /\ unread[c] = {} /\ found[c] = {}
  /\ stage' = [stage EXCEPT ![c] = "announcing"]
  /\ alive' = alive \cup {c} /\ queue' = Append(queue, c)
  /\ joined' = Append(joined, c)
  /\ UNCHANGED <<up, ends, askVars, polls, legs, faults>>

\* The greeting or the position has been played.
Announced(c) ==
  /\ stage[c] = "announcing" /\ stage' = [stage EXCEPT ![c] = "waiting"]
  /\ UNCHANGED <<up, alive, ends, askVars, polls, queue, legs, joined, faults>>

\* dequeue: the rest of the line moves up.
Without(line, c) ==
  IF \E i \in DOMAIN line : line[i] = c
  THEN [j \in 1 .. Len(line) - 1 |->
          IF \E i \in 1 .. j : line[i] = c THEN line[j + 1] ELSE line[j]]
  ELSE line

\* Leaving holdUntilFree, by whichever way: out of the line, and nobody listens.
Leave(c) ==
  /\ queue' = Without(queue, c)
  /\ alive' = alive \ {c}

InFront(c) == queue # <<>> /\ Head(queue) = c

\* positionOf is 1.
MayAsk(c) == InFront(c)

\* maxWait is not over.
HasTimeLeft(c) == polls[c] < MaxPolls

\* The five seconds are over and the caller has hung up,
Abandon(c) ==
  /\ stage[c] = "waiting" /\ c \notin alive
  /\ stage' = [stage EXCEPT ![c] = "over"] /\ Leave(c)
  /\ UNCHANGED <<up, ends, askVars, polls, legs, joined, faults>>

\* or has waited too long,
GiveUp(c) ==
  /\ stage[c] = "waiting" /\ c \in alive /\ ~HasTimeLeft(c)
  /\ stage' = [stage EXCEPT ![c] = "farewell"]
  /\ UNCHANGED <<up, alive, ends, askVars, polls, queue, legs, joined, faults>>

\* or is not in front yet (a changed position may be announced),
StayInLine(c) ==
  /\ stage[c] = "waiting" /\ c \in alive /\ HasTimeLeft(c) /\ ~MayAsk(c)
  /\ polls' = [polls EXCEPT ![c] = @ + 1]
  /\ stage' = [stage EXCEPT ![c] = "announcing"]
  /\ UNCHANGED <<up, alive, ends, askVars, queue, legs, joined, faults>>

\* Mutant of AskAgain: the time waited in front is not counted.
AskAgainUncounted(c) ==
  /\ stage[c] = "waiting" /\ c \in alive /\ HasTimeLeft(c) /\ MayAsk(c)
  /\ stage' = [stage EXCEPT ![c] = "checking"] /\ Ask(c)
  /\ UNCHANGED <<up, alive, ends, polls, queue, legs, joined, faults>>

\* or asks who is free.
AskAgain(c) ==
  /\ stage[c] = "waiting" /\ c \in alive /\ HasTimeLeft(c) /\ MayAsk(c)
  /\ polls' = [polls EXCEPT ![c] = @ + 1]
  /\ stage' = [stage EXCEPT ![c] = "checking"] /\ Ask(c)
  /\ UNCHANGED <<up, alive, ends, queue, legs, joined, faults>>

\* Mutant of Checked: who is taken out to ask comes back at the end of the line.
CheckedAndBack(c) ==
  /\ stage[c] = "checking" /\ unread[c] = {}
  /\ stage' = [stage EXCEPT ![c] = IF found[c] = {} THEN "waiting" ELSE "leaving"]
  /\ queue' = IF found[c] = {} THEN Append(Without(queue, c), c) ELSE queue
  /\ UNCHANGED <<up, alive, ends, askVars, polls, legs, joined, faults>>

\* Nobody, or somebody: then the music is stopped ...
Checked(c) ==
  /\ stage[c] = "checking" /\ unread[c] = {}
  /\ stage' = [stage EXCEPT ![c] = IF found[c] = {} THEN "waiting" ELSE "leaving"]
  /\ UNCHANGED <<up, alive, ends, askVars, polls, queue, legs, joined, faults>>

\* ... and the agents are the caller's, who may have hung up meanwhile.
Offer(c) ==
  /\ stage[c] = "leaving" /\ stage' = [stage EXCEPT ![c] = "offered"] /\ Leave(c)
  /\ UNCHANGED <<up, ends, askVars, polls, legs, joined, faults>>

\* Mutant of Farewell: the way out of a caller who has waited too long does
\* not pass the dequeue.
FarewellOnly(c) ==
  /\ stage[c] = "farewell" /\ stage' = [stage EXCEPT ![c] = "over"]
  /\ up' = up \ {c} /\ ends' = IF c \in up THEN ends \cup {c} ELSE ends
  /\ UNCHANGED <<alive, askVars, polls, queue, legs, joined, faults>>

\* The farewell has been played; the call is hung up.
Farewell(c) ==
  /\ stage[c] = "farewell" /\ stage' = [stage EXCEPT ![c] = "over"] /\ Leave(c)
  /\ up' = up \ {c} /\ ends' = IF c \in up THEN ends \cup {c} ELSE ends
  /\ UNCHANGED <<askVars, polls, legs, joined, faults>>

-----------------------------------------------------------------------------
\* bridgeToDepartment: every agent found free is rung, busy by now or not;
\* it fails for a caller who is gone.
Dial(c) ==
  /\ stage[c] = "offered"
  /\ IF c \in up
     THEN /\ stage' = [stage EXCEPT ![c] = "ringing"]
          /\ legs' = [a \in Agent |-> IF a \in found[c] THEN legs[a] \cup {c} ELSE legs[a]]
     ELSE stage' = [stage EXCEPT ![c] = "over"] /\ UNCHANGED legs
  /\ UNCHANGED <<up, alive, ends, askVars, polls, queue, joined, faults>>

\* The first to answer has the call; the others stop ringing.
Answer(c, a) ==
  /\ stage[c] = "ringing" /\ c \in legs[a] /\ c \in up
  /\ stage' = [stage EXCEPT ![c] = "talking"]
  /\ legs' = [b \in Agent |-> IF b = a THEN legs[b] ELSE legs[b] \ {c}]
  /\ UNCHANGED <<up, alive, ends, askVars, polls, queue, joined, faults>>

\* Nobody answers, an agent hangs up, or the caller's end is heard of: the
\* legs are hung up, and the caller after a word of regret.
Close(c) ==
  /\ stage[c] \in {"ringing", "talking"} /\ stage' = [stage EXCEPT ![c] = "over"]
  /\ legs' = [a \in Agent |-> legs[a] \ {c}]
  /\ up' = up \ {c} /\ ends' = IF c \in up THEN ends \cup {c} ELSE ends
  /\ UNCHANGED <<alive, askVars, polls, queue, joined, faults>>

\* The caller hangs up ...
HangUp(c) ==
  /\ c \in up /\ up' = up \ {c} /\ ends' = ends \cup {c}
  /\ UNCHANGED <<stage, alive, askVars, polls, queue, legs, joined, faults>>

\* ... and the engine is told.
EndHeard(c) ==
  /\ c \in ends /\ ends' = ends \ {c} /\ alive' = alive \ {c}
  /\ UNCHANGED <<stage, up, askVars, polls, queue, legs, joined, faults>>

Engine(c) ==
  \/ (\E a \in Agent : ReadEndpoint(c, a)) \/ GoAhead(c) \/ Join(c)
  \/ Announced(c) \/ Abandon(c) \/ GiveUp(c) \/ StayInLine(c) \/ AskAgain(c)
  \/ Checked(c) \/ Offer(c) \/ Farewell(c) \/ Dial(c) \/ EndHeard(c)
People(c) == Arrive(c) \/ HangUp(c) \/ Close(c) \/ \E a \in Agent : Answer(c, a)
QueueNext == \E c \in Caller : Engine(c) \/ People(c)

QueueSpec == QueueInit /\ [][QueueNext]_queueVars

(* Timers fire, commands and lookups are answered and events arrive. *)
FairQueueSpec == QueueSpec /\ \A c \in Caller : WF_queueVars(Engine(c))

-----------------------------------------------------------------------------
QueueTypeOK ==
  /\ stage \in [Caller -> Holding \cup {"none", "asking", "offered",
                                       "ringing", "talking", "over"}]
  /\ up \subseteq Caller /\ alive \subseteq Caller /\ ends \subseteq Caller
  /\ unread \in [Caller -> SUBSET Agent] /\ found \in [Caller -> SUBSET Agent]
  /\ polls \in [Caller -> 0 .. MaxPolls] /\ queue \in Seq(Caller)
  /\ legs \in [Agent -> SUBSET Caller] /\ joined \in Seq(Caller)
  /\ faults \in 0 .. MaxLost

(* queue.ts:149-152.  Whichever way a caller leaves, and at whatever moment,
   the line holds those who hold, once each: nobody is forgotten in it or
   missing from it. *)
QueueIsHolders ==
  /\ \A c \in Caller : stage[c] \in Holding <=> \E i \in DOMAIN queue : queue[i] = c
  /\ \A i, j \in DOMAIN queue : queue[i] = queue[j] => i = j

(* queue.ts:76-77, "Only the caller at the front is ever offered an agent -
   otherwise two people would be bridged to the same person".  The position is
   read before the endpoints are looked up and the music is stopped; whoever
   joins or leaves meanwhile, of those who hold only the front asks. *)
AskingIsFront ==
  \A c \in Caller : stage[c] \in {"checking", "leaving"} => InFront(c)

(* queue.ts:76-77 and 149-152.  The line is those who hold, and only its front
   is offered an agent, whoever joins or leaves in the middle of that. *)
LineIsInOrder == QueueIsHolders /\ AskingIsFront

\* Being offered agents, or past it.
Served == {"checking", "leaving", "offered", "ringing", "talking"}

(* queue.ts:63 and 76.  Callers who hold reach the agents in the order in which
   they joined: when one is looked up for, offered or connected, whoever joined
   before it has left the line, however greetings, lookups, hang-ups (heard or
   lost) and the long waits of others cross each other.  A newcomer who finds an
   agent free at once does not join, and passes the line. *)
TurnsAreInOrder ==
  \A i, j \in DOMAIN joined :
    i < j /\ stage[joined[j]] \in Served => stage[joined[i]] \notin Holding

(* A caller who holds is offered to agents or leaves, however long the agents
   talk and whoever else holds, ghosts included. *)
HeldIsDecided == \A c \in Caller : stage[c] \in Holding ~> stage[c] \notin Holding
=============================================================================
