----------------------------- MODULE LineProofs -----------------------------
(***************************************************************************)
(* What callers share: the line they hold in until an agent is free        *)
(* (CallQueue), and the channels and guest endpoints of the calls from the *)
(* website (WidgetCalls), for any number of callers, agents, visitors,     *)
(* endpoints and channels.                                                 *)
(*                                                                         *)
(* A line is told apart from the calls in it only by what leaving it does  *)
(* to a sequence, so the lemmas about Without come first.  Of the website: *)
(* a browser shares its endpoint with nobody, and the calls fit into the   *)
(* channels, but for the cases the properties name.                        *)
(***************************************************************************)
EXTENDS CallQueue, WidgetCalls, SequenceTheorems, FiniteSetTheorems, TLAPS

\* Nobody stands in the line twice.
Distinct(seq) == \A i, j \in DOMAIN seq : seq[i] = seq[j] => i = j

Stands(seq, c) == \E i \in DOMAIN seq : seq[i] = c

LEMMA WithoutAbsent ==
  ASSUME NEW seq, NEW c, ~Stands(seq, c)
  PROVE  Without(seq, c) = seq
BY DEF Without, Stands

(* Leaving moves up those behind, and nobody else. *)
LEMMA WithoutPresent ==
  ASSUME NEW S, NEW seq \in Seq(S), NEW c, NEW k \in 1 .. Len(seq),
         seq[k] = c, Distinct(seq)
  PROVE  /\ Without(seq, c) \in Seq(S)
         /\ Len(Without(seq, c)) = Len(seq) - 1
         /\ \A j \in 1 .. Len(seq) - 1 :
              Without(seq, c)[j] = IF j < k THEN seq[j] ELSE seq[j + 1]
<1>1. DOMAIN seq = 1 .. Len(seq) /\ Len(seq) \in Nat
  OBVIOUS
<1>2. Without(seq, c) =
        [j \in 1 .. Len(seq) - 1 |->
           IF \E i \in 1 .. j : seq[i] = c THEN seq[j + 1] ELSE seq[j]]
  BY <1>1 DEF Without
<1>3. ASSUME NEW j \in 1 .. Len(seq) - 1
      PROVE  (\E i \in 1 .. j : seq[i] = c) <=> ~(j < k)
  BY <1>1 DEF Distinct
<1>4. \A j \in 1 .. Len(seq) - 1 : seq[j] \in S /\ seq[j + 1] \in S
  BY <1>1
<1>5. Len(seq) - 1 \in Nat
  BY <1>1
<1> DEFINE n == Len(seq) - 1
           w == [j \in 1 .. n |-> IF j < k THEN seq[j] ELSE seq[j + 1]]
<1>6. Without(seq, c) = w
  BY <1>2, <1>3
<1>7. w \in [1 .. n -> S]
  BY <1>4
<1>8. w \in Seq(S) /\ Len(w) = n
  BY <1>5, <1>7 
<1> QED BY <1>6, <1>8

(* Who leaves is gone, all others stay, still once each, and whoever was in
   front of the line still is. *)
LEMMA WithoutLeaves ==
  ASSUME NEW S, NEW seq \in Seq(S), NEW c, Stands(seq, c), Distinct(seq)
  PROVE  /\ Without(seq, c) \in Seq(S)
         /\ Distinct(Without(seq, c))
         /\ \A d : Stands(Without(seq, c), d) <=> Stands(seq, d) /\ d # c
         /\ Head(seq) # c =>
              Without(seq, c) # << >> /\ Head(Without(seq, c)) = Head(seq)
<1> PICK k \in 1 .. Len(seq) : seq[k] = c
  BY DEF Stands
<1> DEFINE w == Without(seq, c)
<1>1. /\ w \in Seq(S) /\ Len(w) = Len(seq) - 1
      /\ \A j \in 1 .. Len(seq) - 1 : w[j] = IF j < k THEN seq[j] ELSE seq[j + 1]
  BY WithoutPresent
<1> HIDE DEF w
<1>2. DOMAIN seq = 1 .. Len(seq) /\ Len(seq) \in Nat /\ DOMAIN w = 1 .. Len(seq) - 1
  BY <1>1
<1>3. Distinct(w)
  <2> SUFFICES ASSUME NEW i \in 1 .. Len(seq) - 1, NEW j \in 1 .. Len(seq) - 1,
                      w[i] = w[j]
               PROVE  i = j
    BY <1>2 DEF Distinct
  <2> DEFINE At(x) == IF x < k THEN x ELSE x + 1
  <2>1. w[i] = seq[At(i)] /\ w[j] = seq[At(j)]
    BY <1>1
  <2>2. At(i) \in DOMAIN seq /\ At(j) \in DOMAIN seq
    BY <1>2
  <2>3. At(i) = At(j)
    BY <2>1, <2>2 DEF Distinct
  <2> QED BY <1>2, <2>3
<1>4. ASSUME NEW d, Stands(w, d)
      PROVE  Stands(seq, d) /\ d # c
  <2> PICK j \in 1 .. Len(seq) - 1 : w[j] = d
    BY <1>2, <1>4 DEF Stands
  <2>1. CASE j < k
    <3>1. j \in DOMAIN seq /\ seq[j] = d
      BY <1>1, <1>2, <2>1
    <3>2. d # c
      BY <1>2, <2>1, <3>1 DEF Distinct
    <3> QED BY <3>1, <3>2 DEF Stands
  <2>2. CASE ~(j < k)
    <3>1. j + 1 \in DOMAIN seq /\ seq[j + 1] = d
      BY <1>1, <1>2, <2>2
    <3>2. d # c
      BY <1>2, <2>2, <3>1 DEF Distinct
    <3> QED BY <3>1, <3>2 DEF Stands
  <2> QED BY <2>1, <2>2
<1>5. ASSUME NEW d, Stands(seq, d), d # c
      PROVE  Stands(w, d)
  <2> PICK i \in 1 .. Len(seq) : seq[i] = d
    BY <1>2, <1>5 DEF Stands
  <2>1. i # k
    BY <1>5
  <2>2. CASE i < k
    <3>1. i \in 1 .. Len(seq) - 1 /\ w[i] = d
      BY <1>1, <1>2, <2>2
    <3> QED BY <1>2, <3>1 DEF Stands
  <2>3. CASE i > k
    <3>1. i - 1 \in 1 .. Len(seq) - 1 /\ w[i - 1] = d
      BY <1>1, <1>2, <2>3
    <3> QED BY <1>2, <3>1 DEF Stands
  <2> QED BY <1>2, <2>1, <2>2, <2>3
<1>6. ASSUME Head(seq) # c
      PROVE  w # << >> /\ Head(w) = Head(seq)
  <2>1. Head(seq) = seq[1] /\ k # 1
    BY <1>2, <1>6
  <2>2. 1 \in 1 .. Len(seq) - 1 /\ 1 < k
    BY <1>2, <2>1
  <2>3. w[1] = seq[1]
    BY <1>1, <2>2
  <2>4. w # << >> /\ Head(w) = w[1]
    BY <1>1, <1>2, <2>2
  <2> QED BY <2>1, <2>3, <2>4
<1> QED BY <1>1, <1>3, <1>4, <1>5, <1>6 DEF w

\* d stands before e.
Ahead(seq, d, e) == \E i, j \in DOMAIN seq : i < j /\ seq[i] = d /\ seq[j] = e

(* Whoever leaves, the others keep their order. *)
LEMMA WithoutKeepsOrder ==
  ASSUME NEW S, NEW seq \in Seq(S), NEW c, Distinct(seq),
         NEW d, NEW e, Ahead(Without(seq, c), d, e)
  PROVE  Ahead(seq, d, e)
<1>1. CASE ~Stands(seq, c)
  BY <1>1, WithoutAbsent
<1>2. CASE Stands(seq, c)
  <2> DEFINE w == Without(seq, c)
  <2> PICK k \in 1 .. Len(seq) : seq[k] = c
    BY <1>2 DEF Stands
  <2>1. /\ w \in Seq(S) /\ Len(w) = Len(seq) - 1
        /\ \A j \in 1 .. Len(seq) - 1 : w[j] = IF j < k THEN seq[j] ELSE seq[j + 1]
    BY WithoutPresent
  <2>2. Ahead(w, d, e)
    OBVIOUS
  <2> HIDE DEF w
  <2>3. DOMAIN seq = 1 .. Len(seq) /\ Len(seq) \in Nat /\ DOMAIN w = 1 .. Len(seq) - 1
    BY <2>1
  <2> PICK i \in 1 .. Len(seq) - 1, j \in 1 .. Len(seq) - 1 :
             i < j /\ w[i] = d /\ w[j] = e
    BY <2>2, <2>3 DEF Ahead
  <2> DEFINE At(x) == IF x < k THEN x ELSE x + 1
  <2>4. At(i) \in DOMAIN seq /\ At(j) \in DOMAIN seq /\ At(i) < At(j)
    BY <2>3
  <2>5. seq[At(i)] = d /\ seq[At(j)] = e
    BY <2>1
  <2> HIDE DEF At
  <2> QED BY <2>4, <2>5 DEF Ahead
<1> QED BY <1>1, <1>2

-----------------------------------------------------------------------------
\* What the engine may be doing with a call.
Stage == Holding \cup {"none", "asking", "offered", "ringing", "talking", "over"}

LEMMA InitQueueTypes == QueueInit => QueueTypeOK
BY CallQueueAssumption DEF QueueInit, QueueTypeOK

(* The line and the counters stay in their types; all else is a matter of
   updating a function or a set. *)
LEMMA NextQueueTypes == QueueTypeOK /\ QueueIsHolders /\ [QueueNext]_queueVars => QueueTypeOK'
<1> SUFFICES ASSUME QueueTypeOK, QueueIsHolders, [QueueNext]_queueVars PROVE QueueTypeOK'
  OBVIOUS
<1> USE CallQueueAssumption DEF QueueTypeOK
<1>1. ASSUME NEW c \in Caller, queue' = Without(queue, c)
      PROVE  queue' \in Seq(Caller)
  <2>1. Distinct(queue)
    BY DEF QueueIsHolders, Distinct
  <2>2. CASE Stands(queue, c)
    BY <1>1, <2>1, <2>2, WithoutLeaves
  <2>3. CASE ~Stands(queue, c)
    BY <1>1, <2>3, WithoutAbsent
  <2> QED BY <2>2, <2>3
<1>2. ASSUME NEW c \in Caller, Engine(c)
      PROVE  QueueTypeOK'
  <2>1. ASSUME NEW a \in Agent, ReadEndpoint(c, a) PROVE QueueTypeOK'
    <3>1. unread' \in [Caller -> SUBSET Agent]
      BY <2>1 DEF ReadEndpoint
    <3>2. found' \in [Caller -> SUBSET Agent]
      <4>1. [found EXCEPT ![c] = @ \cup {a}] \in [Caller -> SUBSET Agent]
        OBVIOUS
      <4> QED BY <2>1, <4>1 DEF ReadEndpoint
    <3>3. faults' \in 0 .. MaxLost
      BY <2>1 DEF ReadEndpoint
    <3> QED BY <2>1, <3>1, <3>2, <3>3 DEF ReadEndpoint
  <2>2. CASE GoAhead(c)
    BY <2>2 DEF GoAhead, askVars
  <2>3. CASE Join(c)
    <3>1. queue' \in Seq(Caller) /\ joined' \in Seq(Caller)
      BY <2>3, AppendProperties DEF Join
    <3> QED BY <2>3, <3>1 DEF Join, Holding, askVars
  <2>4. CASE Announced(c)
    BY <2>4 DEF Announced, Holding, askVars
  <2>5. CASE Abandon(c)
    BY <1>1, <2>5 DEF Abandon, Leave, Holding, askVars
  <2>6. CASE GiveUp(c)
    BY <2>6 DEF GiveUp, Holding, askVars
  <2>7. CASE StayInLine(c)
    BY <2>7 DEF StayInLine, HasTimeLeft, Holding, askVars
  <2>8. CASE AskAgain(c)
    BY <2>8 DEF AskAgain, HasTimeLeft, Ask, Holding, askVars
  <2>9. CASE Checked(c)
    BY <2>9 DEF Checked, Holding, askVars
  <2>10. CASE Offer(c)
    BY <1>1, <2>10 DEF Offer, Leave, askVars
  <2>11. CASE Farewell(c)
    BY <1>1, <2>11 DEF Farewell, Leave, askVars
  <2>12. CASE Dial(c)
    <3>1. legs' \in [Agent -> SUBSET Caller]
      <4>1. \A a \in Agent :
              (IF a \in found[c] THEN legs[a] \cup {c} ELSE legs[a]) \in SUBSET Caller
        OBVIOUS
      <4> QED BY <2>12, <4>1 DEF Dial
    <3>2. stage' \in [Caller -> Stage]
      BY <2>12 DEF Dial, Stage
    <3> QED BY <2>12, <3>1, <3>2 DEF Dial, Stage, askVars
  <2>13. CASE EndHeard(c)
    BY <2>13 DEF EndHeard, askVars
  <2> QED BY <1>2, <2>1, <2>2, <2>3, <2>4, <2>5, <2>6, <2>7, <2>8, <2>9, <2>10,
             <2>11, <2>12, <2>13 DEF Engine
<1>3. ASSUME NEW c \in Caller, People(c)
      PROVE  QueueTypeOK'
  <2>1. CASE Arrive(c)
    BY <2>1 DEF Arrive, Ask
  <2>2. CASE HangUp(c)
    BY <2>2 DEF HangUp, askVars
  <2>3. CASE Close(c)
    BY <2>3 DEF Close, askVars
  <2>4. ASSUME NEW a \in Agent, Answer(c, a) PROVE QueueTypeOK'
    BY <2>4 DEF Answer, askVars
  <2> QED BY <1>3, <2>1, <2>2, <2>3, <2>4 DEF People
<1>4. CASE UNCHANGED queueVars
  BY <1>4 DEF queueVars, askVars
<1> QED BY <1>2, <1>3, <1>4 DEF QueueNext

-----------------------------------------------------------------------------
(* A step that leaves the line alone, and lets only the front ask. *)
LEMMA LineStays ==
  ASSUME QueueTypeOK, LineIsInOrder, queue' = queue,
         \A c \in Caller : stage'[c] \in Holding <=> stage[c] \in Holding,
         \A c \in Caller : stage'[c] \in {"checking", "leaving"} =>
           stage[c] \in {"checking", "leaving"} \/ InFront(c)
  PROVE  LineIsInOrder'
BY DEF LineIsInOrder, QueueIsHolders, AskingIsFront, InFront

(* A step by which one caller leaves the line, and no other call changes. *)
LEMMA LineIsLeft ==
  ASSUME QueueTypeOK, LineIsInOrder, NEW c \in Caller, NEW s \in Stage \ Holding,
         stage[c] \in Holding, stage' = [stage EXCEPT ![c] = s],
         queue' = Without(queue, c)
  PROVE  LineIsInOrder'
<1>1. Distinct(queue) /\ Stands(queue, c) /\ queue \in Seq(Caller)
  BY DEF LineIsInOrder, QueueIsHolders, Distinct, Stands, QueueTypeOK
<1>2. /\ Distinct(queue')
      /\ \A d : Stands(queue', d) <=> Stands(queue, d) /\ d # c
      /\ Head(queue) # c => queue' # << >> /\ Head(queue') = Head(queue)
  BY <1>1, WithoutLeaves
<1>3. \A d \in Caller : d # c => stage'[d] = stage[d]
  BY DEF QueueTypeOK
<1>4. stage'[c] \notin Holding
  BY DEF QueueTypeOK
<1>5. QueueIsHolders'
  <2>1. \A d \in Caller : stage[d] \in Holding <=> Stands(queue, d)
    BY DEF LineIsInOrder, QueueIsHolders, Stands
  <2>2. \A d \in Caller : stage'[d] \in Holding <=> Stands(queue', d)
    BY <1>2, <1>3, <1>4, <2>1
  <2> QED BY <1>2, <2>2 DEF QueueIsHolders, Distinct, Stands
<1>6. AskingIsFront'
  BY <1>2, <1>3, <1>4 DEF LineIsInOrder, AskingIsFront, InFront, Holding
<1> QED BY <1>5, <1>6 DEF LineIsInOrder

(* Joining puts the caller behind everybody else. *)
LEMMA LineIsJoined ==
  ASSUME QueueTypeOK, LineIsInOrder, NEW c \in Caller, Join(c)
  PROVE  LineIsInOrder'
<1>1. queue \in Seq(Caller) /\ queue' = Append(queue, c)
  BY DEF Join, QueueTypeOK
<1>2. /\ Len(queue') = Len(queue) + 1 /\ DOMAIN queue' = 1 .. Len(queue) + 1
      /\ \A i \in 1 .. Len(queue) : queue'[i] = queue[i]
      /\ queue'[Len(queue) + 1] = c
      /\ DOMAIN queue = 1 .. Len(queue) /\ Len(queue) \in Nat
  BY <1>1, AppendProperties
<1>3. ~Stands(queue, c) /\ Distinct(queue)
  BY DEF Join, LineIsInOrder, QueueIsHolders, Holding, Stands, Distinct
<1>4. Distinct(queue')
  BY <1>2, <1>3 DEF Stands, Distinct
<1>5. \A d : Stands(queue', d) <=> Stands(queue, d) \/ d = c
  BY <1>2 DEF Stands
<1>6. stage'[c] \in Holding /\ stage'[c] \notin {"checking", "leaving"}
      /\ \A d \in Caller : d # c => stage'[d] = stage[d]
  BY DEF Join, QueueTypeOK, Holding
<1>7. QueueIsHolders'
  <2>1. \A d \in Caller : stage[d] \in Holding <=> Stands(queue, d)
    BY DEF LineIsInOrder, QueueIsHolders, Stands
  <2>2. \A d \in Caller : stage'[d] \in Holding <=> Stands(queue', d)
    BY <1>5, <1>6, <2>1
  <2> QED BY <1>4, <2>2 DEF QueueIsHolders, Distinct, Stands
<1>8. queue # << >> => queue' # << >> /\ Head(queue') = Head(queue)
  BY <1>1, AppendProperties
<1>9. AskingIsFront'
  BY <1>6, <1>8 DEF LineIsInOrder, AskingIsFront, InFront
<1> QED BY <1>7, <1>9 DEF LineIsInOrder

LEMMA NextLineIsInOrder == QueueTypeOK /\ LineIsInOrder /\ [QueueNext]_queueVars => LineIsInOrder'
<1> SUFFICES ASSUME QueueTypeOK, LineIsInOrder, [QueueNext]_queueVars PROVE LineIsInOrder'
  OBVIOUS
<1>1. ASSUME NEW c \in Caller, Engine(c)
      PROVE  LineIsInOrder'
  <2>1. ASSUME NEW a \in Agent, ReadEndpoint(c, a) PROVE LineIsInOrder'
    BY <2>1, LineStays DEF ReadEndpoint
  <2>2. CASE GoAhead(c)
    BY <2>2, LineStays DEF GoAhead, QueueTypeOK, Holding
  <2>3. CASE Join(c)
    BY <2>3, LineIsJoined
  <2>4. CASE Announced(c)
    BY <2>4, LineStays DEF Announced, QueueTypeOK, Holding
  <2>5. CASE Abandon(c)
    BY <2>5, LineIsLeft DEF Abandon, Leave, Stage, Holding
  <2>6. CASE GiveUp(c)
    BY <2>6, LineStays DEF GiveUp, QueueTypeOK, Holding
  <2>7. CASE StayInLine(c)
    BY <2>7, LineStays DEF StayInLine, QueueTypeOK, Holding
  <2>8. CASE AskAgain(c)
    BY <2>8, LineStays DEF AskAgain, MayAsk, QueueTypeOK, Holding
  <2>9. CASE Checked(c)
    BY <2>9, LineStays DEF Checked, QueueTypeOK, Holding
  <2>10. CASE Offer(c)
    BY <2>10, LineIsLeft DEF Offer, Leave, Stage, Holding
  <2>11. CASE Farewell(c)
    BY <2>11, LineIsLeft DEF Farewell, Leave, Stage, Holding
  <2>12. CASE Dial(c)
    BY <2>12, LineStays DEF Dial, QueueTypeOK, Holding
  <2>13. CASE EndHeard(c)
    BY <2>13, LineStays DEF EndHeard
  <2> QED BY <1>1, <2>1, <2>2, <2>3, <2>4, <2>5, <2>6, <2>7, <2>8, <2>9, <2>10,
             <2>11, <2>12, <2>13 DEF Engine
<1>2. ASSUME NEW c \in Caller, People(c)
      PROVE  LineIsInOrder'
  <2>1. CASE Arrive(c)
    BY <2>1, LineStays DEF Arrive, QueueTypeOK, Holding
  <2>2. CASE HangUp(c)
    BY <2>2, LineStays DEF HangUp
  <2>3. CASE Close(c)
    BY <2>3, LineStays DEF Close, QueueTypeOK, Holding
  <2>4. ASSUME NEW a \in Agent, Answer(c, a) PROVE LineIsInOrder'
    BY <2>4, LineStays DEF Answer, QueueTypeOK, Holding
  <2> QED BY <1>2, <2>1, <2>2, <2>3, <2>4 DEF People
<1>3. CASE UNCHANGED queueVars
  BY <1>3, LineStays DEF queueVars
<1> QED BY <1>1, <1>2, <1>3 DEF QueueNext

-----------------------------------------------------------------------------
\* Everybody joins once and asks no more whether to join, and the line is in
\* the order of joining.
JoinedInv ==
  /\ Distinct(joined)
  /\ \A c \in Caller : Stands(joined, c) => stage[c] \notin {"none", "asking"}
  /\ \A c \in Caller : stage[c] \in Holding => Stands(joined, c)
  /\ \A c, d \in Caller : Ahead(queue, c, d) => Ahead(joined, c, d)
TurnsInv == JoinedInv /\ TurnsAreInOrder

(* A step by which nobody joins the line, and of those who hold only the front
   is served. *)
LEMMA TurnsStay ==
  ASSUME QueueTypeOK, LineIsInOrder, TurnsInv, joined' = joined,
         queue' = queue \/ \E c \in Caller : queue' = Without(queue, c),
         \A d \in Caller : stage'[d] \in Holding => stage[d] \in Holding,
         \A d \in Caller : stage'[d] \in {"none", "asking"} =>
           stage[d] \in {"none", "asking"},
         \A d \in Caller : stage'[d] \in Served =>
           stage[d] \in Served \cup {"none", "asking"} \/ InFront(d)
  PROVE  TurnsInv'
<1>1. queue \in Seq(Caller) /\ Distinct(queue) /\ joined \in Seq(Caller)
      /\ \A d \in Caller : stage[d] \in Holding => Stands(queue, d)
  BY DEF QueueTypeOK, LineIsInOrder, QueueIsHolders, Distinct, Stands
<1>2. JoinedInv'
  <2>1. \A d, e \in Caller : Ahead(queue', d, e) => Ahead(joined, d, e)
    BY <1>1, WithoutKeepsOrder DEF TurnsInv, JoinedInv
  <2> QED BY <2>1 DEF TurnsInv, JoinedInv
<1>3. ASSUME NEW i \in DOMAIN joined, NEW j \in DOMAIN joined, i < j,
             stage'[joined[j]] \in Served, stage'[joined[i]] \in Holding
      PROVE  FALSE
  <2> DEFINE d == joined[j]  e == joined[i]
  <2>1. d \in Caller /\ e \in Caller /\ i \in Nat /\ j \in Nat
    BY <1>1
  <2>2. d # e /\ stage[e] \in Holding /\ stage[d] \notin {"none", "asking"}
    BY <1>3, <2>1 DEF TurnsInv, JoinedInv, Distinct, Stands
  <2>3. InFront(d)
    BY <1>3, <2>1, <2>2 DEF TurnsInv, TurnsAreInOrder
  <2>4. queue # << >> /\ queue[1] = d /\ 1 \in DOMAIN queue
    BY <1>1, <2>3 DEF InFront
  <2>5. PICK k \in DOMAIN queue : queue[k] = e
    BY <1>1, <2>1, <2>2 DEF Stands
  <2>6. 1 < k
    BY <1>1, <2>2, <2>4, <2>5
  <2>7. Ahead(queue, d, e)
    BY <2>4, <2>5, <2>6 DEF Ahead
  <2>8. Ahead(joined, d, e)
    BY <2>1, <2>7 DEF TurnsInv, JoinedInv
  <2>9. PICK m \in DOMAIN joined, n \in DOMAIN joined :
               m < n /\ joined[m] = d /\ joined[n] = e
    BY <2>8 DEF Ahead
  <2>10. m = j /\ n = i
    BY <2>9 DEF TurnsInv, JoinedInv, Distinct
  <2> QED BY <1>3, <2>1, <2>9, <2>10
<1>4. TurnsAreInOrder'
  BY <1>3 DEF TurnsAreInOrder
<1> QED BY <1>2, <1>4 DEF TurnsInv

(* Joining puts the caller behind everybody who has joined before. *)
LEMMA TurnIsTaken ==
  ASSUME QueueTypeOK, LineIsInOrder, TurnsInv, NEW c \in Caller, Join(c)
  PROVE  TurnsInv'
<1> USE DEF TurnsInv
<1>1. queue \in Seq(Caller) /\ joined \in Seq(Caller)
      /\ queue' = Append(queue, c) /\ joined' = Append(joined, c)
  BY DEF Join, QueueTypeOK
<1>2. /\ DOMAIN queue' = 1 .. Len(queue) + 1 /\ DOMAIN queue = 1 .. Len(queue)
      /\ Len(queue) \in Nat /\ queue'[Len(queue) + 1] = c
      /\ \A i \in 1 .. Len(queue) : queue'[i] = queue[i]
  BY <1>1, AppendProperties
<1>3. /\ DOMAIN joined' = 1 .. Len(joined) + 1 /\ DOMAIN joined = 1 .. Len(joined)
      /\ Len(joined) \in Nat /\ joined'[Len(joined) + 1] = c
      /\ \A i \in 1 .. Len(joined) : joined'[i] = joined[i]
  BY <1>1, AppendProperties
<1>4. /\ stage[c] = "asking" /\ stage'[c] = "announcing"
      /\ \A d \in Caller : d # c => stage'[d] = stage[d]
  BY DEF Join, QueueTypeOK
<1>5. ~Stands(joined, c)
  BY <1>4 DEF JoinedInv
<1>6. \A d : Stands(joined', d) <=> Stands(joined, d) \/ d = c
  BY <1>3 DEF Stands
<1>7. \A d, e \in Caller : Ahead(queue', d, e) => Ahead(joined', d, e)
  <2> SUFFICES ASSUME NEW d \in Caller, NEW e \in Caller,
                      NEW i \in DOMAIN queue', NEW j \in DOMAIN queue',
                      i < j, queue'[i] = d, queue'[j] = e
               PROVE  Ahead(joined', d, e)
    BY DEF Ahead
  <2>1. i \in DOMAIN queue /\ queue[i] = d
    BY <1>2
  <2>2. CASE j \in DOMAIN queue
    <3>1. Ahead(queue, d, e)
      BY <1>2, <2>1, <2>2 DEF Ahead
    <3>2. PICK m \in DOMAIN joined, n \in DOMAIN joined :
                 m < n /\ joined[m] = d /\ joined[n] = e
      BY <3>1 DEF JoinedInv, Ahead
    <3>3. /\ m \in DOMAIN joined' /\ n \in DOMAIN joined'
          /\ joined'[m] = d /\ joined'[n] = e
      BY <1>3, <3>2
    <3> QED BY <3>2, <3>3 DEF Ahead
  <2>3. CASE j = Len(queue) + 1
    <3>1. e = c /\ stage[d] \in Holding
      BY <1>2, <2>1, <2>3 DEF LineIsInOrder, QueueIsHolders
    <3>2. PICK m \in DOMAIN joined : joined[m] = d
      BY <3>1 DEF JoinedInv, Stands
    <3>3. /\ m \in DOMAIN joined' /\ Len(joined) + 1 \in DOMAIN joined'
          /\ m < Len(joined) + 1 /\ joined'[m] = d
      BY <1>3, <3>2
    <3> QED BY <1>3, <3>1, <3>3 DEF Ahead
  <2> QED BY <1>2, <2>2, <2>3
<1>8. JoinedInv'
  <2>1. Distinct(joined')
    BY <1>3, <1>5 DEF JoinedInv, Distinct, Stands
  <2>2. \A d \in Caller : Stands(joined', d) => stage'[d] \notin {"none", "asking"}
    BY <1>4, <1>6 DEF JoinedInv
  <2>3. \A d \in Caller : stage'[d] \in Holding => Stands(joined', d)
    BY <1>4, <1>6 DEF JoinedInv
  <2> QED BY <1>7, <2>1, <2>2, <2>3 DEF JoinedInv
<1>9. TurnsAreInOrder'
  <2> SUFFICES ASSUME NEW i \in DOMAIN joined', NEW j \in DOMAIN joined', i < j,
                      stage'[joined'[j]] \in Served
               PROVE  stage'[joined'[i]] \notin Holding
    BY DEF TurnsAreInOrder
  <2>1. joined'[j] # c
    BY <1>4 DEF Served
  <2>2. /\ i \in DOMAIN joined /\ j \in DOMAIN joined
        /\ joined'[i] = joined[i] /\ joined'[j] = joined[j]
    BY <1>3, <2>1
  <2>3. joined[i] # c /\ joined[i] \in Caller /\ joined[j] \in Caller
    BY <1>1, <1>5, <2>2 DEF Stands
  <2> QED BY <1>4, <2>1, <2>2, <2>3 DEF TurnsAreInOrder
<1> QED BY <1>8, <1>9

LEMMA NextTurnsInv ==
  QueueTypeOK /\ LineIsInOrder /\ TurnsInv /\ [QueueNext]_queueVars => TurnsInv'
<1> SUFFICES ASSUME QueueTypeOK, LineIsInOrder, TurnsInv, [QueueNext]_queueVars
             PROVE  TurnsInv'
  OBVIOUS
<1>1. ASSUME NEW c \in Caller, Engine(c)
      PROVE  TurnsInv'
  <2>1. ASSUME NEW a \in Agent, ReadEndpoint(c, a) PROVE TurnsInv'
    BY <2>1, TurnsStay DEF ReadEndpoint
  <2>2. CASE GoAhead(c)
    BY <2>2, TurnsStay DEF GoAhead, QueueTypeOK, Holding, Served
  <2>3. CASE Join(c)
    BY <2>3, TurnIsTaken
  <2>4. CASE Announced(c)
    BY <2>4, TurnsStay DEF Announced, QueueTypeOK, Holding, Served
  <2>5. CASE Abandon(c)
    BY <2>5, TurnsStay DEF Abandon, Leave, QueueTypeOK, Holding, Served
  <2>6. CASE GiveUp(c)
    BY <2>6, TurnsStay DEF GiveUp, QueueTypeOK, Holding, Served
  <2>7. CASE StayInLine(c)
    BY <2>7, TurnsStay DEF StayInLine, QueueTypeOK, Holding, Served
  <2>8. CASE AskAgain(c)
    BY <2>8, TurnsStay DEF AskAgain, MayAsk, QueueTypeOK, Holding, Served
  <2>9. CASE Checked(c)
    BY <2>9, TurnsStay DEF Checked, QueueTypeOK, Holding, Served
  <2>10. CASE Offer(c)
    BY <2>10, TurnsStay DEF Offer, Leave, QueueTypeOK, Holding, Served
  <2>11. CASE Farewell(c)
    BY <2>11, TurnsStay DEF Farewell, Leave, QueueTypeOK, Holding, Served
  <2>12. CASE Dial(c)
    BY <2>12, TurnsStay DEF Dial, QueueTypeOK, Holding, Served
  <2>13. CASE EndHeard(c)
    BY <2>13, TurnsStay DEF EndHeard
  <2> QED BY <1>1, <2>1, <2>2, <2>3, <2>4, <2>5, <2>6, <2>7, <2>8, <2>9, <2>10,
             <2>11, <2>12, <2>13 DEF Engine
<1>2. ASSUME NEW c \in Caller, People(c)
      PROVE  TurnsInv'
  <2>1. CASE Arrive(c)
    BY <2>1, TurnsStay DEF Arrive, QueueTypeOK, Holding, Served
  <2>2. CASE HangUp(c)
    BY <2>2, TurnsStay DEF HangUp
  <2>3. CASE Close(c)
    BY <2>3, TurnsStay DEF Close, QueueTypeOK, Holding, Served
  <2>4. ASSUME NEW a \in Agent, Answer(c, a) PROVE TurnsInv'
    BY <2>4, TurnsStay DEF Answer, QueueTypeOK, Holding, Served
  <2> QED BY <1>2, <2>1, <2>2, <2>3, <2>4 DEF People
<1>3. CASE UNCHANGED queueVars
  BY <1>3, TurnsStay DEF queueVars
<1> QED BY <1>1, <1>2, <1>3 DEF QueueNext

-----------------------------------------------------------------------------
QueueInv == QueueTypeOK /\ LineIsInOrder /\ TurnsInv

LEMMA QueueInvariant == QueueSpec => []QueueInv
<1>1. QueueInit => QueueInv
  <2>1. QueueInit => LineIsInOrder
    BY DEF QueueInit, LineIsInOrder, QueueIsHolders, AskingIsFront, Holding
  <2>2. QueueInit => TurnsInv
    BY DEF QueueInit, TurnsInv, JoinedInv, TurnsAreInOrder, Holding, Distinct,
           Stands, Ahead
  <2> QED BY <2>1, <2>2, InitQueueTypes DEF QueueInv
<1>2. QueueInv /\ [QueueNext]_queueVars => QueueInv'
  BY NextQueueTypes, NextLineIsInOrder, NextTurnsInv DEF QueueInv, LineIsInOrder
<1> QED BY <1>1, <1>2, PTL DEF QueueSpec

(* The queue's data are well typed, whatever the number of callers and agents;
   queue.ts keeps no bound of its own. *)
THEOREM QueueTypeCorrect == QueueSpec => []QueueTypeOK
<1>1. QueueInv => QueueTypeOK
  BY DEF QueueInv
<1> QED BY <1>1, QueueInvariant, PTL

(* However many hold, join, hang up and give up at the same time, the line is
   exactly those who hold, once each (queue.ts:149-152), and of them only the
   front is ever offered an agent (queue.ts:76-77), although its position is
   read long before the offer. *)
THEOREM LineIsAlwaysInOrder == QueueSpec => []LineIsInOrder
<1>1. QueueInv => LineIsInOrder
  BY DEF QueueInv
<1> QED BY <1>1, QueueInvariant, PTL

(* However many hold, those who hold reach the agents in the order in which they
   joined (queue.ts:63, 76): nobody is looked up for, offered or connected while
   somebody who joined before him still holds. *)
THEOREM TurnsAreAlwaysInOrder == QueueSpec => []TurnsAreInOrder
<1>1. QueueInv => TurnsAreInOrder
  BY DEF QueueInv, TurnsInv
<1> QED BY <1>1, QueueInvariant, PTL

-----------------------------------------------------------------------------
(* Channels and endpoints: WidgetCalls. *)
LEMMA InitTypeOK == Init => TypeOK
<1> SUFFICES ASSUME Init PROVE TypeOK
  OBVIOUS
<1>1. lost \in 0 .. MaxFaults
  BY WidgetCallsAssumption DEF Init
<1> QED BY <1>1 DEF Init, TypeOK

LEMMA NextTypeOK == TypeOK /\ [Next]_vars => TypeOK'
<1> SUFFICES ASSUME TypeOK, [Next]_vars PROVE TypeOK'
  OBVIOUS
<1> USE WidgetCallsAssumption DEF TypeOK, Closed
<1>1. ASSUME NEW v \in Visitor, Handler(v)
      PROVE  TypeOK'
  <2>1. CASE CheckChannels(v)
    BY <2>1 DEF CheckChannels, tableVars, serverVars, pageVars, noted
  <2>2. CASE MarkCall(v)
    BY <2>2 DEF MarkCall, Answered, tableVars, serverVars, pageVars, noted
  <2>3. CASE TokenCheck(v)
    BY <2>3 DEF TokenCheck, tableVars, serverVars, pageVars, noted
  <2>4. CASE SweepList(v)
    BY <2>4 DEF SweepList, IsStale, tableVars, serverVars, pageVars, noted
  <2>5. CASE SweepFree(v)
    BY <2>5 DEF SweepFree, tableVars, serverVars, pageVars, noted
  <2>6. CASE Look(v)
    BY <2>6 DEF Look, tableVars, serverVars, pageVars, noted
  <2>7. CASE Claim(v)
    BY <2>7 DEF Claim, IsFree, Grant, tableVars, serverVars, pageVars, noted
  <2>8. CASE Count(v)
    BY <2>8 DEF Count, MayProvision, tableVars, serverVars, pageVars, noted
  <2>9. CASE Insert(v)
    BY <2>9 DEF Insert, Grant, tableVars, serverVars, pageVars, noted
  <2>10. CASE RatingSaved(v)
    BY <2>10 DEF RatingSaved, End, tableVars, serverVars, pageVars, noted
  <2>11. CASE Release(v)
    BY <2>11 DEF Release, tableVars, serverVars, pageVars, noted
  <2>12. CASE StaleSessions(v)
    BY <2>12 DEF StaleSessions, IsAbandoned, End, tableVars, serverVars, pageVars, noted
  <2> QED BY <1>1, <2>1, <2>2, <2>3, <2>4, <2>5, <2>6, <2>7, <2>8, <2>9, <2>10, <2>11, <2>12 DEF Handler
<1>2. ASSUME NEW v \in Visitor, Page(v)
      PROVE  TypeOK'
  <2>1. CASE Open(v)
    BY <2>1 DEF Open, tableVars, serverVars, pageVars, noted
  <2>2. CASE AnswerLost(v)
    BY <2>2 DEF AnswerLost, tableVars, serverVars, pageVars, noted
  <2>3. CASE Finish(v)
    BY <2>3 DEF Finish, tableVars, serverVars, pageVars, noted
  <2>4. CASE Rate(v)
    BY <2>4 DEF Rate, tableVars, serverVars, pageVars, noted
  <2>5. CASE CloseTab(v)
    BY <2>5 DEF CloseTab, tableVars, serverVars, pageVars, noted
  <2>6. CASE StartCall(v)
    BY <2>6 DEF StartCall, tableVars, serverVars, pageVars, noted
  <2>7. CASE StartFails(v)
    BY <2>7 DEF StartFails, tableVars, serverVars, pageVars, noted
  <2> QED BY <1>2, <2>1, <2>2, <2>3, <2>4, <2>5, <2>6, <2>7 DEF Page
<1>3. CASE EnsureCount
  BY <1>3 DEF EnsureCount, tableVars, serverVars, pageVars, noted
<1>4. CASE EnsureInsert
  BY <1>4 DEF EnsureInsert, tableVars, serverVars, pageVars, noted
<1>5. ASSUME NEW v \in Visitor, Age(v)
      PROVE  TypeOK'
  BY <1>5 DEF Age, tableVars, serverVars, pageVars, noted
<1>6. CASE UNCHANGED vars
  BY <1>6 DEF vars, tableVars, serverVars, pageVars, noted
<1> QED BY <1>1, <1>2, <1>3, <1>4, <1>5, <1>6 DEF Next

-----------------------------------------------------------------------------
(* What the page, the handlers and the tables know of each other.  Before a
   page waits it has asked for nothing but the call; an endpoint that is on its
   way, about to be called from or on a call belongs to a page that waits, was
   closed, or was hasty; and while it waits, and was not hasty, its session is
   not over. *)
PageInv(v) ==
  /\ lease[v] # "idle" => page[v] \notin {"form", "calling"} /\ call[v] = "idle"
  /\ page[v] = "waiting" => call[v] = "idle"
  /\ v \in hasty => page[v] \notin {"form", "calling"}
  /\ rating[v] # "idle" => v \in hasty \/ page[v] \in {"thanked", "left"}
  /\ lease[v] # "idle" => page[v] \in {"waiting", "left"} \/ v \in hasty
  /\ starting[v] # None \/ line[v] # None => page[v] = "waiting" \/ v \in hasty
  /\ page[v] = "waiting" /\ v \notin hasty
     /\ (lease[v] \notin {"idle", "asked"} \/ starting[v] # None \/ line[v] # None)
     => session[v] \notin Closed
PagesInv == \A v \in Visitor : PageInv(v)

LEMMA NextPagesInv == TypeOK /\ PagesInv /\ [Next]_vars => PagesInv'
<1> SUFFICES ASSUME TypeOK, PagesInv, [Next]_vars PROVE PagesInv'
  OBVIOUS
<1> USE WidgetCallsAssumption DEF TypeOK, Closed, PagesInv, PageInv
<1>1. ASSUME NEW v \in Visitor, Handler(v)
      PROVE  PagesInv'
  <2>1. CASE CheckChannels(v)
    BY <2>1 DEF CheckChannels, tableVars, serverVars, pageVars, noted
  <2>2. CASE MarkCall(v)
    BY <2>2 DEF MarkCall, Answered, tableVars, serverVars, pageVars, noted
  <2>3. CASE TokenCheck(v)
    BY <2>3 DEF TokenCheck, tableVars, serverVars, pageVars, noted
  <2>4. CASE SweepList(v)
    BY <2>4 DEF SweepList, IsStale, tableVars, serverVars, pageVars, noted
  <2>5. CASE SweepFree(v)
    BY <2>5 DEF SweepFree, tableVars, serverVars, pageVars, noted
  <2>6. CASE Look(v)
    BY <2>6 DEF Look, tableVars, serverVars, pageVars, noted
  <2>7. CASE Claim(v)
    BY <2>7 DEF Claim, IsFree, Grant, tableVars, serverVars, pageVars, noted
  <2>8. CASE Count(v)
    BY <2>8 DEF Count, MayProvision, tableVars, serverVars, pageVars, noted
  <2>9. CASE Insert(v)
    BY <2>9 DEF Insert, Grant, tableVars, serverVars, pageVars, noted
  <2>10. CASE RatingSaved(v)
    BY <2>10 DEF RatingSaved, End, tableVars, serverVars, pageVars, noted
  <2>11. CASE Release(v)
    BY <2>11 DEF Release, tableVars, serverVars, pageVars, noted
  <2>12. CASE StaleSessions(v)
    <3> SUFFICES ASSUME NEW u \in Visitor PROVE PageInv(u)'
      BY DEF PagesInv
    <3>1. /\ v \in hasty' <=> v \in hasty \/ starting[v] # None
          /\ lease[v] = "idle" /\ line[v] = None /\ call[v] = "idle"
      BY <2>12 DEF StaleSessions, InProgress
    <3>2. CASE u = v
      <4>1. /\ page'[v] = page[v] /\ lease'[v] = "idle" /\ call'[v] = "idle"
            /\ rating'[v] = "idle" /\ line'[v] = None /\ starting'[v] = starting[v]
        BY <2>12, <3>1 DEF StaleSessions, serverVars, pageVars
      <4>2. v \notin hasty' => starting[v] = None
        BY <3>1
      <4>3. starting[v] # None => page[v] = "waiting" \/ v \in hasty
        OBVIOUS
      <4>4. v \in hasty' => page[v] \notin {"form", "calling"}
        BY <3>1, <4>3
      <4>5. page[v] = "waiting" => call[v] = "idle"
        BY <3>1
      <4> QED BY <3>1, <3>2, <4>1, <4>2, <4>3, <4>4, <4>5
    <3>3. CASE u # v
      BY <2>12, <3>3 DEF StaleSessions, End, serverVars, pageVars
    <3> QED BY <3>2, <3>3
  <2> QED BY <1>1, <2>1, <2>2, <2>3, <2>4, <2>5, <2>6, <2>7, <2>8, <2>9, <2>10, <2>11, <2>12 DEF Handler
<1>2. ASSUME NEW v \in Visitor, Page(v)
      PROVE  PagesInv'
  <2>1. CASE Open(v)
    BY <2>1 DEF Open, tableVars, serverVars, pageVars, noted
  <2>2. CASE AnswerLost(v)
    BY <2>2 DEF AnswerLost, tableVars, serverVars, pageVars, noted
  <2>3. CASE Finish(v)
    <3> SUFFICES ASSUME NEW u \in Visitor PROVE PageInv(u)'
      BY DEF PagesInv
    <3>1. v \in hasty' <=> v \in hasty \/ lease[v] # "idle" \/ starting[v] # None
      BY <2>3 DEF Finish
    <3>2. CASE u = v
      <4>1. /\ page'[v] = "rating" /\ line'[v] = None /\ starting'[v] = starting[v]
            /\ lease'[v] = lease[v] /\ call'[v] = call[v] /\ rating'[v] = rating[v]
        BY <2>3 DEF Finish, serverVars
      <4>2. rating[v] # "idle" => v \in hasty
        <5>1. CASE page[v] = "waiting"
          BY <5>1
        <5>2. CASE line[v] # None
          BY <5>2
        <5> QED BY <2>3, <5>1, <5>2 DEF Finish
      <4>3. lease[v] # "idle" => call[v] = "idle"
        OBVIOUS
      <4> QED BY <3>1, <3>2, <4>1, <4>2, <4>3
    <3>3. CASE u # v
      BY <2>3, <3>3 DEF Finish, tableVars, serverVars
    <3> QED BY <3>2, <3>3
  <2>4. CASE Rate(v)
    BY <2>4 DEF Rate, tableVars, serverVars, pageVars, noted
  <2>5. CASE CloseTab(v)
    <3> SUFFICES ASSUME NEW u \in Visitor PROVE PageInv(u)'
      BY DEF PagesInv
    <3>1. CASE u = v
      <4>1. /\ page'[v] = "left" /\ line'[v] = None /\ starting'[v] = None
            /\ lease'[v] = lease[v] /\ call'[v] = call[v]
        BY <2>5 DEF CloseTab, serverVars
      <4>2. lease[v] # "idle" => call[v] = "idle"
        OBVIOUS
      <4> QED BY <3>1, <4>1, <4>2
    <3>2. CASE u # v
      BY <2>5, <3>2 DEF CloseTab, tableVars, serverVars, noted
    <3> QED BY <3>1, <3>2
  <2>6. CASE StartCall(v)
    BY <2>6 DEF StartCall, tableVars, serverVars, pageVars, noted
  <2>7. CASE StartFails(v)
    BY <2>7 DEF StartFails, tableVars, serverVars, pageVars, noted
  <2> QED BY <1>2, <2>1, <2>2, <2>3, <2>4, <2>5, <2>6, <2>7 DEF Page
<1>3. CASE EnsureCount
  BY <1>3 DEF EnsureCount, tableVars, serverVars, pageVars, noted
<1>4. CASE EnsureInsert
  BY <1>4 DEF EnsureInsert, tableVars, serverVars, pageVars, noted
<1>5. ASSUME NEW v \in Visitor, Age(v)
      PROVE  PagesInv'
  BY <1>5 DEF Age, tableVars, serverVars, pageVars, noted
<1>6. CASE UNCHANGED vars
  BY <1>6 DEF vars, tableVars, serverVars, pageVars, noted
<1> QED BY <1>1, <1>2, <1>3, <1>4, <1>5, <1>6 DEF Next

-----------------------------------------------------------------------------
(* Endpoints that are not made are lent to nobody; what is claimed was made;
   and the endpoint a browser is on is its own, or one of the accidents that
   the properties name has happened. *)
TableInv ==
  /\ \A e \in Endpoint \ made : holder[e] = None
  /\ \A v \in Visitor : lease[v] = "claiming" => picked[v] \in made
  /\ \A v \in Visitor, e \in Endpoint :
       starting[v] = e \/ line[v] = e =>
         holder[e] = v \/ e \in stolen \/ v \in hasty

LEMMA NextTableInv == TypeOK /\ PagesInv /\ TableInv /\ [Next]_vars => TableInv'
<1> SUFFICES ASSUME TypeOK, PagesInv, TableInv, [Next]_vars PROVE TableInv'
  OBVIOUS
<1> USE WidgetCallsAssumption DEF TypeOK, Closed, PagesInv, PageInv, TableInv
<1>1. ASSUME NEW v \in Visitor, Handler(v)
      PROVE  TableInv'
  <2>1. CASE CheckChannels(v)
    BY <2>1 DEF CheckChannels, tableVars, serverVars, pageVars, noted
  <2>2. CASE MarkCall(v)
    BY <2>2 DEF MarkCall, Answered, tableVars, serverVars, pageVars, noted
  <2>3. CASE TokenCheck(v)
    BY <2>3 DEF TokenCheck, tableVars, serverVars, pageVars, noted
  <2>4. CASE SweepList(v)
    BY <2>4 DEF SweepList, IsStale, tableVars, serverVars, pageVars, noted
  <2>5. CASE SweepFree(v)
    BY <2>5 DEF SweepFree, tableVars, serverVars, pageVars, noted
  <2>6. CASE Look(v)
    BY <2>6 DEF Look, tableVars, serverVars, pageVars, noted
  <2>7. CASE Claim(v)
    BY <2>7 DEF Claim, IsFree, Grant, tableVars, serverVars, pageVars, noted
  <2>8. CASE Count(v)
    BY <2>8 DEF Count, MayProvision, tableVars, serverVars, pageVars, noted
  <2>9. CASE Insert(v)
    BY <2>9 DEF Insert, Grant, tableVars, serverVars, pageVars, noted
  <2>10. CASE RatingSaved(v)
    BY <2>10 DEF RatingSaved, End, tableVars, serverVars, pageVars, noted
  <2>11. CASE Release(v)
    BY <2>11 DEF Release, tableVars, serverVars, pageVars, noted
  <2>12. CASE StaleSessions(v)
    BY <2>12 DEF StaleSessions, IsAbandoned, End, tableVars, serverVars, pageVars, noted
  <2> QED BY <1>1, <2>1, <2>2, <2>3, <2>4, <2>5, <2>6, <2>7, <2>8, <2>9, <2>10, <2>11, <2>12 DEF Handler
<1>2. ASSUME NEW v \in Visitor, Page(v)
      PROVE  TableInv'
  <2>1. CASE Open(v)
    BY <2>1 DEF Open, tableVars, serverVars, pageVars, noted
  <2>2. CASE AnswerLost(v)
    BY <2>2 DEF AnswerLost, tableVars, serverVars, pageVars, noted
  <2>3. CASE Finish(v)
    BY <2>3 DEF Finish, tableVars, serverVars, pageVars, noted
  <2>4. CASE Rate(v)
    BY <2>4 DEF Rate, tableVars, serverVars, pageVars, noted
  <2>5. CASE CloseTab(v)
    BY <2>5 DEF CloseTab, tableVars, serverVars, pageVars, noted
  <2>6. CASE StartCall(v)
    BY <2>6 DEF StartCall, tableVars, serverVars, pageVars, noted
  <2>7. CASE StartFails(v)
    BY <2>7 DEF StartFails, tableVars, serverVars, pageVars, noted
  <2> QED BY <1>2, <2>1, <2>2, <2>3, <2>4, <2>5, <2>6, <2>7 DEF Page
<1>3. CASE EnsureCount
  BY <1>3 DEF EnsureCount, tableVars, serverVars, pageVars, noted
<1>4. CASE EnsureInsert
  BY <1>4 DEF EnsureInsert, tableVars, serverVars, pageVars, noted
<1>5. ASSUME NEW v \in Visitor, Age(v)
      PROVE  TableInv'
  BY <1>5 DEF Age, tableVars, serverVars, pageVars, noted
<1>6. CASE UNCHANGED vars
  BY <1>6 DEF vars, tableVars, serverVars, pageVars, noted
<1> QED BY <1>1, <1>2, <1>3, <1>4, <1>5, <1>6 DEF Next

LEMMA NextRatedHoldsNothing ==
  TypeOK /\ PagesInv /\ RatedHoldsNothing /\ [Next]_vars => RatedHoldsNothing'
<1> SUFFICES ASSUME TypeOK, PagesInv, RatedHoldsNothing, [Next]_vars
             PROVE  RatedHoldsNothing'
  OBVIOUS
<1> USE WidgetCallsAssumption DEF TypeOK, PagesInv, PageInv, RatedHoldsNothing
<1>1. ASSUME NEW v \in Visitor, Handler(v)
      PROVE  RatedHoldsNothing'
  <2>1. CASE CheckChannels(v)
    BY <2>1 DEF CheckChannels, tableVars, serverVars, pageVars, noted
  <2>2. CASE MarkCall(v)
    BY <2>2 DEF MarkCall, Answered, tableVars, serverVars, pageVars, noted
  <2>3. CASE TokenCheck(v)
    BY <2>3 DEF TokenCheck, tableVars, serverVars, pageVars, noted
  <2>4. CASE SweepList(v)
    BY <2>4 DEF SweepList, IsStale, tableVars, serverVars, pageVars, noted
  <2>5. CASE SweepFree(v)
    BY <2>5 DEF SweepFree, tableVars, serverVars, pageVars, noted
  <2>6. CASE Look(v)
    BY <2>6 DEF Look, tableVars, serverVars, pageVars, noted
  <2>7. CASE Claim(v)
    BY <2>7 DEF Claim, IsFree, Grant, tableVars, serverVars, pageVars, noted
  <2>8. CASE Count(v)
    BY <2>8 DEF Count, MayProvision, tableVars, serverVars, pageVars, noted
  <2>9. CASE Insert(v)
    BY <2>9 DEF Insert, Grant, tableVars, serverVars, pageVars, noted
  <2>10. CASE RatingSaved(v)
    BY <2>10 DEF RatingSaved, End, tableVars, serverVars, pageVars, noted
  <2>11. CASE Release(v)
    BY <2>11 DEF Release, tableVars, serverVars, pageVars, noted
  <2>12. CASE StaleSessions(v)
    BY <2>12 DEF StaleSessions, IsAbandoned, End, tableVars, serverVars, pageVars, noted
  <2> QED BY <1>1, <2>1, <2>2, <2>3, <2>4, <2>5, <2>6, <2>7, <2>8, <2>9, <2>10, <2>11, <2>12 DEF Handler
<1>2. ASSUME NEW v \in Visitor, Page(v)
      PROVE  RatedHoldsNothing'
  <2>1. CASE Open(v)
    BY <2>1 DEF Open, tableVars, serverVars, pageVars, noted
  <2>2. CASE AnswerLost(v)
    BY <2>2 DEF AnswerLost, tableVars, serverVars, pageVars, noted
  <2>3. CASE Finish(v)
    BY <2>3 DEF Finish, tableVars, serverVars, pageVars, noted
  <2>4. CASE Rate(v)
    BY <2>4 DEF Rate, tableVars, serverVars, pageVars, noted
  <2>5. CASE CloseTab(v)
    BY <2>5 DEF CloseTab, tableVars, serverVars, pageVars, noted
  <2>6. CASE StartCall(v)
    BY <2>6 DEF StartCall, tableVars, serverVars, pageVars, noted
  <2>7. CASE StartFails(v)
    BY <2>7 DEF StartFails, tableVars, serverVars, pageVars, noted
  <2> QED BY <1>2, <2>1, <2>2, <2>3, <2>4, <2>5, <2>6, <2>7 DEF Page
<1>3. CASE EnsureCount
  BY <1>3 DEF EnsureCount, tableVars, serverVars, pageVars, noted
<1>4. CASE EnsureInsert
  BY <1>4 DEF EnsureInsert, tableVars, serverVars, pageVars, noted
<1>5. ASSUME NEW v \in Visitor, Age(v)
      PROVE  RatedHoldsNothing'
  BY <1>5 DEF Age, tableVars, serverVars, pageVars, noted
<1>6. CASE UNCHANGED vars
  BY <1>6 DEF vars, tableVars, serverVars, pageVars, noted
<1> QED BY <1>1, <1>2, <1>3, <1>4, <1>5, <1>6 DEF Next

-----------------------------------------------------------------------------
(* While no two handlers were between the same count and its act, whoever is
   about to make an endpoint is alone and has room. *)
MadeInv ==
  /\ IsFiniteSet(made)
  /\ ~crossed =>
       /\ Cardinality(made) <= MaxEndpoints
       /\ Provisioning => Cardinality(made) < MaxEndpoints
       /\ \A u, v \in Visitor :
            lease[u] = "provisioning" /\ lease[v] = "provisioning" => u = v
       /\ \A v \in Visitor : ensure = "provisioning" => lease[v] # "provisioning"

LEMMA NextMadeInv == TypeOK /\ MadeInv /\ [Next]_vars => MadeInv'
<1> SUFFICES ASSUME TypeOK, MadeInv, [Next]_vars PROVE MadeInv'
  OBVIOUS
<1> USE WidgetCallsAssumption DEF TypeOK, MadeInv, Provisioning, MaxEndpoints
<1>0. ASSUME NEW e \in Endpoint \ made
      PROVE  /\ IsFiniteSet(made \cup {e})
             /\ Cardinality(made \cup {e}) = Cardinality(made) + 1
             /\ Cardinality(made) \in Nat
  BY FS_AddElement, FS_CardinalityType
<1>00. Cardinality(made) \in Nat
  BY FS_CardinalityType
<1>1. ASSUME NEW v \in Visitor, Handler(v)
      PROVE  MadeInv'
  <2>1. CASE CheckChannels(v)
    BY <1>0, <1>00, <2>1 DEF CheckChannels, tableVars, serverVars, pageVars, noted
  <2>2. CASE MarkCall(v)
    BY <1>0, <1>00, <2>2 DEF MarkCall, Answered, tableVars, serverVars, pageVars, noted
  <2>3. CASE TokenCheck(v)
    BY <1>0, <1>00, <2>3 DEF TokenCheck, tableVars, serverVars, pageVars, noted
  <2>4. CASE SweepList(v)
    BY <1>0, <1>00, <2>4 DEF SweepList, IsStale, tableVars, serverVars, pageVars, noted
  <2>5. CASE SweepFree(v)
    BY <1>0, <1>00, <2>5 DEF SweepFree, tableVars, serverVars, pageVars, noted
  <2>6. CASE Look(v)
    BY <1>0, <1>00, <2>6 DEF Look, tableVars, serverVars, pageVars, noted
  <2>7. CASE Claim(v)
    BY <1>0, <1>00, <2>7 DEF Claim, IsFree, Grant, tableVars, serverVars, pageVars, noted
  <2>8. CASE Count(v)
    <3>1. /\ lease[v] = "counting" /\ UNCHANGED <<made, ensure>>
          /\ lease' = [lease EXCEPT ![v] = IF MayProvision THEN "provisioning" ELSE "idle"]
          /\ crossed' = (crossed \/ (MayProvision /\ Provisioning))
      BY ONLY <2>8, Zenon DEF Count, tableVars
    <3>2. CASE MayProvision
      <4>1. lease' = [lease EXCEPT ![v] = "provisioning"] /\ Cardinality(made) < MaxEndpoints
        BY <3>1, <3>2 DEF MayProvision
      <4>2. ~crossed' => /\ ~crossed /\ ensure # "provisioning"
                         /\ \A u \in Visitor : lease[u] # "provisioning"
        BY ONLY <3>1, <3>2, Zenon DEF Provisioning
      <4>3. \A u \in Visitor : u # v => lease'[u] = lease[u]
        BY <4>1
      <4> QED BY <1>00, <3>1, <4>1, <4>2, <4>3
    <3>3. CASE ~MayProvision
      BY <1>00, <3>1, <3>3
    <3> QED BY <3>2, <3>3
  <2>9. CASE Insert(v)
    <3>1. ASSUME NEW e \in Endpoint \ made, made' = made \cup {e},
                 lease' = [lease EXCEPT ![v] = "idle"]
          PROVE  MadeInv'
      BY <1>0, <1>00, <2>9, <3>1 DEF Insert, noted
    <3>2. CASE made' = made /\ lease' = [lease EXCEPT ![v] = "idle"]
      BY <1>00, <2>9, <3>2 DEF Insert, noted
    <3> QED BY <2>9, <3>1, <3>2 DEF Insert, Grant
  <2>10. CASE RatingSaved(v)
    BY <1>0, <1>00, <2>10 DEF RatingSaved, End, tableVars, serverVars, pageVars, noted
  <2>11. CASE Release(v)
    BY <1>0, <1>00, <2>11 DEF Release, tableVars, serverVars, pageVars, noted
  <2>12. CASE StaleSessions(v)
    BY <1>0, <1>00, <2>12 DEF StaleSessions, IsAbandoned, End, tableVars, serverVars, pageVars, noted
  <2> QED BY <1>1, <2>1, <2>2, <2>3, <2>4, <2>5, <2>6, <2>7, <2>8, <2>9, <2>10, <2>11, <2>12 DEF Handler
<1>2. ASSUME NEW v \in Visitor, Page(v)
      PROVE  MadeInv'
  <2>1. CASE Open(v)
    BY <1>0, <1>00, <2>1 DEF Open, tableVars, serverVars, pageVars, noted
  <2>2. CASE AnswerLost(v)
    BY <1>0, <1>00, <2>2 DEF AnswerLost, tableVars, serverVars, pageVars, noted
  <2>3. CASE Finish(v)
    BY <1>0, <1>00, <2>3 DEF Finish, tableVars, serverVars, pageVars, noted
  <2>4. CASE Rate(v)
    BY <1>0, <1>00, <2>4 DEF Rate, tableVars, serverVars, pageVars, noted
  <2>5. CASE CloseTab(v)
    BY <1>0, <1>00, <2>5 DEF CloseTab, tableVars, serverVars, pageVars, noted
  <2>6. CASE StartCall(v)
    BY <1>0, <1>00, <2>6 DEF StartCall, tableVars, serverVars, pageVars, noted
  <2>7. CASE StartFails(v)
    BY <1>0, <1>00, <2>7 DEF StartFails, tableVars, serverVars, pageVars, noted
  <2> QED BY <1>2, <2>1, <2>2, <2>3, <2>4, <2>5, <2>6, <2>7 DEF Page
<1>3. CASE EnsureCount
  <2>1. made = {} => Cardinality(made) < MaxEndpoints
    BY FS_EmptySet
  <2>2. CASE made = {} /\ ~Provisioning
    BY <1>3, <2>1, <2>2 DEF EnsureCount, tableVars
  <2>3. CASE made = {} /\ Provisioning
    BY <1>3, <2>3 DEF EnsureCount, tableVars
  <2>4. CASE made # {}
    BY <1>3, <2>4 DEF EnsureCount, tableVars
  <2> QED BY <2>2, <2>3, <2>4
<1>4. CASE EnsureInsert
  <2>1. ASSUME NEW e \in Endpoint \ made, made' = made \cup {e}
        PROVE  MadeInv'
    <3>1. IsFiniteSet(made') /\ Cardinality(made') = Cardinality(made) + 1
      BY <1>0, <2>1
    <3>2. crossed' = crossed /\ lease' = lease /\ ensure = "provisioning" /\ ensure' = "done"
      BY <1>4 DEF EnsureInsert, noted
    <3>3. ~crossed => \A u \in Visitor : lease'[u] # "provisioning"
      BY <3>2
    <3>4. ~crossed => Cardinality(made) < MaxEndpoints
      BY <3>2
    <3> QED BY <1>00, <3>1, <3>2, <3>3, <3>4
  <2>2. CASE made' = made
    BY <1>4, <2>2 DEF EnsureInsert, noted
  <2> QED BY <1>4, <2>1, <2>2 DEF EnsureInsert
<1>5. ASSUME NEW v \in Visitor, Age(v)
      PROVE  MadeInv'
  BY <1>5 DEF Age, tableVars, serverVars, pageVars, noted
<1>6. CASE UNCHANGED vars
  BY <1>6 DEF vars, tableVars, serverVars, pageVars, noted
<1> QED BY <1>1, <1>2, <1>3, <1>4, <1>5, <1>6 DEF Next

(* The same of the channels: whoever is about to be put through is alone and
   has room. *)
CountedInv ==
  ~crossed =>
    /\ Cardinality(Counted) <= Channels
    /\ \A v \in Visitor : call[v] = "marking" => Cardinality(Counted) < Channels
    /\ \A u, v \in Visitor : call[u] = "marking" /\ call[v] = "marking" => u = v

(* A step by which no call is counted that was not. *)
LEMMA CountedShrinks ==
  ASSUME CountedInv, Counted' \subseteq Counted, crossed' \/ crossed' = crossed,
         \A v \in Visitor : call'[v] = "marking" => call[v] = "marking"
  PROVE  CountedInv'
<1>1. IsFiniteSet(Counted)
  BY WidgetCallsAssumption, FS_Subset DEF Counted, Calling
<1>2. Cardinality(Counted') <= Cardinality(Counted) /\ IsFiniteSet(Counted')
  BY <1>1, FS_Subset
<1>3. Cardinality(Counted) \in Nat /\ Cardinality(Counted') \in Nat
  BY <1>1, <1>2, FS_CardinalityType
<1> QED BY <1>2, <1>3, WidgetCallsAssumption DEF CountedInv

LEMMA NextCountedInv == TypeOK /\ PagesInv /\ CountedInv /\ [Next]_vars => CountedInv'
<1> SUFFICES ASSUME TypeOK, PagesInv, CountedInv, [Next]_vars PROVE CountedInv'
  OBVIOUS
<1> USE WidgetCallsAssumption DEF TypeOK, Closed, PagesInv, PageInv
<1>1. ASSUME NEW v \in Visitor, Handler(v)
      PROVE  CountedInv'
  <2>1. CASE CheckChannels(v)
    <3>1. Counted' = Counted
      BY <2>1 DEF CheckChannels, tableVars, Counted, Calling
    <3>2. PICK room \in BOOLEAN :
            /\ room => HasChannel
            /\ call' = [call EXCEPT ![v] = IF room THEN "marking" ELSE "refusing"]
            /\ crossed' = (crossed \/ (room /\ \E u \in Visitor : call[u] = "marking"))
      BY <2>1 DEF CheckChannels
    <3>3. IsFiniteSet(Counted) /\ Cardinality(Counted) \in Nat
      BY FS_Subset, FS_CardinalityType DEF Counted, Calling
    <3>4. CASE ~room
      BY <3>1, <3>2, <3>4 DEF CountedInv
    <3>5. CASE room
      <4>1. Cardinality(Counted) < Channels
        BY <3>2, <3>5 DEF HasChannel
      <4>2. ~crossed' => ~crossed /\ \A u \in Visitor : call'[u] = "marking" => u = v
        <5>1. ~crossed' => ~crossed /\ \A u \in Visitor : call[u] # "marking"
          BY ONLY <3>2, <3>5, Zenon
        <5>2. \A u \in Visitor : u # v => call'[u] = call[u]
          BY <3>2, <3>5
        <5> QED BY ONLY <5>1, <5>2, Zenon
      <4> QED BY <3>1, <3>3, <4>1, <4>2 DEF CountedInv
    <3> QED BY <3>4, <3>5
  <2>2. CASE MarkCall(v)
    <3>1. /\ Counted' \subseteq Counted \cup {v}
          /\ call[v] # "marking" => Counted' \subseteq Counted
      BY <2>2 DEF MarkCall, Counted, Calling
    <3>2. IsFiniteSet(Counted)
      BY FS_Subset DEF Counted, Calling
    <3>3. /\ IsFiniteSet(Counted \cup {v}) /\ Cardinality(Counted) \in Nat
          /\ Cardinality(Counted \cup {v}) <= Cardinality(Counted) + 1
      <4>1. Cardinality(Counted) \in Nat
        BY <3>2, FS_CardinalityType
      <4>2. /\ IsFiniteSet(Counted \cup {v})
            /\ Cardinality(Counted \cup {v}) =
                 IF v \in Counted THEN Cardinality(Counted) ELSE Cardinality(Counted) + 1
        BY <3>2, FS_AddElement
      <4> QED BY <4>1, <4>2
    <3>4. CASE call[v] = "refusing"
      BY <2>2, <3>1, <3>4, CountedShrinks DEF MarkCall, noted
    <3>5. CASE call[v] = "marking"
      <4>1. /\ Cardinality(Counted') \in Nat
            /\ Cardinality(Counted') <= Cardinality(Counted) + 1
        BY <3>1, <3>3, FS_Subset, FS_CardinalityType
      <4>2. ~crossed => \A u \in Visitor : call'[u] # "marking"
        BY <2>2, <3>5 DEF MarkCall, CountedInv
      <4>3. ~crossed => Cardinality(Counted') <= Channels
        BY <3>3, <3>5, <4>1 DEF CountedInv
      <4> QED BY <2>2, <4>2, <4>3 DEF MarkCall, noted, CountedInv
    <3> QED BY <2>2, <3>4, <3>5 DEF MarkCall
  <2>3. CASE TokenCheck(v)
    BY <2>3, CountedShrinks DEF TokenCheck, Counted, Calling, tableVars, serverVars, pageVars, noted
  <2>4. CASE SweepList(v)
    BY <2>4, CountedShrinks DEF SweepList, IsStale, Counted, Calling, tableVars, serverVars, pageVars, noted
  <2>5. CASE SweepFree(v)
    BY <2>5, CountedShrinks DEF SweepFree, Counted, Calling, tableVars, serverVars, pageVars, noted
  <2>6. CASE Look(v)
    BY <2>6, CountedShrinks DEF Look, Counted, Calling, tableVars, serverVars, pageVars, noted
  <2>7. CASE Claim(v)
    BY <2>7, CountedShrinks DEF Claim, IsFree, Grant, Counted, Calling, tableVars, serverVars, pageVars, noted
  <2>8. CASE Count(v)
    <3>1. Counted' = Counted /\ call' = call
      BY <2>8 DEF Count, tableVars, Counted, Calling
    <3>2. crossed' \/ crossed' = crossed
      BY <2>8 DEF Count
    <3> QED BY <3>1, <3>2, CountedShrinks
  <2>9. CASE Insert(v)
    BY <2>9, CountedShrinks DEF Insert, Grant, Counted, Calling, tableVars, serverVars, pageVars, noted
  <2>10. CASE RatingSaved(v)
    BY <2>10, CountedShrinks DEF RatingSaved, End, Counted, Calling, tableVars, serverVars, pageVars, noted
  <2>11. CASE Release(v)
    BY <2>11, CountedShrinks DEF Release, Counted, Calling, tableVars, serverVars, pageVars, noted
  <2>12. CASE StaleSessions(v)
    BY <2>12, CountedShrinks DEF StaleSessions, IsAbandoned, End, Counted, Calling, tableVars, serverVars, pageVars, noted
  <2> QED BY <1>1, <2>1, <2>2, <2>3, <2>4, <2>5, <2>6, <2>7, <2>8, <2>9, <2>10, <2>11, <2>12 DEF Handler
<1>2. ASSUME NEW v \in Visitor, Page(v)
      PROVE  CountedInv'
  <2>1. CASE Open(v)
    BY <2>1, CountedShrinks DEF Open, Counted, Calling, tableVars, serverVars, pageVars, noted
  <2>2. CASE AnswerLost(v)
    BY <2>2, CountedShrinks DEF AnswerLost, Counted, Calling, tableVars, serverVars, pageVars, noted
  <2>3. CASE Finish(v)
    BY <2>3, CountedShrinks DEF Finish, Counted, Calling, tableVars, serverVars, pageVars, noted
  <2>4. CASE Rate(v)
    BY <2>4, CountedShrinks DEF Rate, Counted, Calling, tableVars, serverVars, pageVars, noted
  <2>5. CASE CloseTab(v)
    BY <2>5, CountedShrinks DEF CloseTab, Counted, Calling, tableVars, serverVars, pageVars, noted
  <2>6. CASE StartCall(v)
    BY <2>6, CountedShrinks DEF StartCall, Counted, Calling, tableVars, serverVars, pageVars, noted
  <2>7. CASE StartFails(v)
    BY <2>7, CountedShrinks DEF StartFails, Counted, Calling, tableVars, serverVars, pageVars, noted
  <2> QED BY <1>2, <2>1, <2>2, <2>3, <2>4, <2>5, <2>6, <2>7 DEF Page
<1>3. CASE EnsureCount
  BY <1>3, CountedShrinks DEF EnsureCount, Counted, Calling, tableVars, serverVars, pageVars, noted
<1>4. CASE EnsureInsert
  BY <1>4, CountedShrinks DEF EnsureInsert, Counted, Calling, tableVars, serverVars, pageVars, noted
<1>5. ASSUME NEW v \in Visitor, Age(v)
      PROVE  CountedInv'
  BY <1>5, CountedShrinks DEF Age, tableVars, serverVars, pageVars, noted, Counted, Calling
<1>6. CASE UNCHANGED vars
  BY <1>6, CountedShrinks DEF vars, tableVars, serverVars, pageVars, noted, Counted, Calling
<1> QED BY <1>1, <1>2, <1>3, <1>4, <1>5, <1>6 DEF Next

-----------------------------------------------------------------------------
GuestInv ==
  TypeOK /\ PagesInv /\ TableInv /\ RatedHoldsNothing /\ MadeInv /\ CountedInv

LEMMA GuestInvariant == Spec => []GuestInv
<1>1. Init => GuestInv
  <2> SUFFICES ASSUME Init PROVE GuestInv
    OBVIOUS
  <2>1. PagesInv /\ TableInv /\ RatedHoldsNothing
    <3>1. PagesInv /\ RatedHoldsNothing
      BY DEF Init, PagesInv, PageInv, RatedHoldsNothing
    <3>2. TableInv
      BY WidgetCallsAssumption DEF Init, TableInv
    <3> QED BY <3>1, <3>2
  <2>2. MadeInv
    BY WidgetCallsAssumption, FS_EmptySet DEF Init, MadeInv, Provisioning, MaxEndpoints
  <2>3. CountedInv
    <3>1. Counted = {}
      BY DEF Init, Counted, Calling
    <3> QED BY <3>1, WidgetCallsAssumption, FS_EmptySet DEF Init, CountedInv
  <2> QED BY <2>1, <2>2, <2>3, InitTypeOK DEF GuestInv
<1>2. GuestInv /\ [Next]_vars => GuestInv'
  BY NextTypeOK, NextPagesInv, NextTableInv, NextRatedHoldsNothing, NextMadeInv,
     NextCountedInv DEF GuestInv
<1> QED BY <1>1, <1>2, PTL DEF Spec

(* Tables and handlers are well typed, however many visitors come. *)
THEOREM WidgetTypeCorrect == Spec => []TypeOK
<1>1. GuestInv => TypeOK
  BY DEF GuestInv
<1> QED BY <1>1, GuestInvariant, PTL

(* However many visitors' requests interleave, two browsers are never on one
   endpoint (widget-guest.ts:66-67) and a visitor whose rating was handled holds
   none (csat.post.ts:29-31), but for leases swept too late and for sessions
   that are over before their call begins. *)
THEOREM LeaseIsAlwaysExclusive == Spec => []LeaseIsExclusive
<1>1. GuestInv => OneVisitorPerEndpoint
  BY WidgetCallsAssumption DEF GuestInv, TypeOK, TableInv, OneVisitorPerEndpoint
<1>2. GuestInv => LeaseIsExclusive
  BY <1>1 DEF GuestInv, LeaseIsExclusive
<1> QED BY <1>2, GuestInvariant, PTL

(* Endpoints and the calls of the last twenty minutes, whatever is going on in
   them, never exceed the channels, for any number of channels, as long as no
   two handlers were between the same count and its act. *)
THEOREM AlwaysWithinChannels == Spec => []WithinChannels
<1>1. GuestInv => WithinChannels
  BY DEF GuestInv, MadeInv, CountedInv, WithinChannels
<1> QED BY <1>1, GuestInvariant, PTL

=============================================================================
