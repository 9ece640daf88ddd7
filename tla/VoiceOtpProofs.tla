--------------------------- MODULE VoiceOtpProofs ---------------------------
(***************************************************************************)
(* What the one-time passwords keep to although nothing locks their rows,  *)
(* for any number of passwords, guesses, policies and lost reports.        *)
(*                                                                         *)
(* The argument.  A guess that read a row while nobody else was about to   *)
(* write it is alone with it until it has written: the sender has written  *)
(* its last, every other guess that reads is noticed as racing, and the    *)
(* engine's report leaves a verified row alone.  So what the guess read is *)
(* still true when it writes, and counts and single use follow.  The rate  *)
(* holds because a send that has counted keeps its place until its row is  *)
(* there, as long as no other counts in between.                           *)
(***************************************************************************)
EXTENDS VoiceOtp, FiniteSetTheorems, TLAPS

\* The request has inserted its row, or will as soon as the wallet allows.
Sent(o) == send[o] \notin {"idle", "counted", "refused"}
Spent == {o \in Otp : Sent(o) \/ send[o] = "counted"}

\* The sender writes the row no more.
Settled(o) == send[o] \in {"charging", "done"}

\* A guess has read the row of o and not written yet.
Guessing(g) == guess[g] \in {"expiring", "right", "wrong"}
OnRow(g, o) == Guessing(g) /\ seen[g].otp = o

\* The row, the phone and the bill of one password.
SendInv(o) ==
  /\ Sent(o) <=> row[o] # "none"
  /\ ~Sent(o) => attempts[o] = 0 /\ accepted[o] = 0 /\ wrong[o] = 0
  /\ phone[o] # "none" => Sent(o)
  /\ send[o] \in {"placed", "charging"} => phone[o] # "none"
  /\ report[o] # "none" => report[o] = phone[o]
  /\ send[o] # "done" => paid[o] = 0
  /\ paid[o] > 0 => phone[o] # "none"

\* What a guess has read: an open password, which was not locked.
ReadInv ==
  \A g \in Guess : Guessing(g) =>
    /\ seen[g].otp \in Otp /\ Sent(seen[g].otp)
    /\ seen[g].status \notin {"none", "verified"}
    /\ guess[g] # "expiring" => seen[g].attempts < maxAttempts[seen[g].otp]

\* A password whose readers were never in each other's way.
AloneInv(o) ==
  o \notin raced =>
    /\ \A g \in Guess : OnRow(g, o) =>
         /\ Settled(o) /\ accepted[o] = 0
         /\ seen[g].attempts = attempts[o] /\ seen[g].status # "calling"
         /\ \A h \in Guess : OnRow(h, o) => h = g
    /\ Settled(o) => row[o] # "calling"
    /\ accepted[o] <= 1
    /\ accepted[o] = 1 => Settled(o) /\ row[o] = "verified"
    /\ wrong[o] = attempts[o] /\ attempts[o] <= maxAttempts[o]

\* What the engine made of a call stands, when it came after the sender's write.
LastWordInv(o) ==
  phone[o] \in {"long", "short"} /\ report[o] = "none" /\ o \notin misled =>
    /\ Settled(o)
    /\ wrong[o] = 0 => row[o] \in {Inferred(phone[o]), "verified", "expired"}

\* At most one send has counted and not written, and its place is kept.
RateInv ==
  \/ crossed
  \/ /\ \A o, p \in Otp : send[o] = "counted" /\ send[p] = "counted" => o = p
     /\ IsFiniteSet(Spent) /\ Cardinality(Spent) <= RateMaxPerHour

OtpInv ==
  /\ TypeOK
  /\ \A o \in Otp : SendInv(o) /\ AloneInv(o) /\ LastWordInv(o)
  /\ ReadInv /\ RateInv

\* The counters of a row are numbers.
LEMMA Counted ==
  ASSUME TypeOK, NEW o \in Otp
  PROVE  /\ attempts[o] \in Nat /\ maxAttempts[o] \in Nat
         /\ accepted[o] \in Nat /\ wrong[o] \in Nat
<1>1. Policies \cup {0} \subseteq Nat
  BY VoiceOtpAssumption
<1>2. /\ maxAttempts[o] \in Policies \cup {0} /\ attempts[o] \in Nat
      /\ accepted[o] \in Nat /\ wrong[o] \in Nat
  BY DEF TypeOK
<1>3. QED BY <1>1, <1>2

LEMMA InitOtp == Init => OtpInv
<1> SUFFICES ASSUME Init PROVE OtpInv
  OBVIOUS
<1> USE VoiceOtpAssumption DEF Init
<1>1. TypeOK
  <2>1. Unread \in [otp : Otp \cup {None}, status : Statuses, attempts : Nat]
    BY DEF Unread, Statuses
  <2>2. seen \in [Guess -> [otp : Otp \cup {None}, status : Statuses, attempts : Nat]]
    BY <2>1
  <2>3. /\ balance \in 0 .. Funds /\ lost \in 0 .. MaxFaults
        /\ row \in [Otp -> Statuses]
    BY DEF Statuses
  <2>4. /\ maxAttempts \in [Otp -> Policies \cup {0}] /\ attempts \in [Otp -> Nat]
        /\ accepted \in [Otp -> Nat] /\ wrong \in [Otp -> Nat]
        /\ paid \in [Otp -> 0 .. 1]
    OBVIOUS
  <2>5. /\ old \subseteq Otp /\ crossed \in BOOLEAN
        /\ raced \subseteq Otp /\ misled \subseteq Otp
    OBVIOUS
  <2>6. QED BY <2>2, <2>3, <2>4, <2>5 DEF TypeOK
<1>2. ASSUME NEW o \in Otp PROVE SendInv(o) /\ AloneInv(o) /\ LastWordInv(o)
  BY DEF SendInv, AloneInv, LastWordInv, Sent, Settled, OnRow, Guessing
<1>3. ReadInv
  BY DEF ReadInv, Guessing
<1>4. RateInv
  <2>1. Spent = {}
    BY DEF Spent, Sent
  <2>2. QED BY <2>1, FS_EmptySet DEF RateInv
<1>5. QED BY <1>1, <1>2, <1>3, <1>4 DEF OtpInv

\* Steps that leave the senders alone keep the rate.
LEMMA KeepsRate ==
  ASSUME OtpInv, UNCHANGED <<send, crossed>> PROVE RateInv'
<1>1. Spent' = Spent
  BY DEF Spent, Sent
<1>2. QED BY <1>1 DEF OtpInv, RateInv

\* A step of a sender that takes no new place keeps the rate.
LEMMA MovesOn ==
  ASSUME OtpInv, NEW o \in Otp, UNCHANGED crossed,
         \A p \in Otp : p # o => send'[p] = send[p],
         send[o] # "idle", send[o] # "refused", send'[o] # "counted"
  PROVE  RateInv'
<1>1. Spent' \subseteq Spent
  BY DEF Spent, Sent
<1>2. CASE ~crossed
  <2>1. IsFiniteSet(Spent) /\ Cardinality(Spent) <= RateMaxPerHour
    BY <1>2 DEF OtpInv, RateInv
  <2>2. /\ IsFiniteSet(Spent') /\ Cardinality(Spent') <= Cardinality(Spent)
        /\ Cardinality(Spent') \in Nat /\ Cardinality(Spent) \in Nat
    BY <1>1, <2>1, FS_Subset, FS_CardinalityType
  <2>3. Cardinality(Spent') <= RateMaxPerHour
    BY <2>1, <2>2, VoiceOtpAssumption
  <2>4. QED BY <1>2, <2>2, <2>3 DEF OtpInv, RateInv
<1>3. QED BY <1>2 DEF RateInv

-----------------------------------------------------------------------------
LEMMA CheckRateInv == ASSUME OtpInv, NEW o \in Otp, CheckRate(o) PROVE OtpInv'
<1> USE DEF CheckRate, callVars, guessVars, walletVars
<1>1. TypeOK'
  BY DEF OtpInv, TypeOK
<1>2. ASSUME NEW p \in Otp PROVE SendInv(p)' /\ AloneInv(p)' /\ LastWordInv(p)'
  <2>1. ~Sent(o) /\ ~Sent(o)' /\ \A q \in Otp : q # o => send'[q] = send[q]
    BY DEF OtpInv, TypeOK, Sent
  <2>2. SendInv(p)' /\ LastWordInv(p)'
    BY <2>1 DEF OtpInv, SendInv, LastWordInv, Settled, Sent
  <2>3. AloneInv(p)'
    BY <2>1 DEF OtpInv, AloneInv, Sent, Settled, OnRow, Guessing
  <2>4. QED BY <2>2, <2>3
<1>3. ReadInv'
  BY DEF OtpInv, TypeOK, ReadInv, Guessing, Sent
<1>4. RateInv'
  <2>1. CASE ~crossed' /\ send' = [send EXCEPT ![o] = "counted"]
    <3>1. /\ ~crossed /\ \A p \in Otp : send[p] # "counted"
          /\ HasRate /\ send' = [send EXCEPT ![o] = "counted"]
      BY <2>1 DEF OtpInv, TypeOK
    <3>2. Rows = Spent /\ Spent' = Spent \cup {o}
      BY <3>1 DEF OtpInv, TypeOK, SendInv, Rows, Spent, Sent
    <3>3. IsFiniteSet(Spent) /\ Cardinality(Spent) < RateMaxPerHour
      BY <3>1, <3>2 DEF OtpInv, RateInv, HasRate
    <3>4. /\ IsFiniteSet(Spent') /\ Cardinality(Spent) \in Nat
          /\ Cardinality(Spent') \in {Cardinality(Spent), Cardinality(Spent) + 1}
      BY <3>2, <3>3, FS_AddElement, FS_CardinalityType
    <3>5. Cardinality(Spent') <= RateMaxPerHour
      BY <3>3, <3>4, VoiceOtpAssumption
    <3>6. QED BY <3>1, <3>4, <3>5 DEF OtpInv, TypeOK, RateInv
  <2>2. CASE send' = [send EXCEPT ![o] = "refused"]
    <3>1. Spent' = Spent /\ (\A p \in Otp : send'[p] = "counted" => send[p] = "counted")
      BY <2>2 DEF OtpInv, TypeOK, Spent, Sent
    <3>2. crossed' = crossed
      BY <2>2 DEF OtpInv, TypeOK
    <3>3. QED BY <3>1, <3>2 DEF OtpInv, RateInv
  <2>3. QED BY <2>1, <2>2 DEF RateInv
<1>5. QED BY <1>1, <1>2, <1>3, <1>4 DEF OtpInv

LEMMA InsertInv == ASSUME OtpInv, NEW o \in Otp, Insert(o) PROVE OtpInv'
<1> USE VoiceOtpAssumption DEF Insert, callVars, guessVars, walletVars
<1>1. TypeOK'
  BY DEF OtpInv, TypeOK, Statuses
<1>2. /\ send[o] = "counted" /\ send'[o] \in {"placing", "refused"}
      /\ send'[o] = "placing" <=> row'[o] # "none"
      /\ row'[o] \in {"none", "calling"} /\ maxAttempts'[o] \in Nat
      /\ \A p \in Otp : p # o => /\ send'[p] = send[p] /\ row'[p] = row[p]
                                 /\ maxAttempts'[p] = maxAttempts[p]
  <2>1. row[o] = "none" /\ maxAttempts[o] \in Nat
    BY DEF OtpInv, TypeOK, SendInv, Sent
  <2>2. CASE balance > 0
    BY <2>1, <2>2 DEF OtpInv, TypeOK
  <2>3. CASE ~(balance > 0)
    BY <2>1, <2>3 DEF OtpInv, TypeOK
  <2>4. QED BY <2>2, <2>3
<1>3. \A g \in Guess : ~OnRow(g, o)
  BY <1>2 DEF OtpInv, ReadInv, OnRow, Sent
<1>4. ASSUME NEW p \in Otp PROVE SendInv(p)' /\ AloneInv(p)' /\ LastWordInv(p)'
  <2>1. SendInv(p)' /\ LastWordInv(p)'
    BY <1>2 DEF OtpInv, SendInv, LastWordInv, Settled, Sent
  <2>2. CASE p # o
    BY <1>2, <2>1, <2>2 DEF OtpInv, AloneInv, Settled, OnRow, Guessing
  <2>3. CASE p = o
    <3>1. o \notin raced => attempts[o] = 0 /\ accepted[o] = 0 /\ wrong[o] = 0
      BY <1>2 DEF OtpInv, SendInv, Sent
    <3>2. QED BY <1>2, <1>3, <2>1, <2>3, <3>1
              DEF AloneInv, Settled, OnRow, Guessing
  <2>4. QED BY <2>1, <2>2, <2>3
<1>5. ReadInv'
  BY <1>2 DEF OtpInv, ReadInv, Guessing, Sent
<1>6. RateInv'
  BY <1>2, MovesOn
<1>7. QED BY <1>1, <1>4, <1>5, <1>6 DEF OtpInv

\* The gateway dials: nothing but the phone changes.
LEMMA DialInv == ASSUME OtpInv, NEW o \in Otp, Dial(o) PROVE OtpInv'
<1> USE DEF Dial, guessVars, walletVars
<1>1. TypeOK'
  BY DEF OtpInv, TypeOK
<1>2. ASSUME NEW p \in Otp PROVE SendInv(p)' /\ AloneInv(p)' /\ LastWordInv(p)'
  <2>1. AloneInv(p)'
    BY DEF OtpInv, AloneInv, Settled, OnRow, Guessing
  <2>2. SendInv(p)' /\ LastWordInv(p)'
    BY DEF OtpInv, TypeOK, SendInv, LastWordInv, Settled, Sent
  <2>3. QED BY <2>1, <2>2
<1>3. ReadInv' /\ RateInv'
  BY KeepsRate DEF OtpInv, ReadInv, Guessing, Sent
<1>4. QED BY <1>1, <1>2, <1>3 DEF OtpInv

\* The rest of a send: the answer, what is written of it, and the debit.
LEMMA SenderInv ==
  ASSUME OtpInv, NEW o \in Otp,
         Placed(o) \/ WriteFailed(o) \/ WriteDelivered(o) \/ Charge(o)
  PROVE  OtpInv'
<1> USE VoiceOtpAssumption DEF callVars, guessVars, walletVars
<1>1. /\ UNCHANGED <<attempts, maxAttempts, callVars, old, guessVars, crossed>>
      /\ \A p \in Otp : p # o => /\ send'[p] = send[p] /\ row'[p] = row[p]
                                 /\ paid'[p] = paid[p]
      /\ \/ /\ send[o] = "placing" /\ send'[o] \in {"placed", "unplaced"}
            /\ send'[o] = "placed" => phone[o] # "none"
            /\ row'[o] = row[o] /\ paid'[o] = paid[o]
         \/ /\ send[o] = "unplaced" /\ send'[o] = "done"
            /\ row'[o] = "failed" /\ paid'[o] = paid[o]
         \/ /\ send[o] = "placed" /\ send'[o] = "charging"
            /\ row'[o] = "delivered" /\ paid'[o] = paid[o]
         \/ /\ send[o] = "charging" /\ send'[o] = "done" /\ row'[o] = row[o]
  <2>1. CASE Placed(o)
    BY <2>1 DEF Placed, OtpInv, TypeOK
  <2>2. CASE WriteFailed(o)
    BY <2>2 DEF WriteFailed, OtpInv, TypeOK
  <2>3. CASE WriteDelivered(o)
    BY <2>3 DEF WriteDelivered, OtpInv, TypeOK
  <2>4. CASE Charge(o)
    BY <2>4 DEF Charge, OtpInv, TypeOK
  <2>5. QED BY <2>1, <2>2, <2>3, <2>4
<1>2. TypeOK'
  <2>1. CASE Placed(o) \/ WriteFailed(o) \/ WriteDelivered(o)
    BY <2>1 DEF Placed, Fault, WriteFailed, WriteDelivered, OtpInv, TypeOK, Statuses
  <2>2. CASE Charge(o)
    <3>1. paid[o] = 0
      BY <2>2 DEF Charge, OtpInv, SendInv
    <3>2. balance' \in 0 .. Funds /\ paid' \in [Otp -> 0 .. 1]
      BY <2>2, <3>1 DEF Charge, OtpInv, TypeOK
    <3>3. QED BY <2>2, <3>2 DEF Charge, OtpInv, TypeOK
  <2>3. QED BY <2>1, <2>2
<1>3. ASSUME NEW p \in Otp PROVE SendInv(p)' /\ AloneInv(p)' /\ LastWordInv(p)'
  <2>1. CASE p # o
    BY <1>1, <2>1 DEF OtpInv, SendInv, AloneInv, LastWordInv, Sent, Settled,
                      OnRow, Guessing
  <2>2. CASE p = o
    <3>1. SendInv(o)'
      BY <1>1 DEF OtpInv, SendInv, Sent
    <3>2. AloneInv(o)'
      BY <1>1 DEF OtpInv, AloneInv, Settled, OnRow, Guessing
    <3>3. LastWordInv(o)'
      BY <1>1 DEF OtpInv, LastWordInv, Settled
    <3>4. QED BY <2>2, <3>1, <3>2, <3>3
  <2>3. QED BY <2>1, <2>2
<1>4. ReadInv' /\ RateInv'
  <2>1. \A p \in Otp : Sent(p) => Sent(p)'
    BY <1>1 DEF Sent
  <2>2. ReadInv'
    BY <1>1, <2>1 DEF OtpInv, ReadInv, Guessing
  <2>3. QED BY <1>1, <2>2, MovesOn
<1>5. QED BY <1>2, <1>3, <1>4 DEF OtpInv

-----------------------------------------------------------------------------
\* The call ends, or the password expires.
LEMMA PeopleInv == ASSUME OtpInv, NEW o \in Otp, People(o) PROVE OtpInv'
<1> USE DEF People, End, Expire, callVars, guessVars, walletVars
<1>1. TypeOK'
  BY DEF OtpInv, TypeOK
<1>2. ASSUME NEW p \in Otp PROVE SendInv(p)' /\ AloneInv(p)' /\ LastWordInv(p)'
  <2>1. AloneInv(p)'
    BY DEF OtpInv, AloneInv, Settled, OnRow, Guessing
  <2>2. SendInv(p)' /\ LastWordInv(p)'
    BY DEF OtpInv, TypeOK, SendInv, LastWordInv, Settled, Sent
  <2>3. QED BY <2>1, <2>2
<1>3. ReadInv' /\ RateInv'
  BY KeepsRate DEF OtpInv, ReadInv, Guessing, Sent
<1>4. QED BY <1>1, <1>2, <1>3 DEF OtpInv

\* The engine's report: it leaves a verified row alone.
LEMMA ReportInv == ASSUME OtpInv, NEW o \in Otp, Report(o) PROVE OtpInv'
<1> USE DEF guessVars, walletVars
<1>1. /\ UNCHANGED <<send, attempts, maxAttempts, phone, old, guessVars,
                     walletVars, crossed>>
      /\ report' = [report EXCEPT ![o] = "none"]
      /\ row' = row \/ row' = [row EXCEPT ![o] = row'[o]]
      /\ row'[o] = row[o] \/ (row[o] # "verified" /\ row'[o] \in
            {Inferred(report[o])})
      /\ misled \subseteq misled' /\ misled' \subseteq misled \cup {o}
      /\ lost' \in 0 .. MaxFaults
      /\ report[o] # "none"
  BY VoiceOtpAssumption DEF Report, MayReport, Fault, OtpInv, TypeOK
<1> Inferred(report[o]) \in {"delivered", "unanswered"}
  BY DEF Inferred
<1>2. /\ Sent(o) /\ row[o] # "none" /\ row'[o] # "none" /\ row' \in [Otp -> Statuses]
      /\ phone[o] = report[o]
      /\ \A p \in Otp : p # o => row'[p] = row[p]
  BY <1>1 DEF OtpInv, TypeOK, SendInv, Statuses
<1>3. TypeOK'
  BY <1>1, <1>2 DEF OtpInv, TypeOK
<1>4. ASSUME NEW p \in Otp PROVE SendInv(p)' /\ AloneInv(p)' /\ LastWordInv(p)'
  <2>1. CASE p # o
    BY <1>1, <1>2, <2>1 DEF OtpInv, TypeOK, SendInv, AloneInv, LastWordInv, Sent,
                            Settled, OnRow, Guessing
  <2>2. CASE p = o
    <3>1. SendInv(o)' /\ AloneInv(o)'
      BY <1>1, <1>2 DEF OtpInv, TypeOK, SendInv, AloneInv, Sent, Settled, OnRow,
                        Guessing
    <3>2. LastWordInv(o)'
      <4>1. CASE o \notin misled'
        <5>1. /\ send[o] \notin {"placing", "placed", "unplaced"}
              /\ row'[o] \in {"verified", Inferred(phone[o])}
          BY <1>1, <1>2, <4>1 DEF Report, MayReport, OtpInv, TypeOK
        <5>2. Settled(o)
          BY <1>2, <5>1 DEF OtpInv, TypeOK, Sent, Settled
        <5>3. QED BY <1>1, <5>1, <5>2 DEF LastWordInv, Settled
      <4>2. QED BY <1>1, <4>1 DEF LastWordInv
    <3>3. QED BY <2>2, <3>1, <3>2
  <2>3. QED BY <2>1, <2>2
<1>5. ReadInv' /\ RateInv'
  BY <1>1, KeepsRate DEF OtpInv, ReadInv, Guessing, Sent
<1>6. QED BY <1>3, <1>4, <1>5 DEF OtpInv

-----------------------------------------------------------------------------
\* A guess reads an open row; if anybody else is about to write it, it races.
LEMMA ReadStepInv ==
  ASSUME OtpInv, NEW g \in Guess, NEW o \in Otp, Read(g, o) PROVE OtpInv'
<1> USE DEF callVars, walletVars
<1>1. /\ UNCHANGED <<send, row, attempts, maxAttempts, callVars, old, accepted,
                     wrong, walletVars, crossed, lost>>
      /\ row[o] # "none"
  BY DEF Read
<1>2. CASE guess' = [guess EXCEPT ![g] = "done"] /\ UNCHANGED <<seen, raced>>
  <2>1. \A h \in Guess : Guessing(h)' => Guessing(h)
    BY <1>2 DEF OtpInv, TypeOK, Guessing
  <2>2. TypeOK'
    BY <1>1, <1>2 DEF OtpInv, TypeOK
  <2>3. ASSUME NEW p \in Otp PROVE SendInv(p)' /\ AloneInv(p)' /\ LastWordInv(p)'
    <3>1. SendInv(p)' /\ LastWordInv(p)'
      BY <1>1 DEF OtpInv, SendInv, LastWordInv, Settled, Sent
    <3>2. AloneInv(p)'
      BY <1>1, <1>2, <2>1 DEF OtpInv, AloneInv, Settled, OnRow
    <3>3. QED BY <3>1, <3>2
  <2>4. ReadInv'
    BY <1>1, <1>2, <2>1 DEF OtpInv, TypeOK, ReadInv, Guessing, Sent
  <2>5. QED BY <1>1, <2>2, <2>3, <2>4, KeepsRate DEF OtpInv
<1>3. CASE ~(guess' = [guess EXCEPT ![g] = "done"] /\ UNCHANGED <<seen, raced>>)
  <2>1. PICK outcome \in {"expiring", "right", "wrong"} :
          /\ guess' = [guess EXCEPT ![g] = outcome]
          /\ outcome # "expiring" => ~IsLocked(o)
    BY <1>3 DEF Read
  <2>2. /\ seen' = [seen EXCEPT ![g] =
                      [otp |-> o, status |-> row[o], attempts |-> attempts[o]]]
        /\ raced' = IF Contended(o) THEN raced \cup {o} ELSE raced
        /\ row[o] # "verified" /\ guess[g] = "idle"
    BY <1>3 DEF Read
  <2>3. /\ guess'[g] = outcome /\ seen'[g].otp = o /\ seen'[g].status = row[o]
        /\ seen'[g].attempts = attempts[o]
        /\ \A h \in Guess : h # g => guess'[h] = guess[h] /\ seen'[h] = seen[h]
    BY <2>1, <2>2 DEF OtpInv, TypeOK
  <2>4. TypeOK'
    <3>1. [otp |-> o, status |-> row[o], attempts |-> attempts[o]] \in
             [otp : Otp \cup {None}, status : Statuses, attempts : Nat]
      BY DEF OtpInv, TypeOK
    <3>2. QED BY <1>1, <2>1, <2>2, <3>1 DEF OtpInv, TypeOK
  <2>5. Sent(o)
    BY <1>1 DEF OtpInv, SendInv
  <2>6. ASSUME NEW p \in Otp PROVE SendInv(p)' /\ AloneInv(p)' /\ LastWordInv(p)'
    <3>1. SendInv(p)' /\ LastWordInv(p)'
      BY <1>1 DEF OtpInv, SendInv, LastWordInv, Settled, Sent
    <3>2. CASE p # o
      <4>1. \A h \in Guess : OnRow(h, p)' <=> OnRow(h, p)
        BY <2>2, <2>3, <3>2 DEF OnRow, Guessing
      <4>2. AloneInv(p)'
        BY <1>1, <2>2, <2>3, <3>2, <4>1 DEF OtpInv, AloneInv, Settled, OnRow
      <4>3. QED BY <3>1, <4>2
    <3>3. CASE p = o /\ Contended(o)
      BY <2>2, <3>1, <3>3 DEF AloneInv
    <3>4. CASE p = o /\ ~Contended(o)
      <4>1. /\ Settled(o) /\ \A h \in Guess : ~OnRow(h, o)
        BY <2>5, <3>4 DEF Contended, OnRow, Guessing, Sent, Settled, OtpInv, TypeOK
      <4>2. \A h \in Guess : OnRow(h, o)' => h = g
        BY <2>3, <4>1 DEF OnRow, Guessing
      <4>3. o \notin raced => row[o] # "calling" /\ accepted[o] = 0
        <5>1. accepted[o] \in Nat
          BY Counted DEF OtpInv
        <5>2. o \notin raced => /\ row[o] # "calling" /\ accepted[o] <= 1
                                /\ accepted[o] = 1 => row[o] = "verified"
          BY <4>1 DEF OtpInv, AloneInv
        <5>3. accepted[o] <= 1 => accepted[o] \in {0, 1}
          BY <5>1
        <5>4. QED BY <2>2, <5>2, <5>3
      <4>4. AloneInv(o)'
        BY <1>1, <2>2, <2>3, <3>4, <4>1, <4>2, <4>3
        DEF OtpInv, AloneInv, Settled, OnRow
      <4>5. QED BY <3>1, <3>4, <4>4
    <3>5. QED BY <3>2, <3>3, <3>4
  <2>7. ReadInv'
    <3>1. outcome # "expiring" => attempts[o] < maxAttempts[o]
      <4>1. attempts[o] \in Nat /\ maxAttempts[o] \in Nat
        BY Counted DEF OtpInv
      <4>2. QED BY <2>1, <4>1 DEF IsLocked
    <3>2. QED BY <1>1, <2>1, <2>2, <2>3, <2>5, <3>1
              DEF OtpInv, ReadInv, Guessing, Sent
  <2>8. QED BY <1>1, <2>4, <2>6, <2>7, KeepsRate DEF OtpInv
<1>4. QED BY <1>2, <1>3

\* It writes what came of it, whatever the row is by now.
LEMMA WriteInv ==
  ASSUME OtpInv, NEW g \in Guess,
         WriteExpired(g) \/ WriteVerified(g) \/ WriteMismatch(g)
  PROVE  OtpInv'
<1> USE DEF callVars, walletVars
<1>1. Guessing(g)
  BY DEF WriteExpired, WriteVerified, WriteMismatch, Guessing
<1> PICK o \in Otp : seen[g].otp = o
  BY <1>1 DEF OtpInv, ReadInv
<1>2. OnRow(g, o) /\ Sent(o) /\ seen[g].status \notin {"none", "verified"}
  BY <1>1 DEF OtpInv, ReadInv, OnRow
<1>3. /\ UNCHANGED <<send, maxAttempts, callVars, old, raced, walletVars,
                     crossed, lost>>
      /\ guess' = [guess EXCEPT ![g] = "done"]
      /\ seen' = [seen EXCEPT ![g] = Unread]
      /\ \A p \in Otp : p # o =>
           /\ row'[p] = row[p] /\ attempts'[p] = attempts[p]
           /\ accepted'[p] = accepted[p] /\ wrong'[p] = wrong[p]
      /\ row' \in [Otp -> Statuses] /\ attempts' \in [Otp -> Nat]
      /\ accepted' \in [Otp -> Nat] /\ wrong' \in [Otp -> Nat]
      /\ \/ /\ row'[o] \in {"expired", "verified"}
            /\ attempts'[o] = attempts[o] /\ wrong'[o] = wrong[o]
            /\ accepted'[o] = accepted[o] + (IF row'[o] = "verified" THEN 1 ELSE 0)
         \/ /\ row'[o] \in {"failed", seen[g].status} /\ guess[g] = "wrong"
            /\ attempts'[o] = seen[g].attempts + 1 /\ wrong'[o] = wrong[o] + 1
            /\ accepted'[o] = accepted[o]
  <2>1. CASE WriteExpired(g)
    BY <2>1 DEF WriteExpired, Write, OtpInv, TypeOK, Statuses
  <2>2. CASE WriteVerified(g)
    BY <2>2 DEF WriteVerified, Write, OtpInv, TypeOK, Statuses
  <2>3. CASE WriteMismatch(g)
    BY <2>3 DEF WriteMismatch, Write, OtpInv, TypeOK, Statuses
  <2>4. QED BY <2>1, <2>2, <2>3
<1>4. TypeOK'
  <2>1. Unread \in [otp : Otp \cup {None}, status : Statuses, attempts : Nat]
    BY DEF Unread, Statuses
  <2>2. QED BY <1>3, <2>1 DEF OtpInv, TypeOK
<1>5. \A h \in Guess : Guessing(h)' => Guessing(h) /\ h # g /\ seen'[h] = seen[h]
                                       /\ guess'[h] = guess[h]
  BY <1>3 DEF OtpInv, TypeOK, Guessing
<1>6. ASSUME NEW p \in Otp PROVE SendInv(p)' /\ AloneInv(p)' /\ LastWordInv(p)'
  <2>1. CASE p # o
    BY <1>3, <1>5, <2>1 DEF OtpInv, SendInv, AloneInv, LastWordInv, Sent, Settled,
                            OnRow
  <2>2. CASE p = o
    <3>1. SendInv(o)' /\ LastWordInv(o)'
      BY <1>2, <1>3 DEF OtpInv, TypeOK, SendInv, LastWordInv, Settled, Sent
    <3>2. AloneInv(o)'
      <4>1. SUFFICES ASSUME o \notin raced PROVE AloneInv(o)'
        BY <1>3 DEF AloneInv
      <4>2. /\ Settled(o) /\ accepted[o] = 0 /\ seen[g].attempts = attempts[o]
            /\ seen[g].status # "calling" /\ wrong[o] = attempts[o]
            /\ attempts[o] <= maxAttempts[o]
            /\ \A h \in Guess : OnRow(h, o) => h = g
        BY <1>2, <4>1 DEF OtpInv, AloneInv
      <4>3. \A h \in Guess : ~OnRow(h, o)'
        BY <1>5, <4>2 DEF OnRow
      <4>4. guess[g] = "wrong" => attempts[o] < maxAttempts[o]
        BY <1>1, <4>2 DEF OtpInv, ReadInv
      <4>5. attempts'[o] <= maxAttempts'[o] /\ wrong'[o] = attempts'[o]
        <5>1. attempts[o] \in Nat /\ maxAttempts[o] \in Nat
          BY Counted DEF OtpInv
        <5>2. maxAttempts'[o] = maxAttempts[o]
          BY <1>3
        <5>3. \/ attempts'[o] = attempts[o] /\ wrong'[o] = wrong[o]
              \/ /\ attempts[o] < maxAttempts[o]
                 /\ attempts'[o] = attempts[o] + 1 /\ wrong'[o] = wrong[o] + 1
          BY <1>3, <4>2, <4>4
        <5>4. QED BY <4>2, <5>1, <5>2, <5>3
      <4>6. QED BY <1>2, <1>3, <4>2, <4>3, <4>5 DEF AloneInv, Settled
    <3>3. QED BY <2>2, <3>1, <3>2
  <2>3. QED BY <2>1, <2>2
<1>7. ReadInv'
  BY <1>3, <1>5 DEF OtpInv, ReadInv, Sent
<1>8. QED BY <1>3, <1>4, <1>6, <1>7, KeepsRate DEF OtpInv

-----------------------------------------------------------------------------
LEMMA NextOtp == OtpInv /\ [Next]_vars => OtpInv'
<1> SUFFICES ASSUME OtpInv, [Next]_vars PROVE OtpInv'
  OBVIOUS
<1>1. ASSUME NEW o \in Otp, Send(o) \/ Report(o) \/ People(o) PROVE OtpInv'
  BY <1>1, CheckRateInv, InsertInv, DialInv, SenderInv, ReportInv, PeopleInv
  DEF Send
<1>2. ASSUME NEW g \in Guess, Check(g) PROVE OtpInv'
  BY <1>2, ReadStepInv, WriteInv DEF Check
<1>3. CASE UNCHANGED vars
  BY <1>3 DEF vars, callVars, guessVars, walletVars, OtpInv, TypeOK, SendInv,
              AloneInv, LastWordInv, ReadInv, RateInv, Sent, Spent, Settled, OnRow,
              Guessing
<1>4. QED BY <1>1, <1>2, <1>3 DEF Next

(* otp-service.ts:60-83: no more passwords are sent within the hour than the
   policy says, unless two requests counted at the same time. *)
THEOREM RateIsAlwaysKept == Spec => []RateIsKept
<1>1. OtpInv => RateIsKept
  <2> SUFFICES ASSUME OtpInv, ~crossed PROVE Cardinality(Rows) <= RateMaxPerHour
    BY DEF RateIsKept
  <2>1. Rows \subseteq Spent
    BY DEF OtpInv, SendInv, Rows, Spent
  <2>2. IsFiniteSet(Spent) /\ Cardinality(Spent) <= RateMaxPerHour
    BY DEF OtpInv, RateInv
  <2>3. /\ Cardinality(Rows) <= Cardinality(Spent)
        /\ Cardinality(Rows) \in Nat /\ Cardinality(Spent) \in Nat
    BY <2>1, <2>2, FS_Subset, FS_CardinalityType
  <2>4. QED BY <2>2, <2>3, VoiceOtpAssumption
<1>2. QED BY InitOtp, NextOtp, <1>1, PTL DEF Spec

(* otp-service.ts:234-253: a password is accepted once and compared with no more
   wrong guesses than the policy allows, but for guesses that overlap. *)
THEOREM CodeIsAlwaysGuarded == Spec => []CodeIsGuarded
<1>1. OtpInv => CodeIsGuarded
  <2> SUFFICES ASSUME OtpInv, NEW o \in Otp, o \notin raced
               PROVE  ~(accepted[o] > 1) /\ ~(wrong[o] > maxAttempts[o])
    BY DEF CodeIsGuarded, AcceptedOnce, GuessesAreCapped
  <2>1. /\ accepted[o] <= 1 /\ wrong[o] <= maxAttempts[o]
    <3>1. accepted[o] <= 1 /\ wrong[o] = attempts[o] /\ attempts[o] <= maxAttempts[o]
      BY DEF OtpInv, AloneInv
    <3>2. QED BY <3>1
  <2>2. /\ accepted[o] \in Nat /\ wrong[o] \in Nat /\ maxAttempts[o] \in Nat
    BY Counted DEF OtpInv
  <2>3. QED BY <2>1, <2>2
<1>2. QED BY InitOtp, NextOtp, <1>1, PTL DEF Spec

(* otp-service.ts:181-207, otp-call.ts:76-79: a password is charged only if it
   was dialled, the engine has the last word on how the call went, and it is not
   left "calling", but for the writes that cross. *)
THEOREM PasswordsAreAlwaysOK == Spec => []PasswordsOK
<1>1. OtpInv => PasswordsOK
  <2> SUFFICES ASSUME OtpInv PROVE PasswordsOK
    OBVIOUS
  <2>1. PaidWasDialled
    BY DEF OtpInv, SendInv, PaidWasDialled
  <2>2. EngineHasTheLastWord
    BY DEF OtpInv, TypeOK, LastWordInv, EngineHasTheLastWord
  <2>3. CallingIsDecided
    BY DEF OtpInv, AloneInv, Settled, CallingIsDecided
  <2>4. QED BY <2>1, <2>2, <2>3 DEF OtpInv, PasswordsOK
<1>2. QED BY InitOtp, NextOtp, <1>1, PTL DEF Spec
=============================================================================
