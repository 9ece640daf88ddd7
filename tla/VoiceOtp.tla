------------------------------ MODULE VoiceOtp ------------------------------
(***************************************************************************)
(* One-time passwords read out over the phone                              *)
(* (server/utils/voice/otp-service.ts), for one workspace and one number.  *)
(* Sending a password counts the ones sent before, looks at the wallet,    *)
(* writes a row, asks the gateway for the call, writes what came of that,  *)
(* and debits the wallet.  Checking a guess reads the row and writes the   *)
(* outcome back.  The engine reports the end of the call                   *)
(* (control-app/src/otp-call.ts, call-log.ts).  None of it runs in a       *)
(* transaction: all of it interleaves at every query.                      *)
(*                                                                         *)
(* All passwords are sent within the hour, the time a rate is counted in.  *)
(* A cooldown refuses like a full hour, and sandboxes, which do not dial,  *)
(* and codes of the client's, which are not checked, are left out.         *)
(***************************************************************************)
EXTENDS Naturals, FiniteSets

CONSTANTS
  Otp, Guess, None,
  RateMaxPerHour,
  Policies,  \* the values the operator gives otpMaxAttempts
  Funds,     \* the wallet at first, in prices of a call
  MaxFaults  \* bound on lost answers and reports

ASSUME VoiceOtpAssumption ==
  /\ None \notin Otp
  /\ RateMaxPerHour \in Nat \ {0} /\ Policies \subseteq Nat \ {0}
  /\ Funds \in Nat /\ MaxFaults \in Nat

VARIABLES
  send,     \* what the request that sends a password is at
  row,      \* voice_otps.status
  attempts, \* voice_otps.attempts
  maxAttempts, \* voice_otps.max_attempts
  phone,    \* the call itself
  report,   \* what the engine is about to report of its end
  old,      \* passwords past their expiry
  guess,    \* what the request that checks a guess is at
  seen,     \* the row it has read
  balance,
  paid,     \* debits per password
  accepted, \* times a password was accepted (history)
  wrong,    \* wrong guesses that were compared with it (history)
  crossed,  \* two sends were between the count and the row (history)
  raced,    \* passwords whose row a guess read while others wrote it (history)
  misled,   \* passwords whose end was reported too early, or not at all (history)
  lost

callVars == <<phone, report, misled>>
guessVars == <<guess, seen, accepted, wrong, raced>>
walletVars == <<balance, paid>>
vars == <<send, row, attempts, maxAttempts, callVars, old, guessVars, walletVars, crossed, lost>>

Unread == [otp |-> None, status |-> "none", attempts |-> 0]

Init ==
  /\ send = [o \in Otp |-> "idle"] /\ row = [o \in Otp |-> "none"]
  /\ attempts = [o \in Otp |-> 0] /\ maxAttempts = [o \in Otp |-> 0]
  /\ phone = [o \in Otp |-> "none"]
  /\ report = [o \in Otp |-> "none"] /\ old = {}
  /\ guess = [g \in Guess |-> "idle"] /\ seen = [g \in Guess |-> Unread]
  /\ balance = Funds /\ paid = [o \in Otp |-> 0]
  /\ accepted = [o \in Otp |-> 0] /\ wrong = [o \in Otp |-> 0]
  /\ crossed = FALSE /\ raced = {} /\ misled = {} /\ lost = 0

Fault == lost < MaxFaults /\ lost' = lost + 1
Rows == {o \in Otp : row[o] # "none"}

-----------------------------------------------------------------------------
\* Mutant of HasRate: one more.
HasRateLoosely == Cardinality(Rows) <= RateMaxPerHour

\* checkRate
HasRate == Cardinality(Rows) < RateMaxPerHour

CheckRate(o) ==
  /\ send[o] = "idle"
  /\ \/ send' = [send EXCEPT ![o] = "refused"] /\ UNCHANGED crossed
     \/ /\ HasRate /\ send' = [send EXCEPT ![o] = "counted"]
        /\ crossed' = (crossed \/ \E p \in Otp : send[p] = "counted")
  /\ UNCHANGED <<row, attempts, maxAttempts, callVars, old, guessVars, walletVars, lost>>

\* The wallet must cover the call (canSpend); then the row is inserted.
Insert(o) ==
  /\ send[o] = "counted"
  /\ IF balance > 0
     THEN /\ send' = [send EXCEPT ![o] = "placing"] /\ row' = [row EXCEPT ![o] = "calling"]
          /\ \E cap \in Policies : maxAttempts' = [maxAttempts EXCEPT ![o] = cap]
     ELSE send' = [send EXCEPT ![o] = "refused"] /\ UNCHANGED <<row, maxAttempts>>
  /\ UNCHANGED <<attempts, callVars, old, guessVars, walletVars, crossed, lost>>

\* The gateway dials ...
Dial(o) ==
  /\ send[o] = "placing" /\ phone[o] = "none"
  /\ phone' = [phone EXCEPT ![o] = "dialled"]
  /\ UNCHANGED <<send, row, attempts, maxAttempts, report, misled, old, guessVars, walletVars, crossed, lost>>

\* ... and says so, unless it refuses or is not heard of in time.
Placed(o) ==
  /\ send[o] = "placing"
  /\ \/ phone[o] # "none" /\ send' = [send EXCEPT ![o] = "placed"] /\ UNCHANGED lost
     \/ Fault /\ send' = [send EXCEPT ![o] = "unplaced"]
  /\ UNCHANGED <<row, attempts, maxAttempts, callVars, old, guessVars, walletVars, crossed>>

\* Whatever the status is by now.
WriteFailed(o) ==
  /\ send[o] = "unplaced" /\ send' = [send EXCEPT ![o] = "done"]
  /\ row' = [row EXCEPT ![o] = "failed"]
  /\ UNCHANGED <<attempts, maxAttempts, callVars, old, guessVars, walletVars, crossed, lost>>

WriteDelivered(o) ==
  /\ send[o] = "placed" /\ send' = [send EXCEPT ![o] = "charging"]
  /\ row' = [row EXCEPT ![o] = "delivered"]
  /\ UNCHANGED <<attempts, maxAttempts, callVars, old, guessVars, walletVars, crossed, lost>>

\* The wallet's debit looks at the balance again; a call that cannot be paid
\* for any more has been placed and stays unpaid.
Charge(o) ==
  /\ send[o] = "charging" /\ send' = [send EXCEPT ![o] = "done"]
  /\ IF balance > 0
     THEN balance' = balance - 1 /\ paid' = [paid EXCEPT ![o] = @ + 1]
     ELSE UNCHANGED walletVars
  /\ UNCHANGED <<row, attempts, maxAttempts, callVars, old, guessVars, crossed, lost>>

Send(o) ==
  \/ CheckRate(o) \/ Insert(o) \/ Dial(o) \/ Placed(o)
  \/ WriteFailed(o) \/ WriteDelivered(o) \/ Charge(o)

-----------------------------------------------------------------------------
\* The call ends: answered or not, with the code read or not, fifteen seconds
\* or more after the engine was told to dial, or earlier.
End(o) ==
  /\ phone[o] = "dialled"
  /\ \E length \in {"long", "short"} :
       phone' = [phone EXCEPT ![o] = length] /\ report' = [report EXCEPT ![o] = length]
  /\ UNCHANGED <<send, row, attempts, maxAttempts, misled, old, guessVars, walletVars, crossed, lost>>

\* Mutant of MayReport: only a call the sender has not heard of is reported.
MayReportCalling(o) == row[o] = "calling"

\* "A verified code is left alone"
MayReport(o) == row[o] # "verified"

\* What the engine infers of a call from its length: "anything past fifteen has
\* had a full reading".  It knows busy, no_answer, rejected and failed apart.
Inferred(length) == IF length = "long" THEN "delivered" ELSE "unanswered"

\* reportOtpStatus
Report(o) ==
  /\ report[o] # "none" /\ report' = [report EXCEPT ![o] = "none"]
  /\ \/ /\ row' = IF MayReport(o)
                  THEN [row EXCEPT ![o] = Inferred(report[o])]
                  ELSE row
        /\ misled' = IF send[o] \in {"placing", "placed", "unplaced"} THEN misled \cup {o} ELSE misled
        /\ UNCHANGED lost
     \/ Fault /\ misled' = misled \cup {o} /\ UNCHANGED row
  /\ UNCHANGED <<send, attempts, maxAttempts, phone, old, guessVars, walletVars, crossed>>

Expire(o) ==
  /\ row[o] # "none" /\ o \notin old /\ old' = old \cup {o}
  /\ UNCHANGED <<send, row, attempts, maxAttempts, callVars, guessVars, walletVars, crossed, lost>>

-----------------------------------------------------------------------------
\* Somebody else reads or writes the row of o.
Contended(o) ==
  \/ send[o] \in {"placing", "placed", "unplaced"}
  \/ \E g \in Guess : guess[g] \in {"expiring", "right", "wrong"} /\ seen[g].otp = o

\* Mutant of IsLocked: one guess more.
IsLockedLate(o) == attempts[o] > maxAttempts[o]

\* attempts >= maxAttempts
IsLocked(o) == attempts[o] >= maxAttempts[o]

\* verifyVoiceOtp reads the row and decides: a password in use, or locked, is
\* refused at once ...
Read(g, o) ==
  /\ guess[g] = "idle" /\ row[o] # "none"
  /\ IF row[o] = "verified" \/ (o \notin old /\ IsLocked(o))
     THEN guess' = [guess EXCEPT ![g] = "done"] /\ UNCHANGED <<seen, raced>>
     ELSE /\ \E outcome \in (IF o \in old THEN {"expiring"} ELSE {"right", "wrong"}) :
               guess' = [guess EXCEPT ![g] = outcome]
          /\ seen' = [seen EXCEPT ![g] =
                [otp |-> o, status |-> row[o], attempts |-> attempts[o]]]
          /\ raced' = IF Contended(o) THEN raced \cup {o} ELSE raced
  /\ UNCHANGED <<send, row, attempts, maxAttempts, callVars, old, accepted, wrong, walletVars, crossed, lost>>

\* ... another's outcome is written, whatever the row is by now.
Write(g, status) ==
  /\ guess' = [guess EXCEPT ![g] = "done"] /\ seen' = [seen EXCEPT ![g] = Unread]
  /\ row' = [row EXCEPT ![seen[g].otp] = status]
  /\ UNCHANGED <<send, maxAttempts, callVars, old, raced, walletVars, crossed, lost>>

WriteExpired(g) ==
  guess[g] = "expiring" /\ Write(g, "expired") /\ UNCHANGED <<attempts, accepted, wrong>>

WriteVerified(g) ==
  /\ guess[g] = "right" /\ Write(g, "verified")
  /\ accepted' = [accepted EXCEPT ![seen[g].otp] = @ + 1] /\ UNCHANGED <<attempts, wrong>>

WriteMismatch(g) ==
  /\ guess[g] = "wrong"
  /\ LET tries == seen[g].attempts + 1
     IN /\ Write(g, IF tries >= maxAttempts[seen[g].otp] THEN "failed" ELSE seen[g].status)
        /\ attempts' = [attempts EXCEPT ![seen[g].otp] = tries]
  /\ wrong' = [wrong EXCEPT ![seen[g].otp] = @ + 1] /\ UNCHANGED accepted

Check(g) ==
  (\E o \in Otp : Read(g, o)) \/ WriteExpired(g) \/ WriteVerified(g) \/ WriteMismatch(g)
People(o) == End(o) \/ Expire(o)
Next == (\E o \in Otp : Send(o) \/ Report(o) \/ People(o)) \/ \E g \in Guess : Check(g)

Spec == Init /\ [][Next]_vars

-----------------------------------------------------------------------------
Statuses == {"none", "calling", "delivered", "failed", "unanswered", "expired", "verified"}

TypeOK ==
  /\ send \in [Otp -> {"idle", "counted", "placing", "placed", "unplaced",
                       "charging", "done", "refused"}]
  /\ row \in [Otp -> Statuses] /\ maxAttempts \in [Otp -> Policies \cup {0}]
  /\ attempts \in [Otp -> Nat]
  /\ phone \in [Otp -> {"none", "dialled", "long", "short"}]
  /\ report \in [Otp -> {"none", "long", "short"}]
  /\ old \subseteq Otp /\ guess \in [Guess -> {"idle", "expiring", "right", "wrong", "done"}]
  /\ seen \in [Guess -> [otp : Otp \cup {None}, status : Statuses, attempts : Nat]]
  /\ balance \in 0 .. Funds /\ paid \in [Otp -> 0 .. 1]
  /\ accepted \in [Otp -> Nat] /\ wrong \in [Otp -> Nat]
  /\ crossed \in BOOLEAN /\ raced \subseteq Otp /\ misled \subseteq Otp
  /\ lost \in 0 .. MaxFaults

(* otp-service.ts:60-83.  No more passwords are sent within the hour than the
   policy says, as long as no two requests count at the same time. *)
RateIsKept == crossed \/ Cardinality(Rows) <= RateMaxPerHour

(* otp-service.ts:234, "Code already used", and call-log.ts:303-306.  A
   password is accepted twice only when a guess read the row while another
   guess, or the request that sent it, was about to write it. *)
AcceptedOnce == \A o \in Otp : accepted[o] > 1 => o \in raced

(* otp-service.ts:3-4, "attempt-capped".  More wrong guesses than the policy
   allows are compared with a password only when guesses overlap: each writes
   the count it has read plus one. *)
GuessesAreCapped == \A o \in Otp : wrong[o] > maxAttempts[o] => o \in raced

(* otp-service.ts:234-253.  A password opens one door, and takes no more guesses
   than the policy allows, but for guesses that overlap. *)
CodeIsGuarded == AcceptedOnce /\ GuessesAreCapped

(* otp-service.ts:196-197, "Charged only once the call actually went out". *)
PaidWasDialled == \A o \in Otp : paid[o] > 0 => phone[o] # "none"

(* otp-call.ts:76-79: the row "was marked delivered the moment we dialled", and
   the engine reports the end to tell calls apart.  When all is written the row
   of a password nobody has entered says what the engine made of the call's
   length, and not what the sender had put there, unless the end was reported
   before the sender wrote, or not at all, or a guess found the password
   expired or wrote back what it had read.  That a long call was heard does not
   follow: a phone that rings for fifteen seconds makes it long. *)
EngineHasTheLastWord ==
  \A o \in Otp :
    send[o] = "done" /\ phone[o] \in {"long", "short"} /\ report[o] = "none"
      => \/ row[o] = Inferred(phone[o]) \/ row[o] \in {"verified", "expired"}
         \/ o \in misled \/ wrong[o] > 0

(* A password whose request is over is not left "calling", unless a wrong guess
   that read the row before the sender wrote it puts that back. *)
CallingIsDecided ==
  \A o \in Otp : send[o] = "done" /\ row[o] = "calling" => o \in raced

(* The row, the bill and the phone agree about a password (otp-service.ts:181-207,
   otp-call.ts:76-79): it is charged only if dialled, the engine has the last
   word on how the call went, and it is "calling" only while it is, but for
   writes that cross. *)
PasswordsOK == TypeOK /\ PaidWasDialled /\ EngineHasTheLastWord /\ CallingIsDecided
=============================================================================
