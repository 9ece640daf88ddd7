----------------------------- MODULE MCCallLog -----------------------------
(* Values for CallLog: a carrier that repeats its last report and sends one
   that says nothing of the status, an escalation, a call of the dialplan and
   one of the engine. *)
EXTENDS CallLog, TLC

CONSTANTS pickup, hangup, again, noise, dialed, escUp, escOver, pbxUp, pbxOver

MCCarrier == {pickup, hangup, again, noise}
MCStatusOf ==
  (pickup :> "answered") @@ (hangup :> "completed")
    @@ (noise :> "unsaid") @@ (again :> "completed") @@ (dialed :> "completed")
    @@ (escUp :> "answered") @@ (escOver :> "completed")
    @@ (pbxUp :> "answered") @@ (pbxOver :> "ended")
MCDurationOf ==
  [r \in DOMAIN MCStatusOf |->
     IF r \in {hangup, again, noise, dialed, pbxOver} THEN "some" ELSE "none"]
=============================================================================
