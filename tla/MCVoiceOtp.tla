----------------------------- MODULE MCVoiceOtp -----------------------------
(* Requests of one kind are alike: nothing orders passwords or guesses. *)
EXTENDS VoiceOtp, TLC

RequestsAreAlike == Permutations(Otp) \cup Permutations(Guess)
=============================================================================
