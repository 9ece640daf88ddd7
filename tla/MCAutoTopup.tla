---------------------------- MODULE MCAutoTopup ----------------------------
(* Top-ups of 43 (40 net of VAT in naira) and debits of 40 that cross a
   threshold of 15: a refill of 30 or of 43 follows each, and the second may
   be wanted while the first is still open. *)
EXTENDS AutoTopup, TLC

MCPlans ==
  {[threshold |-> 15, amount |-> 30], [threshold |-> 15, amount |-> 43]}
MCOnePlan == {[threshold |-> 15, amount |-> 30]}
MCCredits ==
  {[net |-> gross - vat, vat |-> vat] :
     gross \in {23, 30, 43}, vat \in {0, 1, 2, 3}}
MCFloors == {0, -5}
TasksAreAlike == Permutations(Workers) \cup Permutations(Keys)
=============================================================================
