----------------------------- MODULE CachedFlag -----------------------------
(***************************************************************************)
(* What middleware.MaintenanceChecker promises: a flag, and an answer kept *)
(* for TTL ticks that was up whenever the flag was up when it was looked   *)
(* up.  Looking up is one step, and happens only when the answer is old.   *)
(***************************************************************************)
EXTENDS Naturals

CONSTANT TTL \* for how many ticks an answer is kept

VARIABLES
  flag,   \* the condition that has to be answered with TRUE
  answer, \* the answer given meanwhile
  sure,   \* the last look-up worked
  age     \* ticks since then; at TTL it is looked up again

Init ==
  /\ flag \in BOOLEAN /\ answer = FALSE
  /\ sure = TRUE /\ age = TTL

Change ==
  /\ flag' = ~ flag
  /\ UNCHANGED <<answer, sure, age>>

Tick ==
  /\ age < TTL /\ age' = age + 1
  /\ UNCHANGED <<flag, answer, sure>>

(* The answer may be up for another reason too.                            *)
LookUp ==
  /\ age = TTL /\ age' = 0
  /\ answer' \in {flag, TRUE} /\ sure' = TRUE
  /\ UNCHANGED flag

LookUpFails ==
  /\ age = TTL /\ age' = 0
  /\ answer' = FALSE /\ sure' = FALSE
  /\ UNCHANGED flag

Next == Change \/ Tick \/ LookUp \/ LookUpFails

Spec == Init /\ [][Next]_<<flag, answer, sure, age>>
=============================================================================
