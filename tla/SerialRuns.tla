----------------------------- MODULE SerialRuns -----------------------------
(***************************************************************************)
(* What a session promises about its runs: they are taken one at a time,   *)
(* each gets one verdict, and the verdict stands before the next begins.   *)
(* A run is "withdrawn" when the user takes its record away.               *)
(***************************************************************************)
CONSTANTS Runs, NoRun

VARIABLES busy, verdict

Verdicts == {"completed", "failed", "aborted", "withdrawn"}

Init ==
  /\ busy = NoRun
  /\ verdict = [r \in Runs |-> "none"]

Start(r) ==
  /\ busy = NoRun
  /\ verdict[r] = "none"
  /\ busy' = r
  /\ UNCHANGED verdict

Decide(r) ==
  /\ busy = r
  /\ verdict[r] = "none"
  /\ \E v \in Verdicts : verdict' = [verdict EXCEPT ![r] = v]

\* A run ends with the verdict it has, or with the one it brings.
End(r) ==
  /\ busy = r
  /\ busy' = NoRun
  /\ \/ verdict[r] # "none" /\ UNCHANGED verdict
     \/ Decide(r)

Next ==
  \E r \in Runs : Start(r) \/ (Decide(r) /\ UNCHANGED busy) \/ End(r)

Spec == Init /\ [][Next]_<<busy, verdict>>
=============================================================================
