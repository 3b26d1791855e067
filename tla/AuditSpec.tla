----------------------------- MODULE AuditSpec -----------------------------
(***************************************************************************)
(* What an audit of an address space promises, without the walk that       *)
(* delivers it.  The address space owes a set of reports (its mapped pages *)
(* that diverge from the grants) and is sound or not (its frames are       *)
(* mapped as their reference counts allow).  The audit reports what is     *)
(* owed and nothing else, changes neither, and ends in one of two ways: it *)
(* calls a sound space correct once everything owed is reported, or it     *)
(* stops the kernel on a space that is not sound.  While it runs the rest  *)
(* of the kernel changes nothing of what is owed, and by what it does to   *)
(* the frames the space shares it never makes a sound space unsound.       *)
(***************************************************************************)
VARIABLES
  owed,       \* the reports the audited address space calls for
  sound,      \* whether the address space passes every assertion
  report,     \* what has been reported
  verdict     \* "idle", "running", then "correct" or "fatal"

audited == <<owed, sound>>
vars    == <<owed, sound, report, verdict>>

Init == report = {} /\ verdict = "idle"

Begin ==
  /\ verdict = "idle"
  /\ verdict' = "running"
  /\ report' = {}
  /\ UNCHANGED audited

\* One more report, of something owed.
Report ==
  /\ verdict = "running"
  /\ report' # report /\ report \subseteq report' /\ report' \subseteq owed
  /\ UNCHANGED <<verdict, audited>>

\* "Consistency appears correct": nothing owed is left out.
Correct ==
  /\ verdict = "running" /\ sound /\ report = owed
  /\ verdict' = "correct"
  /\ UNCHANGED <<report, audited>>

\* An assertion fails, possibly after a last report.
Fatal ==
  /\ verdict = "running" /\ ~sound
  /\ verdict' = "fatal"
  /\ report \subseteq report' /\ report' \subseteq owed
  /\ UNCHANGED audited

\* The rest of the kernel takes a step.
Elsewhere ==
  /\ UNCHANGED <<report, verdict>>
  /\ verdict = "running" =>
       /\ owed' = owed
       /\ sound => sound'

Next == Begin \/ Report \/ Correct \/ Fatal \/ Elsewhere

Spec == Init /\ [][Next]_vars
=============================================================================
