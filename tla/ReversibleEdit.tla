--------------------------- MODULE ReversibleEdit ---------------------------
(***************************************************************************)
(* What unattended modification promises, with no loop, no rounds and no   *)
(* measure: a target is rewritten, every rewrite gets a verdict, a         *)
(* restored or declined target is never touched again, and a run does not  *)
(* end on a rewrite nobody judged.  ModifySpine implements it.             *)
(***************************************************************************)
CONSTANT Targets

VARIABLES status,    \* what became of each target
          finished   \* the run has returned its report

vars == <<status, finished>>

Statuses == {"untouched", "written", "kept", "restored", "declined"}

Set(t, s) == status' = [status EXCEPT ![t] = s]

Init ==
  /\ status = [t \in Targets |-> "untouched"]
  /\ finished = FALSE

\* A kept rewrite may be taken further: it is still eligible.
Write(t) ==
  /\ ~finished
  /\ status[t] \in {"untouched", "kept"}
  /\ Set(t, "written")
  /\ UNCHANGED finished

Decline(t) ==
  /\ ~finished
  /\ status[t] = "untouched"
  /\ Set(t, "declined")
  /\ UNCHANGED finished

Judge(t, verdict) ==
  /\ ~finished
  /\ status[t] = "written"
  /\ Set(t, verdict)
  /\ UNCHANGED finished

Finish ==
  /\ ~finished
  /\ \A t \in Targets : status[t] # "written"
  /\ finished' = TRUE
  /\ UNCHANGED status

Next ==
  \/ \E t \in Targets :
       \/ Write(t)
       \/ Decline(t)
       \/ Judge(t, "kept")
       \/ Judge(t, "restored")
  \/ Finish

Spec == Init /\ [][Next]_vars
=============================================================================
