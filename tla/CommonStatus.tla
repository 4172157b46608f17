---------------------------- MODULE CommonStatus ----------------------------
(***************************************************************************)
(* What builders, deployers and workflows have in common: the statuses,    *)
(* the history of rounds, and the reading of a status from a pod.  Pure    *)
(* operators over an object that is a record with (at least) the fields    *)
(* spec, phase (Status.Status), currentRound and history.                  *)
(***************************************************************************)
EXTENDS Integers, Sequences

\* "" is the status of an object whose reconciler has not written one.
Phases == {"", "UNDO", "Pending", "Doing", "Done", "Failed"}

HasStarted(phase) == phase \notin {"UNDO", "Pending"}

HashDone(phase) == phase \in {"Done", "Failed"}

\* BackupState: the round that ends is appended to the history, with its
\* status and with the spec the object has NOW; round 0 is no round.
BackedUp(object) ==
    IF object.currentRound = 0
      THEN object.history
      ELSE Append(object.history, [round |-> object.currentRound,
                                   phase |-> object.phase,
                                   spec |-> object.spec])

\* The life of a workload's pod.  "none": there is no workload; "nopod": the
\* workload exists and its pod does not yet.
PodStates == {"none", "nopod", "Pending", "Running", "Succeeded", "Failed", "Unknown"}

\* Mutant: whatever is not listed counts as Done.
PhaseOfPodDefaultDone ==
    [s \in PodStates |->
        CASE s \in {"none", "nopod", "Pending"} -> "Pending"
          [] s = "Running" -> "Doing"
          [] s = "Failed" -> "Failed"
          [] OTHER -> "Done"]

\* GetStatusFromPod: an unknown pod phase falls through the switch.
PhaseOfPod ==
    [s \in PodStates |->
        CASE s \in {"none", "nopod", "Pending"} -> "Pending"
          [] s = "Running" -> "Doing"
          [] s = "Succeeded" -> "Done"
          [] s = "Failed" -> "Failed"
          [] s = "Unknown" -> ""]

\* The moves of a pod, made by Kubernetes; a service's pod is replaced.
PodMoves(type) ==
    {<<"nopod", "Pending">>, <<"Pending", "Running">>, <<"Pending", "Failed">>,
     <<"Running", "Failed">>, <<"Running", "Unknown">>, <<"Unknown", "Running">>}
    \cup (IF type = "service" THEN {<<"Failed", "Pending">>}
                              ELSE {<<"Running", "Succeeded">>})
=============================================================================
