--------------------------- MODULE OrderedApply ---------------------------
(***************************************************************************)
(* What the streaming import promises, without goroutines, channels,       *)
(* batches, retries or restarts: change events are applied in groups, in   *)
(* any order that keeps an event after every earlier event it must follow, *)
(* and the cutover is detected only when everything before it is applied.  *)
(***************************************************************************)
EXTENDS CdcEvents

CONSTANT Logs

VARIABLES log, applied, cutoverDetected

vars == <<log, applied, cutoverDetected>>

Vsns == 1 .. Len(log)
DataVsns == {v \in Vsns : ~IsCutoverEvent(log[v])}

\* Earlier event f must be in the target before e: they change the same
\* partition, or f releases a unique value that e may take.
MustPrecede(f, e) ==
  /\ f < e
  /\ \/ GetEventPartitionKey(log[f]) = GetEventPartitionKey(log[e])
     \/ /\ shouldHandleConflicts
        /\ log[f].Op \in {"u", "d"} /\ log[e].Op \in {"c", "u"}
        /\ Conflicts(log[f], log[e])

OwnCutover(x) == x \in Vsns /\ log[x].Op = "cutover.own"

Init ==
  /\ log \in Logs
  /\ applied = {}
  /\ cutoverDetected = FALSE

ApplyGroup(S) ==
  /\ S \subseteq DataVsns
  /\ \A e \in S : \A f \in DataVsns : MustPrecede(f, e) => f \in applied \cup S
  /\ applied' = applied \cup S
  /\ UNCHANGED <<log, cutoverDetected>>

DetectCutover ==
  /\ \E x \in Vsns : OwnCutover(x) /\ (\A v \in DataVsns : v < x => v \in applied)
  /\ cutoverDetected' = TRUE
  /\ UNCHANGED <<log, applied>>

Next == (\E S \in SUBSET DataVsns : ApplyGroup(S)) \/ DetectCutover

Spec == Init /\ [][Next]_vars
=============================================================================
