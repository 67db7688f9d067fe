---------------------------- MODULE SeasonLifecycle ----------------------------
(***************************************************************************)
(* What the operations on a season's state promise: `season activate`,     *)
(* `observe` and `complete` set its status, `season pause` and `resume`    *)
(* its pause flag, heartbeats and the runtime's status are recorded, each  *)
(* at once and none with an effect on what the others are for.             *)
(***************************************************************************)

CONSTANT InitialStatus  \* season.status in the configuration

VARIABLES
  status,  \* the season's lifecycle status
  paused,  \* automatic wakes are paused
  beat,    \* how the last heartbeat went
  runtime  \* what `season start` last said of itself

Init ==
  /\ status = InitialStatus
  /\ paused = FALSE
  /\ beat = "none"
  /\ runtime = "none"

(* Only activation keeps a pause, and none keeps the runtime's status.     *)
Transition(s) ==
  /\ status' = s
  /\ paused' = (s = "active" /\ paused)
  /\ runtime' = "none"
  /\ UNCHANGED beat

SetPaused(flag) ==
  /\ paused' = flag
  /\ UNCHANGED <<status, beat, runtime>>

RecordBeat(b) ==
  /\ beat' = b
  /\ UNCHANGED <<status, paused, runtime>>

RecordRuntime(r) ==
  /\ runtime' = r
  /\ UNCHANGED <<status, paused, beat>>

Next ==
  \/ \E s \in {"active", "observing", "completed"} : Transition(s)
  \/ \E flag \in BOOLEAN : SetPaused(flag)
  \/ \E b \in {"running", "ok", "failed", "completed", "error"} : RecordBeat(b)
  \/ \E r \in {"running", "sleeping", "completed", "stopped", "interrupted"} :
       RecordRuntime(r)

Spec == Init /\ [][Next]_<<status, paused, beat, runtime>>
=============================================================================
