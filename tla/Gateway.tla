-------------------------------- MODULE Gateway --------------------------------
(***************************************************************************)
(* The gateway as processes: `up`, `down` and `restart`, the gateways they *)
(* start and stop, the read-API children of those, and the two files they  *)
(* all share, gateway.pid and gateway_state.json.  What a heartbeat does   *)
(* is modelled in SeasonControl; here it is one step that may take long.   *)
(*                                                                         *)
(* Python runs a signal handler in the main thread between two steps of    *)
(* it, so the handler may find a write of the state file half done - and   *)
(* it writes the same file, through a temporary file of the same name.     *)
(* One signal is handled at a time and its write is one step: the only     *)
(* other writer by then is the command that sent the signal, and it waits. *)
(***************************************************************************)
EXTENDS Naturals, FiniteSets

CONSTANTS
  Gateways,     \* pids of the gateway processes there may be
  Apis,         \* pids of the API children there may be
  None,         \* no pid
  Operators,    \* who issues commands
  Commands,     \* the commands they issue
  Overlap,      \* whether commands may be under way at the same time
  Faults,       \* what may fail
  MaxCommands,  \* bound: commands issued
  MaxFaults     \* bound: failures

AllCommands == {"up", "down", "restart"}
AllFaults == {"gateway",  \* a gateway is killed
              "api",      \* an API child dies
              "boot",     \* loading or activating the season raises
              "up",       \* a command is interrupted while it starts a gateway
              "down"}     \* or while it stops one

ASSUME GatewayConstants ==
  /\ None \notin Gateways \cup Apis
  /\ Commands \subseteq AllCommands
  /\ Overlap \in BOOLEAN
  /\ Faults \subseteq AllFaults
  /\ MaxCommands \in Nat /\ MaxFaults \in Nat

VARIABLES
  pidFile,  \* gateway.pid
  state,    \* gateway_state.json
  gw,       \* gw[g]: the gateway process with pid g
  api,      \* api[a]: "new", "up" or "dead"
  cmd,      \* cmd[o]: the command operator o is executing
  issued,   \* commands issued so far (bounded by MaxCommands)
  faults    \* failures so far (bounded by MaxFaults)

vars == <<pidFile, state, gw, api, cmd, issued, faults>>

(* What a gateway's writes are for; all but "api" write a status.          *)
Writes == {"starting", "running", "api", "sleeping", "completed", "error",
           "stopped", "crashed"}
Statuses == (Writes \ {"api"}) \cup {"none", "stopping", "force_stopped", "stop_failed"}
Record == [status : Statuses, api : Apis \cup {None}]

Loop == {"top", "tick"}
Deaf == {"spawned", "boot"}          \* signal.signal is still to come
Process ==
  [pc : Loop \cup Deaf \cup {"none", "write", "startApi", "activate", "ending",
                             "unlink", "dead"},
   what : Writes,                            \* the write under way,
   stage : {"load", "temp", "replace", "lost"},  \* how far it is
   rec : Record,                             \* and what it is to write
   api : Apis \cup {None},                   \* api_process
   sig : BOOLEAN,                            \* a SIGTERM is pending
   stop : BOOLEAN]                           \* stop_requested

UpPoints == {"look", "decide", "spawn", "record", "loadUp", "writeUp"}
DownPoints == {"apiPid", "pid", "alive", "signal", "wait", "kill", "api",
               "loadDown", "writeDown"}
Results == {"stopped", "stale_cleaned", "force_stopped", "stop_failed"}
Command ==
  [pc : UpPoints \cup DownPoints \cup {"idle"}, kind : AllCommands,
   pid : Gateways \cup {None}, api : Apis \cup {None}, rec : Record,
   result : Results]                    \* of stop_gateway

NoState == [status |-> "none", api |-> None]
NotStarted == [pc |-> "none", what |-> "starting", stage |-> "load", rec |-> NoState,
               api |-> None, sig |-> FALSE, stop |-> FALSE]
Idle == [pc |-> "idle", kind |-> "up", pid |-> None, api |-> None, rec |-> NoState,
         result |-> "stopped"]

Init ==
  /\ pidFile = None
  /\ state = NoState
  /\ gw = [g \in Gateways |-> NotStarted]
  /\ api = [a \in Apis |-> "new"]
  /\ cmd = [o \in Operators |-> Idle]
  /\ issued = 0
  /\ faults = 0

-----------------------------------------------------------------------------
Fault(f) == f \in Faults /\ faults < MaxFaults /\ faults' = faults + 1

Alive(g) == gw[g].pc \notin {"none", "dead"}
PidAlive(pid) == pid \in Gateways /\ Alive(pid)

At(g, point) == gw[g].pc = point
Become(g, p) == gw' = [gw EXCEPT ![g] = p]
Goto(g, point) == Become(g, [gw[g] EXCEPT !.pc = point])
Die(g) == Become(g, [NotStarted EXCEPT !.pc = "dead"])
StartWrite(g, what) ==
  Become(g, [gw[g] EXCEPT !.pc = "write", !.what = what, !.stage = "load", !.rec = NoState])

-----------------------------------------------------------------------------
(* The gateway: its own pid, the signal handlers, the API, the season.     *)

WritePid(g) ==
  /\ At(g, "spawned")
  /\ pidFile' = g
  /\ Goto(g, "boot")
  /\ UNCHANGED <<state, api, cmd, issued, faults>>

Listen(g) ==
  /\ At(g, "boot")
  /\ StartWrite(g, "starting")
  /\ UNCHANGED <<pidFile, state, api, cmd, issued, faults>>

(* _start_api_process: g goes on as p, with the child or without.          *)
ApiStarted(g, p) ==
  \/ \E a \in Apis : /\ api[a] = "new"
                     /\ api' = [api EXCEPT ![a] = "up"]
                     /\ Become(g, [p EXCEPT !.api = a])
  \/ Become(g, [p EXCEPT !.api = None]) /\ UNCHANGED api

StartApi(g) ==
  /\ At(g, "startApi")
  /\ ApiStarted(g, [gw[g] EXCEPT !.pc = "activate"])
  /\ UNCHANGED <<pidFile, state, cmd, issued, faults>>

Activate(g) ==
  /\ At(g, "activate")
  /\ StartWrite(g, "running")
  /\ UNCHANGED <<pidFile, state, api, cmd, issued, faults>>

ActivateRaises(g) ==
  /\ At(g, "activate")
  /\ Fault("boot")
  /\ StartWrite(g, "crashed")
  /\ UNCHANGED <<pidFile, state, api, cmd, issued>>

-----------------------------------------------------------------------------
(* The loop.  The seconds it sleeps between heartbeats pass at its top.    *)

ApiUp(g) == gw[g].api \in Apis /\ api[gw[g].api] = "up"

TopUnconditional(g) ==
  /\ At(g, "top")
  /\ \/ ApiUp(g) /\ Goto(g, "tick") /\ UNCHANGED api
     \/ /\ ~ApiUp(g)
        /\ ApiStarted(g, [gw[g] EXCEPT !.pc = "write", !.what = "api", !.stage = "load"])
  /\ UNCHANGED <<pidFile, state, cmd, issued, faults>>

Top(g) ==
  /\ At(g, "top")
  /\ \/ gw[g].stop /\ Goto(g, "ending") /\ UNCHANGED api
     \/ ~gw[g].stop /\ ApiUp(g) /\ Goto(g, "tick") /\ UNCHANGED api
     \/ /\ ~gw[g].stop /\ ~ApiUp(g)
        /\ ApiStarted(g, [gw[g] EXCEPT !.pc = "write", !.what = "api", !.stage = "load"])
  /\ UNCHANGED <<pidFile, state, cmd, issued, faults>>

(* The heartbeat: the season goes on, is completed, or the tick raises.    *)
Tick(g) ==
  /\ At(g, "tick")
  /\ \E what \in {"sleeping", "completed", "error"} : StartWrite(g, what)
  /\ UNCHANGED <<pidFile, state, api, cmd, issued, faults>>

EndApi(g) ==
  /\ At(g, "ending")
  /\ api' = IF ApiUp(g) THEN [api EXCEPT ![gw[g].api] = "dead"] ELSE api
  /\ StartWrite(g, "stopped")
  /\ UNCHANGED <<pidFile, state, cmd, issued, faults>>

(* Only its own pid file.                                                  *)
Unlink(g) ==
  /\ At(g, "unlink")
  /\ pidFile' = IF pidFile = g THEN None ELSE pidFile
  /\ Die(g)
  /\ UNCHANGED <<state, api, cmd, issued, faults>>

-----------------------------------------------------------------------------
(* _write_gateway_state: load, merge into a temporary file, replace.       *)

MergedOverstated(g) ==
  LET what == gw[g].what
  IN  [status |-> CASE what = "api" -> state.status
                    [] what = "error" -> "crashed"
                    [] OTHER -> what,
       api |-> CASE what \in {"starting", "crashed"} -> state.api
                 [] what = "stopped" -> None
                 [] OTHER -> gw[g].api]

MergedForgetful(g) ==
  LET what == gw[g].what
  IN  [status |-> IF what = "api" THEN state.status ELSE what,
       api |-> CASE what \in {"running", "api"} -> gw[g].api
                 [] what = "stopped" -> None
                 [] OTHER -> state.api]

(* The record a write makes of the one it loads.                           *)
Merged(g) ==
  LET what == gw[g].what
  IN  [status |-> IF what = "api" THEN state.status ELSE what,
       api |-> CASE what \in {"starting", "crashed"} -> state.api
                 [] what = "stopped" -> None
                 [] OTHER -> gw[g].api]

(* Where the gateway goes on after a write.                                *)
After(what) ==
  CASE what = "starting" -> "startApi"
    [] what \in {"running", "sleeping", "error"} -> "top"
    [] what = "api" -> "tick"
    [] what = "completed" -> "ending"
    [] what = "stopped" -> "unlink"

LoadState(g) ==
  /\ At(g, "write") /\ gw[g].stage = "load"
  /\ Become(g, [gw[g] EXCEPT !.rec = Merged(g), !.stage = "temp"])
  /\ UNCHANGED <<pidFile, state, api, cmd, issued, faults>>

WriteTemp(g) ==
  /\ At(g, "write") /\ gw[g].stage = "temp"
  /\ Become(g, [gw[g] EXCEPT !.stage = "replace"])
  /\ UNCHANGED <<pidFile, state, api, cmd, issued, faults>>

ReplaceState(g) ==
  /\ At(g, "write") /\ gw[g].stage = "replace"
  /\ state' = gw[g].rec
  /\ IF gw[g].what = "crashed"
       THEN Die(g)
       ELSE Become(g, [NotStarted EXCEPT !.pc = After(gw[g].what), !.api = gw[g].api,
                                         !.sig = gw[g].sig, !.stop = gw[g].stop])
  /\ UNCHANGED <<pidFile, api, cmd, issued, faults>>

(* The handler took the temporary file away: os.replace raises.  After a   *)
(* heartbeat the loop's own except clause answers, otherwise that of       *)
(* run_gateway_loop, which gives up, and so does the process if it fails.  *)
ReplaceRaises(g) ==
  /\ At(g, "write") /\ gw[g].stage = "lost"
  /\ CASE gw[g].what \in {"sleeping", "completed"} -> StartWrite(g, "error")
       [] gw[g].what = "crashed" -> Die(g)
       [] OTHER -> StartWrite(g, "crashed")
  /\ UNCHANGED <<pidFile, state, api, cmd, issued, faults>>

(* _request_stop                                                           *)
Handle(g) ==
  /\ Alive(g) /\ gw[g].sig
  /\ state' = [state EXCEPT !.status = "stopping"]
  /\ Become(g, [gw[g] EXCEPT !.sig = FALSE, !.stop = TRUE,
                             !.stage = IF @ = "replace" THEN "lost" ELSE @])
  /\ UNCHANGED <<pidFile, api, cmd, issued, faults>>

-----------------------------------------------------------------------------
(* The commands.                                                           *)

Doing(o, point) == cmd[o].pc = point
Proceed(o, c) == cmd' = [cmd EXCEPT ![o] = c]
Step(o, point) == Proceed(o, [cmd[o] EXCEPT !.pc = point])
Finish(o) == Proceed(o, Idle)

Issue(o, kind) ==
  /\ Doing(o, "idle")
  /\ Overlap \/ \A q \in Operators : Doing(q, "idle")
  /\ issued < MaxCommands
  /\ issued' = issued + 1
  /\ Proceed(o, [Idle EXCEPT !.kind = kind, !.pc = IF kind = "up" THEN "look" ELSE "apiPid"])
  /\ UNCHANGED <<pidFile, state, gw, api, faults>>

(* start_gateway *)
ReadPid(o) ==
  /\ Doing(o, "look")
  /\ Proceed(o, [cmd[o] EXCEPT !.pid = pidFile, !.pc = "decide"])
  /\ UNCHANGED <<pidFile, state, gw, api, issued, faults>>

(* A stale pid file is removed; then the doctor may still refuse.          *)
Decide(o) ==
  /\ Doing(o, "decide")
  /\ \/ PidAlive(cmd[o].pid) /\ Finish(o) /\ UNCHANGED pidFile
     \/ /\ ~PidAlive(cmd[o].pid)
        /\ pidFile' = IF cmd[o].pid = None THEN pidFile ELSE None
        /\ Step(o, "spawn") \/ Finish(o)
  /\ UNCHANGED <<state, gw, api, issued, faults>>

Spawn(o) ==
  /\ Doing(o, "spawn")
  /\ \E g \in Gateways :
       /\ At(g, "none")
       /\ Goto(g, "spawned")
       /\ Proceed(o, [cmd[o] EXCEPT !.pid = g, !.pc = "record"])
  /\ UNCHANGED <<pidFile, state, api, issued, faults>>

RecordPidNot(o) ==
  /\ Doing(o, "record")
  /\ Step(o, "loadUp")
  /\ UNCHANGED <<pidFile, state, gw, api, issued, faults>>

RecordPid(o) ==
  /\ Doing(o, "record")
  /\ pidFile' = cmd[o].pid
  /\ Step(o, "loadUp")
  /\ UNCHANGED <<state, gw, api, issued, faults>>

(* Whatever the new gateway has written since the load is overwritten.     *)
LoadUp(o) ==
  /\ Doing(o, "loadUp")
  /\ Proceed(o, [cmd[o] EXCEPT !.rec = [state EXCEPT !.status = "starting"],
                               !.pc = "writeUp"])
  /\ UNCHANGED <<pidFile, state, gw, api, issued, faults>>

WriteUp(o) ==
  /\ Doing(o, "writeUp")
  /\ state' = cmd[o].rec
  /\ Finish(o)
  /\ UNCHANGED <<pidFile, gw, api, issued, faults>>

(* stop_gateway *)
ReadApiPid(o) ==
  /\ Doing(o, "apiPid")
  /\ Proceed(o, [cmd[o] EXCEPT !.api = state.api, !.pc = "pid"])
  /\ UNCHANGED <<pidFile, state, gw, api, issued, faults>>

FindPid(o) ==
  /\ Doing(o, "pid")
  /\ Proceed(o, [cmd[o] EXCEPT !.pid = pidFile, !.result = "stopped",
                               !.pc = IF pidFile = None THEN "api" ELSE "alive"])
  /\ UNCHANGED <<pidFile, state, gw, api, issued, faults>>

CheckAlive(o) ==
  /\ Doing(o, "alive")
  /\ \/ PidAlive(cmd[o].pid) /\ Step(o, "signal") /\ UNCHANGED pidFile
     \/ /\ ~PidAlive(cmd[o].pid)
        /\ pidFile' = None
        /\ Proceed(o, [cmd[o] EXCEPT !.result = "stale_cleaned", !.pc = "api"])
  /\ UNCHANGED <<state, gw, api, issued, faults>>

(* A gateway without handlers dies of the signal; if it has died since it  *)
(* was seen alive, os.kill raises and the command ends there.              *)
Signal(o) ==
  /\ Doing(o, "signal")
  /\ LET g == cmd[o].pid
     IN  IF PidAlive(g)
           THEN /\ IF gw[g].pc \in Deaf THEN Die(g)
                                        ELSE Become(g, [gw[g] EXCEPT !.sig = TRUE])
                /\ Step(o, "wait")
           ELSE Finish(o) /\ UNCHANGED gw
  /\ UNCHANGED <<pidFile, state, api, issued, faults>>

Gone(o) ==
  /\ Doing(o, "wait")
  /\ ~PidAlive(cmd[o].pid)
  /\ pidFile' = None
  /\ Step(o, "api")
  /\ UNCHANGED <<state, gw, api, issued, faults>>

(* The deadline, which passes also when the gateway ends at the last moment. *)
Timeout(o) ==
  /\ Doing(o, "wait")
  /\ Step(o, "kill")
  /\ UNCHANGED <<pidFile, state, gw, api, issued, faults>>

KillTimid(o) ==
  /\ Doing(o, "kill")
  /\ pidFile' = None
  /\ Proceed(o, [cmd[o] EXCEPT !.result = IF PidAlive(cmd[o].pid) THEN "force_stopped"
                                                                  ELSE "stop_failed",
                               !.pc = "api"])
  /\ UNCHANGED <<state, gw, api, issued, faults>>

(* _kill_pid; it reports failure when there is nothing to kill.            *)
Kill(o) ==
  /\ Doing(o, "kill")
  /\ pidFile' = None
  /\ IF PidAlive(cmd[o].pid)
       THEN /\ Die(cmd[o].pid)
            /\ Proceed(o, [cmd[o] EXCEPT !.result = "force_stopped", !.pc = "api"])
       ELSE /\ UNCHANGED gw
            /\ Proceed(o, [cmd[o] EXCEPT !.result = "stop_failed", !.pc = "api"])
  /\ UNCHANGED <<state, api, issued, faults>>

(* What stop_gateway returns to; restart goes on unless the stop failed.   *)
Stopped(o) ==
  IF cmd[o].kind = "restart"
    THEN IF cmd[o].result = "stop_failed" THEN Finish(o)
         ELSE Proceed(o, [Idle EXCEPT !.kind = "restart", !.pc = "look"])
    ELSE Finish(o)

Forced(o) == cmd[o].result \in {"force_stopped", "stop_failed"}

TerminateApi(o) ==
  /\ Doing(o, "api")
  /\ api' = IF cmd[o].api = None THEN api
            ELSE [api EXCEPT ![cmd[o].api] = IF @ = "up" THEN "dead" ELSE @]
  /\ IF Forced(o) \/ cmd[o].api # None THEN Proceed(o, [cmd[o] EXCEPT !.api = None, !.pc = "loadDown"])
       ELSE Stopped(o)
  /\ UNCHANGED <<pidFile, state, gw, issued, faults>>

LoadDown(o) ==
  /\ Doing(o, "loadDown")
  /\ Proceed(o, [cmd[o] EXCEPT
       !.rec = [status |-> IF Forced(o) THEN cmd[o].result ELSE state.status, api |-> None],
       !.pc = "writeDown"])
  /\ UNCHANGED <<pidFile, state, gw, api, issued, faults>>

WriteDown(o) ==
  /\ Doing(o, "writeDown")
  /\ state' = cmd[o].rec
  /\ Stopped(o)
  /\ UNCHANGED <<pidFile, gw, api, issued, faults>>

-----------------------------------------------------------------------------
(* What may fail.                                                          *)

GatewayDies(g) ==
  /\ Alive(g)
  /\ Fault("gateway")
  /\ Die(g)
  /\ UNCHANGED <<pidFile, state, api, cmd, issued>>

(* Of itself, or because another one has the port.                         *)
ApiDies(a) ==
  /\ api[a] = "up"
  /\ \/ Fault("api")
     \/ (\E b \in Apis \ {a} : api[b] = "up") /\ UNCHANGED faults
  /\ api' = [api EXCEPT ![a] = "dead"]
  /\ UNCHANGED <<pidFile, state, gw, cmd, issued>>

Interrupt(o) ==
  /\ \/ cmd[o].pc \in UpPoints /\ Fault("up")
     \/ cmd[o].pc \in DownPoints /\ Fault("down")
  /\ Finish(o)
  /\ UNCHANGED <<pidFile, state, gw, api, issued>>

GatewayStep(g) ==
  \/ WritePid(g) \/ Listen(g) \/ StartApi(g) \/ Activate(g)
  \/ Top(g) \/ Tick(g) \/ EndApi(g) \/ Unlink(g)
  \/ LoadState(g) \/ WriteTemp(g) \/ ReplaceState(g) \/ ReplaceRaises(g)

Starting(o) ==
  \/ ReadPid(o) \/ Decide(o) \/ Spawn(o) \/ RecordPid(o) \/ LoadUp(o) \/ WriteUp(o)

Stopping(o) ==
  \/ ReadApiPid(o) \/ FindPid(o) \/ CheckAlive(o) \/ Signal(o) \/ Gone(o)
  \/ Timeout(o) \/ Kill(o) \/ TerminateApi(o) \/ LoadDown(o) \/ WriteDown(o)

Next ==
  \/ \E g \in Gateways : \/ GatewayStep(g) \/ Handle(g)
                         \/ ActivateRaises(g) \/ GatewayDies(g)
  \/ \E a \in Apis : ApiDies(a)
  \/ \E o \in Operators : \/ \E kind \in Commands : Issue(o, kind)
                          \/ Starting(o) \/ Stopping(o) \/ Interrupt(o)

Spec == Init /\ [][Next]_vars

(* Processes run, signals are delivered and heartbeats end.  Nobody need   *)
(* issue a command.                                                        *)
Fairness ==
  /\ \A g \in Gateways : WF_vars(GatewayStep(g)) /\ WF_vars(Handle(g))
  /\ \A o \in Operators : WF_vars(Starting(o) \/ Stopping(o))

FairSpec == Spec /\ Fairness

-----------------------------------------------------------------------------
(* Properties.                                                             *)

TypeOK ==
  /\ pidFile \in Gateways \cup {None}
  /\ state \in Record
  /\ gw \in [Gateways -> Process]
  /\ api \in [Apis -> {"new", "up", "dead"}]
  /\ cmd \in [Operators -> Command]
  /\ issued \in Nat
  /\ faults \in Nat

(* When no two commands overlap, two gateways never live at the same time, *)
(* whichever way the one before ended: two would run the same participants *)
(* from the same files.  (An `up` interrupted between spawning and writing *)
(* the pid is the exception.)                                              *)
SingleGateway ==
  \A g, h \in Gateways : Alive(g) /\ Alive(h) => g = h

(* A status that says the gateway has ended is never shown for one that is *)
(* in its loop, although the gateway, its signal handler, the command that *)
(* started it and the one that stops it all write the status.              *)
EndedMeansEnded ==
  state.status \in {"stopped", "crashed", "force_stopped", "stop_failed"}
    => \A g \in Gateways : gw[g].pc \notin Loop

(* Command o ends, of itself.                                              *)
Ends(o, kind) ==
  /\ cmd[o].kind = kind /\ cmd[o].pc # "idle" /\ cmd'[o].pc = "idle"
  /\ ~Interrupt(o)

(* When `down` returns, with whatever result, no gateway is left: also if  *)
(* it was still booting, ended by itself meanwhile or had to be killed.    *)
DownMeansDown ==
  [][\A o \in Operators :
       Ends(o, "down") => \A g \in Gateways : ~Alive(g)']_vars

(* The `up` command may write back a state file without the API's pid,     *)
(* which the gateway it started has recorded meanwhile.  While the gateway *)
(* lives, the pid is recorded again: `down` needs it to end the API.       *)
ApiRecordRepaired ==
  \A g \in Gateways :
    gw[g].pc \in Loop /\ state.api # gw[g].api
      ~> state.api = gw[g].api \/ ~Alive(g)

(* A gateway that was asked to stop ends by itself, wherever the signal    *)
(* found it, and also if the command that asked does not wait for it.      *)
AskedToStopStops ==
  \A g \in Gateways : Alive(g) /\ (gw[g].sig \/ gw[g].stop) ~> ~Alive(g)

(* When `down` returns, no API child is left either.                       *)
DownLeavesNoApi ==
  [][\A o \in Operators :
       Ends(o, "down") => \A a \in Apis : api'[a] # "up"]_vars

(* `down` says that stopping failed only if the gateway is still there.    *)
FailureIsReal ==
  [][\A o \in Operators :
       Ends(o, "down") /\ cmd[o].result = "stop_failed" => PidAlive(cmd[o].pid)]_vars

(* One request to stop does not make the gateway crash.                    *)
StopsWithoutCrash ==
  \A g \in Gateways : ~(At(g, "write") /\ gw[g].what = "crashed" /\ gw[g].stop)
=============================================================================
