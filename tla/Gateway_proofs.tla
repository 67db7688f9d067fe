---------------------------- MODULE Gateway_proofs ----------------------------
(***************************************************************************)
(* Proofs about Gateway for every set of processes and commands and every  *)
(* value of the bounds.                                                    *)
(***************************************************************************)
EXTENDS Gateway, TLAPS

-----------------------------------------------------------------------------
(* Type correctness.                                                       *)

LEMMA BecomeTyped ==
  ASSUME TypeOK, NEW g \in Gateways, NEW p \in Process, Become(g, p)
  PROVE  gw' \in [Gateways -> Process]
  BY DEF TypeOK, Become

LEMMA ProceedTyped ==
  ASSUME TypeOK, NEW o \in Operators, NEW c \in Command, Proceed(o, c)
  PROVE  cmd' \in [Operators -> Command]
  BY DEF TypeOK, Proceed

LEMMA Blank ==
  /\ NoState \in Record
  /\ NotStarted \in Process
  /\ Idle \in Command
  BY DEF NoState, NotStarted, Idle, Record, Process, Command, Statuses, Writes,
     Loop, Deaf, UpPoints, DownPoints, AllCommands, Results

Points == Loop \cup Deaf \cup {"none", "write", "startApi", "activate", "ending",
                               "unlink", "dead"}

LEMMA GotoTyped ==
  ASSUME TypeOK, NEW g \in Gateways, NEW point \in Points, Goto(g, point)
  PROVE  gw' \in [Gateways -> Process]
<1>1. [gw[g] EXCEPT !.pc = point] \in Process
  BY DEF TypeOK, Process, Points
<1> QED BY <1>1, BecomeTyped DEF Goto

LEMMA DieTyped ==
  ASSUME TypeOK, NEW g \in Gateways, Die(g)
  PROVE  gw' \in [Gateways -> Process]
<1>1. [NotStarted EXCEPT !.pc = "dead"] \in Process
  BY Blank DEF Process
<1> QED BY <1>1, BecomeTyped DEF Die

LEMMA StartWriteTyped ==
  ASSUME TypeOK, NEW g \in Gateways, NEW what \in Writes, StartWrite(g, what)
  PROVE  gw' \in [Gateways -> Process]
<1>1. [gw[g] EXCEPT !.pc = "write", !.what = what, !.stage = "load", !.rec = NoState]
        \in Process
  BY Blank DEF TypeOK, Process
<1> QED BY <1>1, BecomeTyped DEF StartWrite

LEMMA ApiStartedTyped ==
  ASSUME TypeOK, NEW g \in Gateways, NEW p \in Process, ApiStarted(g, p)
  PROVE  gw' \in [Gateways -> Process] /\ api' \in [Apis -> {"new", "up", "dead"}]
<1>1. \A a \in Apis \cup {None} : [p EXCEPT !.api = a] \in Process
  BY DEF Process
<1>2. CASE \E a \in Apis : /\ api' = [api EXCEPT ![a] = "up"]
                           /\ Become(g, [p EXCEPT !.api = a])
  BY <1>1, <1>2, BecomeTyped DEF TypeOK
<1>3. CASE Become(g, [p EXCEPT !.api = None]) /\ UNCHANGED api
  BY <1>1, <1>3, BecomeTyped DEF TypeOK
<1> QED BY <1>2, <1>3 DEF ApiStarted

LEMMA MergedTyped ==
  ASSUME TypeOK, NEW g \in Gateways PROVE Merged(g) \in Record
<1>1. gw[g].what \in Writes /\ gw[g].api \in Apis \cup {None} /\ state \in Record
  BY DEF TypeOK, Process
<1> QED BY <1>1 DEF Merged, Record, Statuses, Writes

(* A step of a gateway is well typed.                                      *)
LEMMA GatewayTyped ==
  ASSUME TypeOK, NEW g \in Gateways,
         GatewayStep(g) \/ Handle(g) \/ ActivateRaises(g) \/ GatewayDies(g)
  PROVE  TypeOK'
<1> USE DEF TypeOK
<1>0. gw[g] \in Process
  OBVIOUS
<1>1. CASE WritePid(g)
  BY <1>1, GotoTyped DEF WritePid, Points, Deaf
<1>2. CASE Listen(g)
  BY <1>2, StartWriteTyped DEF Listen, Writes
<1>3. CASE StartApi(g)
  <2>1. [gw[g] EXCEPT !.pc = "activate"] \in Process
    BY <1>0 DEF Process
  <2> QED BY <1>3, <2>1, ApiStartedTyped DEF StartApi
<1>4. CASE Activate(g)
  BY <1>4, StartWriteTyped DEF Activate, Writes
<1>5. CASE Top(g)
  <2>1. CASE Goto(g, "ending") /\ UNCHANGED api
    BY <1>5, <2>1, GotoTyped DEF Top, Points
  <2>2. CASE Goto(g, "tick") /\ UNCHANGED api
    BY <1>5, <2>2, GotoTyped DEF Top, Points, Loop
  <2>3. CASE ApiStarted(g, [gw[g] EXCEPT !.pc = "write", !.what = "api", !.stage = "load"])
    <3>1. [gw[g] EXCEPT !.pc = "write", !.what = "api", !.stage = "load"] \in Process
      BY <1>0 DEF Process, Writes
    <3> QED BY <1>5, <2>3, <3>1, ApiStartedTyped DEF Top
  <2> QED BY <1>5, <2>1, <2>2, <2>3 DEF Top
<1>6. CASE Tick(g)
  BY <1>6, StartWriteTyped DEF Tick, Writes
<1>7. CASE EndApi(g)
  <2>1. api' \in [Apis -> {"new", "up", "dead"}]
    BY <1>7 DEF EndApi
  <2> QED BY <1>7, <2>1, StartWriteTyped DEF EndApi, Writes
<1>8. CASE Unlink(g)
  BY <1>8, DieTyped DEF Unlink
<1>9. CASE LoadState(g)
  <2>1. [gw[g] EXCEPT !.rec = Merged(g), !.stage = "temp"] \in Process
    BY <1>0, MergedTyped DEF Process
  <2> QED BY <1>9, <2>1, BecomeTyped DEF LoadState
<1>10. CASE WriteTemp(g)
  <2>1. [gw[g] EXCEPT !.stage = "replace"] \in Process
    BY <1>0 DEF Process
  <2> QED BY <1>10, <2>1, BecomeTyped DEF WriteTemp
<1>11. CASE ReplaceState(g)
  <2>1. gw[g].rec \in Record /\ gw[g].what \in Writes
    BY <1>0 DEF Process
  <2>2. CASE gw[g].what = "crashed"
    BY <1>11, <2>1, <2>2, DieTyped DEF ReplaceState
  <2>3. CASE gw[g].what # "crashed"
    <3>1. After(gw[g].what) \in Points
      BY <2>1, <2>3 DEF After, Writes, Points, Loop
    <3>2. [NotStarted EXCEPT !.pc = After(gw[g].what), !.api = gw[g].api,
                             !.sig = gw[g].sig, !.stop = gw[g].stop] \in Process
      BY <1>0, <3>1, Blank DEF Process, Points
    <3> QED BY <1>11, <2>1, <2>3, <3>2, BecomeTyped DEF ReplaceState
  <2> QED BY <2>2, <2>3
<1>12. CASE ReplaceRaises(g)
  <2>1. \/ StartWrite(g, "error") \/ StartWrite(g, "crashed") \/ Die(g)
    BY <1>12 DEF ReplaceRaises
  <2> QED BY <1>12, <2>1, StartWriteTyped, DieTyped DEF ReplaceRaises, Writes
<1>13. CASE Handle(g)
  <2>1. [gw[g] EXCEPT !.sig = FALSE, !.stop = TRUE,
                      !.stage = IF @ = "replace" THEN "lost" ELSE @] \in Process
    BY <1>0 DEF Process
  <2>2. [state EXCEPT !.status = "stopping"] \in Record
    BY DEF Record, Statuses
  <2> QED BY <1>13, <2>1, <2>2, BecomeTyped DEF Handle
<1>14. CASE ActivateRaises(g)
  BY <1>14, StartWriteTyped DEF ActivateRaises, Writes, Fault
<1>15. CASE GatewayDies(g)
  BY <1>15, DieTyped DEF GatewayDies, Fault
<1> QED
  BY <1>1, <1>2, <1>3, <1>4, <1>5, <1>6, <1>7, <1>8, <1>9, <1>10, <1>11, <1>12,
     <1>13, <1>14, <1>15 DEF GatewayStep

LEMMA StepTyped ==
  ASSUME TypeOK, NEW o \in Operators, NEW point \in UpPoints \cup DownPoints, Step(o, point)
  PROVE  cmd' \in [Operators -> Command]
<1>1. [cmd[o] EXCEPT !.pc = point] \in Command
  BY DEF TypeOK, Command
<1> QED BY <1>1, ProceedTyped DEF Step

LEMMA FinishTyped ==
  ASSUME TypeOK, NEW o \in Operators, Finish(o)
  PROVE  cmd' \in [Operators -> Command]
  BY Blank, ProceedTyped DEF Finish

LEMMA StoppedTyped ==
  ASSUME TypeOK, NEW o \in Operators, Stopped(o)
  PROVE  cmd' \in [Operators -> Command]
<1>1. [Idle EXCEPT !.kind = "restart", !.pc = "look"] \in Command
  BY Blank DEF Command, AllCommands, UpPoints
<1> QED BY <1>1, FinishTyped, ProceedTyped DEF Stopped

(* A step of a command is well typed.                                      *)
LEMMA CommandTyped ==
  ASSUME TypeOK, NEW o \in Operators,
         Starting(o) \/ Stopping(o) \/ Interrupt(o) \/ (\E kind \in Commands : Issue(o, kind))
  PROVE  TypeOK'
<1> USE DEF TypeOK
<1>0. cmd[o] \in Command
  OBVIOUS
<1>1. CASE ReadPid(o)
  <2>1. [cmd[o] EXCEPT !.pid = pidFile, !.pc = "decide"] \in Command
    BY <1>0 DEF Command, UpPoints
  <2> QED BY <1>1, <2>1, ProceedTyped DEF ReadPid
<1>2. CASE Decide(o)
  <2>1. Finish(o) \/ Step(o, "spawn")
    BY <1>2 DEF Decide
  <2> QED BY <1>2, <2>1, FinishTyped, StepTyped DEF Decide, UpPoints
<1>3. CASE Spawn(o)
  <2>1. PICK g \in Gateways : /\ Goto(g, "spawned")
                              /\ Proceed(o, [cmd[o] EXCEPT !.pid = g, !.pc = "record"])
    BY <1>3 DEF Spawn
  <2>2. [cmd[o] EXCEPT !.pid = g, !.pc = "record"] \in Command
    BY <1>0 DEF Command, UpPoints
  <2> QED BY <1>3, <2>1, <2>2, ProceedTyped, GotoTyped DEF Spawn, Points, Deaf
<1>4. CASE RecordPid(o)
  <2>1. cmd[o].pid \in Gateways \cup {None}
    BY <1>0 DEF Command
  <2> QED BY <1>4, <2>1, StepTyped DEF RecordPid, UpPoints
<1>5. CASE LoadUp(o)
  <2>1. [cmd[o] EXCEPT !.rec = [state EXCEPT !.status = "starting"], !.pc = "writeUp"]
          \in Command
    BY <1>0 DEF Command, UpPoints, Record, Statuses, Writes
  <2> QED BY <1>5, <2>1, ProceedTyped DEF LoadUp
<1>6. CASE WriteUp(o)
  BY <1>0, <1>6, FinishTyped DEF WriteUp, Command
<1>7. CASE ReadApiPid(o)
  <2>1. [cmd[o] EXCEPT !.api = state.api, !.pc = "pid"] \in Command
    BY <1>0 DEF Command, DownPoints, Record
  <2> QED BY <1>7, <2>1, ProceedTyped DEF ReadApiPid
<1>8. CASE FindPid(o)
  <2>1. [cmd[o] EXCEPT !.pid = pidFile, !.result = "stopped",
                       !.pc = IF pidFile = None THEN "api" ELSE "alive"] \in Command
    BY <1>0 DEF Command, DownPoints, Results
  <2> QED BY <1>8, <2>1, ProceedTyped DEF FindPid
<1>9. CASE CheckAlive(o)
  <2>1. [cmd[o] EXCEPT !.result = "stale_cleaned", !.pc = "api"] \in Command
    BY <1>0 DEF Command, DownPoints, Results
  <2> QED BY <1>9, <2>1, ProceedTyped, StepTyped DEF CheckAlive, DownPoints
<1>10. CASE Signal(o)
  <2> DEFINE g == cmd[o].pid
  <2>1. CASE PidAlive(g) /\ gw[g].pc \in Deaf
    BY <1>10, <2>1, DieTyped, StepTyped DEF Signal, PidAlive, DownPoints
  <2>2. CASE PidAlive(g) /\ gw[g].pc \notin Deaf
    <3>0. g \in Gateways
      BY <2>2 DEF PidAlive
    <3>1. [gw[g] EXCEPT !.sig = TRUE] \in Process
      <4> HIDE DEF g
      <4>1. gw[g] \in Process
        BY <3>0
      <4> QED BY <4>1 DEF Process
    <3>2. /\ Become(g, [gw[g] EXCEPT !.sig = TRUE]) /\ Step(o, "wait")
          /\ UNCHANGED <<pidFile, state, api, issued, faults>>
      BY <1>10, <2>2 DEF Signal
    <3>3. gw' \in [Gateways -> Process]
      BY <3>0, <3>1, <3>2, BecomeTyped
    <3> QED BY <3>2, <3>3, StepTyped DEF DownPoints
  <2>3. CASE ~PidAlive(g)
    BY <1>10, <2>3, FinishTyped DEF Signal
  <2> QED BY <2>1, <2>2, <2>3
<1>11. CASE Gone(o)
  BY <1>11, StepTyped DEF Gone, DownPoints
<1>12. CASE Timeout(o)
  BY <1>12, StepTyped DEF Timeout, DownPoints
<1>13. CASE Kill(o)
  <2>1. /\ [cmd[o] EXCEPT !.result = "force_stopped", !.pc = "api"] \in Command
        /\ [cmd[o] EXCEPT !.result = "stop_failed", !.pc = "api"] \in Command
    BY <1>0 DEF Command, DownPoints, Results
  <2> QED BY <1>13, <2>1, ProceedTyped, DieTyped DEF Kill, PidAlive
<1>14. CASE TerminateApi(o)
  <2>1. cmd[o].api \in Apis \cup {None}
    BY <1>0 DEF Command
  <2>2. api' \in [Apis -> {"new", "up", "dead"}]
    BY <1>14, <2>1 DEF TerminateApi
  <2>3. [cmd[o] EXCEPT !.api = None, !.pc = "loadDown"] \in Command
    BY <1>0 DEF Command, DownPoints
  <2> QED BY <1>14, <2>2, <2>3, ProceedTyped, StoppedTyped DEF TerminateApi
<1>15. CASE LoadDown(o)
  <2>1. [status |-> IF Forced(o) THEN cmd[o].result ELSE state.status, api |-> None] \in Record
    BY DEF Forced, Record, Statuses
  <2>2. [cmd[o] EXCEPT
          !.rec = [status |-> IF Forced(o) THEN cmd[o].result ELSE state.status, api |-> None],
          !.pc = "writeDown"] \in Command
    BY <1>0, <2>1 DEF Command, DownPoints
  <2> QED BY <1>15, <2>2, ProceedTyped DEF LoadDown
<1>16. CASE WriteDown(o)
  BY <1>0, <1>16, StoppedTyped DEF WriteDown, Command
<1>17. CASE Interrupt(o)
  BY <1>17, FinishTyped DEF Interrupt, Fault
<1>18. CASE \E kind \in Commands : Issue(o, kind)
  <2>1. PICK kind \in Commands : Issue(o, kind)
    BY <1>18
  <2>2. kind \in AllCommands
    BY GatewayConstants
  <2>3. [Idle EXCEPT !.kind = kind, !.pc = IF kind = "up" THEN "look" ELSE "apiPid"] \in Command
    <3>1. Idle \in Command
      BY Blank
    <3> QED BY <2>2, <3>1 DEF Command, UpPoints, DownPoints
  <2>4. cmd' \in [Operators -> Command]
    BY <2>1, <2>3, ProceedTyped DEF Issue
  <2>5. issued' = issued + 1 /\ UNCHANGED <<pidFile, state, gw, api, faults>>
    BY <2>1 DEF Issue
  <2> QED BY <2>4, <2>5
<1> QED
  BY <1>1, <1>2, <1>3, <1>4, <1>5, <1>6, <1>7, <1>8, <1>9, <1>10, <1>11, <1>12,
     <1>13, <1>14, <1>15, <1>16, <1>17, <1>18 DEF Starting, Stopping

(* Every reachable state is well typed.                                    *)
THEOREM TypeCorrect == Spec => []TypeOK
<1>1. Init => TypeOK
  BY Blank DEF Init, TypeOK
<1>2. TypeOK /\ [Next]_vars => TypeOK'
  <2> SUFFICES ASSUME TypeOK, [Next]_vars PROVE TypeOK'
    OBVIOUS
  <2>1. CASE \E a \in Apis : ApiDies(a)
    BY <2>1 DEF ApiDies, Fault, TypeOK
  <2>2. CASE UNCHANGED vars
    BY <2>2 DEF vars, TypeOK
  <2> QED BY <2>1, <2>2, GatewayTyped, CommandTyped DEF Next
<1> QED BY <1>1, <1>2, PTL DEF Spec

-----------------------------------------------------------------------------
(* One gateway at a time.  The file names whatever gateway lives, but for  *)
(* the moment between spawning and recording it; a command that has read   *)
(* or spawned a pid holds it too; and from the moment a command has seen   *)
(* the last gateway gone until it spawns the next, there is none.          *)

Holding == {"decide", "alive", "signal", "wait", "kill", "record"}
Clear == {"spawn", "api", "loadDown", "writeDown"}

OneCommand == \A o, q \in Operators : o = q \/ Doing(o, "idle") \/ Doing(q, "idle")

SingleInv ==
  /\ OneCommand
  /\ \A o \in Operators, g \in Gateways :
       Alive(g) => /\ cmd[o].pc \in Holding => cmd[o].pid = g
                   /\ cmd[o].pc \notin Clear
  /\ (\A o \in Operators : cmd[o].pc # "record")
       => \A g \in Gateways : Alive(g) => pidFile = g

(* What the properties are about: commands one at a time, and none is      *)
(* interrupted while it starts a gateway.                                  *)
Careful == Overlap = FALSE /\ "up" \notin Faults

LEMMA SingleFromInv == SingleInv => SingleGateway
<1> SUFFICES ASSUME SingleInv, NEW g \in Gateways, NEW h \in Gateways,
                    Alive(g), Alive(h)
             PROVE  g = h
  BY DEF SingleGateway
<1>1. CASE \A o \in Operators : cmd[o].pc # "record"
  BY <1>1 DEF SingleInv
<1>2. CASE \E o \in Operators : cmd[o].pc = "record"
  BY <1>2 DEF SingleInv, Holding
<1> QED BY <1>1, <1>2

(* Where a gateway goes nobody comes alive.                                *)
LEMMA BecomeAlive ==
  ASSUME TypeOK, NEW g \in Gateways, NEW p, Become(g, p), Alive(g),
         NEW h \in Gateways, Alive(h)'
  PROVE  Alive(h)
  BY DEF TypeOK, Become, Alive

(* A gateway's own steps: no other comes alive, and the pid file changes   *)
(* only to the gateway's own pid, or when it ends.                         *)
LEMMA GatewaySingle ==
  ASSUME TypeOK, SingleInv, NEW g \in Gateways,
         GatewayStep(g) \/ Handle(g) \/ ActivateRaises(g) \/ GatewayDies(g)
  PROVE  SingleInv'
<1>1. Alive(g) /\ UNCHANGED cmd
  BY DEF GatewayStep, Handle, ActivateRaises, GatewayDies, Alive, At,
     WritePid, Listen, StartApi, Activate, Top, Tick, EndApi, Unlink,
     LoadState, WriteTemp, ReplaceState, ReplaceRaises
<1>2. \E p : Become(g, p)
  BY DEF GatewayStep, Handle, ActivateRaises, GatewayDies, Goto, Die, StartWrite,
     WritePid, Listen, StartApi, Activate, Top, Tick, EndApi, Unlink, ApiStarted,
     LoadState, WriteTemp, ReplaceState, ReplaceRaises
<1>3. \/ UNCHANGED pidFile
      \/ pidFile' = g
      \/ ~Alive(g)'
  <2>1. CASE Unlink(g)
    BY <2>1 DEF Unlink, Die, Become, Alive, TypeOK, NotStarted
  <2> QED
    BY <2>1 DEF GatewayStep, Handle, ActivateRaises, GatewayDies,
       WritePid, Listen, StartApi, Activate, Top, Tick, EndApi,
       LoadState, WriteTemp, ReplaceState, ReplaceRaises
<1>4. \A h \in Gateways : Alive(h)' => Alive(h)
  BY <1>1, <1>2, BecomeAlive
<1>5. \A h \in Gateways : Alive(h) => h = g
  BY <1>1, SingleFromInv DEF SingleGateway
<1>6. OneCommand'
  BY <1>1 DEF SingleInv, OneCommand, Doing
<1> QED BY <1>1, <1>3, <1>4, <1>5, <1>6 DEF SingleInv

LEMMA OnlyOneBusy ==
  ASSUME TypeOK, OneCommand, NEW o \in Operators, NEW c, Proceed(o, c),
         ~Doing(o, "idle") \/ (\A q \in Operators : Doing(q, "idle"))
  PROVE  /\ OneCommand'
         /\ \A q \in Operators \ {o} : cmd'[q].pc = "idle" /\ cmd[q].pc = "idle"
         /\ cmd'[o] = c
  BY DEF TypeOK, OneCommand, Proceed, Doing

(* What a step of command o has to establish.                              *)
LEMMA CommandSingle ==
  ASSUME TypeOK, SingleInv, NEW o \in Operators, NEW c, Proceed(o, c),
         ~Doing(o, "idle") \/ (\A q \in Operators : Doing(q, "idle")),
         \A g \in Gateways : Alive(g)' =>
           /\ c.pc \in Holding => c.pid = g
           /\ c.pc \notin Clear
           /\ c.pc # "record" => pidFile' = g
  PROVE  SingleInv'
<1>1. /\ OneCommand'
      /\ \A q \in Operators \ {o} : cmd'[q].pc = "idle" /\ cmd[q].pc = "idle"
      /\ cmd'[o] = c
  BY OnlyOneBusy DEF SingleInv
<1>2. ASSUME NEW q \in Operators, NEW g \in Gateways, Alive(g)'
      PROVE  /\ cmd'[q].pc \in Holding => cmd'[q].pid = g
             /\ cmd'[q].pc \notin Clear
  BY <1>1, <1>2 DEF Holding, Clear
<1>3. ASSUME \A q \in Operators : cmd'[q].pc # "record", NEW g \in Gateways, Alive(g)'
      PROVE  pidFile' = g
  BY <1>1, <1>3
<1> QED BY <1>1, <1>2, <1>3 DEF SingleInv

LEMMA Found ==
  ASSUME SingleInv, NEW o \in Operators, cmd[o].pc # "record",
         ~Doing(o, "idle") \/ (\A q \in Operators : Doing(q, "idle")),
         NEW g \in Gateways, Alive(g)
  PROVE  pidFile = g
<1>1. \A q \in Operators : cmd[q].pc # "record"
  BY DEF SingleInv, OneCommand, Doing
<1> QED BY <1>1 DEF SingleInv

LEMMA SameAlive ==
  ASSUME UNCHANGED gw PROVE \A g \in Gateways : Alive(g)' = Alive(g)
  BY DEF Alive

LEMMA DieAlive ==
  ASSUME TypeOK, NEW g \in Gateways, Die(g), NEW h \in Gateways, Alive(h)'
  PROVE  h # g /\ Alive(h)
  BY DEF TypeOK, Die, Become, Alive

(* A command that goes on without holding a pid, while the gateways and    *)
(* the file stay as they are.                                              *)
LEMMA PlainStep ==
  ASSUME TypeOK, SingleInv, NEW o \in Operators, NEW c, Proceed(o, c), UNCHANGED <<pidFile, gw>>,
         c.pc \notin Holding \cup Clear, cmd[o].pc # "record",
         ~Doing(o, "idle") \/ (\A q \in Operators : Doing(q, "idle"))
  PROVE  SingleInv'
<1>1. \A g \in Gateways : Alive(g)' => pidFile' = g
  BY SameAlive, Found
<1> QED BY <1>1, CommandSingle

(* A command that goes on when no gateway lives.                           *)
LEMMA EmptyStep ==
  ASSUME TypeOK, SingleInv, NEW o \in Operators, NEW c, Proceed(o, c), ~Doing(o, "idle"),
         \A g \in Gateways : ~Alive(g)'
  PROVE  SingleInv'
  BY CommandSingle

LEMMA StoppedProceeds ==
  ASSUME NEW o \in Operators, Stopped(o) PROVE \E c : Proceed(o, c)
  BY DEF Stopped, Finish

LEMMA StartingSingle ==
  ASSUME TypeOK, SingleInv, NEW o \in Operators, Starting(o)
  PROVE  SingleInv'
<1> USE DEF Doing
<1>1. CASE ReadPid(o)
  <2> DEFINE c == [cmd[o] EXCEPT !.pid = pidFile, !.pc = "decide"]
  <2>1. c.pc = "decide" /\ c.pid = pidFile
    BY DEF TypeOK, Command
  <2>2. \A g \in Gateways : Alive(g)' => pidFile = g
    BY <1>1, SameAlive, Found DEF ReadPid
  <2> HIDE DEF c
  <2>3. Proceed(o, c) /\ UNCHANGED pidFile /\ ~Doing(o, "idle")
    BY <1>1 DEF ReadPid, c
  <2> QED BY <2>1, <2>2, <2>3, CommandSingle DEF Clear
<1>2. CASE Decide(o)
  <2>1. CASE PidAlive(cmd[o].pid)
    <3>1. Proceed(o, Idle) /\ UNCHANGED <<pidFile, gw>>
      BY <1>2, <2>1 DEF Decide, Finish
    <3> QED BY <1>2, <3>1, PlainStep DEF Decide, Idle, Holding, Clear
  <2>2. CASE ~PidAlive(cmd[o].pid)
    <3>1. \A g \in Gateways : ~Alive(g)'
      BY <1>2, <2>2, SameAlive DEF Decide, PidAlive, SingleInv, Holding
    <3>2. \E c : Proceed(o, c)
      BY <1>2, <2>2 DEF Decide, Finish, Step
    <3> QED BY <1>2, <3>1, <3>2, EmptyStep DEF Decide
  <2> QED BY <2>1, <2>2
<1>3. CASE Spawn(o)
  <2>1. PICK g \in Gateways : /\ Goto(g, "spawned")
                              /\ Proceed(o, [cmd[o] EXCEPT !.pid = g, !.pc = "record"])
    BY <1>3 DEF Spawn
  <2> DEFINE c == [cmd[o] EXCEPT !.pid = g, !.pc = "record"]
  <2>2. c.pc = "record" /\ c.pid = g
    BY DEF TypeOK, Command
  <2>3. ASSUME NEW h \in Gateways, Alive(h)' PROVE h = g
    <3>1. ~Alive(h)
      BY <1>3 DEF Spawn, SingleInv, Clear
    <3> QED BY <2>1, <2>3, <3>1 DEF Goto, Become, Alive, TypeOK
  <2> HIDE DEF c
  <2>4. Proceed(o, c) /\ ~Doing(o, "idle")
    BY <1>3, <2>1 DEF Spawn, c
  <2> QED BY <2>2, <2>3, <2>4, CommandSingle DEF Clear
<1>4. CASE RecordPid(o)
  <2> DEFINE c == [cmd[o] EXCEPT !.pc = "loadUp"]
  <2>1. c.pc = "loadUp"
    BY DEF TypeOK, Command
  <2>2. \A g \in Gateways : Alive(g)' => pidFile' = g
    BY <1>4, SameAlive DEF RecordPid, SingleInv, Holding
  <2> HIDE DEF c
  <2>3. Proceed(o, c) /\ ~Doing(o, "idle")
    BY <1>4 DEF RecordPid, Step, c
  <2> QED BY <2>1, <2>2, <2>3, CommandSingle DEF Clear, Holding
<1>5. CASE LoadUp(o)
  <2> DEFINE c == [cmd[o] EXCEPT !.rec = [state EXCEPT !.status = "starting"],
                                 !.pc = "writeUp"]
  <2>1. c.pc = "writeUp"
    BY DEF TypeOK, Command
  <2> HIDE DEF c
  <2>2. Proceed(o, c) /\ UNCHANGED <<pidFile, gw>> /\ ~Doing(o, "idle") /\ cmd[o].pc # "record"
    BY <1>5 DEF LoadUp, c
  <2> QED BY <2>1, <2>2, PlainStep DEF Clear, Holding
<1>6. CASE WriteUp(o)
  BY <1>6, PlainStep DEF WriteUp, Finish, Idle, Clear, Holding
<1> QED BY <1>1, <1>2, <1>3, <1>4, <1>5, <1>6 DEF Starting

LEMMA StoppingSingle ==
  ASSUME TypeOK, SingleInv, NEW o \in Operators, Stopping(o)
  PROVE  SingleInv'
<1> USE DEF Doing
<1>1. CASE ReadApiPid(o)
  <2> DEFINE c == [cmd[o] EXCEPT !.api = state.api, !.pc = "pid"]
  <2>1. c.pc = "pid"
    BY DEF TypeOK, Command
  <2> HIDE DEF c
  <2>2. Proceed(o, c) /\ UNCHANGED <<pidFile, gw>> /\ ~Doing(o, "idle") /\ cmd[o].pc # "record"
    BY <1>1 DEF ReadApiPid, c
  <2> QED BY <2>1, <2>2, PlainStep DEF Clear, Holding
<1>2. CASE FindPid(o)
  <2> DEFINE c == [cmd[o] EXCEPT !.pid = pidFile, !.result = "stopped",
                                 !.pc = IF pidFile = None THEN "api" ELSE "alive"]
  <2>1. c.pc = (IF pidFile = None THEN "api" ELSE "alive") /\ c.pid = pidFile
    BY DEF TypeOK, Command
  <2>2. \A g \in Gateways : Alive(g)' => pidFile = g /\ pidFile # None
    BY <1>2, SameAlive, Found, GatewayConstants DEF FindPid
  <2> HIDE DEF c
  <2>3. Proceed(o, c) /\ UNCHANGED pidFile /\ ~Doing(o, "idle")
    BY <1>2 DEF FindPid, c
  <2> QED BY <2>1, <2>2, <2>3, CommandSingle DEF Clear
<1>3. CASE CheckAlive(o)
  <2>1. CASE PidAlive(cmd[o].pid)
    <3> DEFINE c == [cmd[o] EXCEPT !.pc = "signal"]
    <3>1. c.pc = "signal" /\ c.pid = cmd[o].pid
      BY DEF TypeOK, Command
    <3>2. \A g \in Gateways : Alive(g)' => cmd[o].pid = g /\ pidFile = g
      BY <1>3, SameAlive, Found DEF CheckAlive, SingleInv, Holding
    <3> HIDE DEF c
    <3>3. Proceed(o, c) /\ UNCHANGED pidFile /\ ~Doing(o, "idle")
      BY <1>3, <2>1 DEF CheckAlive, Step, c
    <3> QED BY <3>1, <3>2, <3>3, CommandSingle DEF Clear
  <2>2. CASE ~PidAlive(cmd[o].pid)
    <3>1. \A g \in Gateways : ~Alive(g)'
      BY <1>3, <2>2, SameAlive DEF CheckAlive, PidAlive, SingleInv, Holding
    <3>2. \E c : Proceed(o, c)
      BY <1>3, <2>2 DEF CheckAlive
    <3> QED BY <1>3, <3>1, <3>2, EmptyStep DEF CheckAlive
  <2> QED BY <2>1, <2>2
<1>4. CASE Signal(o)
  <2>1. CASE PidAlive(cmd[o].pid)
    <3> DEFINE c == [cmd[o] EXCEPT !.pc = "wait"]
    <3>1. c.pc = "wait" /\ c.pid = cmd[o].pid
      BY DEF TypeOK, Command
    <3>2. \A g \in Gateways : Alive(g) => cmd[o].pid = g /\ pidFile = g
      BY <1>4, Found DEF Signal, SingleInv, Holding
    <3>3. cmd[o].pid \in Gateways /\ Alive(cmd[o].pid)
      BY <2>1 DEF PidAlive
    <3>4. \E p : Become(cmd[o].pid, p)
      BY <1>4, <2>1 DEF Signal, Die
    <3>5. \A g \in Gateways : Alive(g)' => Alive(g)
      BY <3>3, <3>4, BecomeAlive
    <3> HIDE DEF c
    <3>6. Proceed(o, c) /\ UNCHANGED pidFile /\ ~Doing(o, "idle")
      BY <1>4, <2>1 DEF Signal, Step, c
    <3> QED BY <3>1, <3>2, <3>5, <3>6, CommandSingle DEF Clear
  <2>2. CASE ~PidAlive(cmd[o].pid)
    <3>1. Proceed(o, Idle) /\ UNCHANGED <<pidFile, gw>>
      BY <1>4, <2>2 DEF Signal, Finish
    <3> QED BY <1>4, <3>1, PlainStep DEF Signal, Idle, Holding, Clear
  <2> QED BY <2>1, <2>2
<1>5. CASE Gone(o)
  <2>1. \A g \in Gateways : ~Alive(g)'
    BY <1>5, SameAlive DEF Gone, PidAlive, SingleInv, Holding
  <2> QED BY <1>5, <2>1, EmptyStep DEF Gone, Step
<1>6. CASE Timeout(o)
  <2> DEFINE c == [cmd[o] EXCEPT !.pc = "kill"]
  <2>1. c.pc = "kill" /\ c.pid = cmd[o].pid
    BY DEF TypeOK, Command
  <2>2. \A g \in Gateways : Alive(g)' => cmd[o].pid = g /\ pidFile = g
    BY <1>6, SameAlive, Found DEF Timeout, SingleInv, Holding
  <2> HIDE DEF c
  <2>3. Proceed(o, c) /\ UNCHANGED pidFile /\ ~Doing(o, "idle")
    BY <1>6 DEF Timeout, Step, c
  <2> QED BY <2>1, <2>2, <2>3, CommandSingle DEF Clear
<1>7. CASE Kill(o)
  <2>1. \A g \in Gateways : Alive(g) => cmd[o].pid = g
    BY <1>7 DEF Kill, SingleInv, Holding
  <2>2. \A g \in Gateways : ~Alive(g)'
    <3>1. CASE PidAlive(cmd[o].pid)
      <4>1. cmd[o].pid \in Gateways /\ Die(cmd[o].pid)
        BY <1>7, <3>1 DEF Kill, PidAlive
      <4> QED BY <2>1, <4>1, DieAlive
    <3>2. CASE ~PidAlive(cmd[o].pid)
      BY <1>7, <2>1, <3>2, SameAlive DEF Kill, PidAlive
    <3> QED BY <3>1, <3>2
  <2>3. \E c : Proceed(o, c)
    BY <1>7 DEF Kill
  <2> QED BY <1>7, <2>2, <2>3, EmptyStep DEF Kill
<1>8. CASE TerminateApi(o)
  <2>1. \A g \in Gateways : ~Alive(g)'
    BY <1>8, SameAlive DEF TerminateApi, SingleInv, Clear
  <2>2. \E c : Proceed(o, c)
    BY <1>8, StoppedProceeds DEF TerminateApi
  <2> QED BY <1>8, <2>1, <2>2, EmptyStep DEF TerminateApi
<1>9. CASE LoadDown(o)
  <2>1. \A g \in Gateways : ~Alive(g)'
    BY <1>9, SameAlive DEF LoadDown, SingleInv, Clear
  <2> QED BY <1>9, <2>1, EmptyStep DEF LoadDown
<1>10. CASE WriteDown(o)
  <2>1. \A g \in Gateways : ~Alive(g)'
    BY <1>10, SameAlive DEF WriteDown, SingleInv, Clear
  <2> QED BY <1>10, <2>1, StoppedProceeds, EmptyStep DEF WriteDown
<1> QED
  BY <1>1, <1>2, <1>3, <1>4, <1>5, <1>6, <1>7, <1>8, <1>9, <1>10 DEF Stopping

LEMMA SingleStep ==
  ASSUME Careful, TypeOK, SingleInv, [Next]_vars PROVE SingleInv'
<1>1. ASSUME NEW g \in Gateways,
             GatewayStep(g) \/ Handle(g) \/ ActivateRaises(g) \/ GatewayDies(g)
      PROVE  SingleInv'
  BY <1>1, GatewaySingle
<1>2. ASSUME NEW o \in Operators, NEW kind \in Commands, Issue(o, kind) PROVE SingleInv'
  <2> DEFINE c == [Idle EXCEPT !.kind = kind, !.pc = IF kind = "up" THEN "look" ELSE "apiPid"]
  <2>1. c.pc \in {"look", "apiPid"}
    BY DEF Idle
  <2> HIDE DEF c
  <2>2. /\ Proceed(o, c) /\ UNCHANGED <<pidFile, gw>> /\ cmd[o].pc # "record"
        /\ \A q \in Operators : Doing(q, "idle")
    BY <1>2 DEF Issue, Careful, Doing, c
  <2> QED BY <2>1, <2>2, PlainStep DEF Clear, Holding
<1>3. ASSUME NEW o \in Operators, Interrupt(o) PROVE SingleInv'
  <2>1. cmd[o].pc \in DownPoints /\ Proceed(o, Idle) /\ UNCHANGED <<pidFile, gw>>
    BY <1>3 DEF Interrupt, Careful, Fault, Finish
  <2> QED BY <2>1, PlainStep DEF Doing, DownPoints, Idle, Clear, Holding
<1>4. CASE \E a \in Apis : ApiDies(a)
  BY <1>4, SameAlive DEF ApiDies, SingleInv, OneCommand, Doing
<1>5. CASE UNCHANGED vars
  BY <1>5, SameAlive DEF vars, SingleInv, OneCommand, Doing
<1> QED BY <1>1, <1>2, <1>3, <1>4, <1>5, StartingSingle, StoppingSingle DEF Next

LEMMA SingleInit == Init => SingleInv
  BY DEF Init, SingleInv, OneCommand, Doing, Idle, NotStarted, Alive

(* When commands are issued one at a time and none is interrupted while it *)
(* starts a gateway, two gateways never live at the same time.             *)
THEOREM OneGateway == Careful => (Spec => []SingleGateway)
<1> SUFFICES ASSUME Careful PROVE Spec => []SingleGateway
  OBVIOUS
<1>1. TypeOK /\ SingleInv /\ [Next]_vars => SingleInv'
  BY SingleStep
<1> QED BY SingleInit, TypeCorrect, <1>1, SingleFromInv, PTL DEF Spec

-----------------------------------------------------------------------------
(* `down` never gets to the part that starts a gateway.                    *)
KindInv == \A o \in Operators : cmd[o].kind = "down" => cmd[o].pc \notin UpPoints

LEMMA KindProceed ==
  ASSUME TypeOK, KindInv, NEW o \in Operators, NEW c, Proceed(o, c),
         cmd'[o].kind = "down" => cmd'[o].pc \notin UpPoints
  PROVE  KindInv'
  BY DEF TypeOK, KindInv, Proceed

LEMMA ProceedAt ==
  ASSUME TypeOK, NEW o \in Operators, NEW c, Proceed(o, c) PROVE cmd'[o] = c
  BY DEF TypeOK, Proceed

LEMMA FinishAt ==
  ASSUME TypeOK, NEW o \in Operators, Finish(o)
  PROVE  cmd'[o].pc = "idle" /\ cmd'[o].kind = "up"
  BY ProceedAt DEF Finish, Idle

LEMMA StepAt ==
  ASSUME TypeOK, NEW o \in Operators, NEW point, Step(o, point)
  PROVE  cmd'[o].pc = point /\ cmd'[o].kind = cmd[o].kind
<1>1. cmd'[o] = [cmd[o] EXCEPT !.pc = point] /\ cmd[o] \in Command
  BY ProceedAt DEF Step, TypeOK
<1> QED BY <1>1 DEF Command

LEMMA KindStarting ==
  ASSUME TypeOK, KindInv, NEW o \in Operators, Starting(o) PROVE KindInv'
<1>1. cmd[o].kind # "down"
  BY DEF KindInv, Starting, ReadPid, Decide, Spawn, RecordPid, LoadUp, WriteUp, Doing, UpPoints
<1>2. cmd[o] \in Command /\ cmd \in [Operators -> Command]
  BY DEF TypeOK
<1>3. \E c : Proceed(o, c)
  BY DEF Starting, ReadPid, Decide, Spawn, RecordPid, LoadUp, WriteUp, Finish, Step
<1>4. cmd'[o].kind # "down"
  <2>1. CASE ReadPid(o)
    BY <1>1, <1>2, <2>1 DEF ReadPid, Proceed, Command
  <2>2. CASE Decide(o)
    BY <1>1, <2>2, FinishAt, StepAt DEF Decide
  <2>3. CASE Spawn(o)
    BY <1>1, <1>2, <2>3 DEF Spawn, Proceed, Command
  <2>4. CASE RecordPid(o)
    BY <1>1, <2>4, StepAt DEF RecordPid
  <2>5. CASE LoadUp(o)
    BY <1>1, <1>2, <2>5 DEF LoadUp, Proceed, Command
  <2>6. CASE WriteUp(o)
    BY <2>6, FinishAt DEF WriteUp
  <2> QED BY <2>1, <2>2, <2>3, <2>4, <2>5, <2>6 DEF Starting
<1> QED BY <1>3, <1>4, KindProceed

LEMMA StoppedKind ==
  ASSUME TypeOK, NEW o \in Operators, Stopped(o)
  PROVE  cmd'[o].kind = "down" => cmd'[o].pc \notin UpPoints
<1>1. CASE Finish(o)
  BY <1>1, FinishAt
<1>2. CASE Proceed(o, [Idle EXCEPT !.kind = "restart", !.pc = "look"])
  BY <1>2, ProceedAt DEF Idle
<1> QED BY <1>1, <1>2 DEF Stopped

LEMMA KindStopping ==
  ASSUME TypeOK, KindInv, NEW o \in Operators, Stopping(o) PROVE KindInv'
<1>1. cmd[o] \in Command /\ cmd \in [Operators -> Command]
  BY DEF TypeOK
<1>2. \E c : Proceed(o, c)
  BY StoppedProceeds DEF Stopping, ReadApiPid, FindPid, CheckAlive, Signal, Gone,
     Timeout, Kill, TerminateApi, LoadDown, WriteDown, Finish, Step
<1>3. cmd'[o].kind = "down" => cmd'[o].pc \notin UpPoints
  <2>1. CASE ReadApiPid(o) \/ FindPid(o)
    BY <1>1, <2>1 DEF ReadApiPid, FindPid, Proceed, UpPoints, Command
  <2>2. CASE Kill(o) \/ LoadDown(o)
    BY <1>1, <2>2 DEF Kill, LoadDown, Proceed, UpPoints, Command
  <2>6. CASE CheckAlive(o)
    <3>1. \/ Step(o, "signal")
          \/ Proceed(o, [cmd[o] EXCEPT !.result = "stale_cleaned", !.pc = "api"])
      BY <2>6 DEF CheckAlive
    <3>2. CASE Step(o, "signal")
      BY <3>2, StepAt DEF UpPoints
    <3>3. CASE Proceed(o, [cmd[o] EXCEPT !.result = "stale_cleaned", !.pc = "api"])
      <4>1. cmd'[o] = [cmd[o] EXCEPT !.result = "stale_cleaned", !.pc = "api"]
        BY <3>3, ProceedAt
      <4> QED BY <1>1, <4>1 DEF Command, UpPoints
    <3> QED BY <3>1, <3>2, <3>3
  <2>7. CASE Gone(o) \/ Timeout(o)
    BY <2>7, StepAt DEF Gone, Timeout, UpPoints
  <2>3. CASE Signal(o)
    <3>1. Step(o, "wait") \/ Finish(o)
      BY <2>3 DEF Signal
    <3> QED BY <1>1, <3>1 DEF Step, Finish, Proceed, Idle, UpPoints, Command
  <2>4. CASE TerminateApi(o)
    <3>1. \/ Stopped(o)
          \/ Proceed(o, [cmd[o] EXCEPT !.api = None, !.pc = "loadDown"])
      BY <2>4 DEF TerminateApi
    <3>2. CASE Proceed(o, [cmd[o] EXCEPT !.api = None, !.pc = "loadDown"])
      <4>1. cmd'[o] = [cmd[o] EXCEPT !.api = None, !.pc = "loadDown"]
        BY <3>2, ProceedAt
      <4> QED BY <1>1, <4>1 DEF Command, UpPoints
    <3> QED BY <3>1, <3>2, StoppedKind
  <2>5. CASE WriteDown(o)
    BY <2>5, StoppedKind DEF WriteDown
  <2> QED BY <2>1, <2>2, <2>3, <2>4, <2>5, <2>6, <2>7 DEF Stopping
<1> QED BY <1>2, <1>3, KindProceed

LEMMA KindStep == ASSUME TypeOK, KindInv, [Next]_vars PROVE KindInv'
<1>1. ASSUME NEW g \in Gateways,
             GatewayStep(g) \/ Handle(g) \/ ActivateRaises(g) \/ GatewayDies(g)
      PROVE  KindInv'
  <2>1. UNCHANGED cmd
    BY <1>1 DEF GatewayStep, Handle, ActivateRaises, GatewayDies,
       WritePid, Listen, StartApi, Activate, Top, Tick, EndApi, Unlink,
       LoadState, WriteTemp, ReplaceState, ReplaceRaises
  <2> QED BY <2>1 DEF KindInv
<1>2. ASSUME NEW o \in Operators, NEW kind \in Commands, Issue(o, kind) PROVE KindInv'
  <2>1. Proceed(o, [Idle EXCEPT !.kind = kind,
                                !.pc = IF kind = "up" THEN "look" ELSE "apiPid"])
    BY <1>2 DEF Issue
  <2>2. cmd'[o] = [Idle EXCEPT !.kind = kind, !.pc = IF kind = "up" THEN "look" ELSE "apiPid"]
    BY <2>1, ProceedAt
  <2>3. cmd'[o].kind = "down" => cmd'[o].pc \notin UpPoints
    BY <2>2 DEF Idle, UpPoints
  <2> QED BY <2>1, <2>3, KindProceed
<1>3. ASSUME NEW o \in Operators, Interrupt(o) PROVE KindInv'
  <2>1. Finish(o)
    BY <1>3 DEF Interrupt
  <2> QED BY <2>1, FinishAt, KindProceed DEF Finish
<1>4. CASE \E a \in Apis : ApiDies(a)
  BY <1>4 DEF ApiDies, KindInv
<1>5. CASE UNCHANGED vars
  BY <1>5 DEF vars, KindInv
<1> QED BY <1>1, <1>2, <1>3, <1>4, <1>5, KindStarting, KindStopping DEF Next

(* Where stop_gateway ends, no gateway is alive.                           *)
LEMMA StoppingEnds ==
  ASSUME TypeOK, SingleInv, NEW o \in Operators, Stopping(o), cmd'[o].pc = "idle"
  PROVE  \A g \in Gateways : ~Alive(g)'
<1> USE DEF Doing
<1>0. cmd[o] \in Command /\ cmd \in [Operators -> Command]
  BY DEF TypeOK
<1>1. CASE Signal(o)
  <2>1. ~PidAlive(cmd[o].pid)
    BY <1>0, <1>1 DEF Signal, Step, Proceed, Command
  <2> QED BY <1>1, <2>1, SameAlive DEF Signal, SingleInv, Holding, PidAlive
<1>2. CASE TerminateApi(o)
  BY <1>2, SameAlive DEF TerminateApi, SingleInv, Clear
<1>3. CASE WriteDown(o)
  BY <1>3, SameAlive DEF WriteDown, SingleInv, Clear
<1>4. CASE \/ ReadApiPid(o) \/ FindPid(o) \/ CheckAlive(o) \/ Gone(o)
           \/ Timeout(o) \/ Kill(o) \/ LoadDown(o)
  <2>1. cmd'[o].pc # "idle"
    BY <1>0, <1>4 DEF ReadApiPid, FindPid, CheckAlive, Gone, Timeout, Kill, LoadDown,
       Step, Proceed, Command
  <2> QED BY <2>1
<1> QED BY <1>1, <1>2, <1>3, <1>4 DEF Stopping

LEMMA DownStep ==
  ASSUME Careful, TypeOK, SingleInv, KindInv, [Next]_vars,
         NEW o \in Operators, Ends(o, "down")
  PROVE  \A g \in Gateways : ~Alive(g)'
<1>1. Starting(o) \/ Stopping(o)
  <2>0. /\ cmd[o].pc # "idle" /\ cmd'[o].pc = "idle" /\ ~Interrupt(o)
        /\ \A q \in Operators : q # o => cmd[q].pc = "idle"
    BY DEF Ends, SingleInv, OneCommand, Doing
  <2>1. cmd' # cmd
    BY <2>0
  <2>2. ASSUME NEW g \in Gateways,
               GatewayStep(g) \/ Handle(g) \/ ActivateRaises(g) \/ GatewayDies(g)
        PROVE  FALSE
    BY <2>1, <2>2 DEF GatewayStep, Handle, ActivateRaises, GatewayDies,
       WritePid, Listen, StartApi, Activate, Top, Tick, EndApi, Unlink,
       LoadState, WriteTemp, ReplaceState, ReplaceRaises
  <2>3. ~(\E a \in Apis : ApiDies(a)) /\ ~UNCHANGED vars
    BY <2>1 DEF ApiDies, vars
  <2>4. ASSUME NEW q \in Operators, NEW kind \in Commands, Issue(q, kind) PROVE FALSE
    BY <2>0, <2>4 DEF Issue, Careful, Doing
  <2>5. ASSUME NEW q \in Operators, Starting(q) \/ Stopping(q) \/ Interrupt(q) PROVE q = o
    <3>1. cmd[q].pc # "idle"
      BY <2>5 DEF Starting, Stopping, Interrupt, Doing, UpPoints, DownPoints,
         ReadPid, Decide, Spawn, RecordPid, LoadUp, WriteUp, ReadApiPid, FindPid,
         CheckAlive, Signal, Gone, Timeout, Kill, TerminateApi, LoadDown, WriteDown
    <3> QED BY <2>0, <3>1
  <2> QED BY <2>0, <2>2, <2>3, <2>4, <2>5 DEF Next
<1>2. ~Starting(o)
  BY DEF Ends, KindInv, Starting, ReadPid, Decide, Spawn, RecordPid, LoadUp, WriteUp,
     Doing, UpPoints
<1> QED BY <1>1, <1>2, StoppingEnds DEF Ends

(* Under the same conditions, no gateway is left when `down` returns.      *)
THEOREM DownLeavesNoGateway == Careful => (Spec => DownMeansDown)
<1> SUFFICES ASSUME Careful PROVE Spec => DownMeansDown
  OBVIOUS
<1>1. TypeOK /\ SingleInv /\ [Next]_vars => SingleInv'
  BY SingleStep
<1>2. Init => KindInv
  BY DEF Init, KindInv, Idle
<1>3. TypeOK /\ KindInv /\ [Next]_vars => KindInv'
  BY KindStep
<1>4. TypeOK /\ SingleInv /\ KindInv /\ [Next]_vars
        => [\A o \in Operators :
              Ends(o, "down") => \A g \in Gateways : ~Alive(g)']_vars
  BY DownStep
<1> QED BY SingleInit, TypeCorrect, <1>1, <1>2, <1>3, <1>4, PTL DEF Spec, DownMeansDown
-----------------------------------------------------------------------------
(* The status.  From the replace of "starting" to the end of its loop      *)
(* nobody writes over a gateway a status that says ended: it does not      *)
(* itself, the command that started it writes "starting", the handler      *)
(* "stopping", and a command that stops one writes when it is gone.        *)

Ended == {"stopped", "crashed", "force_stopped", "stop_failed"}
LoopWrites == {"running", "api", "sleeping", "completed", "error"}

(* What holds of the state file s and of what the process p writes to it.  *)
Shown(p, s) ==
  /\ p.pc \in {"startApi", "activate"} \cup Loop => s.status \notin Ended
  /\ p.pc = "write" /\ p.what \in LoopWrites => s.status \notin Ended
  /\ p.pc = "write" /\ p.stage \in {"temp", "replace"} =>
       (p.what \in LoopWrites \cup {"starting"} => p.rec.status \notin Ended)

StatusInv ==
  /\ \A g \in Gateways : Shown(gw[g], state)
  /\ \A o \in Operators : cmd[o].pc = "writeUp" => cmd[o].rec.status = "starting"

LEMMA NotAliveShown ==
  ASSUME NEW g \in Gateways, ~Alive(g) PROVE \A s : Shown(gw[g], s)
BY DEF Alive, Shown, Loop

LEMMA BecomeOnly ==
  ASSUME TypeOK, NEW g \in Gateways, NEW p, Become(g, p)
  PROVE  gw'[g] = p /\ \A h \in Gateways \ {g} : gw'[h] = gw[h]
BY DEF TypeOK, Become

(* Where the write w leaves the process: past every write but its own.     *)
LEMMA StartWriteShown ==
  ASSUME TypeOK, NEW g \in Gateways, NEW w \in Writes, StartWrite(g, w),
         w \in LoopWrites => state.status \notin Ended
  PROVE  Shown(gw'[g], state)
<1>1. gw'[g] = [gw[g] EXCEPT !.pc = "write", !.what = w, !.stage = "load", !.rec = NoState]
  BY BecomeOnly DEF StartWrite
<1>2. gw'[g].pc = "write" /\ gw'[g].what = w /\ gw'[g].stage = "load"
  BY <1>1 DEF TypeOK, Process
<1> QED BY <1>2 DEF Shown, Loop

LEMMA GotoShown ==
  ASSUME TypeOK, NEW g \in Gateways, NEW point, point # "write", Goto(g, point),
         point \in {"startApi", "activate"} \cup Loop => state.status \notin Ended
  PROVE  Shown(gw'[g], state)
<1>1. gw'[g] = [gw[g] EXCEPT !.pc = point]
  BY BecomeOnly DEF Goto
<1>2. gw'[g].pc = point
  BY <1>1 DEF TypeOK, Process
<1> QED BY <1>2 DEF Shown

LEMMA DieShown ==
  ASSUME TypeOK, NEW g \in Gateways, Die(g) PROVE \A s : Shown(gw'[g], s)
<1>1. gw'[g].pc = "dead"
  BY BecomeOnly DEF Die, NotStarted
<1> QED BY <1>1 DEF Shown, Loop

LEMMA ApiStartedShown ==
  ASSUME TypeOK, NEW g \in Gateways, NEW p \in Process, ApiStarted(g, p)
  PROVE  gw'[g].pc = p.pc /\ gw'[g].what = p.what /\ gw'[g].stage = p.stage
<1>1. \E a : Become(g, [p EXCEPT !.api = a])
  BY DEF ApiStarted
<1>2. \E a : gw'[g] = [p EXCEPT !.api = a]
  BY <1>1, BecomeOnly
<1> QED BY <1>2 DEF Process

LEMMA GatewayShown ==
  ASSUME TypeOK, NEW g \in Gateways, Shown(gw[g], state),
         GatewayStep(g) \/ Handle(g) \/ ActivateRaises(g) \/ GatewayDies(g)
  PROVE  Shown(gw'[g], state')
<1> USE DEF At
<1>0. gw[g] \in Process /\ state \in Record
  BY DEF TypeOK
<1>1. CASE WritePid(g)
  BY <1>1, GotoShown DEF WritePid, Loop
<1>2. CASE Listen(g)
  BY <1>2, StartWriteShown DEF Listen, Writes, LoopWrites
<1>3. CASE StartApi(g)
  <2> DEFINE p == [gw[g] EXCEPT !.pc = "activate"]
  <2>1. p \in Process /\ p.pc = "activate"
    BY <1>0 DEF Process
  <2> HIDE DEF p
  <2>2. ApiStarted(g, p) /\ UNCHANGED state /\ state.status \notin Ended
    BY <1>3 DEF StartApi, p, Shown
  <2> QED BY <2>1, <2>2, ApiStartedShown DEF Shown
<1>4. CASE Activate(g)
  BY <1>4, StartWriteShown DEF Activate, Writes, Shown
<1>5. CASE Top(g)
  <2>0. UNCHANGED state /\ state.status \notin Ended
    BY <1>5 DEF Top, Shown, Loop
  <2>1. CASE Goto(g, "ending") \/ Goto(g, "tick")
    BY <2>0, <2>1, GotoShown DEF Loop
  <2> DEFINE p == [gw[g] EXCEPT !.pc = "write", !.what = "api", !.stage = "load"]
  <2>2. CASE ApiStarted(g, p)
    <3>1. p \in Process /\ p.pc = "write" /\ p.stage = "load" /\ p.what = "api"
      BY <1>0 DEF Process, Writes
    <3> HIDE DEF p
    <3> QED BY <2>0, <2>2, <3>1, ApiStartedShown DEF Shown, Loop
  <2> QED BY <1>5, <2>1, <2>2 DEF Top
<1>6. CASE Tick(g)
  BY <1>6, StartWriteShown DEF Tick, Writes, Shown, Loop
<1>7. CASE EndApi(g)
  BY <1>7, StartWriteShown DEF EndApi, Writes, LoopWrites
<1>8. CASE Unlink(g)
  BY <1>8, DieShown DEF Unlink
<1>9. CASE LoadState(g)
  <2>1. gw'[g] = [gw[g] EXCEPT !.rec = Merged(g), !.stage = "temp"]
    BY <1>9, BecomeOnly DEF LoadState
  <2>2. gw'[g].pc = "write" /\ gw'[g].what = gw[g].what /\ gw'[g].rec = Merged(g)
    BY <1>0, <1>9, <2>1 DEF LoadState, Process
  <2>3. gw[g].what \in LoopWrites \cup {"starting"} => Merged(g).status \notin Ended
    BY <1>9 DEF LoadState, Merged, Shown, LoopWrites, Ended
  <2> QED BY <1>9, <2>2, <2>3 DEF LoadState, Shown, Loop
<1>10. CASE WriteTemp(g)
  <2>1. gw'[g] = [gw[g] EXCEPT !.stage = "replace"]
    BY <1>10, BecomeOnly DEF WriteTemp
  <2>2. /\ gw'[g].pc = "write" /\ gw'[g].what = gw[g].what /\ gw'[g].rec = gw[g].rec
        /\ gw[g].stage = "temp"
    BY <1>0, <1>10, <2>1 DEF WriteTemp, Process
  <2> QED BY <1>10, <2>2 DEF WriteTemp, Shown, Loop
<1>11. CASE ReplaceState(g)
  <2>1. CASE gw[g].what = "crashed"
    BY <1>11, <2>1, DieShown DEF ReplaceState
  <2>2. CASE gw[g].what # "crashed"
    <3>1. gw'[g] = [NotStarted EXCEPT !.pc = After(gw[g].what), !.api = gw[g].api,
                                      !.sig = gw[g].sig, !.stop = gw[g].stop]
      BY <1>11, <2>2, BecomeOnly DEF ReplaceState
    <3>2. gw'[g].pc = After(gw[g].what)
      BY <3>1 DEF NotStarted
    <3>3. CASE gw[g].what = "stopped"
      BY <3>2, <3>3 DEF After, Shown, Loop
    <3>4. CASE gw[g].what # "stopped"
      <4>1. gw[g].what \in LoopWrites \cup {"starting"} /\ state' = gw[g].rec
        BY <1>0, <1>11, <2>2, <3>4 DEF ReplaceState, Process, Writes, LoopWrites
      <4>2. state'.status \notin Ended
        BY <1>11, <4>1 DEF ReplaceState, Shown
      <4>3. After(gw[g].what) # "write"
        BY <4>1 DEF After, LoopWrites
      <4> QED BY <3>2, <4>2, <4>3 DEF Shown
    <3> QED BY <3>3, <3>4
  <2> QED BY <2>1, <2>2
<1>12. CASE ReplaceRaises(g)
  <2>0. UNCHANGED state
    BY <1>12 DEF ReplaceRaises
  <2>1. CASE gw[g].what \in {"sleeping", "completed"}
    BY <1>12, <2>0, <2>1, StartWriteShown DEF ReplaceRaises, Writes, Shown, LoopWrites
  <2>2. CASE gw[g].what = "crashed"
    BY <1>12, <2>0, <2>2, DieShown DEF ReplaceRaises
  <2>3. CASE gw[g].what \notin {"sleeping", "completed", "crashed"}
    BY <1>12, <2>0, <2>3, StartWriteShown DEF ReplaceRaises, Writes, LoopWrites
  <2> QED BY <2>1, <2>2, <2>3
<1>13. CASE Handle(g)
  <2>1. /\ gw'[g] = [gw[g] EXCEPT !.sig = FALSE, !.stop = TRUE,
                                  !.stage = IF @ = "replace" THEN "lost" ELSE @]
        /\ state'.status = "stopping"
    BY <1>0, <1>13, BecomeOnly DEF Handle, Record
  <2>2. /\ gw'[g].pc = gw[g].pc /\ gw'[g].what = gw[g].what /\ gw'[g].rec = gw[g].rec
        /\ gw'[g].stage \in {gw[g].stage, "lost"}
    BY <1>0, <2>1 DEF Process
  <2> QED BY <2>1, <2>2 DEF Shown, Ended
<1>14. CASE ActivateRaises(g)
  BY <1>14, StartWriteShown DEF ActivateRaises, Writes, LoopWrites
<1>15. CASE GatewayDies(g)
  BY <1>15, DieShown DEF GatewayDies
<1> QED
  BY <1>1, <1>2, <1>3, <1>4, <1>5, <1>6, <1>7, <1>8, <1>9, <1>10, <1>11, <1>12, <1>13, <1>14,
     <1>15 DEF GatewayStep

(* LoadUp alone leads to the write of "starting".                          *)
LEMMA NoWriteUp ==
  ASSUME TypeOK, NEW o \in Operators, ~LoadUp(o),
         Starting(o) \/ Stopping(o) \/ Interrupt(o) \/ \E kind \in Commands : Issue(o, kind)
  PROVE  cmd'[o].pc # "writeUp"
<1>0. cmd[o] \in Command
  BY DEF TypeOK
<1>1. Stopped(o) => cmd'[o].pc # "writeUp"
  <2>1. CASE Finish(o)
    BY <2>1, FinishAt
  <2>2. CASE Proceed(o, [Idle EXCEPT !.kind = "restart", !.pc = "look"])
    BY <2>2, ProceedAt DEF Idle
  <2> QED BY <2>1, <2>2 DEF Stopped
<1>2. CASE ReadPid(o)
  <2>1. cmd'[o] = [cmd[o] EXCEPT !.pid = pidFile, !.pc = "decide"]
    BY <1>2, ProceedAt DEF ReadPid
  <2> QED BY <1>0, <2>1 DEF Command
<1>3. CASE Spawn(o)
  <2>1. PICK g \in Gateways : cmd'[o] = [cmd[o] EXCEPT !.pid = g, !.pc = "record"]
    BY <1>3, ProceedAt DEF Spawn
  <2> QED BY <1>0, <2>1 DEF Command
<1>4. CASE Decide(o) \/ RecordPid(o) \/ WriteUp(o) \/ Interrupt(o)
  BY <1>4, FinishAt, StepAt DEF Decide, RecordPid, WriteUp, Interrupt
<1>5. CASE Gone(o) \/ Timeout(o) \/ Signal(o)
  BY <1>5, FinishAt, StepAt DEF Gone, Timeout, Signal
<1>6. CASE ReadApiPid(o)
  <2>1. cmd'[o] = [cmd[o] EXCEPT !.api = state.api, !.pc = "pid"]
    BY <1>6, ProceedAt DEF ReadApiPid
  <2> QED BY <1>0, <2>1 DEF Command
<1>7. CASE FindPid(o)
  <2>1. cmd'[o] = [cmd[o] EXCEPT !.pid = pidFile, !.result = "stopped",
                                 !.pc = IF pidFile = None THEN "api" ELSE "alive"]
    BY <1>7, ProceedAt DEF FindPid
  <2>2. cmd'[o].pc \in {"api", "alive"}
    BY <1>0, <2>1 DEF Command
  <2> QED BY <2>2
<1>8. CASE CheckAlive(o)
  <2>1. CASE Proceed(o, [cmd[o] EXCEPT !.result = "stale_cleaned", !.pc = "api"])
    <3>1. cmd'[o] = [cmd[o] EXCEPT !.result = "stale_cleaned", !.pc = "api"]
      BY <2>1, ProceedAt
    <3> QED BY <1>0, <3>1 DEF Command
  <2> QED BY <1>8, <2>1, StepAt DEF CheckAlive
<1>9. CASE Kill(o)
  <2>1. PICK r : Proceed(o, [cmd[o] EXCEPT !.result = r, !.pc = "api"])
    BY <1>9 DEF Kill
  <2>2. cmd'[o] = [cmd[o] EXCEPT !.result = r, !.pc = "api"]
    BY <2>1, ProceedAt
  <2> QED BY <1>0, <2>2 DEF Command
<1>10. CASE TerminateApi(o)
  <2>1. CASE Proceed(o, [cmd[o] EXCEPT !.api = None, !.pc = "loadDown"])
    <3>1. cmd'[o] = [cmd[o] EXCEPT !.api = None, !.pc = "loadDown"]
      BY <2>1, ProceedAt
    <3> QED BY <1>0, <3>1 DEF Command
  <2> QED BY <1>1, <1>10, <2>1 DEF TerminateApi
<1>11. CASE LoadDown(o)
  <2>1. PICK r : Proceed(o, [cmd[o] EXCEPT !.rec = r, !.pc = "writeDown"])
    BY <1>11 DEF LoadDown
  <2>2. cmd'[o] = [cmd[o] EXCEPT !.rec = r, !.pc = "writeDown"]
    BY <2>1, ProceedAt
  <2> QED BY <1>0, <2>2 DEF Command
<1>12. CASE WriteDown(o)
  BY <1>1, <1>12 DEF WriteDown
<1>13. CASE \E kind \in Commands : Issue(o, kind)
  <2>1. PICK kind \in Commands :
          Proceed(o, [Idle EXCEPT !.kind = kind, !.pc = IF kind = "up" THEN "look" ELSE "apiPid"])
    BY <1>13 DEF Issue
  <2>2. cmd'[o].pc \in {"look", "apiPid"}
    BY <2>1, ProceedAt DEF Idle
  <2> QED BY <2>2
<1> QED
  BY <1>2, <1>3, <1>4, <1>5, <1>6, <1>7, <1>8, <1>9, <1>10, <1>11, <1>12, <1>13
  DEF Starting, Stopping

(* What a command does to the gateways: it starts one, ends one or signals *)
(* one; what it does to the file: see above.                               *)
LEMMA CommandShown ==
  ASSUME TypeOK, SingleInv, StatusInv, NEW o \in Operators,
         Starting(o) \/ Stopping(o) \/ Interrupt(o) \/ \E kind \in Commands : Issue(o, kind)
  PROVE  StatusInv'
<1> USE DEF Doing
<1>0. cmd \in [Operators -> Command] /\ cmd[o] \in Command /\ state \in Record
  BY DEF TypeOK
<1>1. \A q \in Operators : cmd'[q].pc = "writeUp" => cmd'[q].rec.status = "starting"
  <2>1. CASE LoadUp(o)
    <3>1. /\ cmd'[o] = [cmd[o] EXCEPT !.rec = [state EXCEPT !.status = "starting"],
                                      !.pc = "writeUp"]
          /\ \A q \in Operators \ {o} : cmd'[q] = cmd[q]
      BY <1>0, <2>1 DEF LoadUp, Proceed
    <3>2. cmd'[o].rec.status = "starting"
      BY <1>0, <3>1 DEF Command, Record
    <3> QED BY <3>1, <3>2 DEF StatusInv
  <2>2. CASE ~LoadUp(o)
    <3>1. cmd'[o].pc # "writeUp"
      BY <2>2, NoWriteUp
    <3>2. PICK c : Proceed(o, c)
      BY StoppedProceeds DEF Starting, Stopping, Interrupt, Issue, ReadPid, Decide, Spawn,
         RecordPid, LoadUp, WriteUp, ReadApiPid, FindPid, CheckAlive, Signal, Gone,
         Timeout, Kill, TerminateApi, LoadDown, WriteDown, Finish, Step
    <3>3. \A q \in Operators \ {o} : cmd'[q] = cmd[q]
      BY <1>0, <3>2 DEF Proceed
    <3> QED BY <3>1, <3>3 DEF StatusInv
  <2> QED BY <2>1, <2>2
<1>2. SUFFICES ASSUME NEW g \in Gateways PROVE Shown(gw'[g], state')
  BY <1>1 DEF StatusInv
<1>3. Shown(gw[g], state)
  BY DEF StatusInv
<1>4. CASE WriteUp(o)
  <2>1. state'.status = "starting" /\ UNCHANGED gw
    BY <1>4 DEF WriteUp, StatusInv
  <2> QED BY <1>3, <2>1 DEF Shown, Ended
<1>5. CASE WriteDown(o)
  <2>1. ~Alive(g) /\ UNCHANGED gw
    BY <1>5 DEF WriteDown, SingleInv, Clear
  <2> QED BY <2>1, NotAliveShown
<1>6. CASE Spawn(o)
  <2>1. PICK h \in Gateways : Goto(h, "spawned")
    BY <1>6 DEF Spawn
  <2>2. UNCHANGED state
    BY <1>6 DEF Spawn
  <2> QED BY <1>3, <2>1, <2>2, BecomeOnly, GotoShown DEF Goto, Loop
<1>7. CASE Signal(o) \/ Kill(o)
  <2>0. UNCHANGED state
    BY <1>7 DEF Signal, Kill
  <2> DEFINE h == cmd[o].pid
  <2>1. CASE UNCHANGED gw
    BY <1>3, <2>0, <2>1
  <2>2. CASE h \in Gateways /\ Die(h)
    BY <1>3, <2>0, <2>2, BecomeOnly, DieShown DEF Die
  <2>3. CASE h \in Gateways /\ Become(h, [gw[h] EXCEPT !.sig = TRUE])
    <3>1. gw[h] \in Process
      BY <2>3 DEF TypeOK
    <3>2. gw'[h] = [gw[h] EXCEPT !.sig = TRUE] /\ \A i \in Gateways \ {h} : gw'[i] = gw[i]
      BY <2>3, BecomeOnly
    <3>3. /\ gw'[h].pc = gw[h].pc /\ gw'[h].what = gw[h].what
          /\ gw'[h].stage = gw[h].stage /\ gw'[h].rec = gw[h].rec
      BY <3>1, <3>2 DEF Process
    <3>4. Shown(gw'[h], state)
      BY <2>3, <3>3 DEF StatusInv, Shown
    <3> QED BY <1>3, <2>0, <3>2, <3>4
  <2> QED BY <1>7, <2>1, <2>2, <2>3 DEF Signal, Kill, PidAlive
<1>8. CASE UNCHANGED <<gw, state>>
  BY <1>3, <1>8
<1>9. \/ WriteUp(o) \/ WriteDown(o) \/ Spawn(o) \/ Signal(o) \/ Kill(o)
      \/ UNCHANGED <<gw, state>>
  BY DEF Starting, Stopping, Interrupt, Issue, ReadPid, Decide, RecordPid, LoadUp,
     ReadApiPid, FindPid, CheckAlive, Gone, Timeout, TerminateApi, LoadDown
<1> QED BY <1>4, <1>5, <1>6, <1>7, <1>8, <1>9

LEMMA StatusStep ==
  ASSUME TypeOK, SingleInv, StatusInv, [Next]_vars PROVE StatusInv'
<1>1. ASSUME NEW g \in Gateways,
             GatewayStep(g) \/ Handle(g) \/ ActivateRaises(g) \/ GatewayDies(g)
      PROVE  StatusInv'
  <2>1. Alive(g) /\ UNCHANGED cmd
    BY <1>1 DEF GatewayStep, Handle, ActivateRaises, GatewayDies, Alive, At,
       WritePid, Listen, StartApi, Activate, Top, Tick, EndApi, Unlink,
       LoadState, WriteTemp, ReplaceState, ReplaceRaises
  <2>2. \E p : Become(g, p)
    BY <1>1 DEF GatewayStep, Handle, ActivateRaises, GatewayDies, Goto, Die, StartWrite,
       WritePid, Listen, StartApi, Activate, Top, Tick, EndApi, Unlink, ApiStarted,
       LoadState, WriteTemp, ReplaceState, ReplaceRaises
  <2>3. Shown(gw'[g], state')
    BY <1>1, GatewayShown DEF StatusInv
  <2>4. \A h \in Gateways \ {g} : Shown(gw'[h], state')
    <3> SUFFICES ASSUME NEW h \in Gateways \ {g} PROVE Shown(gw'[h], state')
      OBVIOUS
    <3>1. ~Alive(h)
      BY <2>1, SingleFromInv DEF SingleGateway
    <3>2. gw'[h] = gw[h]
      BY <2>2, BecomeOnly
    <3> QED BY <3>1, <3>2, NotAliveShown
  <2> QED BY <2>1, <2>3, <2>4 DEF StatusInv
<1>2. CASE \E a \in Apis : ApiDies(a)
  BY <1>2 DEF ApiDies, StatusInv
<1>3. CASE UNCHANGED vars
  BY <1>3 DEF vars, StatusInv
<1> QED BY <1>1, <1>2, <1>3, CommandShown DEF Next

(* Under the same conditions no status that says ended is ever shown for a *)
(* gateway in its loop.                                                    *)
THEOREM StatusTellsTheTruth == Careful => (Spec => []EndedMeansEnded)
<1> SUFFICES ASSUME Careful PROVE Spec => []EndedMeansEnded
  OBVIOUS
<1>1. Init => StatusInv
  BY DEF Init, StatusInv, Shown, NotStarted, Idle, Loop
<1>2. TypeOK /\ SingleInv /\ StatusInv /\ [Next]_vars => StatusInv'
  BY StatusStep
<1>3. TypeOK /\ SingleInv /\ [Next]_vars => SingleInv'
  BY SingleStep
<1>4. StatusInv => EndedMeansEnded
  BY DEF StatusInv, Shown, Ended, EndedMeansEnded
<1> QED BY <1>1, <1>2, <1>3, <1>4, SingleInit, TypeCorrect, PTL DEF Spec
=============================================================================
