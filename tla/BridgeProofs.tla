---------------------------- MODULE BridgeProofs ----------------------------
(***************************************************************************)
(* For any number of log lines and signals: run() does not return with     *)
(* openvpn running, and, as long as its files can be written, the app may  *)
(* read them as BridgeLife says.                                           *)
(***************************************************************************)
EXTENDS Bridge, TLAPS

\* The steps before status.json is this process's, before the pid file is,
\* and before openvpn is started.
Unannounced  == {"getppid", "prctl", "recheck", "setup", "announce"}
Unregistered == Unannounced \cup {"register"}
Childless    == Unregistered \cup {"spawn"}

\* openvpn exists between Spawn and the end of the grace period only.
ChildInv ==
    /\ pc \in Childless => ovpn = "none" /\ watcher = "none" /\ relay = "none"
    /\ pc \in {"final", "writeFinal", "exit", "returned"} => ovpn # "running"
    /\ handler = "channel" => pc # "killed"

\* What the files say at each step, and that no snapshot in flight is blank.
FilesInv ==
    /\ pc \in Unannounced => file.by = "earlier" /\ pidfile = "earlier"
    /\ pc = "register" => file.by = "self" /\ file.state = "starting" /\ pidfile = "earlier"
    /\ pc \in Running \ Unregistered => file.by = "self" /\ pidfile = "self"
    /\ pidfile = "self" => file.by = "self"
    /\ pc \in Running \ Unannounced => cur.state # "none"
    /\ pc \in {"writeUp", "writeTick", "writeFinal"} => msnap.state # "none"
    /\ watcher = "writing" => wsnap.state # "none"

IInv == TypeOK /\ ChildInv /\ (Disk = "ok" => FilesInv)

USE ConstantsAssumption

\* What the goroutines make of a snapshot, and how it is written.
LEMMA BlankIsSnapshot == Blank \in Snapshot
  BY DEF Blank, Snapshot, States

LEMMA NewSnapshot ==
  ASSUME NEW st \in States, NEW c \in BOOLEAN
  PROVE  LET s == [state |-> st, client |-> c]
         IN  s \in Snapshot /\ s.state = st
  BY DEF Snapshot

LEMMA UpSnapshot ==
  ASSUME NEW s \in Snapshot
  PROVE  LET t == [s EXCEPT !.state = "up"]
         IN  t \in Snapshot /\ t.state = "up"
  BY DEF Snapshot, States

LEMMA LiftedSnapshot ==
  ASSUME NEW s \in Snapshot, NEW line \in Lines
  PROVE  /\ Lift(s, line) \in Snapshot
         /\ s.state # "none" => Lift(s, line).state # "none"
  BY DEF Snapshot, States, Lift, Lines

LEMMA WrittenSnapshot ==
  ASSUME NEW s \in Snapshot
  PROVE  /\ Written(s) \in FileContent
         /\ Written(s).by = "self" /\ Written(s).state = s.state
  BY DEF Snapshot, FileContent, Written

LEMMA InitIInv == Init => IInv
<1> SUFFICES ASSUME Init PROVE IInv
  OBVIOUS
<1>1. file \in FileContent /\ file.by = "earlier"
  BY DEF Init, FileContent
<1>2. TypeOK
  BY <1>1, BlankIsSnapshot
     DEF Init, TypeOK, MainType, SigType, FileType, ChildType, PipeType,
         GoType, Running
<1>3. ChildInv
  BY DEF Init, ChildInv, Childless, Unregistered, Unannounced
<1>4. FilesInv
  BY <1>1 DEF Init, FilesInv, Running, Unregistered, Unannounced
<1>5. QED
  BY <1>2, <1>3, <1>4 DEF IInv

\* The types of what the steps change, one part of the state at a time.
LEMMA MainTypeStep ==
  ASSUME TypeOK, [Next]_vars
  PROVE  MainType'
  BY DEF TypeOK, MainType, Running,
         Next, Main, Getppid, Prctl, Recheck, Setup, Announce, Register, Spawn,
         Adopt, Notify, Go, Up, WriteUp, OnSignal, OnRelayEnd, OnOpenvpnExit,
         Tick, WriteTick, CloseConns, Term, Exited, GraceExpires, Final,
         WriteFinal, Exit, WatcherReads, WatcherWrites, WatcherEnds,
         WaitReturns, RelayEnds, OpenvpnLogs, OpenvpnExits, Signal,
         ParentDies, Goto, ReturnError, Mutate, WriteFile, LeaveLoop, Deliver,
         vars, procVars, sigVars, childVars, goVars

LEMMA SigTypeStep ==
  ASSUME TypeOK, [Next]_vars
  PROVE  SigType'
  BY DEF TypeOK, SigType,
         Next, Main, Getppid, Prctl, Recheck, Setup, Announce, Register, Spawn,
         Adopt, Notify, Go, Up, WriteUp, OnSignal, OnRelayEnd, OnOpenvpnExit,
         Tick, WriteTick, CloseConns, Term, Exited, GraceExpires, Final,
         WriteFinal, Exit, WatcherReads, WatcherWrites, WatcherEnds,
         WaitReturns, RelayEnds, OpenvpnLogs, OpenvpnExits, Signal,
         ParentDies, Goto, ReturnError, Mutate, WriteFile, LeaveLoop, Deliver,
         vars, procVars, sigVars, childVars, goVars

LEMMA ChildTypeStep ==
  ASSUME TypeOK, [Next]_vars
  PROVE  ChildType'
  BY DEF TypeOK, ChildType,
         Next, Main, Getppid, Prctl, Recheck, Setup, Announce, Register, Spawn,
         Adopt, Notify, Go, Up, WriteUp, OnSignal, OnRelayEnd, OnOpenvpnExit,
         Tick, WriteTick, CloseConns, Term, Exited, GraceExpires, Final,
         WriteFinal, Exit, WatcherReads, WatcherWrites, WatcherEnds,
         WaitReturns, RelayEnds, OpenvpnLogs, OpenvpnExits, Signal,
         ParentDies, Goto, ReturnError, Mutate, WriteFile, LeaveLoop, Deliver,
         vars, procVars, sigVars, childVars, goVars

LEMMA GoTypeStep ==
  ASSUME TypeOK, [Next]_vars
  PROVE  GoType'
  BY DEF TypeOK, GoType,
         Next, Main, Getppid, Prctl, Recheck, Setup, Announce, Register, Spawn,
         Adopt, Notify, Go, Up, WriteUp, OnSignal, OnRelayEnd, OnOpenvpnExit,
         Tick, WriteTick, CloseConns, Term, Exited, GraceExpires, Final,
         WriteFinal, Exit, WatcherReads, WatcherWrites, WatcherEnds,
         WaitReturns, RelayEnds, OpenvpnLogs, OpenvpnExits, Signal,
         ParentDies, Goto, ReturnError, Mutate, WriteFile, LeaveLoop, Deliver,
         vars, procVars, sigVars, childVars, goVars

\* The files and the snapshots that are written to them.
LEMMA FileTypeStep ==
  ASSUME TypeOK, [Next]_vars
  PROVE  FileType'
<1> USE DEF FileType, procVars, sigVars, childVars, goVars
<1>1. CASE Announce
  <2>1. cur' \in Snapshot /\ Written(cur') \in FileContent
    BY <1>1, NewSnapshot, WrittenSnapshot DEF Announce, States
  <2>2. QED
    BY <1>1, <2>1 DEF Announce, TypeOK
<1>2. CASE Up \/ Tick \/ Final
  <2>1. cur' \in Snapshot /\ msnap' \in Snapshot
    BY <1>2, NewSnapshot, UpSnapshot
       DEF Up, Tick, Final, Mutate, States, TypeOK
  <2>2. QED
    BY <1>2, <2>1 DEF Up, Tick, Final, Mutate, TypeOK
<1>3. CASE WriteUp \/ WriteTick \/ WriteFinal
  <2>1. Written(msnap) \in FileContent
    BY WrittenSnapshot DEF TypeOK
  <2>2. QED
    BY <1>3, <2>1 DEF WriteUp, WriteTick, WriteFinal, WriteFile, TypeOK
<1>4. CASE WatcherReads
  <2>1. Head(pipe) \in Lines
    BY <1>4 DEF WatcherReads, TypeOK, PipeType
  <2>2. cur' \in Snapshot /\ wsnap' \in Snapshot
    BY <1>4, <2>1, LiftedSnapshot DEF WatcherReads, TypeOK
  <2>3. QED
    BY <1>4, <2>2 DEF WatcherReads, TypeOK
<1>5. CASE WatcherWrites
  <2>1. Written(wsnap) \in FileContent
    BY WrittenSnapshot DEF TypeOK
  <2>2. QED
    BY <1>5, <2>1 DEF WatcherWrites, TypeOK
<1>6. CASE UNCHANGED <<cur, msnap, wsnap, file>>
           /\ pidfile' \in {pidfile, "self"}
  BY <1>6 DEF TypeOK
<1>7. QED
  BY <1>1, <1>2, <1>3, <1>4, <1>5, <1>6
     DEF Next, Main, Getppid, Prctl, Recheck, Setup, Register, Spawn, Adopt,
         Notify, Go, OnSignal, OnRelayEnd, OnOpenvpnExit, CloseConns, Term,
         Exited, GraceExpires, Exit, WatcherEnds, WaitReturns, RelayEnds,
         OpenvpnLogs, OpenvpnExits, Signal, ParentDies, LeaveLoop, vars

\* The log lines between openvpn and the watcher.
LEMMA PipeTypeStep ==
  ASSUME TypeOK, [Next]_vars
  PROVE  PipeType'
<1> USE DEF PipeType, procVars, sigVars, childVars, goVars
<1>1. CASE OpenvpnLogs
  BY <1>1 DEF OpenvpnLogs, TypeOK
<1>2. CASE WatcherReads
  BY <1>2 DEF WatcherReads, TypeOK
<1>3. CASE WaitReturns
  BY <1>3 DEF WaitReturns, TypeOK
<1>4. CASE UNCHANGED <<pipe, logged>>
  BY <1>4 DEF TypeOK
<1>5. QED
  BY <1>1, <1>2, <1>3, <1>4
     DEF Next, Main, Getppid, Prctl, Recheck, Setup, Announce, Register, Spawn,
         Adopt, Notify, Go, Up, WriteUp, OnSignal, OnRelayEnd, OnOpenvpnExit,
         Tick, WriteTick, CloseConns, Term, Exited, GraceExpires, Final,
         WriteFinal, Exit, WatcherReads, WatcherWrites, WatcherEnds,
         WaitReturns, RelayEnds, OpenvpnLogs, OpenvpnExits, Signal,
         ParentDies, Goto, ReturnError, Mutate, WriteFile, LeaveLoop, Deliver,
         vars, procVars, sigVars, childVars, goVars

LEMMA TypeStep == TypeOK /\ [Next]_vars => TypeOK'
  BY MainTypeStep, SigTypeStep, FileTypeStep, ChildTypeStep, PipeTypeStep,
     GoTypeStep
     DEF TypeOK

\* openvpn: started by Spawn, over by the end of the grace period.
LEMMA ChildStep == TypeOK /\ ChildInv /\ [Next]_vars => ChildInv'
<1> SUFFICES ASSUME TypeOK, ChildInv, [Next]_vars
             PROVE  ChildInv'
  OBVIOUS
<1> USE DEF ChildInv, Childless, Unregistered, Unannounced, procVars, sigVars,
            childVars, goVars
<1>1. CASE Getppid \/ Prctl \/ Recheck \/ Setup \/ Announce \/ Register
  BY <1>1 DEF Getppid, Prctl, Recheck, Setup, Announce, Register, Goto,
              ReturnError
<1>2. CASE Spawn \/ Adopt \/ Notify \/ Go
  BY <1>2 DEF Spawn, Adopt, Notify, Go, Goto, ReturnError
<1>3. CASE Up \/ WriteUp \/ Tick \/ WriteTick \/ Final \/ WriteFinal
  BY <1>3 DEF Up, WriteUp, Tick, WriteTick, Final, WriteFinal, Mutate,
              WriteFile, Goto
<1>4. CASE OnSignal \/ OnRelayEnd \/ OnOpenvpnExit
  BY <1>4 DEF OnSignal, OnRelayEnd, OnOpenvpnExit, LeaveLoop
<1>5. CASE CloseConns \/ Term \/ Exited \/ GraceExpires \/ Exit
  BY <1>5 DEF CloseConns, Term, Exited, GraceExpires, Exit, Goto
<1>6. CASE WatcherReads \/ WatcherWrites \/ WatcherEnds
  BY <1>6 DEF WatcherReads, WatcherWrites, WatcherEnds
<1>7. CASE WaitReturns \/ RelayEnds \/ OpenvpnLogs \/ OpenvpnExits
  BY <1>7 DEF WaitReturns, RelayEnds, OpenvpnLogs, OpenvpnExits
<1>8. CASE Signal \/ ParentDies
  BY <1>8 DEF Signal, ParentDies, Deliver
<1>9. CASE UNCHANGED vars
  BY <1>9 DEF vars
<1>10. QED
  BY <1>1, <1>2, <1>3, <1>4, <1>5, <1>6, <1>7, <1>8, <1>9 DEF Next, Main

\* The files: announced before registered, and never another's again.
LEMMA FilesStep ==
  ASSUME Disk = "ok", TypeOK, ChildInv, FilesInv, [Next]_vars
  PROVE  FilesInv'
<1> USE DEF FilesInv, Running, Unregistered, Unannounced, procVars, sigVars,
            childVars, goVars
<1>1. CASE Announce
  <2>1. /\ cur' \in Snapshot /\ cur'.state = "starting"
        /\ file' = Written(cur')
    BY <1>1, NewSnapshot DEF Announce, States
  <2>2. file'.by = "self" /\ file'.state = "starting"
    BY <2>1, WrittenSnapshot
  <2>3. QED
    BY <1>1, <2>1, <2>2 DEF Announce, Goto, ChildInv, Childless
<1>2. CASE Up \/ Tick \/ Final
  <2>1. msnap' = cur' /\ cur'.state # "none"
    <3>1. CASE Up
      BY <3>1, UpSnapshot DEF Up, Mutate, TypeOK, FileType
    <3>2. CASE Tick
      BY <3>2 DEF Tick, Mutate
    <3>3. CASE Final
      BY <3>3, NewSnapshot DEF Final, Mutate, States
    <3>4. QED
      BY <1>2, <3>1, <3>2, <3>3
  <2>2. QED
    BY <1>2, <2>1 DEF Up, Tick, Final, Mutate, Goto
<1>3. CASE WriteUp \/ WriteTick \/ WriteFinal
  <2>1. file'.by = "self"
    BY <1>3, WrittenSnapshot
       DEF WriteUp, WriteTick, WriteFinal, WriteFile, TypeOK, FileType
  <2>2. QED
    BY <1>3, <2>1 DEF WriteUp, WriteTick, WriteFinal, WriteFile, Goto
<1>4. CASE WatcherReads
  <2>1. pc \notin Childless
    BY <1>4 DEF WatcherReads, ChildInv
  <2>2. Head(pipe) \in Lines
    BY <1>4 DEF WatcherReads, TypeOK, PipeType
  <2>3. wsnap' = cur' /\ cur'.state # "none"
    BY <1>4, <2>1, <2>2, LiftedSnapshot
       DEF WatcherReads, TypeOK, FileType, Childless, Alive
  <2>4. QED
    BY <1>4, <2>1, <2>3 DEF WatcherReads
<1>5. CASE WatcherWrites
  <2>1. pc \notin Childless
    BY <1>5 DEF WatcherWrites, ChildInv
  <2>2. file'.by = "self"
    BY <1>5, WrittenSnapshot DEF WatcherWrites, TypeOK, FileType
  <2>3. QED
    BY <1>5, <2>1, <2>2 DEF WatcherWrites, Childless
<1>6. CASE Getppid \/ Prctl \/ Recheck \/ Setup \/ Register
  BY <1>6 DEF Getppid, Prctl, Recheck, Setup, Register, Goto, ReturnError
<1>7. CASE Spawn \/ Adopt \/ Notify \/ Go
  BY <1>7 DEF Spawn, Adopt, Notify, Go, Goto, ReturnError, ChildInv, Childless
<1>8. CASE OnSignal \/ OnRelayEnd \/ OnOpenvpnExit
  BY <1>8 DEF OnSignal, OnRelayEnd, OnOpenvpnExit, LeaveLoop
<1>9. CASE CloseConns \/ Term \/ Exited \/ GraceExpires \/ Exit
  BY <1>9 DEF CloseConns, Term, Exited, GraceExpires, Exit, Goto
<1>10. CASE WatcherEnds \/ WaitReturns \/ RelayEnds
  BY <1>10 DEF WatcherEnds, WaitReturns, RelayEnds
<1>11. CASE OpenvpnLogs \/ OpenvpnExits
  BY <1>11 DEF OpenvpnLogs, OpenvpnExits
<1>12. CASE Signal \/ ParentDies
  BY <1>12 DEF Signal, ParentDies, Deliver
<1>13. CASE UNCHANGED vars
  BY <1>13 DEF vars
<1>14. QED
  BY <1>1, <1>2, <1>3, <1>4, <1>5, <1>6, <1>7, <1>8, <1>9, <1>10, <1>11,
     <1>12, <1>13
     DEF Next, Main

LEMMA NextIInv == IInv /\ [Next]_vars => IInv'
  BY TypeStep, ChildStep, FilesStep DEF IInv

LEMMA SpecIInv == Spec => []IInv
  BY InitIInv, NextIInv, PTL DEF Spec

\* The types hold, and whichever exit run() takes it has waited for openvpn
\* or killed it (main.go:210-219, 284-299).
THEOREM ReturnsWithoutOpenvpn == Spec => [](TypeOK /\ ReturnStopsOpenvpn)
<1>1. IInv => TypeOK /\ ReturnStopsOpenvpn
  BY DEF IInv, TypeOK, MainType, SigType, ChildInv, ReturnStopsOpenvpn, Alive
<1>2. QED
  BY SpecIInv, <1>1, PTL

\* If writes succeed, a registered process has replaced the status file an
\* earlier one left (main.go:150-162 against backend.py:462).
THEOREM RegisteredIsAnnounced ==
  ASSUME Disk = "ok"
  PROVE  Spec => []RegisteredShowsOwnStatus
<1>1. IInv => RegisteredShowsOwnStatus
  BY DEF IInv, FilesInv, RegisteredShowsOwnStatus
<1>2. QED
  BY SpecIInv, <1>1, PTL

\* From Final on, with nothing left for the watcher: what is about to be
\* written, and then what is written, is the terminal state.
Terminal ==
    /\ Drained
    /\ pc \in {"final", "writeFinal", "exit", "returned", "killed"}
    /\ pc = "writeFinal" => msnap.state = FinalState
    /\ pc \in {"exit", "returned"} => file.state = FinalState

LEMMA TerminalStep ==
  ASSUME Disk = "ok", IInv, Terminal, [Next]_vars
  PROVE  Terminal'
<1> USE DEF Terminal, Drained, procVars, sigVars, childVars, goVars
<1>1. CASE Final
  <2>1. FinalState \in States
    BY DEF FinalState, States
  <2>2. msnap'.state = FinalState /\ FinalState' = FinalState /\ pc' = "writeFinal"
    BY <1>1, <2>1, NewSnapshot DEF Final, Mutate, Goto, FinalState
  <2>3. QED
    BY <1>1, <2>2 DEF Final, Mutate
<1>2. CASE WriteFinal
  <2>1. file' = Written(msnap) /\ msnap \in Snapshot
    BY <1>2 DEF WriteFinal, WriteFile, IInv, TypeOK, FileType
  <2>2. /\ file'.state = FinalState /\ FinalState' = FinalState
        /\ pc' = "exit"
    BY <1>2, <2>1, WrittenSnapshot DEF WriteFinal, WriteFile, Goto, FinalState
  <2>3. QED
    BY <1>2, <2>2 DEF WriteFinal, WriteFile
<1>3. CASE Exit \/ WatcherEnds \/ WaitReturns \/ RelayEnds \/ Signal \/ ParentDies
  <2>1. /\ UNCHANGED <<msnap, file, exitErr>> /\ Drained'
        /\ \/ pc' \in {pc, "killed"}
           \/ pc = "exit" /\ pc' = "returned"
    BY <1>3 DEF Exit, WatcherEnds, WaitReturns, RelayEnds, Signal, ParentDies,
                Deliver, Goto
  <2>2. FinalState' = FinalState
    BY <2>1 DEF FinalState
  <2>3. QED
    BY <2>1, <2>2
<1>4. CASE UNCHANGED vars
  BY <1>4 DEF vars, FinalState
<1>5. QED
  BY <1>1, <1>2, <1>3, <1>4
     DEF Next, Main, Getppid, Prctl, Recheck, Setup, Announce, Register, Spawn,
         Adopt, Notify, Go, Up, WriteUp, OnSignal, OnRelayEnd, OnOpenvpnExit,
         Tick, WriteTick, CloseConns, Term, Exited, GraceExpires, Mutate,
         WriteFile, LeaveLoop, WatcherReads, WatcherWrites, OpenvpnLogs,
         OpenvpnExits

\* If writes succeed, a terminal state that is published after the watcher has
\* got through openvpn's lines is the one the process leaves behind, for any
\* number of lines and signals (main.go:259-279, 301-320).
THEOREM TerminalStateIsLast ==
  ASSUME Disk = "ok"
  PROVE  Spec => TerminalStateStands
<1>1. pc = "final" /\ Drained => Terminal
  BY DEF Terminal
<1>2. IInv /\ Terminal /\ [Next]_vars => Terminal'
  BY TerminalStep
<1>3. Terminal => (pc = "returned" => file.state = FinalState)
  BY DEF Terminal
<1>4. QED
  BY SpecIInv, <1>1, <1>2, <1>3, PTL DEF Spec, TerminalStateStands

\* BridgeLife's variables, as ImplementsBridgeLife maps them.
LifeOf == IF ~Alive THEN "gone"
          ELSE IF pidfile = "self" THEN "registered" ELSE "launched"
Shown == IF file.by = "self" THEN file.state ELSE "none"

\* A step that leaves the two files alone shows the app nothing, unless it is
\* the process's last.
LEMMA QuietStep ==
  ASSUME UNCHANGED <<file, pidfile>>, Alive' => Alive
  PROVE  [Life!Next]_(Life!vars)
<1>1. Shown' = Shown
  BY DEF Shown
<1>2. CASE Alive'
  <2>1. LifeOf' = LifeOf
    BY <1>2 DEF LifeOf
  <2>2. QED
    BY <1>1, <2>1 DEF Life!vars, LifeOf, Shown
<1>3. CASE ~Alive'
  <2>1. LifeOf' = "gone"
    BY <1>3 DEF LifeOf
  <2>2. LifeOf = "gone" \/ LifeOf # "gone"
    OBVIOUS
  <2>3. QED
    BY <1>1, <2>1, <2>2
       DEF Life!Next, Life!Exit, Life!vars, LifeOf, Shown
<1>4. QED
  BY <1>2, <1>3

\* A registered process shows the state it has marshalled.
LEMMA PublishStep ==
  ASSUME NEW s \in Snapshot, s.state # "none", file' = Written(s),
         pidfile = "self", Alive, UNCHANGED pidfile, Alive'
  PROVE  Life!Next
<1>1. /\ Shown' = s.state /\ s.state \in States \ {"none"}
      /\ LifeOf = "registered" /\ LifeOf' = "registered"
  BY WrittenSnapshot DEF Shown, LifeOf, Snapshot
<1>2. QED
  BY <1>1 DEF Life!Next, Life!Publish, LifeOf, Shown, States

LEMMA RefinementStep ==
  ASSUME Disk = "ok", IInv, [Next]_vars
  PROVE  [Life!Next]_(Life!vars)
<1> USE DEF IInv, TypeOK, procVars, sigVars, childVars, goVars
<1>1. CASE Announce
  <2>1. file' = Written(cur') /\ cur' \in Snapshot /\ cur'.state = "starting"
    BY <1>1, NewSnapshot DEF Announce, States
  <2>2. /\ LifeOf = "launched" /\ LifeOf' = "launched"
        /\ Shown = "none" /\ Shown' = "starting"
    BY <1>1, <2>1, WrittenSnapshot
       DEF Announce, Goto, FilesInv, Unannounced, Alive, Running, LifeOf,
           Shown
  <2>3. QED
    BY <2>2 DEF Life!Next, Life!Announce, LifeOf, Shown
<1>2. CASE Register
  <2>1. /\ LifeOf = "launched" /\ LifeOf' = "registered"
        /\ Shown = "starting" /\ Shown' = "starting"
    BY <1>2 DEF Register, Goto, FilesInv, Alive, Running, LifeOf, Shown
  <2>2. QED
    BY <2>1 DEF Life!Next, Life!Register, LifeOf, Shown
<1>3. CASE WriteUp \/ WriteTick \/ WriteFinal
  <2>1. /\ pidfile = "self" /\ Alive /\ Alive' /\ UNCHANGED pidfile
        /\ file' = Written(msnap) /\ msnap.state # "none"
    BY <1>3 DEF WriteUp, WriteTick, WriteFinal, WriteFile, Goto, FilesInv,
                Alive, Running, Unregistered, Unannounced
  <2>2. QED
    BY <2>1, PublishStep DEF FileType
<1>4. CASE WatcherWrites
  <2>1. /\ pidfile = "self" /\ Alive /\ Alive' /\ UNCHANGED pidfile
        /\ file' = Written(wsnap) /\ wsnap.state # "none"
    BY <1>4 DEF WatcherWrites, FilesInv, ChildInv, Alive, Childless
  <2>2. QED
    BY <2>1, PublishStep DEF FileType
<1>5. CASE UNCHANGED <<file, pidfile>> /\ (Alive' => Alive)
  BY <1>5, QuietStep
<1>6. \/ UNCHANGED <<file, pidfile>> /\ (Alive' => Alive)
      \/ Announce \/ Register \/ WriteUp \/ WriteTick \/ WriteFinal
      \/ WatcherWrites
  BY DEF Next, Main, Getppid, Prctl, Recheck, Setup, Spawn, Adopt, Notify, Go,
         Up, OnSignal, OnRelayEnd, OnOpenvpnExit, Tick, CloseConns, Term,
         Exited, GraceExpires, Final, Exit, WatcherReads, WatcherEnds,
         WaitReturns, RelayEnds, OpenvpnLogs, OpenvpnExits, Signal,
         ParentDies, LeaveLoop, Mutate, Deliver, Alive, Running, vars
<1>7. QED
  BY <1>1, <1>2, <1>3, <1>4, <1>5, <1>6

\* If writes succeed, what ocbridge shows the app is BridgeLife: announced,
\* then registered, then whatever state it is in, and nothing once it is gone
\* (main.go:70-282).
THEOREM BridgeImplementsBridgeLife ==
  ASSUME Disk = "ok"
  PROVE  Spec => ImplementsBridgeLife
<1>1. Init => Life!Init
  BY DEF Init, Life!Init, Alive, Running
<1>2. IInv /\ [Next]_vars => [Life!Next]_(Life!vars)
  BY RefinementStep
<1>3. QED
  BY <1>1, <1>2, SpecIInv, PTL DEF Spec, ImplementsBridgeLife, Life!Spec
-----------------------------------------------------------------------------
(* What SignalEndsBridge and SeenParentsDeathEndsBridge rest on besides      *)
(* fairness.                                                                 *)

Serving == {"go", "up", "writeUp", "loop", "writeTick"}
Leaving == {"close", "term", "grace", "final", "writeFinal", "exit"}

\* The parent's death, once it has been seen alive, is never missed: the check
\* after prctl is still to come, a signal waits for the select loop, or the
\* loop has been left (parent.go:14-37, main.go:243-265).
DeathIsNoticed ==
    parent = "dead" /\ origPPID = "parent" /\ Alive
        => pc \in {"prctl", "recheck"} \/ sigs > 0 \/ pc \in Leaving

\* How many steps are left once the loop has been left.
Left == [close |-> 6, term |-> 5, grace |-> 4, final |-> 3, writeFinal |-> 2,
         exit |-> 1, returned |-> 0]

\* No case of the select, no goroutine and no further signal takes back a
\* signal that waits, other than by leaving the loop; and then each step of
\* the main goroutine is nearer to the end and no other step moves it.
SignalStands ==
    [][/\ sigs > 0 => sigs' > 0 \/ pc' \in Leaving
       /\ pc \in Leaving /\ Main => Left[pc'] < Left[pc]
       /\ pc \in Leaving /\ ~Main => pc' = pc]_vars

\* After the loop openvpn runs or has exited, so that stopProcess goes on.
NeverHeldUp == pc = "grace" => ovpn \in {"running", "exited"}

\* When the signal is armed and when it is handled.
ArmedInv ==
    /\ pc = "getppid" => origPPID = "unset"
    /\ pc \in {"getppid", "prctl"} => pdeathsig = "unset"
    /\ pc \in Running \ {"getppid", "prctl"} => pdeathsig = "SIGTERM"
    /\ pc \in Serving \cup Leaving => handler = "channel"
    /\ pc \in {"adopt", "notify"} \cup Serving \cup Leaving => ovpn # "none"

LEMMA ArmedStep ==
  ASSUME TypeOK, ArmedInv, [Next]_vars
  PROVE  ArmedInv'
<1> USE DEF ArmedInv, Serving, Leaving, Running, procVars, sigVars, childVars,
            goVars
<1>1. CASE Getppid \/ Prctl \/ Recheck \/ Setup \/ Announce \/ Register
  BY <1>1 DEF Getppid, Prctl, Recheck, Setup, Announce, Register, Goto,
              ReturnError
<1>2. CASE Spawn \/ Adopt \/ Notify \/ Go
  BY <1>2 DEF Spawn, Adopt, Notify, Go, Goto, ReturnError
<1>3. CASE Up \/ WriteUp \/ Tick \/ WriteTick \/ Final \/ WriteFinal
  BY <1>3 DEF Up, WriteUp, Tick, WriteTick, Final, WriteFinal, Mutate,
              WriteFile, Goto
<1>4. CASE OnSignal \/ OnRelayEnd \/ OnOpenvpnExit
  BY <1>4 DEF OnSignal, OnRelayEnd, OnOpenvpnExit, LeaveLoop
<1>5. CASE CloseConns \/ Term \/ Exited \/ GraceExpires \/ Exit
  BY <1>5 DEF CloseConns, Term, Exited, GraceExpires, Exit, Goto
<1>6. CASE WatcherReads \/ WatcherWrites \/ WatcherEnds
  BY <1>6 DEF WatcherReads, WatcherWrites, WatcherEnds
<1>7. CASE WaitReturns \/ RelayEnds \/ OpenvpnLogs \/ OpenvpnExits
  BY <1>7 DEF WaitReturns, RelayEnds, OpenvpnLogs, OpenvpnExits
<1>8. CASE Signal \/ ParentDies
  BY <1>8 DEF Signal, ParentDies, Deliver
<1>9. CASE UNCHANGED vars
  BY <1>9 DEF vars
<1>10. QED
  BY <1>1, <1>2, <1>3, <1>4, <1>5, <1>6, <1>7, <1>8, <1>9 DEF Next, Main

\* A parent that dies is either looked at again or signals: there is no step
\* between the two.
LEMMA NoticedStep ==
  ASSUME TypeOK, ArmedInv, DeathIsNoticed, [Next]_vars
  PROVE  DeathIsNoticed'
<1> USE DEF DeathIsNoticed, Alive, Running, Leaving, procVars, sigVars,
            childVars, goVars
<1>1. CASE Getppid \/ Prctl \/ Recheck \/ Setup \/ Announce \/ Register
  BY <1>1 DEF Getppid, Prctl, Recheck, Setup, Announce, Register, Goto,
              ReturnError
<1>2. CASE Spawn \/ Adopt \/ Notify \/ Go
  BY <1>2 DEF Spawn, Adopt, Notify, Go, Goto, ReturnError
<1>3. CASE Up \/ WriteUp \/ Tick \/ WriteTick \/ Final \/ WriteFinal
  BY <1>3 DEF Up, WriteUp, Tick, WriteTick, Final, WriteFinal, Mutate,
              WriteFile, Goto
<1>4. CASE OnSignal \/ OnRelayEnd \/ OnOpenvpnExit
  BY <1>4 DEF OnSignal, OnRelayEnd, OnOpenvpnExit, LeaveLoop
<1>5. CASE CloseConns \/ Term \/ Exited \/ GraceExpires \/ Exit
  BY <1>5 DEF CloseConns, Term, Exited, GraceExpires, Exit, Goto
<1>6. CASE WatcherReads \/ WatcherWrites \/ WatcherEnds
  BY <1>6 DEF WatcherReads, WatcherWrites, WatcherEnds
<1>7. CASE WaitReturns \/ RelayEnds \/ OpenvpnLogs \/ OpenvpnExits
  BY <1>7 DEF WaitReturns, RelayEnds, OpenvpnLogs, OpenvpnExits
<1>8. CASE Signal
  BY <1>8 DEF Signal, Deliver, TypeOK, SigType
<1>9. CASE ParentDies
  <2>1. CASE pdeathsig = "SIGTERM"
    BY <1>9, <2>1 DEF ParentDies, Deliver, TypeOK, SigType
  <2>2. CASE pdeathsig # "SIGTERM"
    BY <1>9, <2>2 DEF ParentDies, ArmedInv, TypeOK, MainType
  <2>3. QED
    BY <2>1, <2>2
<1>10. CASE UNCHANGED vars
  BY <1>10 DEF vars
<1>11. QED
  BY <1>1, <1>2, <1>3, <1>4, <1>5, <1>6, <1>7, <1>8, <1>9, <1>10
     DEF Next, Main

\* A signal that waits is taken out of the channel by OnSignal only.
LEMMA SignalKept ==
  ASSUME TypeOK, [Next]_vars, sigs > 0
  PROVE  sigs' > 0 \/ pc' \in Leaving
<1>1. CASE OnSignal
  BY <1>1 DEF OnSignal, LeaveLoop, Leaving
<1>2. CASE ~OnSignal
  BY <1>2 DEF TypeOK, SigType, Next, Main, Getppid, Prctl, Recheck, Setup,
       Announce, Register, Spawn, Adopt, Notify, Go, Up, WriteUp, OnRelayEnd,
       OnOpenvpnExit, Tick, WriteTick, CloseConns, Term, Exited, GraceExpires,
       Final, WriteFinal, Exit, WatcherReads, WatcherWrites, WatcherEnds,
       WaitReturns, RelayEnds, OpenvpnLogs, OpenvpnExits, Signal, ParentDies,
       Mutate, WriteFile, LeaveLoop, Deliver, vars, sigVars
<1>3. QED
  BY <1>1, <1>2

\* After the loop: the main goroutine goes one way, and signals only wait.
LEMMA LeavingStep ==
  ASSUME TypeOK, ArmedInv, [Next]_vars, pc \in Leaving
  PROVE  /\ Main => Left[pc'] < Left[pc]
         /\ ~Main => pc' = pc
<1>1. ASSUME Main
      PROVE  \/ pc = "close" /\ pc' = "term"
             \/ pc = "term" /\ pc' = "grace"
             \/ pc = "grace" /\ pc' = "final"
             \/ pc = "final" /\ pc' = "writeFinal"
             \/ pc = "writeFinal" /\ pc' = "exit"
             \/ pc = "exit" /\ pc' = "returned"
  BY <1>1 DEF Leaving, Main, Getppid, Prctl, Recheck, Setup, Announce,
       Register, Spawn, Adopt, Notify, Go, Up, WriteUp, OnSignal, OnRelayEnd,
       OnOpenvpnExit, Tick, WriteTick, CloseConns, Term, Exited, GraceExpires,
       Final, WriteFinal, Exit, Mutate, WriteFile, LeaveLoop, Goto
<1>2. ASSUME ~Main
      PROVE  pc' = pc
  BY <1>2 DEF ArmedInv, Next, WatcherReads, WatcherWrites, WatcherEnds,
       WaitReturns, RelayEnds, OpenvpnLogs, OpenvpnExits, Signal, ParentDies,
       Deliver, vars
<1>3. QED
  BY <1>1, <1>2 DEF Left

\* However the parent dies and at whatever step, ocbridge finds out if it had
\* seen it alive, and what it finds out, or is told by a signal, ends it: the
\* end is at most six steps of the main goroutine after the loop, of which the wait
\* for openvpn cannot be held up.
THEOREM BridgeIsStoppedForGood ==
  Spec => [](DeathIsNoticed /\ NeverHeldUp) /\ SignalStands
<1>1. Init => ArmedInv /\ DeathIsNoticed
  BY DEF Init, ArmedInv, DeathIsNoticed, Serving, Leaving, Running
<1>2. TypeOK /\ ArmedInv /\ DeathIsNoticed /\ [Next]_vars
        => ArmedInv' /\ DeathIsNoticed'
  BY ArmedStep, NoticedStep
<1>3. TypeOK /\ ArmedInv => NeverHeldUp
  BY DEF ArmedInv, NeverHeldUp, TypeOK, ChildType, Leaving
<1>4. TypeOK /\ ArmedInv /\ [Next]_vars
        => [/\ sigs > 0 => sigs' > 0 \/ pc' \in Leaving
            /\ pc \in Leaving /\ Main => Left[pc'] < Left[pc]
            /\ pc \in Leaving /\ ~Main => pc' = pc]_vars
  BY SignalKept, LeavingStep
<1>5. IInv => TypeOK
  BY DEF IInv
<1>6. QED
  BY <1>1, <1>2, <1>3, <1>4, <1>5, SpecIInv, PTL DEF Spec, SignalStands
=============================================================================
