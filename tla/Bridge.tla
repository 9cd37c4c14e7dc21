------------------------------- MODULE Bridge -------------------------------
(***************************************************************************)
(* One ocbridge process: run() (main.go:70-282) with the goroutines it     *)
(* starts and the processes around it, openconnect (its parent, which runs *)
(* it as --script-tun) and openvpn (its child).                            *)
(*                                                                         *)
(* Publisher.Update (status.go:48-61) is two steps of the goroutine that   *)
(* calls it: change and marshal under the mutex, then write the file       *)
(* without it.  How the file itself is replaced is AtomicFile's subject;   *)
(* here a write is one step.                                               *)
(***************************************************************************)
EXTENDS Naturals, Sequences

CONSTANTS MaxLines,    \* bound: log lines openvpn prints that matter here
          MaxSignals,  \* bound: signals sent by openconnect and the app
          Disk         \* "full" if writing a file may fail, else "ok"

ASSUME ConstantsAssumption ==
    MaxLines \in Nat /\ MaxSignals \in Nat /\ Disk \in {"ok", "full"}

VARIABLES
    parent,    \* openconnect: "alive" or "dead"
    origPPID,  \* DieWithParent's local: "unset", "parent" or "init"
    pdeathsig, \* PR_SET_PDEATHSIG: "unset" or "SIGTERM"
    pc,        \* what the main goroutine does next
    exitErr,   \* what run() returns: "nil" or "err"
    handler,   \* signals are handled by "default" or sent to the "channel"
    sigs,      \* signals waiting in the channel (capacity 2)
    sent,      \* bound counter for MaxSignals
    cur,       \* Publisher.cur: [state, client]
    msnap,     \* the main goroutine's marshalled update
    file,      \* status.json: [state, client, by]; by: "self" or "earlier"
    pidfile,   \* whom ocbridge.pid names: "self" or "earlier"
    ovpn,      \* openvpn: "none", "running" or "exited"
    fds,       \* descriptors a child of this process would inherit
    childfds,  \* descriptors openvpn has inherited
    pipe,      \* openvpn's unread log lines
    logged,    \* bound counter for MaxLines
    watcher,   \* watchOpenVPN: "none", "reading", "writing" or "ended"
    wsnap,     \* its marshalled update
    relay,     \* Relay: "none", "running", "nil" or "err" (its result)
    ovpnExit   \* the channel cmd.Wait's result goes to: "empty" or "full"

procVars  == <<parent, origPPID, pdeathsig>>
sigVars   == <<handler, sigs, sent>>
childVars == <<ovpn, fds, childfds, pipe, logged>>
goVars    == <<watcher, wsnap, relay, ovpnExit>>
vars == <<procVars, pc, exitErr, sigVars, cur, msnap, file, pidfile,
          childVars, goVars>>

Lines == {"completed", "peer", "restarting"}
States == {"none", "starting", "up", "down", "error"}
Snapshot == [state : States, client : BOOLEAN]
FileContent == [state : States, client : BOOLEAN, by : {"earlier", "self"}]
Blank == [state |-> "none", client |-> FALSE]

\* status.json as this process writes it from snapshot s.
Written(s) == [state |-> s.state, client |-> s.client, by |-> "self"]

Running == {"getppid", "prctl", "recheck", "setup", "announce", "register",
            "spawn", "adopt", "notify", "go", "up", "writeUp", "loop",
            "writeTick", "close", "term", "grace", "final", "writeFinal",
            "exit"}
Alive == pc \in Running

(***************************************************************************)
(* The runtime directory outlives a tunnel, so status.json may be that of  *)
(* an earlier process, in any state; the pid file is then stale too.       *)
(***************************************************************************)
Init ==
    /\ parent \in {"alive", "dead"} /\ origPPID = "unset" /\ pdeathsig = "unset"
    /\ pc = "getppid" /\ exitErr = "nil"
    /\ handler = "default" /\ sigs = 0 /\ sent = 0
    /\ cur = Blank /\ msnap = Blank
    /\ file \in [state : States, client : {FALSE}, by : {"earlier"}]
    /\ pidfile = "earlier"
    /\ ovpn = "none" /\ fds = {"vpnfd"} /\ childfds = {}
    /\ pipe = <<>> /\ logged = 0
    /\ watcher = "none" /\ wsnap = Blank /\ relay = "none" /\ ovpnExit = "empty"

\* run() returns err, and the process ends with all its goroutines.
ReturnError == pc' = "returned" /\ exitErr' = "err"

Goto(l) == pc' = l /\ UNCHANGED exitErr
-----------------------------------------------------------------------------
(* DieWithParent, parent.go:25-37 *)

Getppid ==
    /\ pc = "getppid"
    /\ origPPID' = IF parent = "alive" THEN "parent" ELSE "init"
    /\ Goto("prctl")
    /\ UNCHANGED <<parent, pdeathsig, sigVars, cur, msnap, file, pidfile,
                   childVars, goVars>>

Prctl ==
    /\ pc = "prctl"
    /\ pdeathsig' = "SIGTERM"
    /\ Goto("recheck")
    /\ UNCHANGED <<parent, origPPID, sigVars, cur, msnap, file, pidfile,
                   childVars, goVars>>

\* A bug: the signal is armed but the parent is not looked at again.
Recheck_Omitted ==
    /\ pc = "recheck"
    /\ Goto("setup")
    /\ UNCHANGED <<procVars, sigVars, cur, msnap, file, pidfile, childVars,
                   goVars>>

Recheck ==
    /\ pc = "recheck"
    /\ IF origPPID = "parent" /\ parent = "dead"
       THEN ReturnError
       ELSE Goto("setup")
    /\ UNCHANGED <<procVars, sigVars, cur, msnap, file, pidfile, childVars,
                   goVars>>
-----------------------------------------------------------------------------
(* run() up to the select loop *)

\* A bug: the process is registered before it has shown anything.
Setup_RegisterFirst ==
    /\ pc = "setup"
    /\ \/ Goto("announce") /\ pidfile' = "self"
       \/ ReturnError /\ UNCHANGED pidfile
    /\ UNCHANGED <<procVars, sigVars, cur, msnap, file, childVars, goVars>>

\* Paths, PKI, openvpn's path, credentials, addresses: any may fail.
Setup ==
    /\ pc = "setup"
    /\ Goto("announce") \/ ReturnError
    /\ UNCHANGED <<procVars, sigVars, cur, msnap, file, pidfile, childVars,
                   goVars>>

\* A bug: the tunnel is shown as up before the process is registered.
Announce_Up ==
    /\ pc = "announce"
    /\ cur' = [state |-> "up", client |-> FALSE]
    /\ \/ file' = Written(cur')
       \/ Disk = "full" /\ UNCHANGED file
    /\ Goto("register")
    /\ UNCHANGED <<procVars, sigVars, msnap, pidfile, childVars, goVars>>

\* status.Update(starting); its error is dropped.
Announce ==
    /\ pc = "announce"
    /\ cur' = [state |-> "starting", client |-> FALSE]
    /\ \/ file' = Written(cur')
       \/ Disk = "full" /\ UNCHANGED file
    /\ Goto("register")
    /\ UNCHANGED <<procVars, sigVars, msnap, pidfile, childVars, goVars>>

\* WritePidFile; its error ends run().
Register ==
    /\ pc = "register"
    /\ \/ pidfile' = "self" /\ Goto("spawn")
       \/ Disk = "full" /\ ReturnError /\ UNCHANGED pidfile
    /\ UNCHANGED <<procVars, sigVars, cur, msnap, file, childVars, goVars>>

(***************************************************************************)
(* Socketpair, server.conf, ccd, log file, cmd.Start and the watcher.      *)
(* Neither VPNFD nor the socketpair is close-on-exec yet, so openvpn       *)
(* inherits them beside the descriptor it is given.  On an early return    *)
(* there is no openvpn.                                                    *)
(***************************************************************************)
Spawn ==
    /\ pc = "spawn"
    /\ \/ /\ ovpn' = "running"
          /\ childfds' = fds \cup {"tun-ours", "tun-theirs"}
          /\ fds' = fds \cup {"tun-ours"}
          /\ watcher' = "reading"
          /\ Goto("adopt")
       \/ ReturnError /\ UNCHANGED <<ovpn, fds, childfds, watcher>>
    /\ UNCHANGED <<procVars, sigVars, cur, msnap, file, pidfile, pipe, logged,
                   wsnap, relay, ovpnExit>>

\* A bug: the failure path forgets the child it has just started.
Adopt_NoKill ==
    /\ pc = "adopt"
    /\ Goto("notify") \/ ReturnError
    /\ UNCHANGED <<procVars, sigVars, cur, msnap, file, pidfile, childVars,
                   goVars>>

\* fdConn for both ends closes the originals; on failure openvpn is killed.
Adopt ==
    /\ pc = "adopt"
    /\ \/ fds' = {} /\ Goto("notify") /\ UNCHANGED ovpn
       \/ ovpn' = "exited" /\ ReturnError /\ UNCHANGED fds
    /\ UNCHANGED <<procVars, sigVars, cur, msnap, file, pidfile, childfds,
                   pipe, logged, goVars>>

Notify ==
    /\ pc = "notify"
    /\ handler' = "channel"
    /\ Goto("go")
    /\ UNCHANGED <<procVars, sigs, sent, cur, msnap, file, pidfile,
                   childVars, goVars>>

\* The relay and cmd.Wait goroutines start.
Go ==
    /\ pc = "go"
    /\ relay' = "running"
    /\ Goto("up")
    /\ UNCHANGED <<procVars, sigVars, cur, msnap, file, pidfile, childVars,
                   watcher, wsnap, ovpnExit>>

\* The locked half of an update of the main goroutine.
Mutate(s, next) ==
    /\ cur' = s
    /\ msnap' = s
    /\ Goto(next)
    /\ UNCHANGED <<procVars, sigVars, file, pidfile, childVars, goVars>>

\* Its other half: the file is replaced, or not, and nobody looks.
WriteFile(next) ==
    /\ \/ file' = Written(msnap)
       \/ Disk = "full" /\ UNCHANGED file
    /\ Goto(next)
    /\ UNCHANGED <<procVars, sigVars, cur, msnap, pidfile, childVars, goVars>>

Up == pc = "up" /\ Mutate([cur EXCEPT !.state = "up"], "writeUp")
WriteUp == pc = "writeUp" /\ WriteFile("loop")
-----------------------------------------------------------------------------
(* The select loop: Go picks any ready case *)

LeaveLoop(err) ==
    /\ pc = "loop"
    /\ pc' = "close"
    /\ exitErr' = err
    /\ UNCHANGED <<procVars, handler, sent, cur, msnap, file,
                   pidfile, childVars, goVars>>

\* A bug: the signal is logged and the loop goes on.
OnSignal_Ignored ==
    /\ pc = "loop"
    /\ sigs > 0
    /\ sigs' = sigs - 1
    /\ UNCHANGED <<procVars, pc, exitErr, handler, sent, cur, msnap,
                   file, pidfile, childVars, goVars>>

OnSignal == sigs > 0 /\ sigs' = sigs - 1 /\ LeaveLoop("nil")

OnRelayEnd ==
    relay \in {"nil", "err"} /\ LeaveLoop(relay) /\ UNCHANGED sigs

OnOpenvpnExit == ovpnExit = "full" /\ LeaveLoop("err") /\ UNCHANGED sigs

\* A bug: the ticker updates the counters but not the file.
Tick_NoWrite ==
    /\ pc = "loop"
    /\ UNCHANGED vars

Tick == pc = "loop" /\ Mutate(cur, "writeTick")
WriteTick == pc = "writeTick" /\ WriteFile("loop")
-----------------------------------------------------------------------------
(* Shutdown: close both ends, stop openvpn, publish the terminal state *)

CloseConns ==
    /\ pc = "close"
    /\ relay' = IF relay = "running" THEN "err" ELSE relay
    /\ Goto("term")
    /\ UNCHANGED <<procVars, sigVars, cur, msnap, file, pidfile, childVars,
                   watcher, wsnap, ovpnExit>>

\* stopProcess: SIGTERM, which openvpn may take any time to act on ...
Term ==
    /\ pc = "term"
    /\ Goto("grace")
    /\ UNCHANGED <<procVars, sigVars, cur, msnap, file, pidfile, childVars,
                   goVars>>

Exited ==
    /\ pc = "grace"
    /\ ovpn = "exited"
    /\ Goto("final")
    /\ UNCHANGED <<procVars, sigVars, cur, msnap, file, pidfile, childVars,
                   goVars>>

\* ... and SIGKILL when the grace period is over.
GraceExpires ==
    /\ pc = "grace"
    /\ ovpn = "running"
    /\ ovpn' = "exited"
    /\ Goto("final")
    /\ UNCHANGED <<procVars, sigVars, cur, msnap, file, pidfile, fds, childfds,
                   pipe, logged, goVars>>

\* A bug: the counters and the client are reset, the state is not.
Final_KeepState == pc = "final" /\ Mutate([cur EXCEPT !.client = FALSE], "writeFinal")

Final ==
    /\ pc = "final"
    /\ Mutate([state |-> IF exitErr = "err" THEN "error" ELSE "down",
               client |-> FALSE], "writeFinal")
WriteFinal == pc = "writeFinal" /\ WriteFile("exit")

\* The last log line and the deferred calls; until then the watcher runs on.
Exit ==
    /\ pc = "exit"
    /\ Goto("returned")
    /\ UNCHANGED <<procVars, sigVars, cur, msnap, file, pidfile, childVars,
                   goVars>>

Main ==
    \/ Getppid \/ Prctl \/ Recheck \/ Setup \/ Announce \/ Register
    \/ Spawn \/ Adopt \/ Notify \/ Go \/ Up \/ WriteUp
    \/ OnSignal \/ OnRelayEnd \/ OnOpenvpnExit \/ Tick \/ WriteTick
    \/ CloseConns \/ Term \/ Exited \/ GraceExpires \/ Final \/ WriteFinal
    \/ Exit
-----------------------------------------------------------------------------
(* The other goroutines *)

\* The effect of a log line on the status (watchOpenVPN's switch).
Lift(s, line) ==
    IF line = "completed" THEN [s EXCEPT !.state = "up"]
                          ELSE [s EXCEPT !.client = (line = "peer")]

WatcherReads ==
    /\ Alive
    /\ watcher = "reading"
    /\ pipe # <<>>
    /\ cur' = Lift(cur, Head(pipe))
    /\ wsnap' = cur'
    /\ pipe' = Tail(pipe)
    /\ watcher' = "writing"
    /\ UNCHANGED <<procVars, pc, exitErr, sigVars, msnap, file, pidfile, ovpn,
                   fds, childfds, logged, relay, ovpnExit>>

WatcherWrites ==
    /\ Alive
    /\ watcher = "writing"
    /\ \/ file' = Written(wsnap)
       \/ Disk = "full" /\ UNCHANGED file
    /\ watcher' = "reading"
    /\ UNCHANGED <<procVars, pc, exitErr, sigVars, cur, msnap, pidfile,
                   childVars, wsnap, relay, ovpnExit>>

\* End of file, or cmd.Wait has closed the pipe under the scanner.
WatcherEnds ==
    /\ Alive
    /\ watcher = "reading"
    /\ pipe = <<>>
    /\ ovpn = "exited"
    /\ watcher' = "ended"
    /\ UNCHANGED <<procVars, pc, exitErr, sigVars, cur, msnap, file, pidfile,
                   childVars, wsnap, relay, ovpnExit>>

\* cmd.Wait closes StdoutPipe once openvpn has exited: unread lines are lost.
WaitReturns ==
    /\ Alive
    /\ relay # "none"
    /\ ovpn = "exited"
    /\ ovpnExit = "empty"
    /\ ovpnExit' = "full"
    /\ pipe' = <<>>
    /\ UNCHANGED <<procVars, pc, exitErr, sigVars, cur, msnap, file, pidfile,
                   ovpn, fds, childfds, logged, watcher, wsnap, relay>>

\* A read or a write of a pump fails, or delivers the peer's end of file.
RelayEnds ==
    /\ Alive
    /\ relay = "running"
    /\ relay' \in {"nil", "err"}
    /\ UNCHANGED <<procVars, pc, exitErr, sigVars, cur, msnap, file, pidfile,
                   childVars, watcher, wsnap, ovpnExit>>
-----------------------------------------------------------------------------
(* The processes around it *)

OpenvpnLogs ==
    /\ ovpn = "running"
    /\ logged < MaxLines
    /\ logged' = logged + 1
    /\ \E line \in Lines : pipe' = Append(pipe, line)
    /\ UNCHANGED <<procVars, pc, exitErr, sigVars, cur, msnap, file, pidfile,
                   ovpn, fds, childfds, goVars>>

OpenvpnExits ==
    /\ ovpn = "running"
    /\ ovpn' = "exited"
    /\ UNCHANGED <<procVars, pc, exitErr, sigVars, cur, msnap, file, pidfile,
                   fds, childfds, pipe, logged, goVars>>

\* A bug: signals pile up beyond the channel's capacity.
Deliver_NoCap ==
    IF handler = "channel"
    THEN sigs' = sigs + 1 /\ UNCHANGED pc
    ELSE pc' = "killed" /\ UNCHANGED sigs

\* A signal of the three that Notify names; before Notify it kills.
Deliver ==
    IF handler = "channel"
    THEN sigs' = (IF sigs < 2 THEN sigs + 1 ELSE sigs) /\ UNCHANGED pc
    ELSE pc' = "killed" /\ UNCHANGED sigs

\* openconnect's kill(-pid, SIGHUP), or the app's SIGTERM (backend.py:518).
Signal ==
    /\ Alive
    /\ sent < MaxSignals
    /\ sent' = sent + 1
    /\ Deliver
    /\ UNCHANGED <<procVars, exitErr, handler, cur, msnap, file, pidfile,
                   childVars, goVars>>

\* openconnect dies without tearing its script down.
ParentDies ==
    /\ parent = "alive"
    /\ parent' = "dead"
    /\ IF pdeathsig = "SIGTERM" /\ Alive THEN Deliver ELSE UNCHANGED <<pc, sigs>>
    /\ UNCHANGED <<origPPID, pdeathsig, exitErr, handler, sent, cur,
                   msnap, file, pidfile, childVars, goVars>>

Next ==
    \/ Main
    \/ WatcherReads \/ WatcherWrites \/ WatcherEnds
    \/ WaitReturns \/ RelayEnds
    \/ OpenvpnLogs \/ OpenvpnExits
    \/ Signal \/ ParentDies

Spec == Init /\ [][Next]_vars

(***************************************************************************)
(* The runtime schedules every goroutine, and select picks among ready     *)
(* cases at random, so a case that is ready again and again is taken.      *)
(* Nothing is assumed of openvpn, openconnect, the app or the sockets.     *)
(***************************************************************************)
Fairness ==
    /\ WF_vars(Main)
    /\ WF_vars(WatcherReads) /\ WF_vars(WatcherWrites) /\ WF_vars(WatcherEnds)
    /\ WF_vars(WaitReturns)
    /\ SF_vars(OnSignal) /\ SF_vars(OnRelayEnd) /\ SF_vars(OnOpenvpnExit)
    /\ SF_vars(Tick)

FairSpec == Spec /\ Fairness
-----------------------------------------------------------------------------
MainType ==
    /\ parent \in {"alive", "dead"} /\ origPPID \in {"unset", "parent", "init"}
    /\ pdeathsig \in {"unset", "SIGTERM"}
    /\ pc \in Running \cup {"returned", "killed"} /\ exitErr \in {"nil", "err"}
SigType ==
    /\ handler \in {"default", "channel"} /\ sigs \in 0..2
    /\ sent \in 0..MaxSignals
FileType ==
    /\ cur \in Snapshot /\ msnap \in Snapshot /\ wsnap \in Snapshot
    /\ file \in FileContent /\ pidfile \in {"earlier", "self"}
ChildType ==
    /\ ovpn \in {"none", "running", "exited"}
    /\ fds \subseteq {"vpnfd", "tun-ours"}
    /\ childfds \subseteq {"vpnfd", "tun-ours", "tun-theirs"}
PipeType ==
    pipe \in Seq(Lines) /\ Len(pipe) <= logged /\ logged \in 0..MaxLines
GoType ==
    /\ watcher \in {"none", "reading", "writing", "ended"}
    /\ relay \in {"none", "running", "nil", "err"}
    /\ ovpnExit \in {"empty", "full"}

\* The types of the variables.
TypeOK == MainType /\ SigType /\ FileType /\ ChildType /\ PipeType /\ GoType

\* Whichever of its many exits run() takes, and whatever signals it is sent,
\* openvpn is not left running (main.go:210-219, 284-299), unless one comes
\* before signals are handled (main.go:227).
ReturnStopsOpenvpn ==
    ~Alive /\ ovpn = "running" => pc = "killed" /\ handler = "default"

\* The app takes a live pid in ocbridge.pid and the presence of status.json
\* for a started tunnel (backend.py:462), and both files may be left from an
\* earlier one: when this process registers, the status is its own.
RegisteredShowsOwnStatus == pidfile = "self" => file.by = "self"

\* Two goroutines write whole snapshots, so an older one may land last; while
\* the loop runs, the ticker repairs it: again and again the file is current.
TickerRepairsFile == []<>(file = Written(cur) \/ ~(pc \in {"loop", "writeTick"}))

\* openvpn has exited, and none of its log lines is on its way to the status.
Drained ==
    ovpn = "exited" /\ pipe = <<>> /\ watcher \in {"reading", "ended"}

FinalState == IF exitErr = "err" THEN "error" ELSE "down"

\* The terminal state stands, and tells how run() ended, if the watcher had
\* got through openvpn's last lines by then: neither it nor the ticker
\* publishes anything after it (main.go:259-279, 301-320).
TerminalStateStands ==
    [](pc = "final" /\ Drained => [](pc = "returned" => file.state = FinalState))

\* A signal received while the loop runs ends the process, whatever else is
\* ready in the select (main.go:243-265).
SignalEndsBridge == sigs > 0 ~> ~Alive

\* When openconnect dies, however it dies, ocbridge ends (parent.go:14-24),
\* provided it had seen openconnect alive.
SeenParentsDeathEndsBridge ==
    (parent = "dead" /\ origPPID = "parent") ~> ~Alive

Life == INSTANCE BridgeLife
          WITH life <- IF ~Alive THEN "gone"
                       ELSE IF pidfile = "self" THEN "registered" ELSE "launched",
               published <- IF file.by = "self" THEN file.state ELSE "none"

\* What the app sees of this process is BridgeLife.
ImplementsBridgeLife == Life!Spec
-----------------------------------------------------------------------------
(***************************************************************************)
(* What comments and tests say and the code does not do: none of these     *)
(* holds (README.md, "Where the code and its documents disagree").         *)
(***************************************************************************)

\* SeenParentsDeathEndsBridge without its proviso, as parent.go:31-32 has it:
\* a parent that "died between the fork and the prctl" is noticed too.
ParentsDeathEndsBridge == parent = "dead" ~> ~Alive

\* The process never leaves openvpn, and with it the local port, behind
\* (main.go:284-286, backend.py:507-510).
NeverLeavesOpenvpn == ~Alive => ovpn # "running"

\* fdConn's originals are closed "to avoid leaking [them] into the openvpn
\* child" (relay.go:22-24).
ChildHasOnlyItsTun == childfds \subseteq {"tun-theirs"}

\* A process that has served and stopped leaves a terminal state behind
\* (tests/rig/e2e_test.py, "ocbridge published a terminal state and exited").
StoppedShowsTerminalState ==
    pc = "returned" /\ relay # "none" => file.state \in {"down", "error"}
=============================================================================
