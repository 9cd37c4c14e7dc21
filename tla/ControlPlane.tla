---------------------------- MODULE ControlPlane ----------------------------
(***************************************************************************)
(* The app's side of a tunnel (backend.py: connect, disconnect, status and *)
(* the worker thread of an attempt) with the detached processes it starts. *)
(* Attempt k starts openconnect k, which runs ocbridge k as its child.     *)
(*                                                                         *)
(* The app knows these processes only through three files that outlive     *)
(* them all: openconnect.pid, ocbridge.pid and status.json.  A pid file    *)
(* holds an attempt's number, 0 if there is none.  kill(pid, 0) succeeds   *)
(* for a zombie too, so a dead process counts as alive until its parent    *)
(* has reaped it: openconnect k never reaps ocbridge k, and the app reaps  *)
(* an openconnect when poll() finds it dead, when the worker drops its     *)
(* Popen object, and, after that, when it next starts a process.           *)
(*                                                                         *)
(* An ocbridge is what BridgeLife.tla says of it.  Pids are not reused.    *)
(***************************************************************************)
EXTENDS Naturals

CONSTANTS MaxTunnels,      \* bound: openconnect processes started
          MaxDisconnects,  \* bound: calls of disconnect()
          MaxCrashes,      \* bound: deaths of the app
          Faults           \* what may go wrong beside the processes' deaths

ASSUME ConstantsAssumption ==
    /\ MaxTunnels \in Nat /\ MaxDisconnects \in Nat /\ MaxCrashes \in Nat
    /\ Faults \subseteq {"bridge_dies", "disk_full", "arm_race"}

VARIABLES
    cpc,       \* the app's call thread: "idle", "reap", "start" or "crashed"
    wpc,       \* the worker thread's next step, "none" without a worker
    attempt,   \* number of the newest attempt
    outcome,   \* outcome[k]: what the app was told: "none", "up", "failed", or
               \* "unnamed": failed because its pid could not be written
    oc,        \* oc[k]: openconnect k; "waiting" for its cookie at first
    children,  \* openconnects whose parent is the running app
    br,        \* br[k]: state of ocbridge k
    told,      \* ocbridges that have received a signal to stop
    pub,       \* pub[k]: last state ocbridge k wrote
    ocpid,     \* openconnect.pid
    brpid,     \* ocbridge.pid
    file,      \* status.json: [of, state]; of = 0 without a file
    cancelled, \* history: "yes" if disconnect() came during this attempt
    asked,     \* history: the tunnel a disconnect() was meant for, or 0
    disconnects, crashes  \* bound counters

appVars  == <<cpc, wpc, attempt, outcome, cancelled>>
procVars == <<oc, children, br, told, pub>>
fileVars == <<ocpid, brpid, file>>
envVars  == <<asked, disconnects, crashes>>
vars == <<appVars, procVars, fileVars, envVars>>

Tunnels == 1..MaxTunnels
Pids == 0..MaxTunnels

OcRuns(k) == oc[k] \in {"waiting", "running", "term"}
BrRuns(k) == br[k] \in {"launched", "registered", "ended"}

\* _alive (backend.py:536-543): zombies answer kill(pid, 0).
OcAlive(p) == p # 0 /\ (OcRuns(p) \/ oc[p] = "zombie")
BrAlive(p) == p # 0 /\ (BrRuns(p) \/ br[p] = "zombie")

\* What status() returns (backend.py:546-563).
Status == IF file.of = 0 \/ ~BrAlive(brpid) THEN "down" ELSE file.state

Init ==
    /\ cpc = "idle" /\ wpc = "none" /\ attempt = 0 /\ cancelled = "no"
    /\ outcome = [k \in Tunnels |-> "none"]
    /\ oc = [k \in Tunnels |-> "unborn"] /\ children = {}
    /\ br = [k \in Tunnels |-> "unborn"] /\ told = {}
    /\ pub = [k \in Tunnels |-> "none"]
    /\ ocpid = 0 /\ brpid = 0 /\ file = [of |-> 0, state |-> "down"]
    /\ asked = 0 /\ disconnects = 0 /\ crashes = 0
-----------------------------------------------------------------------------
(* What a process's end does to the others *)

\* Starting any process makes Python reap its earlier children.
Reaped == [k \in Tunnels |-> IF oc[k] = "zombie" THEN "gone" ELSE oc[k]]

(***************************************************************************)
(* openconnect k ends, on its own, on SIGTERM, or killed.  Its ocbridge    *)
(* gets SIGHUP from it or SIGTERM from the kernel, which ends at once one  *)
(* that has not registered yet, except one that has not even looked up its *)
(* parent (parent.go:26).  A zombie is reaped by init.                     *)
(***************************************************************************)
OcEndsAs(k, left) ==
    /\ oc' = [oc EXCEPT ![k] = left]
    /\ told' = IF br[k] \in {"registered", "ended"} THEN told \cup {k} ELSE told
    /\ \/ br' = [br EXCEPT ![k] = IF @ \in {"registered", "ended"} THEN @
                                                                   ELSE "gone"]
       \/ /\ "arm_race" \in Faults /\ br[k] = "launched" /\ pub[k] = "none"
          /\ UNCHANGED br

OcEnds(k) == OcEndsAs(k, IF k \in children THEN "zombie" ELSE "gone")

BrEnds(k) == br' = [br EXCEPT ![k] = IF OcRuns(k) THEN "zombie" ELSE "gone"]
-----------------------------------------------------------------------------
(* connect(), backend.py:311-338, on the call thread *)

\* The refusals, and _reap_stale's decision (backend.py:341-350).
Connect ==
    /\ cpc = "idle"
    /\ attempt < MaxTunnels
    /\ wpc = "none"
    /\ Status # "up"
    /\ cpc' = IF OcAlive(ocpid) /\ ~BrAlive(brpid) THEN "reap" ELSE "start"
    /\ UNCHANGED <<wpc, attempt, outcome, cancelled, procVars, fileVars,
                   envVars>>

\* _terminate: within the grace period, or by SIGKILL after it, it is dead.
Reap ==
    /\ cpc = "reap"
    /\ cpc' = "start"
    /\ IF OcRuns(ocpid) THEN OcEnds(ocpid) ELSE UNCHANGED <<oc, br, told>>
    /\ UNCHANGED <<wpc, attempt, outcome, cancelled, children, pub, fileVars,
                   envVars>>

\* Without a password there is no attempt.
StartWorker ==
    /\ cpc = "start"
    /\ cpc' = "idle"
    /\ \/ wpc' = "auth" /\ cancelled' = "no" /\ asked' = 0
       \/ UNCHANGED <<wpc, cancelled, asked>>
    /\ UNCHANGED <<attempt, outcome, procVars, fileVars, disconnects, crashes>>
-----------------------------------------------------------------------------
(* _connect_worker, backend.py:353-471, on its own thread *)

Finish(result) ==
    /\ wpc' = "none"
    /\ outcome' = [outcome EXCEPT ![attempt] = result]

\* poll(), also the one Popen's destructor makes, reaps a dead openconnect.
Polled == [oc EXCEPT ![attempt] = IF @ = "zombie" THEN "gone" ELSE @]

\* _authenticate: no process outlives it, whatever its answer or timeout.
Authenticate ==
    /\ wpc = "auth"
    /\ wpc' \in {"popen", "none"}
    /\ oc' = Reaped
    /\ UNCHANGED <<cpc, attempt, outcome, cancelled, children, br, told, pub,
                   fileVars, envVars>>

Popen ==
    /\ wpc = "popen"
    /\ attempt < MaxTunnels
    /\ attempt' = attempt + 1
    /\ oc' = [Reaped EXCEPT ![attempt'] = "waiting"]
    /\ children' = children \cup {attempt'}
    /\ wpc' = "cookie"
    /\ UNCHANGED <<cpc, outcome, cancelled, br, told, pub, fileVars, envVars>>

\* Writing the cookie; on an error openconnect is killed.
Cookie ==
    /\ wpc = "cookie"
    /\ \/ /\ wpc' = "pidfile"
          /\ oc' = [oc EXCEPT ![attempt] = IF @ = "waiting" THEN "running" ELSE @]
          /\ UNCHANGED <<outcome, br, told>>
       \/ /\ Finish("failed")
          /\ IF OcRuns(attempt)
             THEN \E left \in {"zombie", "gone"} : OcEndsAs(attempt, left)
             ELSE oc' = Polled /\ UNCHANGED <<br, told>>
    /\ UNCHANGED <<cpc, attempt, cancelled, children, pub, fileVars, envVars>>

\* A bug: the pid written is not openconnect's.
PidFile_WrongPid ==
    /\ wpc = "pidfile"
    /\ \/ ocpid' = attempt + 1 /\ wpc' = "wait" /\ UNCHANGED <<outcome, oc>>
       \/ /\ "disk_full" \in Faults
          /\ Finish("unnamed") /\ oc' = Polled /\ UNCHANGED ocpid
    /\ UNCHANGED <<cpc, attempt, cancelled, children, br, told, pub, brpid, file,
                   envVars>>

\* openconnect.pid; an exception ends the worker and leaves openconnect.
PidFile ==
    /\ wpc = "pidfile"
    /\ \/ ocpid' = attempt /\ wpc' = "wait" /\ UNCHANGED <<outcome, oc>>
       \/ /\ "disk_full" \in Faults
          /\ Finish("unnamed") /\ oc' = Polled /\ UNCHANGED ocpid
    /\ UNCHANGED <<cpc, attempt, cancelled, children, br, told, pub, brpid, file,
                   envVars>>

\* The wait loop finds a live pid in ocbridge.pid and a status.json ...
PollSucceeds ==
    /\ wpc = "wait"
    /\ BrAlive(brpid) /\ file.of # 0
    /\ Finish("up") /\ oc' = Polled
    /\ UNCHANGED <<cpc, attempt, cancelled, children, br, told, pub, fileVars,
                   envVars>>

\* A bug: the loop gives up without terminating openconnect.
PollFails_NoTerminate ==
    /\ wpc = "wait"
    /\ Finish("failed") /\ oc' = Polled
    /\ UNCHANGED <<cpc, attempt, cancelled, children, br, told, pub, fileVars,
                   envVars>>

\* A bug: only openconnect's death ends the loop.
PollFails_NoDeadline ==
    /\ wpc = "wait"
    /\ ~OcRuns(attempt) /\ oc' = Polled
    /\ wpc' = "terminate"
    /\ UNCHANGED <<cpc, attempt, outcome, cancelled, children, br, told, pub,
                   fileVars, envVars>>

\* ... or sees openconnect dead, or 20 seconds go by.
PollFails ==
    /\ wpc = "wait"
    /\ oc' \in {oc, Polled}
    /\ wpc' = "terminate"
    /\ UNCHANGED <<cpc, attempt, outcome, cancelled, children, br, told, pub,
                   fileVars, envVars>>

TerminateAttempt ==
    /\ wpc = "terminate"
    /\ Finish("failed")
    /\ IF OcRuns(attempt) THEN OcEndsAs(attempt, "gone")
                          ELSE oc' = Polled /\ UNCHANGED <<br, told>>
    /\ UNCHANGED <<cpc, attempt, cancelled, children, pub, fileVars, envVars>>

Worker ==
    Authenticate \/ Popen \/ Cookie \/ PidFile \/ PollSucceeds \/ PollFails
    \/ TerminateAttempt
-----------------------------------------------------------------------------
(* disconnect(), backend.py:504-525 *)

\* A bug: the bridge is signalled, openconnect only if there is no bridge.
Disconnect_BridgeFirst ==
    /\ cpc = "idle"
    /\ disconnects < MaxDisconnects
    /\ disconnects' = disconnects + 1
    /\ cancelled' = IF wpc # "none" THEN "yes" ELSE "no"
    /\ asked' = IF Status = "up" /\ ocpid = brpid THEN brpid ELSE asked
    /\ IF BrAlive(brpid)
       THEN /\ told' = IF BrRuns(brpid) THEN told \cup {brpid} ELSE told
            /\ UNCHANGED oc
       ELSE /\ oc' = [k \in Tunnels |-> IF k = ocpid /\ OcRuns(k) THEN "term"
                                                                 ELSE oc[k]]
            /\ UNCHANGED told
    /\ UNCHANGED <<cpc, wpc, attempt, outcome, children, br, pub, fileVars,
                   crashes>>

Disconnect ==
    /\ cpc = "idle"
    /\ disconnects < MaxDisconnects
    /\ disconnects' = disconnects + 1
    /\ cancelled' = IF wpc # "none" THEN "yes" ELSE "no"
    /\ asked' = IF Status = "up" /\ ocpid = brpid THEN brpid ELSE asked
    /\ IF OcAlive(ocpid)
       THEN /\ oc' = [oc EXCEPT ![ocpid] = IF OcRuns(ocpid) THEN "term" ELSE @]
            /\ UNCHANGED told
       ELSE /\ told' = IF brpid # 0 /\ BrRuns(brpid) THEN told \cup {brpid}
                                                     ELSE told
            /\ UNCHANGED oc
    /\ UNCHANGED <<cpc, wpc, attempt, outcome, children, br, pub, fileVars,
                   crashes>>
-----------------------------------------------------------------------------
(* The app's death and return; its processes live on as init's children *)

Crash ==
    /\ cpc # "crashed"
    /\ crashes < MaxCrashes
    /\ crashes' = crashes + 1
    /\ cpc' = "crashed" /\ wpc' = "none"
    /\ children' = {}
    /\ oc' = Reaped
    /\ UNCHANGED <<attempt, outcome, cancelled, br, told, pub, fileVars, asked,
                   disconnects>>

Restart ==
    /\ cpc = "crashed"
    /\ cpc' = "idle"
    /\ UNCHANGED <<wpc, attempt, outcome, cancelled, procVars, fileVars,
                   envVars>>
-----------------------------------------------------------------------------
(* The processes *)

\* The session is up: openconnect runs its script.
OcLaunches(k) ==
    /\ oc[k] \in {"running", "term"} /\ br[k] = "unborn"
    /\ br' = [br EXCEPT ![k] = "launched"]
    /\ UNCHANGED <<appVars, oc, children, told, pub, fileVars, envVars>>

OcExits(k) ==
    /\ OcRuns(k)
    /\ OcEnds(k)
    /\ UNCHANGED <<appVars, children, pub, fileVars, envVars>>

\* A bug: the pid file is written first.
BrAnnounces_PidFirst(k) ==
    /\ br[k] = "launched" /\ pub[k] = "none"
    /\ br' = [br EXCEPT ![k] = "registered"]
    /\ brpid' = k
    /\ UNCHANGED <<appVars, oc, children, told, pub, ocpid, file, envVars>>

BrAnnounces(k) ==
    /\ br[k] = "launched" /\ pub[k] = "none"
    /\ pub' = [pub EXCEPT ![k] = "starting"]
    /\ file' = [of |-> k, state |-> "starting"]
    /\ UNCHANGED <<appVars, oc, children, br, told, ocpid, brpid, envVars>>

BrRegisters(k) ==
    /\ br[k] = "launched" /\ pub[k] = "starting"
    /\ br' = [br EXCEPT ![k] = "registered"]
    /\ brpid' = k
    /\ UNCHANGED <<appVars, oc, children, told, pub, ocpid, file, envVars>>

\* A bug: the state is published once, without the ticker.
BrPublishes_Once(k) ==
    /\ br[k] = "registered" /\ k \notin told
    /\ pub[k] # "up"
    /\ pub' = [pub EXCEPT ![k] = "up"]
    /\ file' = [of |-> k, state |-> "up"]
    /\ UNCHANGED <<appVars, oc, children, br, told, ocpid, brpid, envVars>>

\* "up", and again at every tick.
BrPublishes(k) ==
    /\ br[k] = "registered" /\ k \notin told
    /\ pub' = [pub EXCEPT ![k] = "up"]
    /\ file' = [of |-> k, state |-> "up"]
    /\ UNCHANGED <<appVars, oc, children, br, told, ocpid, brpid, envVars>>

\* The terminal state: on a signal, or because openvpn or the relay ended.
BrFinal(k) ==
    /\ br[k] = "registered"
    /\ \E s \in {"down", "error"} :
          /\ pub' = [pub EXCEPT ![k] = s]
          /\ file' = [of |-> k, state |-> s]
    /\ br' = [br EXCEPT ![k] = "ended"]
    /\ UNCHANGED <<appVars, oc, children, told, ocpid, brpid, envVars>>

\* The process is gone: after its terminal state, on a signal that comes
\* before signal.Notify, or (a fault) at any time.
BrExits(k) ==
    /\ \/ br[k] = "ended"
       \/ br[k] = "registered" /\ k \in told
       \/ BrRuns(k) /\ "bridge_dies" \in Faults
    /\ BrEnds(k)
    /\ UNCHANGED <<appVars, oc, children, told, pub, fileVars, envVars>>

Next ==
    \/ Connect \/ Reap \/ StartWorker \/ Worker \/ Disconnect
    \/ Crash \/ Restart
    \/ \E k \in Tunnels : \/ OcLaunches(k) \/ OcExits(k)
                          \/ BrAnnounces(k) \/ BrRegisters(k)
                          \/ BrPublishes(k) \/ BrFinal(k) \/ BrExits(k)

Spec == Init /\ [][Next]_vars

(***************************************************************************)
(* The app's threads run, an openconnect told to stop stops (its signal    *)
(* handler leaves the main loop), a bridge told to stop stops, as Bridge   *)
(* shows, and a serving bridge's ticker ticks.  The user, the gateway, a   *)
(* crash and a bridge's start are not relied on.                           *)
(***************************************************************************)
Fairness ==
    /\ WF_vars(Reap) /\ WF_vars(StartWorker) /\ WF_vars(Worker)
    /\ \A k \in Tunnels :
          /\ WF_vars(oc[k] = "term" /\ OcExits(k))
          /\ WF_vars(k \in told /\ BrFinal(k))
          /\ WF_vars((k \in told \/ br[k] = "ended") /\ BrExits(k))
          /\ WF_vars(BrPublishes(k))

FairSpec == Spec /\ Fairness
-----------------------------------------------------------------------------
OcStates == {"unborn", "waiting", "running", "term", "zombie", "gone"}
BrStates == {"unborn", "launched", "registered", "ended", "zombie", "gone"}
ShownStates == {"starting", "up", "down", "error"}

AppType ==
    /\ cpc \in {"idle", "reap", "start", "crashed"}
    /\ wpc \in {"none", "auth", "popen", "cookie", "pidfile", "wait",
                "terminate"}
    /\ attempt \in Pids
    /\ outcome \in [Tunnels -> {"none", "up", "failed", "unnamed"}]
    /\ cancelled \in {"no", "yes"}
OcType == oc \in [Tunnels -> OcStates] /\ children \subseteq Tunnels
BrType ==
    /\ br \in [Tunnels -> BrStates] /\ told \subseteq Tunnels
    /\ pub \in [Tunnels -> ShownStates \cup {"none"}]
FileType ==
    /\ ocpid \in Pids /\ brpid \in Pids
    /\ file \in [of : Pids, state : ShownStates]
EnvType ==
    /\ asked \in Pids
    /\ disconnects \in 0..MaxDisconnects /\ crashes \in 0..MaxCrashes

\* The types of the variables.
TypeOK == AppType /\ OcType /\ BrType /\ FileType /\ EnvType

\* An attempt reported as failed has left no openconnect, and so no session,
\* behind (backend.py:453-471), whatever died or was cancelled meanwhile; the
\* exception is an openconnect whose pid file could not be written.
FailedAttemptLeavesNothing ==
    \A k \in Tunnels : outcome[k] = "failed" => ~OcRuns(k)

\* An attempt ends, with an answer, however long the bridge takes.
AttemptEnds == wpc # "none" ~> wpc = "none"

\* disconnect() of the tunnel that both pid files name takes its openconnect
\* and its bridge down, also after the app was restarted and has the tunnel
\* from another life (backend.py:504-525, status.go:15-17).
DisconnectTakesDown ==
    \A k \in Tunnels : asked = k ~> (~OcRuns(k) /\ ~BrRuns(k)) \/ asked # k

\* Two bridges may share status.json for a while, and the older one's last
\* words may hide the newer; if one is left serving, its "up" prevails.
ServingTunnelIsShown ==
    \A k \in Tunnels :
        <>[](br[k] = "registered" /\ k \notin told)
        /\ <>[](\A j \in Tunnels \ {k} : ~BrRuns(j))
            => []<>(file = [of |-> k, state |-> "up"])

\* Every bridge keeps BridgeLife's promise, which Bridge implements.
Life(k) == INSTANCE BridgeLife
             WITH life <- CASE br[k] \in {"unborn", "launched"} -> "launched"
                            [] br[k] \in {"registered", "ended"} -> "registered"
                            [] OTHER -> "gone",
                  published <- pub[k]

BridgesKeepTheirLife ==
    /\ \A k \in Tunnels : Life(k)!Init
    /\ [][\A k \in Tunnels : [Life(k)!Next]_(Life(k)!vars)]_vars

-----------------------------------------------------------------------------
(***************************************************************************)
(* What comments and the page say and the code does not do: none of these  *)
(* holds (README.md, "Where the code and its documents disagree").         *)
(***************************************************************************)

\* "Wait for ocbridge to actually come up before calling this a success"
\* (backend.py:453): an attempt reported as up has had its own bridge up.
SuccessMeansOwnBridge ==
    \A k \in Tunnels :
        outcome[k] = "up" => br[k] \notin {"unborn", "launched"}

\* _reap_stale is there because "without this a failed attempt leaks a
\* process -- and a live VPN session -- for every retry" (backend.py:341-347):
\* a retry that finds nothing to reap finds no openconnect without a bridge.
RetryReapsLeftover ==
    [][cpc = "idle" /\ cpc' = "start"
          => ~\E k \in Tunnels : OcRuns(k) /\ br[k] = "zombie"]_vars

\* "A status file with no live bridge behind it is reported as down"
\* (backend.py:549).
StatusDownWithoutBridge ==
    Status # "down" => \E k \in Tunnels : BrRuns(k)

\* disconnect() is to "stop the tunnel" and "leaves nothing behind"
\* (backend.py:504-511), and the page offers it during an attempt
\* (ProfileListPage.qml:135-140): an attempt it was called in does not succeed.
DisconnectStopsAttempt ==
    [][wpc = "wait" /\ wpc' = "none" => cancelled = "no"]_vars
=============================================================================
