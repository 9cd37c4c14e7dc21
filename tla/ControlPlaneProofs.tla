------------------------- MODULE ControlPlaneProofs -------------------------
(***************************************************************************)
(* For any number of tunnels, disconnects and deaths of the app: a failed  *)
(* attempt leaves no openconnect behind as long as openconnect.pid can be  *)
(* written, and every bridge keeps BridgeLife's promise.                   *)
(***************************************************************************)
EXTENDS ControlPlane, TLAPS

\* An attempt has a number while its worker handles its openconnect, and
\* _reap_stale was given a pid.
Numbered ==
    /\ wpc \in {"cookie", "pidfile", "wait", "terminate"} => attempt \in Tunnels
    /\ cpc = "reap" => ocpid \in Tunnels

\* Nothing is known of the attempts to come.
Fresh ==
    \A k \in Tunnels : k > attempt => outcome[k] = "none" /\ oc[k] = "unborn"

Typed == TypeOK /\ Numbered
-----------------------------------------------------------------------------
(* The end of a process, as seen by the invariants *)

\* openconnect k is no longer running, no other one starts to, and the
\* bridges' states and the set of the told stay what they should be.
LEMMA OcEndsFacts ==
    ASSUME OcType, BrType, NEW k \in Tunnels, NEW left \in {"zombie", "gone"},
           OcEndsAs(k, left)
    PROVE  /\ oc' \in [Tunnels -> OcStates]
           /\ br' \in [Tunnels -> BrStates]
           /\ told' \subseteq Tunnels
           /\ oc'[k] \in {"zombie", "gone"}
           /\ \A j \in Tunnels \ {k} : oc'[j] = oc[j]
  BY DEF OcType, BrType, OcEndsAs, OcStates, BrStates

LEMMA OcEndsHow ==
    ASSUME NEW k, OcEnds(k)
    PROVE  \E left \in {"zombie", "gone"} : OcEndsAs(k, left)
  BY DEF OcEnds

\* Reaping one process or all of them turns zombies into nothing and touches
\* no other process.
LEMMA ReapedFacts ==
    ASSUME OcType
    PROVE  /\ Reaped \in [Tunnels -> OcStates]
           /\ \A k \in Tunnels :
                 Reaped[k] = IF oc[k] = "zombie" THEN "gone" ELSE oc[k]
           /\ Polled \in [Tunnels -> OcStates]
           /\ \A k \in Tunnels :
                 \/ Polled[k] = oc[k]
                 \/ k = attempt /\ oc[k] = "zombie" /\ Polled[k] = "gone"
  BY DEF OcType, Reaped, Polled, OcStates

\* An attempt is a tunnel once it has a number, and a tunnel's number is a
\* pid; 0 is none.
LEMMA PidFacts ==
    /\ 0 \in Pids /\ Tunnels \subseteq Pids
    /\ \A p \in Pids : p # 0 => p \in Tunnels
    /\ \A p \in Pids : p < MaxTunnels => p + 1 \in Tunnels
  BY ConstantsAssumption DEF Pids, Tunnels

LEMMA AppStep ==
    ASSUME Typed, [Next]_vars
    PROVE  AppType'
<1> USE PidFacts DEF Typed, TypeOK, AppType
<1>1. CASE Connect \/ Reap \/ StartWorker \/ Disconnect \/ Crash \/ Restart
  BY <1>1 DEF Connect, Reap, StartWorker, Disconnect, Crash, Restart
<1>2. CASE Authenticate \/ PollFails
  BY <1>2 DEF Authenticate, PollFails
<1>3. CASE Popen
  BY <1>3 DEF Popen
<1>4. CASE Cookie \/ PidFile \/ PollSucceeds \/ TerminateAttempt
  BY <1>4 DEF Cookie, PidFile, PollSucceeds, TerminateAttempt, Finish
<1>5. ASSUME NEW k \in Tunnels,
             OcLaunches(k) \/ OcExits(k) \/ BrAnnounces(k) \/ BrRegisters(k)
             \/ BrPublishes(k) \/ BrFinal(k) \/ BrExits(k)
      PROVE  AppType'
  BY <1>5 DEF OcLaunches, OcExits, BrAnnounces, BrRegisters, BrPublishes,
              BrFinal, BrExits, appVars
<1>6. CASE UNCHANGED vars
  BY <1>6 DEF vars, appVars
<1>7. QED
  BY <1>1, <1>2, <1>3, <1>4, <1>5, <1>6 DEF Next, Worker

LEMMA NumberedStep ==
    ASSUME Typed, [Next]_vars
    PROVE  Numbered'
<1> USE PidFacts DEF Typed, TypeOK, Numbered
<1>1. CASE Connect
  BY <1>1 DEF Connect, OcAlive, AppType, FileType, fileVars
<1>2. CASE Reap \/ StartWorker \/ Disconnect \/ Crash \/ Restart
  BY <1>2 DEF Reap, StartWorker, Disconnect, Crash, Restart, fileVars
<1>3. CASE Authenticate
  BY <1>3 DEF Authenticate, fileVars
<1>4. CASE Popen
  BY <1>4 DEF Popen, AppType, fileVars
<1>5. CASE Cookie
  BY <1>5 DEF Cookie, Finish, fileVars
<1>6. CASE PidFile
  BY <1>6 DEF PidFile, Finish
<1>7. CASE PollSucceeds \/ PollFails \/ TerminateAttempt
  BY <1>7 DEF PollSucceeds, PollFails, TerminateAttempt, Finish, fileVars
<1>8. ASSUME NEW k \in Tunnels,
             OcLaunches(k) \/ OcExits(k) \/ BrAnnounces(k) \/ BrRegisters(k)
             \/ BrPublishes(k) \/ BrFinal(k) \/ BrExits(k)
      PROVE  Numbered'
  BY <1>8 DEF OcLaunches, OcExits, BrAnnounces, BrRegisters, BrPublishes,
              BrFinal, BrExits, appVars, fileVars
<1>9. CASE UNCHANGED vars
  BY <1>9 DEF vars, appVars, fileVars
<1>10. QED
  BY <1>1, <1>2, <1>3, <1>4, <1>5, <1>6, <1>7, <1>8, <1>9 DEF Next, Worker

\* The processes; only _terminate, a cookie that cannot be written and
\* openconnect's own end need an argument.
LEMMA ProcessStep ==
    ASSUME Typed, [Next]_vars
    PROVE  OcType' /\ BrType'
<1> USE DEF Typed, TypeOK
<1>1. CASE Connect \/ StartWorker \/ Restart
  BY <1>1 DEF Connect, StartWorker, Restart, procVars, OcType, BrType
<1>2. ASSUME NEW k \in Tunnels, NEW left \in {"zombie", "gone"},
             OcEndsAs(k, left), UNCHANGED <<children, pub>>
      PROVE  OcType' /\ BrType'
  BY <1>2, OcEndsFacts DEF OcType, BrType
<1>3. ASSUME oc' \in {oc, Polled}, UNCHANGED <<br, told, children, pub>>
      PROVE  OcType' /\ BrType'
  BY <1>3, ReapedFacts DEF OcType, BrType
<1>4. CASE Reap
  BY <1>2, <1>3, <1>4, OcEndsHow DEF Reap, Numbered
<1>5. CASE TerminateAttempt
  BY <1>2, <1>3, <1>5 DEF TerminateAttempt, Numbered
<1>6. CASE Cookie
  <2>1. CASE wpc' = "pidfile"
    BY <1>6, <2>1 DEF Cookie, Finish, OcType, BrType, OcStates
  <2>2. CASE wpc' # "pidfile" /\ OcRuns(attempt)
    <3>1. PICK left \in {"zombie", "gone"} : OcEndsAs(attempt, left)
      BY <1>6, <2>2 DEF Cookie
    <3>2. attempt \in Tunnels /\ UNCHANGED <<children, pub>>
      BY <1>6 DEF Cookie, Numbered
    <3>3. QED  BY <1>2, <3>1, <3>2
  <2>3. CASE wpc' # "pidfile" /\ ~OcRuns(attempt)
    BY <1>3, <1>6, <2>3 DEF Cookie
  <2>4. QED  BY <2>1, <2>2, <2>3
<1>7. CASE Authenticate
  BY <1>7, ReapedFacts DEF Authenticate, OcType, BrType
<1>8. CASE Popen
  <2>1. attempt' \in Tunnels
    BY <1>8, PidFacts DEF Popen, AppType
  <2>2. oc' \in [Tunnels -> OcStates]
    BY <1>8, ReapedFacts DEF Popen, OcStates
  <2>3. QED  BY <1>8, <2>1, <2>2 DEF Popen, OcType, BrType
<1>9. CASE Crash
  BY <1>9, ReapedFacts DEF Crash, OcType, BrType
<1>9a. CASE PidFile \/ PollSucceeds \/ PollFails
  BY <1>3, <1>9a DEF PidFile, PollSucceeds, PollFails
<1>10. CASE Disconnect
  BY <1>10, PidFacts DEF Disconnect, OcType, BrType, FileType, OcStates
<1>11. ASSUME NEW k \in Tunnels, OcLaunches(k)
       PROVE  OcType' /\ BrType'
  BY <1>11 DEF OcLaunches, OcType, BrType, BrStates
<1>12. ASSUME NEW k \in Tunnels, OcExits(k)
       PROVE  OcType' /\ BrType'
  BY <1>2, <1>12, OcEndsHow DEF OcExits
<1>13. ASSUME NEW k \in Tunnels,
              BrAnnounces(k) \/ BrRegisters(k) \/ BrPublishes(k) \/ BrFinal(k)
       PROVE  OcType' /\ BrType'
  BY <1>13 DEF BrAnnounces, BrRegisters, BrPublishes, BrFinal, OcType, BrType,
               BrStates, ShownStates
<1>14. ASSUME NEW k \in Tunnels, BrExits(k)
       PROVE  OcType' /\ BrType'
  BY <1>14 DEF BrExits, BrEnds, OcType, BrType, BrStates
<1>15. CASE UNCHANGED vars
  BY <1>3, <1>15 DEF vars, procVars
<1>16. QED
  BY <1>1, <1>4, <1>5, <1>6, <1>7, <1>8, <1>9, <1>10, <1>11, <1>12, <1>13,
     <1>14, <1>15, <1>9a
  DEF Next, Worker

LEMMA FileStep ==
    ASSUME Typed, [Next]_vars
    PROVE  FileType'
<1> USE PidFacts DEF Typed, TypeOK, FileType
<1>1. CASE Connect \/ Reap \/ StartWorker \/ Disconnect \/ Crash \/ Restart
  BY <1>1 DEF Connect, Reap, StartWorker, Disconnect, Crash, Restart, fileVars
<1>2. CASE Worker
  BY <1>2 DEF Worker, Authenticate, Popen, Cookie, PidFile, PollSucceeds,
              PollFails, TerminateAttempt, AppType, fileVars
<1>3. ASSUME NEW k \in Tunnels,
             OcLaunches(k) \/ OcExits(k) \/ BrExits(k)
      PROVE  FileType'
  BY <1>3 DEF OcLaunches, OcExits, BrExits, fileVars
<1>4. ASSUME NEW k \in Tunnels,
             BrAnnounces(k) \/ BrRegisters(k) \/ BrPublishes(k) \/ BrFinal(k)
      PROVE  FileType'
  BY <1>4 DEF BrAnnounces, BrRegisters, BrPublishes, BrFinal, ShownStates
<1>5. CASE UNCHANGED vars
  BY <1>5 DEF vars, fileVars
<1>6. QED  BY <1>1, <1>2, <1>3, <1>4, <1>5 DEF Next

LEMMA EnvStep ==
    ASSUME Typed, [Next]_vars
    PROVE  EnvType'
<1> USE ConstantsAssumption DEF Typed, TypeOK, EnvType
<1>1. CASE Connect \/ Reap \/ Restart \/ Worker
  BY <1>1 DEF Connect, Reap, Restart, Worker, Authenticate, Popen, Cookie,
              PidFile, PollSucceeds, PollFails, TerminateAttempt, envVars
<1>2. CASE StartWorker
  BY <1>2, PidFacts DEF StartWorker
<1>3. CASE Disconnect
  BY <1>3 DEF Disconnect, FileType
<1>4. CASE Crash
  BY <1>4 DEF Crash
<1>5. ASSUME NEW k \in Tunnels,
             OcLaunches(k) \/ OcExits(k) \/ BrAnnounces(k) \/ BrRegisters(k)
             \/ BrPublishes(k) \/ BrFinal(k) \/ BrExits(k)
      PROVE  EnvType'
  BY <1>5 DEF OcLaunches, OcExits, BrAnnounces, BrRegisters, BrPublishes,
              BrFinal, BrExits, envVars
<1>6. CASE UNCHANGED vars
  BY <1>6 DEF vars, envVars
<1>7. QED  BY <1>1, <1>2, <1>3, <1>4, <1>5, <1>6 DEF Next

\* Every variable keeps its type, and the pids that _terminate and the worker
\* use are those of processes.
LEMMA TypedInvariant == Spec => []Typed
<1>1. Init => Typed
  BY ConstantsAssumption, PidFacts
  DEF Init, Typed, TypeOK, AppType, OcType, BrType, FileType, EnvType,
      Numbered, OcStates, BrStates, ShownStates
<1>2. ASSUME Typed, [Next]_vars PROVE Typed'
  BY <1>2, AppStep, NumberedStep, ProcessStep, FileStep, EnvStep
  DEF Typed, TypeOK
<1>3. QED  BY <1>1, <1>2, PTL DEF Spec
-----------------------------------------------------------------------------
(* Failed attempts *)

FailedInv == Typed /\ Fresh /\ FailedAttemptLeavesNothing

\* Once it is stopped, openconnect k stays stopped, so recording its attempt
\* as failed is right, and nothing else that matters has changed.
LEMMA StoppedStep ==
    ASSUME FailedInv, NEW k \in Tunnels, k = attempt,
           NEW left \in {"zombie", "gone"}, OcEndsAs(k, left),
           attempt' = attempt, outcome' = [outcome EXCEPT ![k] = "failed"]
    PROVE  Fresh' /\ FailedAttemptLeavesNothing'
  BY OcEndsFacts
  DEF FailedInv, Typed, TypeOK, AppType, OcType, Fresh,
      FailedAttemptLeavesNothing, OcRuns, Tunnels, Pids

\* A step that changes no outcome and starts no openconnect disturbs neither
\* part of the invariant.
LEMMA QuietStep ==
    ASSUME FailedInv, UNCHANGED <<attempt, outcome>>,
           \A k \in Tunnels :
              \/ oc'[k] = oc[k]
              \/ oc[k] # "unborn" /\ (OcRuns(k)' => OcRuns(k))
    PROVE  Fresh' /\ FailedAttemptLeavesNothing'
  BY DEF FailedInv, Fresh, FailedAttemptLeavesNothing, OcRuns

\* A step after which the newest attempt's outcome is one it may have.
LEMMA FinishStep ==
    ASSUME FailedInv, NEW r \in {"up", "failed", "unnamed"}, Finish(r),
           UNCHANGED attempt, oc' = Polled, attempt \in Tunnels,
           r = "failed" => ~OcRuns(attempt)
    PROVE  Fresh' /\ FailedAttemptLeavesNothing'
  BY ConstantsAssumption, ReapedFacts
  DEF FailedInv, Typed, TypeOK, AppType, Fresh, FailedAttemptLeavesNothing,
      Finish, OcRuns, Tunnels, Pids

\* Outcomes and openconnects of attempts to come stay blank, and what has
\* failed stays stopped.
LEMMA FailedStep ==
    ASSUME FailedInv, [Next]_vars
    PROVE  Fresh' /\ FailedAttemptLeavesNothing'
<1> USE DEF FailedInv
<1>1. ASSUME UNCHANGED <<attempt, outcome>>, oc' \in {oc, Polled}
      PROVE  Fresh' /\ FailedAttemptLeavesNothing'
  BY <1>1, QuietStep, ReapedFacts DEF OcRuns, Typed, TypeOK
<1>2. ASSUME NEW k \in Tunnels, OcRuns(k), OcEnds(k),
             UNCHANGED <<attempt, outcome>>
      PROVE  Fresh' /\ FailedAttemptLeavesNothing'
  <2> PICK left \in {"zombie", "gone"} : OcEndsAs(k, left)
    BY <1>2, OcEndsHow
  <2>1. oc[k] # "unborn" /\ ~OcRuns(k)'
    BY <1>2, OcEndsFacts DEF OcRuns, Typed, TypeOK
  <2>2. \A j \in Tunnels \ {k} : oc'[j] = oc[j]
    BY <1>2, OcEndsFacts DEF Typed, TypeOK
  <2>3. QED  BY <1>2, <2>1, <2>2, QuietStep
<1>3. ASSUME oc' = Reaped, UNCHANGED <<attempt, outcome>>
      PROVE  Fresh' /\ FailedAttemptLeavesNothing'
  BY <1>3, ReapedFacts, QuietStep DEF OcRuns, Typed, TypeOK
<1>4. CASE Connect \/ StartWorker \/ PollFails \/ Restart
  BY <1>1, <1>4 DEF Connect, StartWorker, PollFails, Restart, procVars
<1>5. CASE Reap
  BY <1>1, <1>2, <1>5 DEF Reap, Typed, Numbered
<1>6. CASE Authenticate \/ Crash
  BY <1>3, <1>6 DEF Authenticate, Crash
<1>7. CASE Popen
  <2>1. attempt' \in Tunnels /\ attempt \in Pids /\ attempt' = attempt + 1
    BY <1>7, PidFacts DEF Popen, Typed, TypeOK, AppType
  <2>2. outcome[attempt'] = "none"
    BY <2>1 DEF Fresh, Pids
  <2>3. /\ oc' \in [Tunnels -> OcStates]
        /\ \A k \in Tunnels \ {attempt'} : oc'[k] = Reaped[k]
    BY <1>7, ReapedFacts DEF Popen, Typed, TypeOK, OcStates
  <2>4. \A k \in Tunnels \ {attempt'} :
           (OcRuns(k)' => OcRuns(k)) /\ (oc[k] = "unborn" => oc'[k] = "unborn")
    BY <2>3, ReapedFacts DEF OcRuns, Typed, TypeOK
  <2>5. FailedAttemptLeavesNothing'
    BY <1>7, <2>2, <2>4 DEF Popen, FailedAttemptLeavesNothing
  <2>6. Fresh'
    BY <1>7, <2>1, <2>4 DEF Popen, Fresh, Pids, Tunnels
  <2>7. QED  BY <2>5, <2>6
<1>8. CASE Cookie
  <2>1. attempt \in Tunnels
    BY <1>8 DEF Cookie, Typed, Numbered
  <2>2. CASE Finish("failed")
    <3>1. CASE OcRuns(attempt)
      <4>1. PICK left \in {"zombie", "gone"} : OcEndsAs(attempt, left)
        BY <1>8, <2>2, <3>1 DEF Cookie, Finish
      <4>2. QED  BY <1>8, <2>1, <2>2, <4>1, StoppedStep DEF Cookie, Finish
    <3>2. CASE ~OcRuns(attempt)
      <4>1. oc' = Polled
        BY <1>8, <2>2, <3>2 DEF Cookie, Finish
      <4>2. QED  BY <1>8, <2>1, <2>2, <3>2, <4>1, FinishStep DEF Cookie
    <3>3. QED  BY <3>1, <3>2
  <2>3. CASE ~Finish("failed")
    BY <1>8, <2>1, <2>3, QuietStep DEF Cookie, OcRuns, Typed, TypeOK, OcType
  <2>4. QED  BY <2>2, <2>3
<1>9. CASE PidFile
  <2>1. CASE Finish("unnamed")
    BY <1>9, <2>1, FinishStep DEF PidFile, Finish, Typed, Numbered
  <2>2. CASE ~Finish("unnamed")
    BY <1>1, <1>9, <2>2 DEF PidFile
  <2>3. QED  BY <2>1, <2>2
<1>10. CASE PollSucceeds
  BY <1>10, FinishStep DEF PollSucceeds, Typed, Numbered
<1>11. CASE TerminateAttempt
  <2>1. attempt \in Tunnels
    BY <1>11 DEF TerminateAttempt, Typed, Numbered
  <2>2. CASE OcRuns(attempt)
    BY <1>11, <2>1, <2>2, StoppedStep DEF TerminateAttempt, Finish
  <2>3. CASE ~OcRuns(attempt)
    BY <1>11, <2>1, <2>3, FinishStep DEF TerminateAttempt
  <2>4. QED  BY <2>2, <2>3
<1>12. CASE Disconnect
  <2>1. \A k \in Tunnels :
           oc'[k] = oc[k] \/ (OcRuns(k) /\ k = ocpid)
    BY <1>12 DEF Disconnect, OcRuns, Typed, TypeOK, OcType
  <2>2. UNCHANGED <<attempt, outcome>>
    BY <1>12 DEF Disconnect
  <2>3. QED  BY <2>1, <2>2, QuietStep DEF OcRuns
<1>13. ASSUME NEW k \in Tunnels,
              OcLaunches(k) \/ BrAnnounces(k) \/ BrRegisters(k)
              \/ BrPublishes(k) \/ BrFinal(k) \/ BrExits(k)
       PROVE  Fresh' /\ FailedAttemptLeavesNothing'
  BY <1>1, <1>13 DEF OcLaunches, BrAnnounces, BrRegisters, BrPublishes,
                     BrFinal, BrExits, appVars
<1>14. ASSUME NEW k \in Tunnels, OcExits(k)
       PROVE  Fresh' /\ FailedAttemptLeavesNothing'
  BY <1>2, <1>14 DEF OcExits, appVars
<1>15. CASE UNCHANGED vars
  BY <1>1, <1>15 DEF vars, appVars, procVars
<1>16. QED
  BY <1>4, <1>5, <1>6, <1>7, <1>8, <1>9, <1>10, <1>11, <1>12, <1>13, <1>14,
     <1>15
  DEF Next, Worker

LEMMA FailedAlways == Spec => []FailedInv
<1>1. Init => Fresh /\ FailedAttemptLeavesNothing
  BY DEF Init, Fresh, FailedAttemptLeavesNothing
<1>2. Typed /\ Typed' /\ Fresh /\ FailedAttemptLeavesNothing /\ [Next]_vars
        => Fresh' /\ FailedAttemptLeavesNothing'
  BY FailedStep DEF FailedInv
<1>3. QED  BY <1>1, <1>2, TypedInvariant, PTL DEF Spec, FailedInv

\* backend.py:453-471 for every number of attempts, disconnects and crashes and
\* whatever goes wrong: an attempt reported as failed leaves no openconnect, and
\* no VPN session, behind, unless its pid could not be written.
THEOREM FailedAttemptsLeaveNothing ==
    Spec => [](TypeOK /\ FailedAttemptLeavesNothing)
<1>1. FailedInv => TypeOK /\ FailedAttemptLeavesNothing
  BY DEF FailedInv, Typed
<1>2. QED  BY <1>1, FailedAlways, PTL
-----------------------------------------------------------------------------
(* The bridges' promise *)

\* Every step is, for each bridge, a step of BridgeLife or none.
LEMMA LifeStep ==
    ASSUME Typed, [Next]_vars, NEW j \in Tunnels
    PROVE  [Life(j)!Next]_(Life(j)!vars)
<1> USE DEF Life!Next, Life!vars
<1>1. ASSUME UNCHANGED <<br, pub>>
      PROVE  [Life(j)!Next]_(Life(j)!vars)
  BY <1>1
<1>2. ASSUME NEW k \in Tunnels, NEW left, OcEndsAs(k, left), UNCHANGED pub
      PROVE  [Life(j)!Next]_(Life(j)!vars)
  BY <1>2 DEF OcEndsAs, Typed, TypeOK, BrType, BrStates, Life!Exit
<1>3. CASE Connect \/ StartWorker \/ Authenticate \/ Popen \/ PidFile
           \/ PollSucceeds \/ PollFails \/ Disconnect \/ Crash \/ Restart
  BY <1>1, <1>3 DEF Connect, StartWorker, Authenticate, Popen, PidFile,
     PollSucceeds, PollFails, Disconnect, Crash, Restart, procVars
<1>4. CASE Reap \/ Cookie \/ TerminateAttempt
  BY <1>1, <1>2, <1>4, OcEndsHow
  DEF Reap, Cookie, TerminateAttempt, Typed, Numbered
<1>5. ASSUME NEW k \in Tunnels, OcLaunches(k) \/ OcExits(k) \/ BrExits(k)
      PROVE  [Life(j)!Next]_(Life(j)!vars)
  <2>1. CASE OcLaunches(k)
    BY <2>1 DEF OcLaunches, Typed, TypeOK, BrType
  <2>2. CASE OcExits(k)
    BY <1>2, <2>2, OcEndsHow DEF OcExits
  <2>3. CASE BrExits(k)
    BY <2>3 DEF BrExits, BrEnds, BrRuns, Typed, TypeOK, BrType, Life!Exit
  <2>4. QED  BY <1>5, <2>1, <2>2, <2>3
<1>6. ASSUME NEW k \in Tunnels, BrAnnounces(k) \/ BrRegisters(k)
      PROVE  [Life(j)!Next]_(Life(j)!vars)
  BY <1>6 DEF BrAnnounces, BrRegisters, Typed, TypeOK, BrType, Life!Announce,
     Life!Register
<1>7. ASSUME NEW k \in Tunnels, BrPublishes(k) \/ BrFinal(k)
      PROVE  [Life(j)!Next]_(Life(j)!vars)
  BY <1>7 DEF BrPublishes, BrFinal, Typed, TypeOK, BrType, Life!Publish
<1>8. CASE UNCHANGED vars
  BY <1>1, <1>8 DEF vars, procVars
<1>9. QED
  BY <1>3, <1>4, <1>5, <1>6, <1>7, <1>8 DEF Next, Worker

\* Whatever fails, each bridge of the control plane does only what BridgeLife
\* allows: the assumption under which connect() and status() read its files.
THEOREM BridgesObeyBridgeLife == Spec => BridgesKeepTheirLife
<1>1. Init => \A k \in Tunnels : Life(k)!Init
  BY DEF Init, Life!Init
<1>2. Typed /\ [Next]_vars
        => [\A k \in Tunnels : [Life(k)!Next]_(Life(k)!vars)]_vars
  BY LifeStep
<1>3. QED
  BY <1>1, <1>2, TypedInvariant, PTL DEF Spec, BridgesKeepTheirLife
-----------------------------------------------------------------------------
(* One attempt at a time: what AttemptEnds rests on besides fairness *)

\* While connect() is between its checks and the start of the worker there is
\* no other worker, and an attempt that is begun has a number to take.
OneAttempt ==
    /\ cpc \in {"reap", "start"} => wpc = "none" /\ attempt < MaxTunnels
    /\ wpc \in {"auth", "popen"} => attempt < MaxTunnels

\* How many steps the worker has left at most.
Left == [auth |-> 6, popen |-> 5, cookie |-> 4, pidfile |-> 3, wait |-> 2,
         terminate |-> 1, none |-> 0]

\* Each step of the worker is nearer to its end, and nobody else moves it but
\* the death of the app: no disconnect() and no connect() meanwhile.
AttemptWindsDown ==
    [][/\ Worker => Left[wpc'] < Left[wpc]
       /\ ~Worker /\ wpc # "none"
             => \/ wpc' = wpc
                \/ wpc' = "none" /\ cpc' = "crashed"]_vars

LEMMA WorkerStep ==
    ASSUME Worker
    PROVE  Left[wpc'] < Left[wpc]
<1>1. \/ wpc = "auth" /\ wpc' \in {"popen", "none"}
      \/ wpc = "popen" /\ wpc' = "cookie"
      \/ wpc = "cookie" /\ wpc' \in {"pidfile", "none"}
      \/ wpc = "pidfile" /\ wpc' \in {"wait", "none"}
      \/ wpc = "wait" /\ wpc' \in {"terminate", "none"}
      \/ wpc = "terminate" /\ wpc' = "none"
  BY DEF Worker, Authenticate, Popen, Cookie, PidFile, PollSucceeds, PollFails,
         TerminateAttempt, Finish
<1>2. QED  BY <1>1 DEF Left

\* Everybody else's steps.
LEMMA OthersStep ==
    ASSUME OneAttempt, [Next]_vars, ~Worker
    PROVE  /\ OneAttempt'
           /\ wpc # "none" => \/ wpc' = wpc
                              \/ wpc' = "none" /\ cpc' = "crashed"
<1> USE DEF OneAttempt
<1>1. CASE Connect \/ Reap \/ StartWorker \/ Disconnect \/ Crash \/ Restart
  BY <1>1 DEF Connect, Reap, StartWorker, Disconnect, Crash, Restart
<1>2. ASSUME NEW k \in Tunnels,
             OcLaunches(k) \/ OcExits(k) \/ BrAnnounces(k) \/ BrRegisters(k)
             \/ BrPublishes(k) \/ BrFinal(k) \/ BrExits(k)
      PROVE  UNCHANGED appVars
  BY <1>2 DEF OcLaunches, OcExits, BrAnnounces, BrRegisters, BrPublishes,
              BrFinal, BrExits
<1>3. CASE UNCHANGED appVars
  BY <1>3 DEF appVars
<1>4. QED  BY <1>1, <1>2, <1>3 DEF Next, vars

LEMMA OneAttemptStep ==
    ASSUME OneAttempt, [Next]_vars
    PROVE  OneAttempt'
<1>1. CASE Worker
  BY <1>1 DEF OneAttempt, Worker, Authenticate, Popen, Cookie, PidFile,
     PollSucceeds, PollFails, TerminateAttempt, Finish
<1>2. QED  BY <1>1, OthersStep

\* There is never a second worker, whatever the user asks for; and a worker
\* comes to an end in at most six steps of its own (backend.py:316, 333-336,
\* 353-471).
THEOREM AttemptsAreOneAtATime == Spec => []OneAttempt /\ AttemptWindsDown
<1>1. Init => OneAttempt
  BY DEF Init, OneAttempt
<1>2. OneAttempt /\ [Next]_vars => OneAttempt'
  BY OneAttemptStep
<1>3. OneAttempt /\ [Next]_vars
        => [/\ Worker => Left[wpc'] < Left[wpc]
            /\ ~Worker /\ wpc # "none"
                  => \/ wpc' = wpc
                     \/ wpc' = "none" /\ cpc' = "crashed"]_vars
  BY WorkerStep, OthersStep
<1>4. QED  BY <1>1, <1>2, <1>3, PTL DEF Spec, AttemptWindsDown
-----------------------------------------------------------------------------
(* What disconnect() reaches: what DisconnectTakesDown rests on *)

\* A bridge was started by an openconnect, and one that still runs after its
\* openconnect has ended has been told so (parent.go:14-24).
Told ==
    \A k \in Tunnels :
        /\ br[k] # "unborn" => oc[k] # "unborn"
        /\ BrRuns(k) => OcRuns(k) \/ k \in told

\* The tunnel that a disconnect() was meant for does not serve on: its
\* openconnect has been signalled, or is dead and then its bridge has been
\* signalled, and nothing, a new attempt included, undoes that.
DisconnectReaches ==
    asked # 0 => /\ oc[asked] \in {"term", "zombie", "gone"}
                 /\ BrRuns(asked) => oc[asked] = "term" \/ asked \in told

AskedInv == asked # 0 => oc[asked] \in {"term", "zombie", "gone"}

LEMMA OcEndsTold ==
    ASSUME "arm_race" \notin Faults, Typed, Told, NEW k \in Tunnels,
           NEW left \in {"zombie", "gone"}, OcRuns(k), OcEndsAs(k, left)
    PROVE  Told'
<1>1. /\ told' = IF br[k] \in {"registered", "ended"} THEN told \cup {k} ELSE told
      /\ br' = [br EXCEPT ![k] = IF @ \in {"registered", "ended"} THEN @ ELSE "gone"]
      /\ oc' = [oc EXCEPT ![k] = left]
  BY DEF OcEndsAs
<1>2. ASSUME NEW j \in Tunnels
      PROVE  /\ br'[j] # "unborn" => oc'[j] # "unborn"
             /\ BrRuns(j)' => OcRuns(j)' \/ j \in told'
  <2>1. CASE j = k
    BY <1>1, <2>1 DEF Typed, TypeOK, OcType, BrType, BrRuns
  <2>2. CASE j # k
    BY <1>1, <2>2 DEF Typed, TypeOK, OcType, BrType, BrRuns, OcRuns, Told
  <2>3. QED  BY <2>1, <2>2
<1>3. QED  BY <1>2 DEF Told

\* A step that stops no openconnect and starts no bridge.
LEMMA QuietTold ==
    ASSUME Told, UNCHANGED br, told \subseteq told',
           \A k \in Tunnels : /\ OcRuns(k) => OcRuns(k)'
                              /\ oc[k] # "unborn" => oc'[k] # "unborn"
    PROVE  Told'
  BY DEF Told, BrRuns

LEMMA ToldStep ==
    ASSUME "arm_race" \notin Faults, Typed, Told, [Next]_vars
    PROVE  Told'
<1> USE DEF OcRuns
<1>1. ASSUME UNCHANGED <<br, told>>, oc' \in {oc, Polled, Reaped}
      PROVE  Told'
  BY <1>1, QuietTold, ReapedFacts DEF Typed, TypeOK
<1>2. CASE Connect \/ StartWorker \/ Authenticate \/ PidFile \/ PollSucceeds
           \/ PollFails \/ Crash \/ Restart
  BY <1>1, <1>2 DEF Connect, StartWorker, Authenticate, PidFile, PollSucceeds,
     PollFails, Crash, Restart, procVars
<1>3. CASE Reap
  BY <1>1, <1>3, OcEndsTold, OcEndsHow DEF Reap, Typed, Numbered
<1>4. CASE TerminateAttempt
  BY <1>1, <1>4, OcEndsTold DEF TerminateAttempt, Typed, Numbered
<1>5. CASE Cookie
  <2>1. attempt \in Tunnels
    BY <1>5 DEF Cookie, Typed, Numbered
  <2>2. CASE wpc' = "pidfile"
    BY <1>5, <2>2, QuietTold DEF Cookie, Finish, Typed, TypeOK, OcType
  <2>3. CASE wpc' # "pidfile" /\ OcRuns(attempt)
    BY <1>5, <2>1, <2>3, OcEndsTold DEF Cookie
  <2>4. CASE wpc' # "pidfile" /\ ~OcRuns(attempt)
    BY <1>1, <1>5, <2>4 DEF Cookie
  <2>5. QED  BY <2>2, <2>3, <2>4
<1>6. CASE Popen
  <2>1. attempt' \in Tunnels
    BY <1>6, PidFacts DEF Popen, Typed, TypeOK, AppType
  <2>2. \A k \in Tunnels :
           oc'[k] = "waiting" \/ oc'[k] = Reaped[k]
    BY <1>6, <2>1, ReapedFacts DEF Popen, Typed, TypeOK
  <2>3. QED
    BY <1>6, <2>2, ReapedFacts, QuietTold DEF Popen, Typed, TypeOK
<1>7. CASE Disconnect
  BY <1>7, QuietTold DEF Disconnect, Typed, TypeOK, OcType
<1>8. ASSUME NEW k \in Tunnels, OcLaunches(k)
      PROVE  Told'
  BY <1>8 DEF OcLaunches, Told, BrRuns, Typed, TypeOK, BrType
<1>9. ASSUME NEW k \in Tunnels, OcExits(k)
      PROVE  Told'
  BY <1>9, OcEndsTold, OcEndsHow DEF OcExits
<1>10. ASSUME NEW k \in Tunnels,
              BrAnnounces(k) \/ BrRegisters(k) \/ BrPublishes(k) \/ BrFinal(k)
              \/ BrExits(k)
       PROVE  Told'
  <2>1. UNCHANGED <<oc, told>>
    BY <1>10 DEF BrAnnounces, BrRegisters, BrPublishes, BrFinal, BrExits
  <2>2. \A j \in Tunnels : /\ BrRuns(j)' => BrRuns(j)
                           /\ br'[j] # "unborn" => br[j] # "unborn"
    BY <1>10 DEF BrAnnounces, BrRegisters, BrPublishes, BrFinal, BrExits,
       BrEnds, BrRuns, Typed, TypeOK, BrType
  <2>3. QED  BY <2>1, <2>2 DEF Told
<1>11. CASE UNCHANGED vars
  BY <1>1, <1>11 DEF vars, procVars
<1>12. QED
  BY <1>2, <1>3, <1>4, <1>5, <1>6, <1>7, <1>8, <1>9, <1>10, <1>11
  DEF Next, Worker

\* An openconnect that is on its way out, or dead, does not come back, be it by
\* another disconnect(), a cookie that is still being written, or a new attempt,
\* which has a number of its own.
LEMMA OutStays ==
    ASSUME Typed, Fresh, [Next]_vars, NEW k \in Tunnels,
           oc[k] \in {"term", "zombie", "gone"}
    PROVE  oc'[k] \in {"term", "zombie", "gone"}
<1> USE DEF OcRuns
<1>1. ASSUME oc' \in {oc, Polled, Reaped}
      PROVE  oc'[k] \in {"term", "zombie", "gone"}
  BY <1>1, ReapedFacts DEF Typed, TypeOK
<1>2. ASSUME NEW j \in Tunnels, NEW left \in {"zombie", "gone"},
             OcEndsAs(j, left)
      PROVE  oc'[k] \in {"term", "zombie", "gone"}
  BY <1>2, OcEndsFacts DEF Typed, TypeOK
<1>3. CASE Connect \/ StartWorker \/ Authenticate \/ PidFile \/ PollSucceeds
           \/ PollFails \/ Crash \/ Restart
  BY <1>1, <1>3 DEF Connect, StartWorker, Authenticate, PidFile, PollSucceeds,
     PollFails, Crash, Restart, procVars
<1>4. CASE Reap
  BY <1>1, <1>2, <1>4, OcEndsHow DEF Reap, Typed, Numbered
<1>5. CASE TerminateAttempt
  BY <1>1, <1>2, <1>5 DEF TerminateAttempt, Typed, Numbered
<1>6. CASE Cookie
  <2>1. attempt \in Tunnels
    BY <1>6 DEF Cookie, Typed, Numbered
  <2>2. CASE wpc' = "pidfile"
    BY <1>6, <2>2 DEF Cookie, Finish, Typed, TypeOK, OcType
  <2>3. CASE wpc' # "pidfile"
    BY <1>1, <1>2, <1>6, <2>1, <2>3 DEF Cookie
  <2>4. QED  BY <2>2, <2>3
<1>7. CASE Popen
  <2>1. k # attempt'
    BY <1>7 DEF Popen, Fresh, Typed, TypeOK, AppType, Pids
  <2>2. QED
    BY <1>7, <2>1, ReapedFacts DEF Popen, Typed, TypeOK
<1>8. CASE Disconnect
  BY <1>8 DEF Disconnect, Typed, TypeOK, OcType
<1>9. ASSUME NEW j \in Tunnels, OcExits(j)
      PROVE  oc'[k] \in {"term", "zombie", "gone"}
  BY <1>2, <1>9, OcEndsHow DEF OcExits
<1>10. ASSUME NEW j \in Tunnels,
              OcLaunches(j) \/ BrAnnounces(j) \/ BrRegisters(j)
              \/ BrPublishes(j) \/ BrFinal(j) \/ BrExits(j)
       PROVE  oc'[k] \in {"term", "zombie", "gone"}
  BY <1>1, <1>10 DEF OcLaunches, BrAnnounces, BrRegisters, BrPublishes,
     BrFinal, BrExits
<1>11. CASE UNCHANGED vars
  BY <1>1, <1>11 DEF vars, procVars
<1>12. QED
  BY <1>3, <1>4, <1>5, <1>6, <1>7, <1>8, <1>9, <1>10, <1>11 DEF Next, Worker

\* A disconnect() that meets the tunnel of both pid files signals its
\* openconnect, unless that is dead.
LEMMA DisconnectSignals ==
    ASSUME Typed, Told, Disconnect, asked' # asked
    PROVE  asked' \in Tunnels /\ oc'[asked'] \in {"term", "zombie", "gone"}
<1>1. asked' = brpid /\ ocpid = brpid /\ BrAlive(brpid) /\ brpid \in Tunnels
  BY PidFacts DEF Disconnect, Status, BrAlive, Typed, TypeOK, FileType
<1>2. oc[ocpid] # "unborn"
  BY <1>1 DEF Told, BrAlive, BrRuns
<1>3. oc[ocpid] \in OcStates /\ oc \in [Tunnels -> OcStates]
  BY <1>1 DEF Typed, TypeOK, OcType
<1>4. CASE OcAlive(ocpid)
  <2>1. oc'[ocpid] = IF OcRuns(ocpid) THEN "term" ELSE oc[ocpid]
    BY <1>1, <1>3, <1>4 DEF Disconnect
  <2>2. oc[ocpid] = "zombie" \/ OcRuns(ocpid)
    BY <1>4 DEF OcAlive
  <2>3. QED  BY <1>1, <2>1, <2>2
<1>5. CASE ~OcAlive(ocpid)
  <2>1. oc' = oc
    BY <1>5 DEF Disconnect
  <2>2. oc[ocpid] = "gone"
    BY <1>1, <1>2, <1>3, <1>5 DEF OcAlive, OcRuns, OcStates, Tunnels
  <2>3. QED  BY <1>1, <2>1, <2>2
<1>6. QED  BY <1>4, <1>5

LEMMA AskedStep ==
    ASSUME Typed, Fresh, Told, AskedInv, [Next]_vars
    PROVE  AskedInv'
<1>1. asked \in Pids
  BY DEF Typed, TypeOK, EnvType
<1>2. CASE asked' = asked
  BY <1>1, <1>2, OutStays, PidFacts DEF AskedInv
<1>3. CASE asked' # asked /\ Disconnect
  BY <1>3, DisconnectSignals DEF AskedInv
<1>4. CASE StartWorker /\ asked' # asked
  BY <1>4 DEF StartWorker, AskedInv
<1>5. asked' = asked \/ Disconnect \/ StartWorker
  BY DEF Next, Worker, Connect, Reap, Authenticate, Popen, Cookie, PidFile,
     PollSucceeds, PollFails, TerminateAttempt, Crash, Restart, OcLaunches,
     OcExits, BrAnnounces, BrRegisters, BrPublishes, BrFinal, BrExits, vars,
     envVars
<1>6. QED  BY <1>2, <1>3, <1>4, <1>5

\* disconnect() takes effect, whatever comes after it, also when the tunnel is
\* from before a restart of the app (backend.py:504-525, parent.go:14-24); the
\* assumption excludes a bridge that looked up its parent too late.
THEOREM DisconnectIsFinal ==
    ASSUME "arm_race" \notin Faults
    PROVE  Spec => []DisconnectReaches
<1>1. Init => Told /\ AskedInv
  BY DEF Init, Told, AskedInv, BrRuns
<1>2. FailedInv /\ Told /\ AskedInv /\ [Next]_vars => Told' /\ AskedInv'
  BY ToldStep, AskedStep DEF FailedInv
<1>3. Typed /\ Told /\ AskedInv => DisconnectReaches
  BY PidFacts DEF Typed, TypeOK, EnvType, Told, AskedInv, DisconnectReaches,
     OcRuns
<1>4. FailedInv => Typed
  BY DEF FailedInv
<1>5. QED  BY <1>1, <1>2, <1>3, <1>4, FailedAlways, PTL DEF Spec
=============================================================================
