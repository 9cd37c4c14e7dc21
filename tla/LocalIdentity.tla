--------------------------- MODULE LocalIdentity ---------------------------
(***************************************************************************)
(* The identity of the local OpenVPN server: EnsurePKI and EnsureCreds     *)
(* (pki.go:43-153), as `ocbridge -init' calls them when the app starts     *)
(* (main.go:371-399, backend.py:126-143) and as run() calls them for every *)
(* tunnel (main.go:112-134); and what becomes of it when the system's VPN  *)
(* client, which the user has given what -init shows, connects to one of   *)
(* the servers: openvpn checks it by `ocbridge --auth' (main.go:414-465).  *)
(*                                                                         *)
(* Nothing keeps two of these processes apart: -init does not die with the *)
(* app that started it.  MaxAtOnce = 1 is the schedule in which they       *)
(* happen not to overlap.  How one file is replaced is AtomicFile's        *)
(* subject; a file is here the number of the generation it belongs to, and *)
(* 0 while it does not exist.                                              *)
(***************************************************************************)
EXTENDS Naturals, FiniteSets

CONSTANTS Procs,          \* processes that may be started
          MaxAtOnce,      \* bound: how many of them run at the same time
          MaxGenerations  \* bound: sets of keys, and credentials, generated

ASSUME ConstantsAssumption ==
    IsFiniteSet(Procs) /\ MaxAtOnce \in Nat /\ MaxGenerations \in Nat

VARIABLES pc,     \* pc[p]: next step of p
          next,   \* next[p]: position in the list p is working through
          mine,   \* mine[p]: the generation p has just made, or 0
          newest, \* number of the newest generation
          file,   \* the files of the data directory
          shown,  \* what -init's caller shows the user: [ca, creds], or 0s
          served, \* served[p]: what p's openvpn has loaded: [crt, key]
          login   \* login[p]: how the client's last connection to p's openvpn ended

vars == <<pc, next, mine, newest, file, shown, served, login>>

\* The order in which the files are looked for, and written.
Checked == <<"ca.crt", "server.crt", "server.key", "ca.key">>
Written == <<"ca.crt", "ca.key", "server.crt", "server.key">>
PKI == {"ca.crt", "ca.key", "server.crt", "server.key"}

Runs(p) == pc[p] \notin {"unborn", "ended"}
Goto(p, l) == pc' = [pc EXCEPT ![p] = l]
Advance(p) == next' = [next EXCEPT ![p] = @ + 1]
Rewind(p) == next' = [next EXCEPT ![p] = 1]

Init ==
    /\ pc = [p \in Procs |-> "unborn"]
    /\ next = [p \in Procs |-> 1] /\ mine = [p \in Procs |-> 0]
    /\ newest = 0
    /\ file = [f \in PKI \cup {"vpn-creds"} |-> 0]
    /\ shown = [ca |-> 0, creds |-> 0]
    /\ served = [p \in Procs |-> [crt |-> 0, key |-> 0]]
    /\ login = [p \in Procs |-> "none"]

Start(p) ==
    /\ pc[p] = "unborn"
    /\ Cardinality({q \in Procs : Runs(q)}) < MaxAtOnce
    /\ Goto(p, "stat")
    /\ UNCHANGED <<next, mine, newest, file, shown, served, login>>

\* A bug: the server's key is not looked for.
Stat_NoKey(p) ==
    /\ pc[p] = "stat"
    /\ IF Checked[next[p]] # "server.key" /\ file[Checked[next[p]]] = 0
       THEN Goto(p, "generate") /\ Rewind(p)
       ELSE IF next[p] < 4 THEN Advance(p) /\ UNCHANGED pc
                           ELSE Goto(p, "readCreds") /\ Rewind(p)
    /\ UNCHANGED <<mine, newest, file, shown, served, login>>

\* os.Stat of one file; the first that is missing ends the loop.
Stat(p) ==
    /\ pc[p] = "stat"
    /\ IF file[Checked[next[p]]] = 0
       THEN Goto(p, "generate") /\ Rewind(p)
       ELSE IF next[p] < 4 THEN Advance(p) /\ UNCHANGED pc
                           ELSE Goto(p, "readCreds") /\ Rewind(p)
    /\ UNCHANGED <<mine, newest, file, shown, served, login>>

\* Two keys, a CA certificate and a server certificate signed with it.
Generate(p) ==
    /\ pc[p] = "generate"
    /\ newest < MaxGenerations
    /\ newest' = newest + 1
    /\ mine' = [mine EXCEPT ![p] = newest + 1]
    /\ Goto(p, "write")
    /\ UNCHANGED <<next, file, shown, served, login>>

\* A bug: the loop goes on beyond the last file.
Write_TooFar(p) ==
    /\ pc[p] = "write"
    /\ file' = [file EXCEPT ![Written[next[p]]] = mine[p]]
    /\ IF next[p] <= 4 THEN Advance(p) /\ UNCHANGED pc
                       ELSE Goto(p, "readCreds") /\ Rewind(p)
    /\ UNCHANGED <<mine, newest, shown, served, login>>

Write(p) ==
    /\ pc[p] = "write"
    /\ file' = [file EXCEPT ![Written[next[p]]] = mine[p]]
    /\ IF next[p] < 4 THEN Advance(p) /\ UNCHANGED pc
                      ELSE Goto(p, "readCreds") /\ Rewind(p)
    /\ UNCHANGED <<mine, newest, shown, served, login>>

\* A bug: credentials are generated every time.
ReadCreds_Never(p) ==
    /\ pc[p] = "readCreds"
    /\ Goto(p, "writeCreds")
    /\ UNCHANGED <<next, mine, newest, file, shown, served, login>>

ReadCreds(p) ==
    /\ pc[p] = "readCreds"
    /\ Goto(p, IF file["vpn-creds"] # 0 THEN "use" ELSE "writeCreds")
    /\ mine' = [mine EXCEPT ![p] = file["vpn-creds"]]
    /\ UNCHANGED <<next, newest, file, shown, served, login>>

WriteCreds(p) ==
    /\ pc[p] = "writeCreds"
    /\ newest < MaxGenerations
    /\ newest' = newest + 1
    /\ mine' = [mine EXCEPT ![p] = newest + 1]
    /\ file' = [file EXCEPT !["vpn-creds"] = newest + 1]
    /\ Goto(p, "use")
    /\ UNCHANGED <<next, shown, served, login>>

\* runInit prints the CA's path and the credentials; the user reproduces
\* them in the system settings.
Show(p) ==
    /\ pc[p] = "use"
    /\ shown' = [ca |-> file["ca.crt"], creds |-> mine[p]]
    /\ Goto(p, "ended")
    /\ UNCHANGED <<next, mine, newest, file, served, login>>

\* run() starts openvpn, which loads its certificate and its key.
Serve(p) ==
    /\ pc[p] = "use"
    /\ served' = [served EXCEPT ![p] = [crt |-> file["server.crt"],
                                        key |-> file["server.key"]]]
    /\ Goto(p, "ended")
    /\ UNCHANGED <<next, mine, newest, file, shown, login>>

\* What --auth compares with: the file that OCBRIDGE_CREDS names, 0 without.
Wanted == file["vpn-creds"]

\* runAuthCheck: both files must hold credentials, and the same.
AuthCheck(got) == Wanted # 0 /\ got # 0 /\ Wanted = got

\* openvpn has loaded a key that is its certificate's, the client checks that
\* certificate with the file it was given, and openvpn the credentials.
Login(p) ==
    /\ shown.ca # 0 /\ served[p].crt # 0
    /\ LET trusted == served[p].crt = served[p].key
                        /\ served[p].crt = file["ca.crt"]
       IN  login' = [login EXCEPT ![p] =
                        CASE ~trusted -> "untrusted"
                          [] trusted /\ ~AuthCheck(shown.creds) -> "refused"
                          [] OTHER -> "accepted"]
    /\ UNCHANGED <<pc, next, mine, newest, file, shown, served>>

\* A write fails, the 60 seconds of setup_info are over, or p is killed.
Stops(p) ==
    /\ Runs(p)
    /\ Goto(p, "ended")
    /\ UNCHANGED <<next, mine, newest, file, shown, served, login>>

Next ==
    \E p \in Procs :
        \/ Start(p) \/ Stat(p) \/ Generate(p) \/ Write(p)
        \/ ReadCreds(p) \/ WriteCreds(p) \/ Show(p) \/ Serve(p) \/ Stops(p)
        \/ Login(p)

Spec == Init /\ [][Next]_vars
-----------------------------------------------------------------------------
Generations == 0..MaxGenerations

\* The types of the variables.
TypeOK ==
    /\ pc \in [Procs -> {"unborn", "stat", "generate", "write", "readCreds",
                         "writeCreds", "use", "ended"}]
    /\ next \in [Procs -> 1..4] /\ mine \in [Procs -> Generations]
    /\ newest \in Generations
    /\ file \in [PKI \cup {"vpn-creds"} -> Generations]
    /\ shown \in [ca : Generations, creds : Generations]
    /\ served \in [Procs -> [crt : Generations, key : Generations]]
    /\ login \in [Procs -> {"none", "accepted", "untrusted", "refused"}]

\* Four files are never regenerated, so however often the first run was cut
\* short, the four that are there belong together (pki.go:56-65).
CompleteIsConsistent ==
    (\A f \in PKI : file[f] # 0) => \A f, g \in PKI : file[f] = file[g]

\* An openvpn that was started keeps a certificate and a key that match, and
\* that the CA certificate on disk, which the client reads, has signed.
ServerIsTrusted ==
    \A p \in Procs :
        LET s == served[p] IN
        s.crt # 0 => s.crt = s.key /\ s.crt = file["ca.crt"]

\* A client that was set up once with what -init shows gets into every server
\* that is started before or after, wherever the processes that made the keys
\* and the credentials were stopped (main.go:414-448, config.go:76-91).
SettingsAreAccepted == \A p \in Procs : login[p] \in {"none", "accepted"}

\* What the user has been shown, and typed into the settings, stays valid:
\* "both are generated once and then reused" (main.go:368-370).
ShownStaysValid ==
    shown.ca # 0 => /\ shown.ca = file["ca.crt"]
                    /\ shown.creds = file["vpn-creds"]
=============================================================================
