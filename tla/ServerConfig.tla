---------------------------- MODULE ServerConfig ----------------------------
(***************************************************************************)
(* From the two environments to the OpenVPN server: where the app and      *)
(* ocbridge put their files and what -init tells the user to type into the *)
(* settings (backend.py:42-142, main.go:322-413), what ParseParams takes   *)
(* from the gateway, the server's own address and pool (params.go) and the *)
(* configuration of the server and of its one client (config.go).          *)
(*                                                                         *)
(* An address is a number.  Arithmetic keeps its width: ServerIP adds to   *)
(* the last octet without a carry, PoolRange computes in uint32.  A path   *)
(* is the sequence of its names.  What is copied through and read by       *)
(* nothing here (MTU, DNS, domain) is left out; the routes are Routes'.    *)
(***************************************************************************)
EXTENDS Naturals, Sequences

CONSTANTS Bits,      \* width of an address: 32 in the code
          OctetBits, \* width of its last octet: 8 in the code
          Scattered, \* a netmask that is not contiguous
          Unset,     \* a variable that is not set, or empty where that is the same
          Garbage    \* one that is set to nothing the code can use

ASSUME ConstantsAssumption ==
    /\ Bits \in Nat /\ OctetBits \in 3..Bits
    /\ Scattered \notin Nat /\ Garbage \notin Nat \cup {Scattered, Unset}

Pow2[n \in 0..Bits] == IF n = 0 THEN 1 ELSE 2 * Pow2[n - 1]

Address == 0..(Pow2[Bits] - 1)
Size(len) == Pow2[Bits - len]
Masked(a, len) == a - (a % Size(len))

\* cand[3] += off
AddToOctet(a, off) ==
    LET octet == a % Pow2[OctetBits]
    IN  (a - octet) + ((octet + off) % Pow2[OctetBits])

VARIABLES
    env,    \* the app's environment, which its children inherit
    sent,   \* what openconnect adds to it: the gateway's parameters
    app,    \* backend.py's _state: [data, run]
    setup,  \* what -init goes by and prints: [data, run, port, proto]
    bridge, \* what run() goes by: [data, run, port, proto]
    server, \* ServerIP's result
    conf,   \* server.conf and ccd: [server, first, last, client, port, proto, data]
    pc      \* what is done next, "done" or "refused"

vars == <<env, sent, app, setup, bridge, server, conf, pc>>

Pkg == "ocvpn.franzthiemann"
DefaultPort == 1194

Directory == Seq({"home", "xdg", "user", "run", "other", Pkg})

\* A variable that is not set is not a directory.
ASSUME UnsetAssumption == Unset \notin Directory

\* XDG_DATA_HOME may be set and empty; the OCBRIDGE variables may be left over
\* from elsewhere.
Environment ==
    [dataHome : {Unset, <<>>, <<"xdg">>}, runtime : {Unset, <<"user">>, <<Pkg>>},
     dataDir : {Unset, <<"other">>}, port : {Unset, Garbage, 4000},
     proto : {Unset, "udp", "tcp6"}]

\* VPNFD is a descriptor; NETADDR, if it is set, is the client's network, which
\* openconnect computes.
Tunnel ==
    [fd : {Garbage, 3}, address : Address \cup {Garbage},
     netmask : 0..Bits \cup {Scattered, Garbage}, netaddr : {Unset, "network"}]

Init ==
    /\ env \in Environment /\ sent \in Tunnel
    /\ app = Unset /\ setup = Unset /\ bridge = Unset
    /\ server = 0 /\ conf = Unset /\ pc = "app"
-----------------------------------------------------------------------------
(* The directories, the port and the transport *)

\* backend.py's default; a set and empty variable is taken as it is.
DefaultDataDir ==
    Append(IF env.dataHome = Unset THEN <<"home">> ELSE env.dataHome, Pkg)

\* "Mirror ocbridge's RuntimeDir so both agree".
DefaultRuntimeDir(dd) ==
    CASE env.runtime = Unset -> Append(dd, "run")
      [] env.runtime = <<Pkg>> -> env.runtime
      [] OTHER -> Append(env.runtime, Pkg)

\* main.go's; here a set and empty variable is as good as none.
xdgDataHome(e) == IF e.dataHome \in {Unset, <<>>} THEN <<"home">> ELSE e.dataHome

RuntimeDir(e, dd) ==
    CASE e.runtime = Unset -> Append(dd, "run")
      [] e.runtime = <<Pkg>> -> e.runtime
      [] OTHER -> Append(e.runtime, Pkg)

\* paths(): the flag, OCBRIDGE_DATA_DIR or the default, in this order.
DataDir(e, flag) ==
    IF flag # Unset THEN flag
    ELSE IF e.dataDir # Unset THEN e.dataDir ELSE Append(xdgDataHome(e), Pkg)

\* OCBRIDGE_PORT if it is a number; the app passes no flag.
Port(e) == IF e.port \in {Unset, Garbage} THEN DefaultPort ELSE e.port

resolveProto(e) == IF e.proto = "udp" THEN "udp" ELSE "tcp"

Resolved(e, flag) ==
    [data |-> DataDir(e, flag), run |-> RuntimeDir(e, DataDir(e, flag)),
     port |-> Port(e), proto |-> resolveProto(e)]

\* init(): the app's two directories.
AppInit ==
    /\ pc = "app"
    /\ app' = [data |-> DefaultDataDir, run |-> DefaultRuntimeDir(DefaultDataDir)]
    /\ pc' = "setup"
    /\ UNCHANGED <<env, sent, setup, bridge, server, conf>>

\* runInit: `ocbridge -init -data-dir ...'; the user types in what it prints.
RunInit ==
    /\ pc = "setup"
    /\ setup' = Resolved(env, app.data)
    /\ pc' = "parse"
    /\ UNCHANGED <<env, sent, app, bridge, server, conf>>
-----------------------------------------------------------------------------
(* run(): parameters, addresses, configuration *)

Refuse == pc' = "refused" /\ UNCHANGED <<env, sent, app, setup, bridge, server, conf>>

\* A bug: a gateway that does not send NETADDR is refused.
ParseParams_NetAddr ==
    /\ pc = "parse"
    /\ IF Garbage \in {sent.fd, sent.address, sent.netmask} \/ sent.netaddr = Unset
       THEN Refuse
       ELSE /\ pc' = "resolve"
            /\ UNCHANGED <<env, sent, app, setup, bridge, server, conf>>

\* VPNFD, address and netmask are required; everything else has a default.
ParseParams ==
    /\ pc = "parse"
    /\ IF Garbage \in {sent.fd, sent.address, sent.netmask}
       THEN Refuse
       ELSE /\ pc' = "resolve"
            /\ UNCHANGED <<env, sent, app, setup, bridge, server, conf>>

\* A bug: openconnect is started without OCBRIDGE_DATA_DIR.
Resolve_NoDataDir ==
    /\ pc = "resolve"
    /\ bridge' = Resolved(env, Unset)
    /\ pc' = "place"
    /\ UNCHANGED <<env, sent, app, setup, server, conf>>

\* openconnect, and so run(), gets the app's data directory in a variable.
Resolve ==
    /\ pc = "resolve"
    /\ bridge' = Resolved([env EXCEPT !.dataDir = app.data], Unset)
    /\ pc' = "place"
    /\ UNCHANGED <<env, sent, app, setup, server, conf>>

\* A bug: the network after the client's.
Base_Next == Masked(sent.address, sent.netmask) + Size(sent.netmask)

\* Sent or derived, the network is the client's.
Base == Masked(sent.address, sent.netmask)

\* A bug: the first host address is taken whether it is the client's or not.
Candidates_First == {AddToOctet(Base, 1)}

Candidates == {AddToOctet(Base, 1), AddToOctet(Base, 2)} \ {sent.address}

\* Not a mask, or smaller than a /29; else the first of two host addresses
\* that is not the client's.
ServerIP ==
    /\ pc = "place"
    /\ IF sent.netmask \notin 0..(Bits - 3)
       THEN Refuse
       ELSE /\ \E c \in Candidates :
                  /\ \A d \in Candidates : c <= d
                  /\ server' = c
            /\ pc' = "build"
            /\ UNCHANGED <<env, sent, app, setup, bridge, conf>>

\* PoolRange: what is left of the subnet above the server.
PoolFirst == (server + 1) % Pow2[Bits]
PoolLast == Base + Size(sent.netmask) - 2

\* BuildServerConfig fails if there is no pool; else it and BuildCCD describe
\* the server and its client.
Build ==
    /\ pc = "build"
    /\ IF PoolLast < PoolFirst \/ (PoolLast - PoolFirst) + 1 < 2
       THEN Refuse
       ELSE /\ conf' = [server |-> server, first |-> PoolFirst, last |-> PoolLast,
                        client |-> sent.address, port |-> bridge.port,
                        proto |-> bridge.proto, data |-> bridge.data]
            /\ pc' = "done"
            /\ UNCHANGED <<env, sent, app, setup, bridge, server>>

Next == AppInit \/ RunInit \/ ParseParams \/ Resolve \/ ServerIP \/ Build

Spec == Init /\ [][Next]_vars
-----------------------------------------------------------------------------
Resolution ==
    [data : Directory, run : Directory, port : Nat, proto : {"tcp", "udp"}]

\* The types of the variables.
TypeOK ==
    /\ env \in Environment /\ sent \in Tunnel
    /\ app = Unset \/ app \in [data : Directory, run : Directory]
    /\ setup = Unset \/ setup \in Resolution
    /\ bridge = Unset \/ bridge \in Resolution
    /\ server \in Address
    /\ conf = Unset \/ conf \in [server : Address, first : Address, last : Address,
                                client : Address, port : Nat,
                                proto : {"tcp", "udp"}, data : Directory]
    /\ pc \in {"app", "setup", "parse", "resolve", "place", "build", "done",
               "refused"}

\* The addresses a host of the client's subnet may have.
Hosts == (Base + 1)..(Base + Size(sent.netmask) - 2)

\* What openvpn is given is consistent: the server is another host of the
\* client's subnet, and the pool, of two or more, is of hosts beside it
\* (params.go:115-118, 157-163; ccd pins the client whatever the pool is).
EndpointFits ==
    pc = "done" =>
        /\ conf.server \in Hosts \ {conf.client}
        /\ Masked(conf.client, sent.netmask) = Masked(conf.server, sent.netmask)
        /\ conf.first..conf.last \subseteq Hosts \ {conf.server}
        /\ conf.last > conf.first

\* A client that is given an address in a subnet with room for two more is
\* never refused, whatever else the gateway leaves out: beyond the first
\* checks nothing can fail (params.go:73-76, 120-131, 171-173).
RefusedOnlyWithoutRoom ==
    pc = "refused" => \/ Garbage \in {sent.fd, sent.address}
                      \/ sent.netmask \notin 0..(Bits - 3)

\* Two programs in two languages, and two ways through one of them, come to
\* the same directories, port and transport in every environment: the app
\* finds the status, and what the user typed into the settings reaches the
\* server that each tunnel starts (backend.py:49-65, 429-431, main.go:357-413).
AppAndBridgeAgree ==
    pc = "done" =>
        /\ bridge.run = app.run
        /\ conf.data = setup.data /\ conf.port = setup.port
        /\ conf.proto = setup.proto
=============================================================================
