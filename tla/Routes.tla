------------------------------- MODULE Routes -------------------------------
(***************************************************************************)
(* SplitRoutes and ExcludeHost (routes.go): the gateway's own address is   *)
(* punched out of the routes it asks for, by halving a block and keeping   *)
(* the half without the gateway, over and over.                            *)
(*                                                                         *)
(* An address is its bits, the most significant one first; a block is an   *)
(* address and the length of its prefix.  Comparing masked addresses is    *)
(* comparing prefixes, and base | 1<<(32-prefix) sets the bit number       *)
(* prefix.  Masks are contiguous, as CIDR requires of the gateway.         *)
(***************************************************************************)
EXTENDS Naturals, Sequences

CONSTANTS Bits,       \* width of an address: 32 in the code
          MaxSplits,  \* bound: routes the gateway asks for
          Unaligned,  \* "yes" if a route may have bits beyond its prefix
          None        \* no gateway: it has an IPv6 address

Address == [1..Bits -> {0, 1}]
Block == [ip : Address, len : 0..Bits]

ASSUME ConstantsAssumption ==
    /\ Bits \in Nat /\ MaxSplits \in Nat /\ Unaligned \in {"yes", "no"}
    /\ None \notin Address

\* net.IPNet.Contains
Contains(b, a) == \A i \in 1..b.len : b.ip[i] = a[i]

Aligned(b) == \A i \in 1..Bits : i > b.len => b.ip[i] = 0

VARIABLES
    splits,   \* Params.Splits: the routes the gateway asked for
    gateway,  \* Params.Gateway
    out,      \* SplitRoutes' out: the routes to push
    n,        \* the number of the route SplitRoutes looks at
    pc,       \* "route" in its loop, "halve" in ExcludeHost's
    pieces,   \* ExcludeHost's out
    cur       \* ExcludeHost's cur: the part that holds the gateway

vars == <<splits, gateway, out, n, pc, pieces, cur>>

Init ==
    /\ splits \in UNION {[1..m -> Block] : m \in 0..MaxSplits}
    /\ Unaligned = "no" => \A m \in DOMAIN splits : Aligned(splits[m])
    /\ gateway \in Address \cup {None}
    /\ out = {} /\ n = 1 /\ pc = "route" /\ pieces = {}
    /\ cur = [ip |-> [i \in 1..Bits |-> 0], len |-> Bits]

Swallows(b) == gateway # None /\ Contains(b, gateway)

NextRoute == n' = n + 1 /\ pc' = "route" /\ UNCHANGED <<splits, gateway, cur>>

\* A route that does not swallow the gateway is carried as it is.
Carry ==
    /\ pc = "route" /\ n \in DOMAIN splits
    /\ ~Swallows(splits[n])
    /\ out' = out \cup {splits[n]}
    /\ NextRoute
    /\ UNCHANGED pieces

\* The route is the gateway: nothing is left of it.
Drop ==
    /\ pc = "route" /\ n \in DOMAIN splits
    /\ Swallows(splits[n])
    /\ splits[n].len = Bits
    /\ NextRoute
    /\ UNCHANGED <<out, pieces>>

Split ==
    /\ pc = "route" /\ n \in DOMAIN splits
    /\ Swallows(splits[n])
    /\ splits[n].len < Bits
    /\ cur' = splits[n] /\ pieces' = {}
    /\ pc' = "halve"
    /\ UNCHANGED <<splits, gateway, out, n>>

\* A bug: the prefix grows by two.
Lo_TooLong(b) == [b EXCEPT !.len = @ + 2]

\* halves
Lo(b) == [b EXCEPT !.len = @ + 1]
Hi(b) == [ip |-> [b.ip EXCEPT ![b.len + 1] = 1], len |-> b.len + 1]

\* A bug: the upper half is always the one that is kept.
Halve_KeepHi ==
    /\ pc = "halve" /\ cur.len < Bits
    /\ pieces' = pieces \cup {Hi(cur)} /\ cur' = Lo(cur)
    /\ UNCHANGED <<splits, gateway, out, n, pc>>

\* Keep the half without the gateway, go on with the one that has it.
Halve ==
    /\ pc = "halve" /\ cur.len < Bits
    /\ IF Contains(Hi(cur), gateway)
       THEN pieces' = pieces \cup {Lo(cur)} /\ cur' = Hi(cur)
       ELSE pieces' = pieces \cup {Hi(cur)} /\ cur' = Lo(cur)
    /\ UNCHANGED <<splits, gateway, out, n, pc>>

\* A bug: the loop ends one halving early.
Halved_Early ==
    /\ pc = "halve" /\ cur.len \in {Bits - 1, Bits}
    /\ out' = out \cup pieces
    /\ NextRoute
    /\ UNCHANGED pieces

\* Only the gateway itself is left.
Halved ==
    /\ pc = "halve" /\ cur.len = Bits
    /\ out' = out \cup pieces
    /\ NextRoute
    /\ UNCHANGED pieces

Next == Carry \/ Drop \/ Split \/ Halve \/ Halved

Spec == Init /\ [][Next]_vars
-----------------------------------------------------------------------------
Covers(blocks, a) == \E b \in blocks : Contains(b, a)
Asked(m) == {splits[k] : k \in {l \in DOMAIN splits : l < m}}

\* The types of the variables.
TypeOK ==
    /\ splits \in Seq(Block) /\ gateway \in Address \cup {None}
    /\ out \subseteq Block /\ n \in Nat \ {0}
    /\ pc \in {"route", "halve"} /\ pieces \subseteq Block /\ cur \in Block

\* No route that is pushed carries the gateway into the tunnel
\* (config_test.go, TestTheGatewayIsNeverPushedAsARoute).
GatewayIsNeverRouted == gateway # None => ~Covers(out, gateway)

\* Every other address of the routes looked at so far is still routed, and
\* nothing that was not asked for is (routes.go:9-10).
NothingElseIsLost ==
    pc = "route" =>
        \A a \in Address \ {gateway} : Covers(out, a) <=> Covers(Asked(n), a)

\* No two pieces of a block, nor one of them and what is left to halve, share
\* an address (routes_test.go, TestExcludeHostCoversEverythingButTheHost).
PiecesAreDisjoint ==
    pc = "halve" =>
        \A b, c \in pieces \cup {cur} :
            b # c => ~\E a \in Address : Contains(b, a) /\ Contains(c, a)
=============================================================================
