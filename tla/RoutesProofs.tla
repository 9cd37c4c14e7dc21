---------------------------- MODULE RoutesProofs ----------------------------
(***************************************************************************)
(* For addresses of any width and any number of aligned routes: the        *)
(* gateway is in none of the routes pushed, every other address is in one  *)
(* exactly if it was asked for, and the pieces of a route do not overlap.  *)
(***************************************************************************)
EXTENDS Routes, TLAPS

Meet(b, c) == \E a \in Address : Contains(b, a) /\ Contains(c, a)

AllAligned == \A m \in DOMAIN splits : Aligned(splits[m])

\* While a block is halved, the pieces and the rest make it up, the rest is
\* where the gateway is, and nothing is in two of them.
Halving ==
    pc = "halve" =>
        /\ n \in DOMAIN splits
        /\ gateway # None
        /\ Aligned(cur) /\ Contains(cur, gateway)
        /\ \A a \in Address :
              Contains(splits[n], a) <=> Covers(pieces, a) \/ Contains(cur, a)
        /\ \A b \in pieces : ~Meet(b, cur)
        /\ \A b, c \in pieces : b # c => ~Meet(b, c)

\* What has been carried over, or punched, so far.
Carried ==
    \A a \in Address :
        Covers(out, a) <=> Covers(Asked(n), a) /\ a # gateway

Inv == TypeOK /\ AllAligned /\ Halving /\ Carried
-----------------------------------------------------------------------------
(* Halving *)

\* The two halves of an aligned block are aligned blocks, they make it up, and
\* they do not meet.
LEMMA HalvesFacts ==
    ASSUME NEW b \in Block, Aligned(b), b.len < Bits
    PROVE  /\ Lo(b) \in Block /\ Aligned(Lo(b))
           /\ Hi(b) \in Block /\ Aligned(Hi(b))
           /\ \A a \in Address :
                 Contains(b, a) <=> Contains(Lo(b), a) \/ Contains(Hi(b), a)
           /\ ~Meet(Lo(b), Hi(b))
<1> DEFINE l == b.len
<1>1. /\ b.ip \in Address /\ l \in Nat /\ l + 1 \in 1..Bits /\ b.ip[l + 1] = 0
  BY ConstantsAssumption DEF Block, Aligned
<1>2. /\ Lo(b) \in Block /\ Hi(b) \in Block
      /\ Lo(b).ip = b.ip /\ Lo(b).len = l + 1 /\ Hi(b).len = l + 1
      /\ \A k \in 1..Bits : Hi(b).ip[k] = IF k = l + 1 THEN 1 ELSE b.ip[k]
  BY <1>1, ConstantsAssumption DEF Block, Address, Lo, Hi
<1>3. Aligned(Lo(b)) /\ Aligned(Hi(b))
  BY <1>1, <1>2 DEF Aligned
<1>4. 1..(l + 1) = 1..l \cup {l + 1} /\ 1..(l + 1) \subseteq 1..Bits
  BY <1>1, ConstantsAssumption
<1>5. ASSUME NEW a \in Address
      PROVE  /\ Contains(Lo(b), a) <=> Contains(b, a) /\ a[l + 1] = 0
             /\ Contains(Hi(b), a) <=> Contains(b, a) /\ a[l + 1] = 1
  BY <1>1, <1>2, <1>4 DEF Contains
<1>6. \A a \in Address : a[l + 1] \in {0, 1}
  BY <1>1 DEF Address
<1>7. QED  BY <1>2, <1>3, <1>5, <1>6 DEF Meet

\* A block of full length is one address.
LEMMA HostFact ==
    ASSUME NEW b \in Block, b.len = Bits,
           NEW a \in Address, NEW c \in Address, Contains(b, a), Contains(b, c)
    PROVE  a = c
<1>1. \A i \in 1..Bits : a[i] = c[i]
  BY DEF Contains
<1>2. a = [i \in 1..Bits |-> a[i]] /\ c = [i \in 1..Bits |-> c[i]]
  BY DEF Address
<1>3. QED  BY <1>1, <1>2

\* If a block is made up by two others, what meets neither of them does not
\* meet it, and conversely.
LEMMA MeetFact ==
    ASSUME NEW b, NEW c, NEW d, NEW e,
           \A a \in Address : Contains(b, a) <=> Contains(c, a) \/ Contains(d, a)
    PROVE  Meet(e, b) <=> Meet(e, c) \/ Meet(e, d)
  BY DEF Meet

\* Looking at one route more.
LEMMA AskedFact ==
    ASSUME TypeOK, n \in DOMAIN splits
    PROVE  Asked(n + 1) = Asked(n) \cup {splits[n]}
<1>1. \A l \in DOMAIN splits : l \in Nat
  BY DEF TypeOK
<1>2. QED  BY <1>1 DEF Asked, TypeOK
-----------------------------------------------------------------------------
LEMMA InvInit ==
    ASSUME Init, Unaligned = "no"
    PROVE  Inv
<1>1. splits \in Seq(Block)
  BY DEF Init
<1>2. cur \in Block
  BY ConstantsAssumption DEF Init, Block, Address
<1>3. Asked(n) = {}
  BY <1>1 DEF Asked, Init
<1>4. QED
  BY <1>1, <1>2, <1>3
  DEF Init, Inv, TypeOK, AllAligned, Halving, Carried, Covers

LEMMA InvStep ==
    ASSUME Inv, [Next]_vars
    PROVE  Inv'
<1> USE DEF Inv
<1>1. CASE Carry
  <2>1. splits[n] \in Block /\ splits' = splits /\ gateway' = gateway
    BY <1>1 DEF Carry, NextRoute, TypeOK
  <2>2. TypeOK' /\ AllAligned' /\ Halving'
    BY <1>1, <2>1 DEF Carry, NextRoute, TypeOK, AllAligned, Halving
  <2>3. Asked(n)' = Asked(n) \cup {splits[n]}
    BY <1>1, <2>1, AskedFact DEF Carry, NextRoute, Asked
  <2>4. ~Contains(splits[n], gateway) \/ gateway \notin Address
    BY <1>1, ConstantsAssumption DEF Carry, Swallows
  <2>5. Carried'
    BY <1>1, <2>1, <2>3, <2>4 DEF Carry, Carried, Covers
  <2>6. QED  BY <2>2, <2>5
<1>2. CASE Drop
  <2>1. /\ splits[n] \in Block /\ splits' = splits /\ gateway' = gateway
        /\ gateway \in Address /\ Contains(splits[n], gateway)
    BY <1>2 DEF Drop, NextRoute, Swallows, TypeOK
  <2>2. TypeOK' /\ AllAligned' /\ Halving'
    BY <1>2, <2>1 DEF Drop, NextRoute, TypeOK, AllAligned, Halving
  <2>3. Asked(n)' = Asked(n) \cup {splits[n]}
    BY <1>2, <2>1, AskedFact DEF Drop, NextRoute, Asked
  <2>4. \A a \in Address : Contains(splits[n], a) => a = gateway
    BY <1>2, <2>1, HostFact DEF Drop
  <2>5. Carried'
    BY <1>2, <2>1, <2>3, <2>4 DEF Drop, Carried, Covers
  <2>6. QED  BY <2>2, <2>5
<1>3. CASE Split
  <2>1. splits[n] \in Block /\ Aligned(splits[n])
    BY <1>3 DEF Split, TypeOK, AllAligned
  <2>2. TypeOK' /\ AllAligned'
    BY <1>3, <2>1 DEF Split, TypeOK, AllAligned
  <2>3. Halving'
    BY <1>3, <2>1 DEF Split, Swallows, Halving, Covers
  <2>4. Carried'
    BY <1>3 DEF Split, Carried, Covers, Asked
  <2>5. QED  BY <2>2, <2>3, <2>4
<1>4. CASE Halve
  <2>1. /\ cur \in Block /\ Aligned(cur) /\ cur.len < Bits /\ gateway # None
        /\ gateway \in Address /\ Contains(cur, gateway)
    BY <1>4 DEF Halve, Halving, TypeOK
  <2>2. PICK keep \in {Lo(cur), Hi(cur)}, descend \in {Lo(cur), Hi(cur)} :
           /\ keep # descend \/ Lo(cur) = Hi(cur)
           /\ {keep, descend} = {Lo(cur), Hi(cur)}
           /\ Contains(descend, gateway)
           /\ pieces' = pieces \cup {keep} /\ cur' = descend
    <3>1. CASE Contains(Hi(cur), gateway)
      BY <1>4, <3>1 DEF Halve
    <3>2. CASE ~Contains(Hi(cur), gateway)
      BY <1>4, <2>1, <3>2, HalvesFacts DEF Halve
    <3>3. QED  BY <3>1, <3>2
  <2>3. /\ keep \in Block /\ descend \in Block /\ Aligned(descend)
        /\ \A a \in Address :
              Contains(cur, a) <=> Contains(keep, a) \/ Contains(descend, a)
        /\ ~Meet(keep, descend)
    BY <2>1, <2>2, HalvesFacts DEF Meet
  <2>4. UNCHANGED <<splits, gateway, out, n, pc>>
    BY <1>4 DEF Halve
  <2>5. TypeOK' /\ AllAligned'
    BY <2>2, <2>3, <2>4 DEF TypeOK, AllAligned
  <2>6. Carried'
    BY <2>4 DEF Carried, Covers, Asked
  <2>7. \A a \in Address :
           Covers(pieces \cup {keep}, a) <=> Covers(pieces, a) \/ Contains(keep, a)
    BY DEF Covers
  <2>8. \A b \in pieces : ~Meet(b, keep) /\ ~Meet(b, descend)
    BY <1>4, <2>3, MeetFact DEF Halve, Halving
  <2>9. \A b, c \in pieces \cup {keep} : b # c => ~Meet(b, c)
    BY <1>4, <2>8 DEF Halve, Halving, Meet
  <2>10. \A a \in Address :
            Contains(splits[n], a)
              <=> Covers(pieces \cup {keep}, a) \/ Contains(descend, a)
    BY <1>4, <2>3, <2>7 DEF Halve, Halving
  <2>11. n \in DOMAIN splits /\ pc = "halve"
    BY <1>4 DEF Halve, Halving
  <2>12. \A b \in pieces \cup {keep} : ~Meet(b, descend)
    BY <2>3, <2>8
  <2>13. Halving'
    BY <2>1, <2>2, <2>3, <2>4, <2>9, <2>10, <2>11, <2>12
    DEF Halving, Covers, Meet
  <2>14. QED  BY <2>5, <2>6, <2>13
<1>5. CASE Halved
  <2>1. /\ cur \in Block /\ gateway \in Address /\ Contains(cur, gateway)
        /\ cur.len = Bits /\ n \in DOMAIN splits /\ gateway # None
    BY <1>5 DEF Halved, Halving, TypeOK
  <2>2. UNCHANGED <<splits, gateway, cur, pieces>> /\ n' = n + 1 /\ pc' = "route"
    BY <1>5 DEF Halved, NextRoute
  <2>3. TypeOK' /\ AllAligned' /\ Halving'
    BY <1>5, <2>2 DEF Halved, TypeOK, AllAligned, Halving
  <2>4. Asked(n)' = Asked(n) \cup {splits[n]}
    BY <2>1, <2>2, AskedFact DEF Asked
  <2>5. \A a \in Address : Contains(cur, a) <=> a = gateway
    BY <2>1, HostFact
  <2>6. ~Covers(pieces, gateway)
    BY <1>5, <2>1 DEF Halved, Halving, Meet, Covers
  <2>7. \A a \in Address :
           Covers(pieces, a) <=> Contains(splits[n], a) /\ a # gateway
    BY <1>5, <2>5, <2>6 DEF Halved, Halving
  <2>8. out' = out \cup pieces
    BY <1>5 DEF Halved
  <2>9. Carried'
    BY <2>2, <2>4, <2>7, <2>8 DEF Carried, Covers
  <2>10. QED  BY <2>3, <2>9
<1>6. CASE UNCHANGED vars
  BY <1>6 DEF vars, TypeOK, AllAligned, Halving, Carried, Covers, Asked
<1>7. QED  BY <1>1, <1>2, <1>3, <1>4, <1>5, <1>6 DEF Next

\* SplitRoutes and ExcludeHost keep their promise for every address width and
\* every list of aligned routes: the gateway is in no route pushed, nothing
\* else is lost or added, and no two pieces of a route overlap.
THEOREM SplitRoutesIsExact ==
    ASSUME Unaligned = "no"
    PROVE  Spec => [](TypeOK /\ GatewayIsNeverRouted /\ NothingElseIsLost
                      /\ PiecesAreDisjoint)
<1>1. Init => Inv
  BY InvInit
<1>2. Inv /\ [Next]_vars => Inv'
  BY InvStep
<1>3. Inv => /\ TypeOK /\ GatewayIsNeverRouted /\ NothingElseIsLost
             /\ PiecesAreDisjoint
  <2> SUFFICES ASSUME Inv
               PROVE  /\ TypeOK /\ GatewayIsNeverRouted /\ NothingElseIsLost
                      /\ PiecesAreDisjoint
    OBVIOUS
  <2>0. TypeOK
    BY DEF Inv
  <2>1. GatewayIsNeverRouted
    BY DEF Inv, Carried, TypeOK, GatewayIsNeverRouted
  <2>2. NothingElseIsLost
    BY DEF Inv, Carried, NothingElseIsLost
  <2>3. PiecesAreDisjoint
    BY DEF Inv, Halving, PiecesAreDisjoint, Meet
  <2>4. QED  BY <2>0, <2>1, <2>2, <2>3
<1>4. QED  BY <1>1, <1>2, <1>3, PTL DEF Spec
=============================================================================
