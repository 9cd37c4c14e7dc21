------------------------- MODULE ServerConfigProofs -------------------------
(***************************************************************************)
(* For every width of an address and every environment: the programs come  *)
(* to the same directories, port and transport, and for every address and  *)
(* mask the server and its pool fit beside the client.                     *)
(***************************************************************************)
EXTENDS ServerConfig, SequenceTheorems, WellFoundedInduction, TLAPS

\* What has been computed so far, and from what.
AppKnows ==
    app = [data |-> DefaultDataDir, run |-> DefaultRuntimeDir(DefaultDataDir)]

SetupKnows == setup = Resolved(env, DefaultDataDir)

BridgeKnows ==
    bridge = Resolved([env EXCEPT !.dataDir = DefaultDataDir], Unset)

ConfKnows ==
    /\ conf.data = bridge.data /\ conf.port = bridge.port
    /\ conf.proto = bridge.proto

Inv ==
    /\ env \in Environment
    /\ pc \in {"app", "setup", "parse", "resolve", "place", "build", "done",
               "refused"}
    /\ pc # "app" => AppKnows
    /\ pc \notin {"app", "setup"} => SetupKnows
    /\ pc \in {"place", "build", "done"} => BridgeKnows
    /\ pc = "done" => ConfKnows

-----------------------------------------------------------------------------
\* What is computed from directories is one.
LEMMA DirectoryFacts ==
  ASSUME env \in Environment
  PROVE  /\ DefaultDataDir \in Directory
         /\ \A d \in Directory : /\ DefaultRuntimeDir(d) \in Directory
                                 /\ RuntimeDir(env, d) \in Directory
<1>1. /\ env.dataHome \in {Unset, <<>>, <<"xdg">>}
      /\ env.runtime \in {Unset, <<"user">>, <<Pkg>>}
  BY DEF Environment
<1>2. /\ <<"home">> \in Directory /\ <<"xdg">> \in Directory /\ <<>> \in Directory
      /\ <<"user">> \in Directory /\ <<Pkg>> \in Directory
  BY DEF Directory
<1>3. \A d \in Directory : Append(d, Pkg) \in Directory /\ Append(d, "run") \in Directory
  BY AppendProperties DEF Directory
<1>4. DefaultDataDir \in Directory
  BY <1>1, <1>2, <1>3 DEF DefaultDataDir
<1>5. QED
  BY <1>1, <1>2, <1>3, <1>4 DEF DefaultRuntimeDir, RuntimeDir

\* The default directory is not mistaken for one that is not set.
LEMMA DefaultIsPath == ASSUME env \in Environment
                       PROVE  DefaultDataDir # Unset
BY DirectoryFacts, UnsetAssumption

\* The flag -init is given and the variable run() inherits lead to the same.
LEMMA TwoWays ==
  ASSUME env \in Environment
  PROVE  LET s == Resolved(env, DefaultDataDir)
             b == Resolved([env EXCEPT !.dataDir = DefaultDataDir], Unset)
         IN  /\ s.data = DefaultDataDir /\ b.data = s.data
             /\ b.port = s.port /\ b.proto = s.proto
             /\ b.run = DefaultRuntimeDir(DefaultDataDir)
<1> DEFINE e == [env EXCEPT !.dataDir = DefaultDataDir]
<1>1. /\ e.dataDir = DefaultDataDir /\ e.runtime = env.runtime
      /\ e.port = env.port /\ e.proto = env.proto
  BY DEF Environment
<1>2. DataDir(env, DefaultDataDir) = DefaultDataDir
  BY DefaultIsPath DEF DataDir
<1>3. DataDir(e, Unset) = DefaultDataDir
  BY DefaultIsPath, <1>1 DEF DataDir
<1>4. Port(e) = Port(env) /\ resolveProto(e) = resolveProto(env)
  BY <1>1 DEF Port, resolveProto
<1>5. RuntimeDir(e, DefaultDataDir) = DefaultRuntimeDir(DefaultDataDir)
  BY <1>1 DEF RuntimeDir, DefaultRuntimeDir
<1> HIDE DEF e
<1>6. /\ Resolved(env, DefaultDataDir).data = DefaultDataDir
      /\ Resolved(env, DefaultDataDir).port = Port(env)
      /\ Resolved(env, DefaultDataDir).proto = resolveProto(env)
  BY <1>2 DEF Resolved
<1>7. /\ Resolved(e, Unset).data = DefaultDataDir
      /\ Resolved(e, Unset).port = Port(e)
      /\ Resolved(e, Unset).proto = resolveProto(e)
      /\ Resolved(e, Unset).run = RuntimeDir(e, DefaultDataDir)
  BY <1>3 DEF Resolved
<1>8. /\ Resolved(e, Unset).data = Resolved(env, DefaultDataDir).data
      /\ Resolved(e, Unset).port = Resolved(env, DefaultDataDir).port
      /\ Resolved(e, Unset).proto = Resolved(env, DefaultDataDir).proto
      /\ Resolved(e, Unset).run = DefaultRuntimeDir(DefaultDataDir)
  BY <1>4, <1>5, <1>6, <1>7
<1>9. QED
  BY <1>6, <1>8 DEF e

-----------------------------------------------------------------------------
LEMMA InvInit == Init => Inv
BY DEF Init, Inv

\* Nothing that is computed from env changes with a step that keeps env.
LEMMA SameEnv ==
  ASSUME env' = env
  PROVE  /\ DefaultDataDir' = DefaultDataDir
         /\ DefaultRuntimeDir(DefaultDataDir)' = DefaultRuntimeDir(DefaultDataDir)
         /\ Resolved(env, DefaultDataDir)' = Resolved(env, DefaultDataDir)
         /\ Resolved([env EXCEPT !.dataDir = DefaultDataDir], Unset)'
              = Resolved([env EXCEPT !.dataDir = DefaultDataDir], Unset)
<1>1. DefaultDataDir' = DefaultDataDir
  BY DEF DefaultDataDir
<1>2. QED
  BY <1>1 DEF DefaultRuntimeDir, Resolved, DataDir, RuntimeDir, Port,
              resolveProto, xdgDataHome

LEMMA InvStep == Inv /\ [Next]_vars => Inv'
<1> SUFFICES ASSUME Inv, [Next]_vars
             PROVE  Inv'
  OBVIOUS
<1>1. env' = env
  BY DEF Next, AppInit, RunInit, ParseParams, Resolve, ServerIP, Build, Refuse,
         vars
<1>2. AppKnows /\ app' = app => AppKnows'
  BY <1>1, SameEnv DEF AppKnows
<1>3. SetupKnows /\ setup' = setup => SetupKnows'
  BY <1>1, SameEnv DEF SetupKnows
<1>4. BridgeKnows /\ bridge' = bridge => BridgeKnows'
  BY <1>1, SameEnv DEF BridgeKnows
<1>5. CASE AppInit
  <2>1. AppKnows'
    BY <1>1, <1>5, SameEnv DEF AppInit, AppKnows
  <2>2. QED
    BY <1>1, <1>5, <2>1 DEF AppInit, Inv
<1>6. CASE RunInit
  <2>1. app.data = DefaultDataDir
    BY <1>6 DEF RunInit, Inv, AppKnows
  <2>2. SetupKnows'
    BY <1>1, <1>6, <2>1, SameEnv DEF RunInit, SetupKnows
  <2>3. QED
    BY <1>1, <1>2, <1>6, <2>2 DEF RunInit, Inv
<1>7. CASE ParseParams
  BY <1>1, <1>2, <1>3, <1>7 DEF ParseParams, Refuse, Inv
<1>8. CASE Resolve
  <2>1. app.data = DefaultDataDir
    BY <1>8 DEF Resolve, Inv, AppKnows
  <2>2. BridgeKnows'
    BY <1>1, <1>8, <2>1, SameEnv DEF Resolve, BridgeKnows
  <2>3. QED
    BY <1>1, <1>2, <1>3, <1>8, <2>2 DEF Resolve, Inv
<1>9. CASE ServerIP
  BY <1>1, <1>2, <1>3, <1>4, <1>9 DEF ServerIP, Refuse, Inv
<1>10. CASE Build
  <2>1. CASE pc' = "refused"
    BY <1>1, <1>2, <1>3, <1>10, <2>1 DEF Build, Refuse, Inv
  <2>2. CASE pc' # "refused"
    <3>1. pc' = "done" /\ ConfKnows' /\ UNCHANGED <<app, setup, bridge>>
      BY <1>10, <2>2 DEF Build, Refuse, ConfKnows
    <3>2. QED
      BY <1>1, <1>2, <1>3, <1>4, <1>10, <3>1 DEF Build, Inv
  <2>3. QED
    BY <2>1, <2>2
<1>11. CASE UNCHANGED vars
  BY <1>1, <1>2, <1>3, <1>4, <1>11 DEF vars, Inv, ConfKnows
<1>12. QED
  BY <1>5, <1>6, <1>7, <1>8, <1>9, <1>10, <1>11 DEF Next

\* In every environment the app looks where the bridge writes, and the server
\* that a tunnel starts has the directory, port and transport that -init told
\* the user (backend.py:49-69, 429-431, main.go:322-413).
THEOREM ProgramsAgree == Spec => []AppAndBridgeAgree
<1>1. Inv => AppAndBridgeAgree
  <2> SUFFICES ASSUME Inv, pc = "done"
               PROVE  bridge.run = app.run /\ conf.data = setup.data
                        /\ conf.port = setup.port /\ conf.proto = setup.proto
    BY DEF AppAndBridgeAgree
  <2>1. AppKnows /\ SetupKnows /\ BridgeKnows /\ ConfKnows
    BY DEF Inv
  <2>2. app.run = DefaultRuntimeDir(DefaultDataDir)
    BY <2>1 DEF AppKnows
  <2>3. env \in Environment
    BY DEF Inv
  <2>4. QED
    BY <2>1, <2>2, <2>3, TwoWays DEF SetupKnows, BridgeKnows, ConfKnows
<1>2. QED
  BY <1>1, InvInit, InvStep, PTL DEF Spec
-----------------------------------------------------------------------------
(* Arithmetic *)

LessThan == {p \in Nat \X Nat : p[1] < p[2]}

\* Induction: the smallest number that is not in S would have a predecessor.
LEMMA Induction ==
  ASSUME NEW S, 0 \in S, \A n \in Nat : n \in S => n + 1 \in S
  PROVE  \A n \in Nat : n \in S
<1> DEFINE T == {n \in Nat : n \notin S}
<1>1. SUFFICES ASSUME T # {}
               PROVE  FALSE
  OBVIOUS
<1>2. IsWellFoundedOn(LessThan, Nat)
  BY NatLessThanWellFounded DEF OpToRel, LessThan
<1>3. PICK x \in T : \A y \in T : <<y, x>> \notin LessThan
  <2>1. T \subseteq Nat
    OBVIOUS
  <2> HIDE DEF T
  <2>2. QED
    BY <1>1, <1>2, <2>1, WFMin
<1>4. x # 0 /\ x - 1 \in Nat /\ x - 1 < x /\ (x - 1) + 1 = x
  OBVIOUS
<1>5. x - 1 \notin T
  BY <1>3, <1>4 DEF LessThan
<1>6. QED
  BY <1>4, <1>5

\* The powers up to the k-th.
PowersUpTo(k, f) == f = [n \in 0..k |-> IF n = 0 THEN 1 ELSE 2 * f[n - 1]]

LEMMA PowersExist == \A k \in Nat : \E f : PowersUpTo(k, f)
<1> DEFINE S == {k \in Nat : \E f : PowersUpTo(k, f)}
<1>1. 0 \in S
  <2>1. PowersUpTo(0, [n \in 0..0 |-> 1])
    BY DEF PowersUpTo
  <2>2. QED
    BY <2>1
<1>2. ASSUME NEW k \in Nat, k \in S
      PROVE  k + 1 \in S
  <2>1. PICK f : PowersUpTo(k, f)
    BY <1>2
  <2> DEFINE g == [n \in 0..(k + 1) |-> IF n = k + 1 THEN 2 * f[k] ELSE f[n]]
  <2>2. \A n \in 0..k : f[n] = IF n = 0 THEN 1 ELSE 2 * f[n - 1]
    BY <2>1 DEF PowersUpTo
  <2>3. \A n \in 0..(k + 1) : g[n] = IF n = 0 THEN 1 ELSE 2 * g[n - 1]
    BY <2>2
  <2>4. PowersUpTo(k + 1, g)
    BY <2>3 DEF PowersUpTo
  <2>5. QED
    BY <2>4
<1>3. \A k \in Nat : k \in S
  <2> HIDE DEF S
  <2>1. QED
    BY <1>1, <1>2, Induction
<1>4. QED
  BY <1>3

LEMMA Pow2Step ==
  \A n \in 0..Bits : Pow2[n] = IF n = 0 THEN 1 ELSE 2 * Pow2[n - 1]
<1>1. \E f : PowersUpTo(Bits, f)
  BY ConstantsAssumption, PowersExist
<1>2. PowersUpTo(Bits, Pow2)
  BY <1>1 DEF PowersUpTo, Pow2
<1>3. QED
  BY <1>2 DEF PowersUpTo

\* More than their exponents, so positive and unbounded.
LEMMA Pow2Positive == \A n \in 0..Bits : Pow2[n] \in Nat /\ Pow2[n] > n
<1> DEFINE S == {n \in Nat : n <= Bits => Pow2[n] \in Nat /\ Pow2[n] > n}
<1>1. 0 \in S
  BY Pow2Step, ConstantsAssumption
<1>2. ASSUME NEW n \in Nat, n \in S
      PROVE  n + 1 \in S
  <2> SUFFICES ASSUME n + 1 <= Bits
               PROVE  Pow2[n + 1] \in Nat /\ Pow2[n + 1] > n + 1
    OBVIOUS
  <2>1. Pow2[n + 1] = 2 * Pow2[n]
    BY Pow2Step, ConstantsAssumption
  <2>2. Pow2[n] \in Nat /\ Pow2[n] > n
    BY <1>2, ConstantsAssumption
  <2>3. QED
    BY <2>1, <2>2
<1>3. \A n \in Nat : n \in S
  <2> HIDE DEF S
  <2>1. QED
    BY <1>1, <1>2, Induction
<1>4. QED
  BY <1>3, ConstantsAssumption

LEMMA Pow2Sum ==
  ASSUME NEW a \in Nat, NEW b \in Nat, a + b <= Bits
  PROVE  Pow2[a + b] = Pow2[a] * Pow2[b]
<1> DEFINE S == {n \in Nat : n <= b => Pow2[a + n] = Pow2[a] * Pow2[n]}
<1>1. 0 \in S
  <2>1. Pow2[0] = 1 /\ Pow2[a] \in Nat
    BY Pow2Step, Pow2Positive, ConstantsAssumption
  <2>2. QED
    BY <2>1
<1>2. ASSUME NEW n \in Nat, n \in S
      PROVE  n + 1 \in S
  <2> SUFFICES ASSUME n + 1 <= b
               PROVE  Pow2[a + (n + 1)] = Pow2[a] * Pow2[n + 1]
    OBVIOUS
  <2>1. Pow2[n + 1] = 2 * Pow2[n] /\ Pow2[a + (n + 1)] = 2 * Pow2[a + n]
    BY Pow2Step, ConstantsAssumption
  <2>2. Pow2[a + n] = Pow2[a] * Pow2[n]
    BY <1>2
  <2>3. Pow2[a] \in Nat /\ Pow2[n] \in Nat
    BY Pow2Positive, ConstantsAssumption
  <2>4. \A x, y \in Nat : 2 * (x * y) = x * (2 * y)
    OBVIOUS
  <2>5. QED
    BY <2>1, <2>2, <2>3, <2>4
<1>3. \A n \in Nat : n \in S
  <2> HIDE DEF S
  <2>1. QED
    BY <1>1, <1>2, Induction
<1>4. QED
  BY <1>3

\* What % is: there is a quotient to it.
LEMMA Division ==
  ASSUME NEW b \in Nat \ {0}
  PROVE  \A a \in Nat : \E q \in Nat, r \in 0..(b - 1) : a = b * q + r /\ r = a % b
<1> DEFINE S == {a \in Nat : \E q \in Nat, r \in 0..(b - 1) : a = b * q + r}
<1>1. 0 \in S
  <2>1. 0 = b * 0 + 0 /\ 0 \in 0..(b - 1)
    OBVIOUS
  <2>2. QED
    BY <2>1
<1>2. ASSUME NEW a \in Nat, a \in S
      PROVE  a + 1 \in S
  <2>1. PICK q \in Nat, r \in 0..(b - 1) : a = b * q + r
    BY <1>2
  <2>2. CASE r + 1 = b
    <3>1. a + 1 = b * (q + 1) + 0
      BY <2>1, <2>2
    <3>2. \E x \in Nat, y \in 0..(b - 1) : a + 1 = b * x + y
      <4>1. q + 1 \in Nat /\ 0 \in 0..(b - 1)
        OBVIOUS
      <4>2. WITNESS q + 1 \in Nat, 0 \in 0..(b - 1)
      <4>3. QED
        BY <3>1
    <3>3. QED
      BY <3>2
  <2>3. CASE r + 1 # b
    <3>1. a + 1 = b * q + (r + 1) /\ r + 1 \in 0..(b - 1)
      BY <2>1, <2>3
    <3>2. QED
      BY <3>1
  <2>4. QED
    BY <2>2, <2>3
<1>3. \A a \in Nat : a \in S
  <2> HIDE DEF S
  <2>1. QED
    BY <1>1, <1>2, Induction
<1>4. TAKE a \in Nat
<1>5. PICK q \in Nat, r \in 0..(b - 1) : a = b * q + r
  BY <1>3
<1>6. r = a % b
  BY <1>5
<1>7. QED
  BY <1>5, <1>6

LEMMA Remainder ==
  ASSUME NEW b \in Nat \ {0}, NEW q \in Nat, NEW r \in 0..(b - 1)
  PROVE  (b * q + r) % b = r
OBVIOUS

\* Multiples of b are b apart.
LEMMA Smaller ==
  ASSUME NEW b \in Nat \ {0}, NEW m \in Nat, NEW t \in Nat, b * m < b * t
  PROVE  b * m + b <= b * t
<1>1. m < t
  <2>1. ASSUME t <= m
        PROVE  b * t <= b * m
    <3>1. PICK d \in Nat : m = t + d
      BY <2>1
    <3>2. b * m = b * t + b * d /\ b * d \in Nat /\ b * t \in Nat
      BY <3>1
    <3>3. QED
      BY <3>2
  <2>2. b * t \in Nat /\ b * m \in Nat
    OBVIOUS
  <2>3. QED
    BY <2>1, <2>2
<1>2. PICK d \in Nat : t = (m + 1) + d
  BY <1>1
<1>3. b * t = (b * m + b) + b * d /\ b * d \in Nat /\ b * m \in Nat
  BY <1>2
<1>4. QED
  BY <1>3

\* A multiple of b below another multiple of b has room for b.
LEMMA Divided ==
  ASSUME NEW b \in Nat \ {0}, NEW m \in Nat, NEW t \in Nat \ {0}
  PROVE  LET x == (b * m) % (b * t)
         IN  x \in Nat /\ x + b <= b * t
<1> DEFINE c == b * t
           x == (b * m) % c
<1>1. c \in Nat \ {0} /\ b * m \in Nat
  OBVIOUS
<1>2. PICK q \in Nat, r \in 0..(c - 1) : b * m = c * q + r /\ r = x
  <2> HIDE DEF c
  <2>1. QED
    BY <1>1, Division
<1>3. r = b * m - c * q /\ c * q = b * (t * q) /\ t * q \in Nat /\ r < c /\ r >= 0
  BY <1>1, <1>2
<1>4. PICK u \in Nat : r = b * u
  <2>1. t * q <= m
    <3>1. ASSUME m < t * q
          PROVE  FALSE
      <4>1. PICK d \in Nat : t * q = (m + 1) + d
        BY <1>3, <3>1
      <4>2. b * (t * q) = (b * m + b) + b * d /\ b * d \in Nat /\ b * m \in Nat
        BY <4>1
      <4>3. QED
        BY <1>3, <4>2
    <3>2. QED
      BY <1>3, <3>1
  <2>2. PICK d \in Nat : m = t * q + d
    BY <1>3, <2>1
  <2>3. b * m = b * (t * q) + b * d /\ b * d \in Nat
    BY <1>3, <2>2
  <2>4. r = b * d
    BY <1>3, <2>3
  <2>5. QED
    BY <2>4
<1>5. b * u + b <= b * t
  BY <1>3, <1>4, Smaller
<1>6. QED
  BY <1>2, <1>4, <1>5

\* The client's subnet, of more than two hosts: it lies within the addresses,
\* its hosts have its prefix, and adding to the last octet of its address does
\* not leave it, whichever of the two is the wider.
LEMMA Subnet ==
  ASSUME NEW a \in Address, NEW n \in 0..(Bits - 3)
  PROVE  /\ Size(n) \in Nat /\ Size(n) >= 8
         /\ Masked(a, n) \in Nat /\ Masked(a, n) <= a
         /\ Masked(a, n) + Size(n) <= Pow2[Bits]
         /\ \A off \in 0..(Size(n) - 1) : Masked(Masked(a, n) + off, n) = Masked(a, n)
         /\ \A off \in 1..2 : AddToOctet(Masked(a, n), off) = Masked(a, n) + off
<1> DEFINE s == Size(n)
           o == Pow2[OctetBits]
           k == Bits - n
<1> USE ConstantsAssumption
<1>1. /\ k \in 3..Bits /\ s = Pow2[k] /\ Pow2[Bits] \in Nat
      /\ s \in Nat \ {0} /\ o \in Nat \ {0} /\ Pow2[n] \in Nat
  BY Pow2Positive DEF Size
<1>2. s >= 8 /\ o >= 8
  <2>1. Pow2[3] = 8
    BY Pow2Step
  <2>2. \A i \in 3..Bits : Pow2[i] >= 8
    <3>1. TAKE i \in 3..Bits
    <3>2. Pow2[3 + (i - 3)] = Pow2[3] * Pow2[i - 3]
      BY Pow2Sum
    <3>3. Pow2[i - 3] \in Nat /\ Pow2[i - 3] >= 1
      BY Pow2Positive
    <3>4. QED
      BY <2>1, <3>2, <3>3
  <2>3. QED
    BY <1>1, <2>2
<1>3. a \in Nat /\ a < Pow2[Bits]
  BY <1>1 DEF Address
<1> HIDE DEF s, o
<1>4. PICK m \in Nat, r \in 0..(s - 1) : a = s * m + r /\ r = a % s
  BY <1>1, <1>3, Division
<1>5. s * m \in Nat /\ Masked(a, n) = s * m
  <2>1. s * m \in Nat
    BY <1>1
  <2>2. Masked(a, n) = a - r
    BY <1>4 DEF Masked, s
  <2>3. QED
    BY <1>1, <1>4, <2>1, <2>2
<1>6. s * m + s <= Pow2[Bits]
  <2>1. Pow2[Bits] = s * Pow2[n]
    <3>1. k + n = Bits
      OBVIOUS
    <3>2. QED
      BY <1>1, <3>1, Pow2Sum
  <2>2. s * m <= a
    BY <1>1, <1>4, <1>5
  <2>3. s * m < s * Pow2[n]
    BY <1>1, <1>3, <1>5, <2>1, <2>2
  <2>4. QED
    BY <1>1, <2>1, <2>3, Smaller
<1>7. ASSUME NEW off \in 0..(s - 1)
      PROVE  Masked(s * m + off, n) = s * m
  <2>1. (s * m + off) % s = off
    BY <1>1, Remainder
  <2>2. QED
    BY <1>1, <1>5, <2>1 DEF Masked, s
<1>8. ASSUME NEW off \in 1..2
      PROVE  AddToOctet(s * m, off) = s * m + off
  <2>1. (s * m) % o \in Nat /\ ((s * m) % o) + off < o
    <3>1. CASE k <= OctetBits
      <4> DEFINE t == Pow2[OctetBits - k]
      <4>1. t \in Nat \ {0} /\ o = s * t
        <5>1. k + (OctetBits - k) = OctetBits
          OBVIOUS
        <5>2. QED
          BY <1>1, <3>1, <5>1, Pow2Sum, Pow2Positive DEF o
      <4> HIDE DEF t
      <4>2. (s * m) % (s * t) \in Nat /\ ((s * m) % (s * t)) + s <= s * t
        BY <1>1, <4>1, Divided
      <4>3. QED
        BY <1>1, <1>2, <4>1, <4>2
    <3>2. CASE OctetBits < k
      <4> DEFINE t == Pow2[k - OctetBits]
      <4>1. t \in Nat /\ s = o * t
        <5>1. OctetBits + (k - OctetBits) = k
          OBVIOUS
        <5>2. QED
          BY <1>1, <3>2, <5>1, Pow2Sum, Pow2Positive DEF o
      <4> HIDE DEF t
      <4>2. t * m \in Nat /\ s * m = o * (t * m) + 0 /\ 0 \in 0..(o - 1)
        BY <1>1, <4>1
      <4>3. (o * (t * m) + 0) % o = 0
        BY <1>1, <4>2, Remainder
      <4>4. (s * m) % o = 0
        BY <4>2, <4>3
      <4>5. QED
        BY <1>1, <1>2, <4>4
    <3>3. QED
      BY <3>1, <3>2
  <2>2. (((s * m) % o) + off) % o = ((s * m) % o) + off
    <3>1. PICK x \in Nat : x = ((s * m) % o) + off
      BY <2>1
    <3>2. x \in 0..(o - 1) /\ x = o * 0 + x
      BY <1>1, <2>1, <3>1
    <3>3. (o * 0 + x) % o = x
      BY <1>1, <3>2, Remainder
    <3>4. QED
      BY <3>1, <3>2, <3>3
  <2>3. QED
    BY <1>5, <2>1, <2>2 DEF AddToOctet, o
<1>9. QED
  BY <1>1, <1>2, <1>3, <1>4, <1>5, <1>6, <1>7, <1>8 DEF s

-----------------------------------------------------------------------------
(* The server and its pool *)

\* What has been computed has its type, and what the next step needs is there.
Typed ==
    /\ TypeOK
    /\ pc # "app" => app \in [data : Directory, run : Directory]
    /\ pc \in {"place", "build", "done"} => bridge \in Resolution

\* The server is one of the first two hosts of the subnet, not the client's.
Placed ==
    /\ sent.netmask \in 0..(Bits - 3)
    /\ server \in {Base + 1, Base + 2} \ {sent.address}

NetInv ==
    /\ Typed
    /\ pc \in {"resolve", "place", "build", "done"} => sent.address \in Address
    /\ pc \in {"build", "done"} => Placed
    /\ pc = "done" => /\ conf.server = server /\ conf.client = sent.address
                      /\ conf.first = PoolFirst /\ conf.last = PoolLast
    /\ RefusedOnlyWithoutRoom

\* The pool begins above the server, without a wrap, and is of two or more.
LEMMA Pool ==
  ASSUME sent.address \in Address, Placed
  PROVE  /\ PoolFirst = server + 1 /\ PoolFirst \in Address
         /\ PoolLast \in Address /\ PoolLast > PoolFirst
         /\ server \in Address /\ server > Base /\ PoolLast = Base + Size(sent.netmask) - 2
         /\ Base \in Nat
<1> DEFINE s == Size(sent.netmask)
<1>1. /\ s \in Nat /\ s >= 8 /\ Base \in Nat /\ Base + s <= Pow2[Bits]
      /\ Pow2[Bits] \in Nat
  BY Subnet, Pow2Positive, ConstantsAssumption DEF Placed, Base
<1>2. server \in {Base + 1, Base + 2}
  BY DEF Placed
<1> HIDE DEF s
<1>3. server + 1 \in 0..(Pow2[Bits] - 1) /\ server \in Nat
  BY <1>1, <1>2
<1>4. PoolFirst = server + 1
  <2>1. PICK x \in 0..(Pow2[Bits] - 1) : x = server + 1
    BY <1>3
  <2>2. Pow2[Bits] \in Nat \ {0}
    BY <1>1
  <2>3. x = Pow2[Bits] * 0 + x /\ 0 \in Nat
    BY <1>1, <2>1
  <2>4. (Pow2[Bits] * 0 + x) % Pow2[Bits] = x
    BY <2>1, <2>2, <2>3, Remainder
  <2>5. QED
    BY <2>1, <2>3, <2>4 DEF PoolFirst
<1>5. PoolLast = Base + s - 2
  BY DEF PoolLast, s
<1>6. QED
  BY <1>1, <1>2, <1>3, <1>4, <1>5 DEF Address, s

\* A flag is a directory; without one there is a variable or the default.
LEMMA ResolvedType ==
  ASSUME env \in Environment, NEW d \in Directory
  PROVE  /\ Resolved(env, d) \in Resolution
         /\ Resolved([env EXCEPT !.dataDir = d], Unset) \in Resolution
<1> DEFINE e == [env EXCEPT !.dataDir = d]
<1>1. /\ e.dataDir = d /\ e.runtime = env.runtime
      /\ e.port = env.port /\ e.proto = env.proto
      /\ env.port \in {Unset, Garbage, 4000}
  BY DEF Environment
<1>2. DataDir(env, d) = d /\ DataDir(e, Unset) = d
  BY <1>1, UnsetAssumption DEF DataDir
<1>3. RuntimeDir(env, d) \in Directory /\ RuntimeDir(e, d) = RuntimeDir(env, d)
  BY <1>1, DirectoryFacts DEF RuntimeDir
<1>4. Port(env) \in Nat /\ Port(e) = Port(env)
  BY <1>1 DEF Port, DefaultPort
<1>5. resolveProto(env) \in {"tcp", "udp"} /\ resolveProto(e) = resolveProto(env)
  BY <1>1 DEF resolveProto
<1> HIDE DEF e
<1>6. Resolved(env, d) \in Resolution /\ Resolved(e, Unset) \in Resolution
  BY <1>2, <1>3, <1>4, <1>5 DEF Resolved, Resolution
<1>7. QED
  BY <1>6 DEF e

LEMMA NetInit == Init => NetInv
<1> SUFFICES ASSUME Init
             PROVE  NetInv
  OBVIOUS
<1>1. 0 \in Address
  BY Pow2Positive, ConstantsAssumption DEF Address
<1>2. QED
  BY <1>1 DEF Init, NetInv, Typed, TypeOK, RefusedOnlyWithoutRoom

LEMMA NetStep == NetInv /\ [Next]_vars => NetInv'
<1> SUFFICES ASSUME NetInv, [Next]_vars
             PROVE  NetInv'
  OBVIOUS
<1> USE DEF NetInv, Typed, TypeOK
<1>1. CASE AppInit
  <2>1. app' \in [data : Directory, run : Directory]
    BY <1>1, DirectoryFacts DEF AppInit
  <2>2. QED
    BY <1>1, <2>1 DEF AppInit, RefusedOnlyWithoutRoom
<1>2. CASE RunInit
  <2>1. setup' \in Resolution
    BY <1>2, ResolvedType DEF RunInit
  <2>2. QED
    BY <1>2, <2>1 DEF RunInit, RefusedOnlyWithoutRoom
<1>3. CASE ParseParams
  <2>1. CASE Garbage \in {sent.fd, sent.address, sent.netmask}
    <3>1. sent.netmask = Garbage => sent.netmask \notin 0..(Bits - 3)
      BY ConstantsAssumption
    <3>2. QED
      BY <1>3, <2>1, <3>1 DEF ParseParams, Refuse, RefusedOnlyWithoutRoom
  <2>2. CASE Garbage \notin {sent.fd, sent.address, sent.netmask}
    <3>1. sent.address \in Address
      BY <2>2 DEF Tunnel
    <3>2. QED
      BY <1>3, <2>2, <3>1 DEF ParseParams, RefusedOnlyWithoutRoom
  <2>3. QED
    BY <2>1, <2>2
<1>4. CASE Resolve
  <2>1. bridge' \in Resolution
    BY <1>4, ResolvedType DEF Resolve
  <2>2. QED
    BY <1>4, <2>1 DEF Resolve, RefusedOnlyWithoutRoom
<1>5. CASE ServerIP
  <2>1. CASE sent.netmask \notin 0..(Bits - 3)
    BY <1>5, <2>1 DEF ServerIP, Refuse, RefusedOnlyWithoutRoom
  <2>2. CASE sent.netmask \in 0..(Bits - 3)
    <3>1. /\ server' \in Candidates /\ pc' = "build"
          /\ UNCHANGED <<env, sent, app, setup, bridge, conf>>
      BY <1>5, <2>2 DEF ServerIP
    <3>2. sent.address \in Address
      BY <1>5 DEF ServerIP
    <3>3. Candidates = {Base + 1, Base + 2} \ {sent.address}
      BY <2>2, <3>2, Subnet DEF Candidates, Base
    <3>4. Base' = Base
      BY <3>1 DEF Base
    <3>5. Placed'
      BY <2>2, <3>1, <3>3, <3>4 DEF Placed
    <3>6. server' \in Address
      <4>1. \A c \in {Base + 1, Base + 2} : c \in Address
        <5>1. /\ Size(sent.netmask) \in Nat /\ Size(sent.netmask) >= 8 /\ Base \in Nat
              /\ Base + Size(sent.netmask) <= Pow2[Bits] /\ Pow2[Bits] \in Nat
          BY <2>2, <3>2, Subnet, Pow2Positive, ConstantsAssumption DEF Base
        <5>2. QED
          BY <5>1 DEF Address
      <4>2. QED
        BY <3>1, <3>3, <4>1
    <3>7. QED
      BY <1>5, <3>1, <3>2, <3>5, <3>6 DEF ServerIP, RefusedOnlyWithoutRoom
  <2>3. QED
    BY <2>1, <2>2
<1>6. CASE Build
  <2>1. sent.address \in Address /\ Placed /\ bridge \in Resolution
    BY <1>6 DEF Build
  <2>2. /\ PoolFirst \in Address /\ PoolLast \in Address
        /\ PoolFirst \in Nat /\ PoolLast \in Nat /\ PoolLast > PoolFirst
    BY <2>1, Pool, Pow2Positive, ConstantsAssumption DEF Address
  <2>3. ~(PoolLast < PoolFirst \/ (PoolLast - PoolFirst) + 1 < 2)
    BY <2>2
  <2>4. /\ conf' = [server |-> server, first |-> PoolFirst, last |-> PoolLast,
                    client |-> sent.address, port |-> bridge.port,
                    proto |-> bridge.proto, data |-> bridge.data]
        /\ pc' = "done"
        /\ UNCHANGED <<env, sent, app, setup, bridge, server>>
    BY <1>6, <2>3 DEF Build
  <2>5. PoolFirst' = PoolFirst /\ PoolLast' = PoolLast /\ Placed'
    BY <2>1, <2>4 DEF PoolFirst, PoolLast, Base, Placed
  <2>6. conf' \in [server : Address, first : Address, last : Address,
                   client : Address, port : Nat,
                   proto : {"tcp", "udp"}, data : Directory]
    BY <2>1, <2>2, <2>4 DEF Resolution
  <2>7. /\ conf'.server = server' /\ conf'.client = sent'.address
        /\ conf'.first = PoolFirst' /\ conf'.last = PoolLast'
    BY <2>4, <2>5
  <2>8. TypeOK'
    BY <2>4, <2>6
  <2>9. Typed' /\ RefusedOnlyWithoutRoom'
    <3>1. app' \in [data : Directory, run : Directory] /\ bridge' \in Resolution
      BY <1>6, <2>1, <2>4 DEF Build
    <3> HIDE DEF TypeOK
    <3>2. QED
      BY <2>4, <2>8, <3>1 DEF RefusedOnlyWithoutRoom
  <2> HIDE DEF Typed, TypeOK
  <2>10. sent'.address \in Address
    BY <2>1, <2>4
  <2>11. QED
    BY <2>4, <2>5, <2>7, <2>9, <2>10
<1>7. CASE UNCHANGED vars
  BY <1>7 DEF vars, Placed, Base, PoolFirst, PoolLast, RefusedOnlyWithoutRoom
<1>8. QED
  BY <1>1, <1>2, <1>3, <1>4, <1>5, <1>6, <1>7 DEF Next

LEMMA NetAlways == Spec => []NetInv
BY NetInit, NetStep, PTL DEF Spec

\* The types of the variables, for every width of an address and of its octet.
THEOREM ConfigTypes == Spec => []TypeOK
<1>1. NetInv => TypeOK
  BY DEF NetInv, Typed
<1>2. QED
  BY <1>1, NetAlways, PTL

\* Whatever address and mask the gateway sends, what openvpn is given is
\* consistent: the server is another host of the client's subnet, and the pool
\* is of hosts of it beside the server (params.go:107-173).
THEOREM ServerFitsBesideClient == Spec => []EndpointFits
<1>1. NetInv => EndpointFits
  <2> SUFFICES ASSUME NetInv, pc = "done"
               PROVE  /\ conf.server \in Hosts \ {conf.client}
                      /\ Masked(conf.client, sent.netmask)
                           = Masked(conf.server, sent.netmask)
                      /\ conf.first..conf.last \subseteq Hosts \ {conf.server}
                      /\ conf.last > conf.first
    BY DEF EndpointFits
  <2>1. /\ sent.address \in Address /\ Placed
        /\ conf.server = server /\ conf.client = sent.address
        /\ conf.first = PoolFirst /\ conf.last = PoolLast
    BY DEF NetInv
  <2> DEFINE s == Size(sent.netmask)
  <2>2. /\ s \in Nat /\ s >= 8 /\ Base \in Nat
        /\ server \in {Base + 1, Base + 2} \ {sent.address}
        /\ PoolFirst = server + 1 /\ PoolLast = Base + s - 2 /\ PoolLast > PoolFirst
    BY <2>1, Pool, Subnet DEF Placed
  <2>3. Masked(server, sent.netmask) = Base
    <3>1. \A off \in 0..(s - 1) : Masked(Base + off, sent.netmask) = Base
      BY <2>1, Subnet DEF Placed, Base
    <3>2. 1 \in 0..(s - 1) /\ 2 \in 0..(s - 1)
      BY <2>2
    <3>3. QED
      BY <2>2, <3>1, <3>2
  <2>4. Hosts = (Base + 1)..(Base + s - 2)
    BY DEF Hosts
  <2> HIDE DEF s
  <2>5. server \in Hosts /\ PoolFirst..PoolLast \subseteq Hosts \ {server}
    BY <2>2, <2>4
  <2>6. QED
    BY <2>1, <2>2, <2>3, <2>5 DEF Base
<1>2. QED
  BY <1>1, NetAlways, PTL

\* No gateway that gives its client an address in a subnet with room is
\* refused: the check of the pool never fails (params.go:73-76, 120-131,
\* 171-173; config.go:39-45).
THEOREM NeverRefusedWithRoom == Spec => []RefusedOnlyWithoutRoom
<1>1. NetInv => RefusedOnlyWithoutRoom
  BY DEF NetInv
<1>2. QED
  BY <1>1, NetAlways, PTL
=============================================================================
