----------------------------- MODULE RelayProofs -----------------------------
(***************************************************************************)
(* For packets of any sizes, sockets of any capacity and any traffic:      *)
(* nothing is lost, the counters are exact and the first result is kept.   *)
(***************************************************************************)
EXTENDS Relay, SequenceTheorems, WellFoundedInduction, TLAPS

\* What NothingIsLost and CountersAreExact say of one direction.
Lossless(s) ==
    IF pump[s] \in {"read", "write", "tally"}
    THEN sent[s] = Forwarded(s) \o Held(s) \o inq[s]
    ELSE IsPrefix(Forwarded(s), sent[s])

Exact(s) ==
    tally[s] + (IF pump[s] = "tally" THEN buf[s] ELSE 0) = Total(Forwarded(s))

\* A packet to be written is one that was read: what is forwarded are packets.
Holding(s) == pump[s] = "write" => buf[s] \in Sizes

IInv == TypeOK /\ \A s \in Sides : Holding(s) /\ Lossless(s) /\ Exact(s)
-----------------------------------------------------------------------------
(* Sequences *)

LEMMA PrefixOfConcat ==
  ASSUME NEW S, NEW u \in Seq(S), NEW v \in Seq(S)
  PROVE  IsPrefix(u, u \o v)
BY DEF IsPrefix

LEMMA EmptyAtEnd ==
  ASSUME NEW S, NEW u \in Seq(S)
  PROVE  u \o <<>> = u
OBVIOUS

\* A packet between u and v.
LEMMA PacketBetween ==
  ASSUME NEW S, NEW u \in Seq(S), NEW v \in Seq(S), NEW p \in S
  PROVE  /\ u \o <<p>> \in Seq(S) /\ u \o <<p>> = Append(u, p)
         /\ IsPrefix(u, (u \o <<p>>) \o v)
<1>1. /\ u \o <<p>> \in Seq(S) /\ u \o <<p>> = Append(u, p)
      /\ (u \o <<p>>) \o v = u \o (<<p>> \o v) /\ <<p>> \o v \in Seq(S)
  OBVIOUS
<1>2. QED
  BY <1>1, PrefixOfConcat

LEMMA PrefixGrows ==
  ASSUME NEW S, NEW u \in Seq(S), NEW v \in Seq(S), NEW p \in S,
         IsPrefix(u, v)
  PROVE  IsPrefix(u, Append(v, p))
BY DEF IsPrefix

\* What is read at the head of v goes to the end of u.
LEMMA Shift ==
  ASSUME NEW S, NEW u \in Seq(S), NEW v \in Seq(S), v # <<>>
  PROVE  /\ Append(u, Head(v)) \o Tail(v) = u \o v
         /\ (u \o <<Head(v)>>) \o Tail(v) = u \o v
OBVIOUS

LEMMA AppendInside ==
  ASSUME NEW S, NEW u \in Seq(S), NEW v \in Seq(S), NEW p \in S
  PROVE  u \o Append(v, p) = Append(u \o v, p)
OBVIOUS
-----------------------------------------------------------------------------
(* Sums *)

LessThan == {p \in Nat \X Nat : p[1] < p[2]}

\* Induction: the smallest number that is not in S would have a predecessor.
LEMMA Induction ==
  ASSUME NEW S, 0 \in S, \A n \in Nat : n \in S => n + 1 \in S
  PROVE  \A n \in Nat : n \in S
<1> DEFINE T == {n \in Nat : n \notin S}
<1>1. SUFFICES ASSUME T # {}
               PROVE  FALSE
  OBVIOUS
<1>2. IsWellFoundedOn(LessThan, Nat)
  BY NatLessThanWellFounded DEF OpToRel, LessThan
<1>3. PICK x \in T : \A y \in T : <<y, x>> \notin LessThan
  <2>1. T \subseteq Nat
    OBVIOUS
  <2> HIDE DEF T
  <2>2. QED
    BY <1>1, <1>2, <2>1, WFMin
<1>4. x # 0 /\ x - 1 \in Nat /\ x - 1 < x /\ (x - 1) + 1 = x
  OBVIOUS
<1>5. x - 1 \notin T
  BY <1>3, <1>4 DEF LessThan
<1>6. QED
  BY <1>4, <1>5

\* f sums up the first k packets of q, and fewer.
SumsUp(q, k, f) == f = [n \in 0..k |-> IF n = 0 THEN 0 ELSE f[n - 1] + q[n]]

LEMMA SumsExist ==
  ASSUME NEW q, NEW k \in Nat
  PROVE  \E f : SumsUp(q, k, f)
<1> DEFINE S == {n \in Nat : \E f : SumsUp(q, n, f)}
<1>1. 0 \in S
  <2>1. SumsUp(q, 0, [n \in 0..0 |-> 0])
    BY DEF SumsUp
  <2>2. QED
    BY <2>1
<1>2. ASSUME NEW n \in Nat, n \in S
      PROVE  n + 1 \in S
  <2>1. PICK f : SumsUp(q, n, f)
    BY <1>2
  <2> DEFINE g == [m \in 0..(n + 1) |-> IF m = n + 1 THEN f[n] + q[n + 1] ELSE f[m]]
  <2>2. \A m \in 0..n : f[m] = IF m = 0 THEN 0 ELSE f[m - 1] + q[m]
    BY <2>1 DEF SumsUp
  <2>3. \A m \in 0..(n + 1) : g[m] = IF m = 0 THEN 0 ELSE g[m - 1] + q[m]
    BY <2>2
  <2>4. SumsUp(q, n + 1, g)
    BY <2>3 DEF SumsUp
  <2>5. QED
    BY <2>4
<1>3. \A n \in Nat : n \in S
  <2> HIDE DEF S
  <2>1. QED
    BY <1>1, <1>2, Induction
<1>4. QED
  BY <1>3

LEMMA TotalIsSum ==
  ASSUME NEW q \in Seq(Nat)
  PROVE  \E f : SumsUp(q, Len(q), f) /\ Total(q) = f[Len(q)]
<1>1. \E f : SumsUp(q, Len(q), f)
  <2>1. Len(q) \in Nat
    OBVIOUS
  <2>2. QED
    BY <2>1, SumsExist
<1>2. QED
  BY <1>1 DEF SumsUp, Total

LEMMA TotalEmpty == Total(<<>>) = 0
<1>1. PICK f : SumsUp(<<>>, 0, f) /\ Total(<<>>) = f[0]
  <2>1. <<>> \in Seq(Nat) /\ Len(<<>>) = 0
    OBVIOUS
  <2>2. \E f : SumsUp(<<>>, Len(<<>>), f) /\ Total(<<>>) = f[Len(<<>>)]
    BY <2>1, TotalIsSum
  <2>3. QED
    BY <2>1, <2>2
<1>2. QED
  BY <1>1 DEF SumsUp

\* The sums of q and of q with p at its end agree as far as q goes.
LEMMA TotalAppend ==
  ASSUME NEW q \in Seq(Nat), NEW p \in Nat
  PROVE  Total(q) \in Nat /\ Total(Append(q, p)) = Total(q) + p
<1> DEFINE r == Append(q, p)
           k == Len(q)
<1>1. /\ r \in Seq(Nat) /\ k \in Nat /\ Len(r) = k + 1 /\ r[k + 1] = p
      /\ \A n \in 1..k : q[n] \in Nat /\ r[n] = q[n]
  OBVIOUS
<1>2. PICK f : SumsUp(q, k, f) /\ Total(q) = f[k]
  BY TotalIsSum
<1>3. PICK g : SumsUp(r, k + 1, g) /\ Total(r) = g[k + 1]
  BY <1>1, TotalIsSum
<1> HIDE DEF r, k
<1>4. /\ \A n \in 0..k : f[n] = IF n = 0 THEN 0 ELSE f[n - 1] + q[n]
      /\ \A n \in 0..(k + 1) : g[n] = IF n = 0 THEN 0 ELSE g[n - 1] + r[n]
  BY <1>2, <1>3 DEF SumsUp
<1> DEFINE S == {n \in Nat : n <= k => f[n] \in Nat /\ f[n] = g[n]}
<1>5. 0 \in S
  BY <1>1, <1>4
<1>6. ASSUME NEW n \in Nat, n \in S
      PROVE  n + 1 \in S
  <2> SUFFICES ASSUME n + 1 <= k
               PROVE  f[n + 1] \in Nat /\ f[n + 1] = g[n + 1]
    OBVIOUS
  <2>1. f[n + 1] = f[n] + q[n + 1] /\ g[n + 1] = g[n] + r[n + 1]
    BY <1>1, <1>4
  <2>2. QED
    BY <1>1, <1>6, <2>1
<1>7. \A n \in Nat : n \in S
  <2> HIDE DEF S
  <2>1. QED
    BY <1>5, <1>6, Induction
<1>8. f[k] \in Nat /\ f[k] = g[k]
  BY <1>1, <1>7
<1>9. g[k + 1] = g[k] + p
  BY <1>1, <1>4
<1>10. QED
  BY <1>2, <1>3, <1>8, <1>9 DEF r

LEMMA SeqOfNat ==
  ASSUME NEW q \in Seq(Sizes)
  PROVE  q \in Seq(Nat)
<1>1. Len(q) \in Nat /\ \A n \in 1..Len(q) : q[n] \in Nat
  <2>1. Len(q) \in Nat /\ \A n \in 1..Len(q) : q[n] \in Sizes
    OBVIOUS
  <2>2. QED
    BY <2>1, ConstantsAssumption
<1>2. q = [n \in 1..Len(q) |-> q[n]]
  OBVIOUS
<1>3. QED
  BY <1>1, <1>2
-----------------------------------------------------------------------------
(* The steps *)

LEMMA Sides2 ==
  \A s \in Sides : Other(s) \in Sides /\ Other(s) # s /\ Other(Other(s)) = s
BY DEF Sides, Other

LEMMA Typed ==
  ASSUME TypeOK, NEW s \in Sides
  PROVE  /\ inq[s] \in Seq(Sizes) /\ outq[s] \in Seq(Sizes)
         /\ sent[s] \in Seq(Sizes) /\ received[s] \in Seq(Sizes)
         /\ buf[s] \in Sizes \cup {0} /\ buf[s] \in Nat /\ tally[s] \in Nat
         /\ Forwarded(s) \in Seq(Sizes)
<1>1. Other(s) \in Sides
  BY Sides2
<1>2. /\ inq[s] \in Seq(Sizes) /\ outq[s] \in Seq(Sizes)
      /\ sent[s] \in Seq(Sizes) /\ received[s] \in Seq(Sizes)
      /\ received[Other(s)] \in Seq(Sizes) /\ outq[Other(s)] \in Seq(Sizes)
  BY <1>1 DEF TypeOK
<1>3. buf[s] \in Sizes \cup {0} /\ tally[s] \in Nat
  BY DEF TypeOK
<1>4. buf[s] \in Nat
  BY <1>3, ConstantsAssumption
<1>5. Forwarded(s) \in Seq(Sizes)
  BY <1>2 DEF Forwarded
<1>6. QED
  BY <1>2, <1>3, <1>4, <1>5

LEMMA InitIInv == Init => IInv
<1> SUFFICES ASSUME Init
             PROVE  IInv
  OBVIOUS
<1>1. <<>> \in Seq(Sizes) /\ Len(<<>>) = 0
  OBVIOUS
<1>2. TypeOK
  BY <1>1, ConstantsAssumption DEF Init, TypeOK, Sides, Closers
<1>3. ASSUME NEW s \in Sides
      PROVE  Holding(s) /\ Lossless(s) /\ Exact(s)
  <2>1. Forwarded(s) = <<>>
    BY Sides2 DEF Init, Forwarded
  <2>2. QED
    BY <2>1, TotalEmpty DEF Init, Holding, Lossless, Exact, Held
<1>4. QED
  BY <1>2, <1>3 DEF IInv

\* Types, and that only packets are held.
LEMMA StepTypeOK ==
  ASSUME TypeOK, \A s \in Sides : Holding(s), [Next]_vars
  PROVE  TypeOK' /\ \A s \in Sides : Holding(s)'
<1> USE DEF TypeOK, Holding, chanVars, pumpVars
<1>1. ASSUME NEW s \in Sides, Read(s)
      PROVE  TypeOK' /\ \A t \in Sides : Holding(t)'
  <2>1. /\ Head(inq[s]) \in Sizes /\ Tail(inq[s]) \in Seq(Sizes)
        /\ Len(Tail(inq[s])) <= QueueMax
    BY <1>1, ConstantsAssumption DEF Read
  <2>2. QED
    BY <1>1, <2>1 DEF Read, Finishing, Goto
<1>2. ASSUME NEW s \in Sides, ReadFails(s) \/ WriteFails(s) \/ Finish(s)
      PROVE  TypeOK' /\ \A t \in Sides : Holding(t)'
  BY <1>2 DEF ReadFails, WriteFails, Finish, Finishing, Goto
<1>3. ASSUME NEW s \in Sides, Write(s)
      PROVE  TypeOK' /\ \A t \in Sides : Holding(t)'
  <2>1. /\ Append(outq[Other(s)], buf[s]) \in Seq(Sizes)
        /\ Len(Append(outq[Other(s)], buf[s])) <= QueueMax
    BY <1>3, Sides2, ConstantsAssumption DEF Write
  <2>2. QED
    BY <1>3, <2>1, Sides2 DEF Write, Goto
<1>4. ASSUME NEW s \in Sides, Tally(s)
      PROVE  TypeOK' /\ \A t \in Sides : Holding(t)'
  <2>1. tally[s] + buf[s] \in Nat
    BY Typed
  <2>2. QED
    BY <1>4, <2>1 DEF Tally, Goto
<1>5. ASSUME NEW s \in Sides, PeerSends(s)
      PROVE  TypeOK' /\ \A t \in Sides : Holding(t)'
  <2>1. PICK p \in Sizes : /\ inq' = [inq EXCEPT ![s] = Append(@, p)]
                           /\ sent' = [sent EXCEPT ![s] = Append(@, p)]
    BY <1>5 DEF PeerSends
  <2>2. /\ Append(inq[s], p) \in Seq(Sizes) /\ Append(sent[s], p) \in Seq(Sizes)
        /\ Len(Append(inq[s], p)) <= QueueMax
    BY <1>5, ConstantsAssumption DEF PeerSends
  <2>3. QED
    BY <1>5, <2>1, <2>2 DEF PeerSends
<1>6. ASSUME NEW s \in Sides, PeerReads(s)
      PROVE  TypeOK' /\ \A t \in Sides : Holding(t)'
  <2>1. /\ Head(outq[s]) \in Sizes /\ Tail(outq[s]) \in Seq(Sizes)
        /\ Append(received[s], Head(outq[s])) \in Seq(Sizes)
        /\ Len(Tail(outq[s])) <= QueueMax
    BY <1>6, ConstantsAssumption DEF PeerReads
  <2>2. QED
    BY <1>6, <2>1 DEF PeerReads
<1>7. ASSUME NEW s \in Sides, PeerCloses(s)
      PROVE  TypeOK' /\ \A t \in Sides : Holding(t)'
  BY <1>7 DEF PeerCloses
<1>8. ASSUME NEW c \in Closers, Begin(c) \/ Close(c)
      PROVE  TypeOK' /\ \A t \in Sides : Holding(t)'
  <2>1. UNCHANGED <<far, inq, outq, sent, received, pump, buf, result, tally, first>>
    BY <1>8 DEF Begin, Close
  <2>2. near' \in [Sides -> {"open", "closed"}]
    BY <1>8 DEF Begin, Close
  <2>3. closer' \in [Closers -> {"wait", "vpn", "tun", "closed"}]
    BY <1>8 DEF Begin, Close
  <2>4. QED
    BY <2>1, <2>2, <2>3
<1>9. CASE UNCHANGED vars
  BY <1>9 DEF vars
<1>10. QED
  BY <1>1, <1>2, <1>3, <1>4, <1>5, <1>6, <1>7, <1>8, <1>9 DEF Next, Pump

\* What has been forwarded grows by what is written, and by nothing else:
\* a packet that the peer takes out of its socket has been received by it.
LEMMA ForwardedSteps ==
  ASSUME TypeOK, \A s \in Sides : Holding(s), NEW t \in Sides
  PROVE  /\ Write(t) => Forwarded(t)' = Append(Forwarded(t), buf[t])
         /\ [Next]_vars /\ ~Write(t) => Forwarded(t)' = Forwarded(t)
<1> USE Sides2
<1>1. ASSUME Write(t)
      PROVE  Forwarded(t)' = Append(Forwarded(t), buf[t])
  <2>1. /\ outq' = [outq EXCEPT ![Other(t)] = Append(@, buf[t])]
        /\ received' = received /\ buf[t] \in Sizes
    BY <1>1 DEF Write, Holding
  <2>2. outq'[Other(t)] = Append(outq[Other(t)], buf[t])
    BY <2>1 DEF TypeOK
  <2>3. outq[Other(t)] \in Seq(Sizes) /\ received[Other(t)] \in Seq(Sizes)
    BY Typed
  <2>4. \A u, v \in Seq(Sizes) : u \o Append(v, buf[t]) = Append(u \o v, buf[t])
    BY <2>1, AppendInside
  <2>5. QED
    BY <2>1, <2>2, <2>3, <2>4 DEF Forwarded
<1>2. ASSUME PeerReads(Other(t))
      PROVE  Forwarded(t)' = Forwarded(t)
  <2>1. /\ outq[Other(t)] \in Seq(Sizes) /\ received[Other(t)] \in Seq(Sizes)
        /\ outq[Other(t)] # <<>>
    BY <1>2, Typed DEF PeerReads
  <2>2. /\ outq'[Other(t)] = Tail(outq[Other(t)])
        /\ received'[Other(t)] = Append(received[Other(t)], Head(outq[Other(t)]))
    BY <1>2 DEF PeerReads, TypeOK
  <2>3. QED
    BY <2>1, <2>2, Shift DEF Forwarded
<1>3. ASSUME UNCHANGED <<outq[Other(t)], received[Other(t)]>>
      PROVE  Forwarded(t)' = Forwarded(t)
  BY <1>3 DEF Forwarded
<1>4. ASSUME NEW s \in Sides, Write(s), s # t
      PROVE  UNCHANGED <<outq[Other(t)], received[Other(t)]>>
  <2>1. Other(s) # Other(t)
    BY <1>4
  <2>2. QED
    BY <1>4, <2>1 DEF Write, TypeOK
<1>5. ASSUME NEW s \in Sides, PeerReads(s), s # Other(t)
      PROVE  UNCHANGED <<outq[Other(t)], received[Other(t)]>>
  BY <1>5 DEF PeerReads, TypeOK
<1>6. ASSUME NEW s \in Sides,
             \/ Read(s) \/ ReadFails(s) \/ WriteFails(s) \/ Tally(s) \/ Finish(s)
             \/ PeerSends(s) \/ PeerCloses(s)
      PROVE  UNCHANGED <<outq[Other(t)], received[Other(t)]>>
  BY <1>6 DEF Read, ReadFails, WriteFails, Tally, Finish, PeerSends, PeerCloses,
              chanVars
<1>7. ASSUME NEW c \in Closers, Begin(c) \/ Close(c)
      PROVE  UNCHANGED <<outq[Other(t)], received[Other(t)]>>
  BY <1>7 DEF Begin, Close, chanVars
<1>8. UNCHANGED vars => UNCHANGED <<outq[Other(t)], received[Other(t)]>>
  BY DEF vars, chanVars
<1>9. QED
  BY <1>1, <1>2, <1>3, <1>4, <1>5, <1>6, <1>7, <1>8 DEF Next, Pump

\* A direction changes in its pump's steps and when its sender sends.
LEMMA DirectionSteps ==
  ASSUME TypeOK, [Next]_vars, NEW t \in Sides, ~Pump(t), ~PeerSends(t)
  PROVE  UNCHANGED <<pump[t], buf[t], tally[t], sent[t], inq[t]>>
<1> USE DEF TypeOK, chanVars, pumpVars
<1>1. ASSUME NEW s \in Sides, s # t, Read(s) \/ ReadFails(s) \/ WriteFails(s)
      PROVE  UNCHANGED <<pump[t], buf[t], tally[t], sent[t], inq[t]>>
  BY <1>1 DEF Read, ReadFails, WriteFails, Finishing, Goto
<1>2. ASSUME NEW s \in Sides, s # t, Write(s) \/ Tally(s) \/ Finish(s)
      PROVE  UNCHANGED <<pump[t], buf[t], tally[t], sent[t], inq[t]>>
  BY <1>2 DEF Write, Tally, Finish, Goto
<1>3. ASSUME NEW s \in Sides, s # t, PeerSends(s)
      PROVE  UNCHANGED <<pump[t], buf[t], tally[t], sent[t], inq[t]>>
  BY <1>3 DEF PeerSends
<1>4. ASSUME NEW s \in Sides, PeerReads(s) \/ PeerCloses(s)
      PROVE  UNCHANGED <<pump[t], buf[t], tally[t], sent[t], inq[t]>>
  BY <1>4 DEF PeerReads, PeerCloses
<1>5. ASSUME NEW c \in Closers, Begin(c) \/ Close(c)
      PROVE  UNCHANGED <<pump[t], buf[t], tally[t], sent[t], inq[t]>>
  BY <1>5 DEF Begin, Close
<1>6. QED
  BY <1>1, <1>2, <1>3, <1>4, <1>5 DEF Next, vars, Pump

LEMMA StepLossless ==
  ASSUME TypeOK, \A s \in Sides : Holding(s), [Next]_vars,
         NEW t \in Sides, Lossless(t)
  PROVE  Lossless(t)'
<1> DEFINE F == Forwarded(t)
<1>1. /\ F \in Seq(Sizes) /\ inq[t] \in Seq(Sizes) /\ sent[t] \in Seq(Sizes)
      /\ F \o <<>> = F
  BY Typed, EmptyAtEnd
<1>2. IsPrefix(F, sent[t])
  <2>1. CASE pump[t] \in {"read", "tally"}
    BY <1>1, <2>1, PrefixOfConcat DEF Lossless, Held
  <2>2. CASE pump[t] = "write"
    <3>1. sent[t] = (F \o <<buf[t]>>) \o inq[t]
      BY <2>2 DEF Lossless, Held
    <3>2. buf[t] \in Sizes
      BY <2>2 DEF Holding
    <3>3. QED
      BY <1>1, <3>1, <3>2, PacketBetween
  <2>3. CASE pump[t] \notin {"read", "write", "tally"}
    BY <2>3 DEF Lossless
  <2>4. QED
    BY <2>1, <2>2, <2>3
<1>3. ~Write(t) => Forwarded(t)' = F
  BY ForwardedSteps
<1>4. CASE Read(t)
  <2>1. /\ inq[t] # <<>> /\ inq'[t] = Tail(inq[t]) /\ buf'[t] = Head(inq[t])
        /\ pump[t] = "read" /\ pump'[t] \in {"finish", "write"} /\ sent' = sent
    BY <1>4 DEF Read, Finishing, Goto, TypeOK
  <2>2. Forwarded(t)' = F
    BY <1>4, <1>3 DEF Read, Write
  <2>3. CASE pump'[t] = "finish"
    BY <1>2, <2>1, <2>2, <2>3 DEF Lossless
  <2>4. CASE pump'[t] = "write"
    <3>1. sent[t] = F \o inq[t]
      BY <1>1, <2>1 DEF Lossless, Held
    <3>2. (F \o <<Head(inq[t])>>) \o Tail(inq[t]) = F \o inq[t]
      BY <1>1, <2>1, Shift
    <3>3. QED
      BY <2>1, <2>2, <2>4, <3>1, <3>2 DEF Lossless, Held
  <2>5. QED
    BY <2>1, <2>3, <2>4
<1>5. CASE ReadFails(t) \/ WriteFails(t) \/ Finish(t)
  <2>1. pump'[t] \in {"finish", "ended"} /\ sent' = sent
    BY <1>5 DEF ReadFails, WriteFails, Finish, Finishing, Goto, TypeOK, chanVars
  <2>2. Forwarded(t)' = F
    BY <1>5 DEF ReadFails, WriteFails, Finish, chanVars, Forwarded
  <2>3. QED
    BY <1>2, <2>1, <2>2 DEF Lossless
<1>6. CASE Write(t)
  <2>1. /\ pump[t] = "write" /\ pump'[t] = "tally" /\ sent' = sent /\ inq' = inq
    BY <1>6 DEF Write, Goto, TypeOK
  <2>2. Forwarded(t)' = Append(F, buf[t])
    BY <1>6, ForwardedSteps
  <2>3. buf[t] \in Sizes
    BY <2>1 DEF Holding
  <2>4. /\ F \o <<buf[t]>> = Append(F, buf[t])
        /\ Append(F, buf[t]) \o <<>> = Append(F, buf[t])
    <3>1. F \o <<buf[t]>> \in Seq(Sizes) /\ F \o <<buf[t]>> = Append(F, buf[t])
      BY <1>1, <2>3, PacketBetween
    <3>2. QED
      BY <3>1, EmptyAtEnd
  <2>5. QED
    BY <2>1, <2>2, <2>4 DEF Lossless, Held
<1>7. CASE Tally(t)
  <2>1. /\ pump[t] = "tally" /\ pump'[t] = "read" /\ sent' = sent /\ inq' = inq
    BY <1>7 DEF Tally, Goto, TypeOK, chanVars
  <2>2. Forwarded(t)' = F
    BY <1>7 DEF Tally, chanVars, Forwarded
  <2>3. QED
    BY <2>1, <2>2 DEF Lossless, Held
<1>8. CASE PeerSends(t)
  <2>1. PICK p \in Sizes : /\ inq' = [inq EXCEPT ![t] = Append(@, p)]
                           /\ sent' = [sent EXCEPT ![t] = Append(@, p)]
    BY <1>8 DEF PeerSends
  <2>2. /\ inq'[t] = Append(inq[t], p) /\ sent'[t] = Append(sent[t], p)
        /\ UNCHANGED <<pump, buf>>
    BY <1>8, <2>1 DEF PeerSends, TypeOK, pumpVars
  <2>3. Forwarded(t)' = F
    BY <1>8 DEF PeerSends, Forwarded
  <2>4. CASE pump[t] \in {"read", "write", "tally"}
    <3>1. F \o Held(t) \in Seq(Sizes)
      BY <1>1, PacketBetween DEF Held, Holding
    <3>2. Append(sent[t], p) = (F \o Held(t)) \o Append(inq[t], p)
      <4>1. sent[t] = (F \o Held(t)) \o inq[t]
        BY <2>4 DEF Lossless
      <4>2. \A u \in Seq(Sizes) : u \o Append(inq[t], p) = Append(u \o inq[t], p)
        BY <1>1, AppendInside
      <4>3. QED
        BY <3>1, <4>1, <4>2
    <3>3. QED
      BY <2>2, <2>3, <2>4, <3>2 DEF Lossless, Held
  <2>5. CASE pump[t] \notin {"read", "write", "tally"}
    <3>1. IsPrefix(F, Append(sent[t], p))
      BY <1>1, <1>2, PrefixGrows
    <3>2. QED
      BY <2>2, <2>3, <2>5, <3>1 DEF Lossless
  <2>6. QED
    BY <2>4, <2>5
<1>9. CASE ~Pump(t) /\ ~PeerSends(t)
  <2>1. UNCHANGED <<pump[t], buf[t], sent[t], inq[t]>>
    BY <1>9, DirectionSteps
  <2>2. Forwarded(t)' = F
    BY <1>3, <1>9 DEF Pump
  <2>3. QED
    BY <2>1, <2>2 DEF Lossless, Held
<1>10. QED
  BY <1>4, <1>5, <1>6, <1>7, <1>8, <1>9 DEF Pump

LEMMA StepExact ==
  ASSUME TypeOK, \A s \in Sides : Holding(s), [Next]_vars,
         NEW t \in Sides, Exact(t)
  PROVE  Exact(t)'
<1> DEFINE F == Forwarded(t)
<1>1. F \in Seq(Nat) /\ buf[t] \in Nat /\ tally[t] \in Nat
  BY Typed, SeqOfNat
<1>2. CASE Write(t)
  <2>1. pump[t] = "write" /\ pump'[t] = "tally" /\ UNCHANGED <<buf, tally>>
    BY <1>2 DEF Write, Goto, TypeOK
  <2>2. Forwarded(t)' = Append(F, buf[t])
    BY <1>2, ForwardedSteps
  <2>3. Total(Append(F, buf[t])) = Total(F) + buf[t]
    BY <1>1, TotalAppend
  <2>4. tally[t] = Total(F)
    BY <1>1, <2>1 DEF Exact
  <2>5. QED
    BY <2>1, <2>2, <2>3, <2>4 DEF Exact
<1>3. CASE ~Write(t)
  <2>1. Forwarded(t)' = F
    BY <1>3, ForwardedSteps
  <2>2. CASE Tally(t)
    <3>1. /\ pump[t] = "tally" /\ pump'[t] = "read"
          /\ tally'[t] = tally[t] + buf[t]
      BY <2>2 DEF Tally, Goto, TypeOK
    <3>2. QED
      BY <1>1, <2>1, <3>1 DEF Exact
  <2>3. CASE Read(t) \/ ReadFails(t) \/ WriteFails(t) \/ Finish(t)
    <3>1. pump[t] # "tally" /\ pump'[t] # "tally" /\ tally' = tally
      BY <2>3 DEF Read, ReadFails, WriteFails, Finish, Finishing, Goto, TypeOK
    <3>2. QED
      BY <2>1, <3>1 DEF Exact
  <2>4. CASE PeerSends(t)
    <3>1. UNCHANGED <<pump, buf, tally>>
      BY <2>4 DEF PeerSends, pumpVars
    <3>2. QED
      BY <2>1, <3>1 DEF Exact
  <2>5. CASE ~Pump(t) /\ ~PeerSends(t)
    <3>1. UNCHANGED <<pump[t], buf[t], tally[t]>>
      BY <2>5, DirectionSteps
    <3>2. QED
      BY <2>1, <3>1 DEF Exact
  <2>6. QED
    BY <1>3, <2>2, <2>3, <2>4, <2>5 DEF Pump
<1>4. QED
  BY <1>2, <1>3

LEMMA StepIInv == IInv /\ [Next]_vars => IInv'
BY StepTypeOK, StepLossless, StepExact DEF IInv

LEMMA RelayInv == Spec => []IInv
BY InitIInv, StepIInv, PTL DEF Spec
-----------------------------------------------------------------------------
(* The results *)

\* The types of the variables, and no socket holds more than it can.
THEOREM RelayTypes == Spec => []TypeOK
<1>1. IInv => TypeOK
  BY DEF IInv
<1>2. QED
  BY <1>1, RelayInv, PTL

\* Whatever the sizes of the packets, the capacity of the sockets and the
\* traffic, and whoever ends first: one datagram in, one datagram out, in order
\* (relay.go:43-50, 66-96).
THEOREM RelayKeepsPackets == Spec => []NothingIsLost
<1>1. IInv => NothingIsLost
  BY DEF IInv, Lossless, NothingIsLost
<1>2. QED
  BY <1>1, RelayInv, PTL

\* The counters are what was forwarded, but for the packet being counted
\* (relay.go:12-16, 89).
THEOREM RelayCountsExactly == Spec => []CountersAreExact
<1>1. IInv => CountersAreExact
  BY DEF IInv, Exact, CountersAreExact
<1>2. QED
  BY <1>1, RelayInv, PTL

\* The end of the second pump does not change what Relay returns
\* (relay.go:56-61).
THEOREM RelayKeepsItsResult == Spec => FirstResultIsKept
<1>1. [Next]_vars => [first # "none" => first' = first]_vars
  <2> SUFFICES ASSUME Next, first # "none"
               PROVE  first' = first
    BY DEF vars
  <2> USE DEF pumpVars
  <2>1. ASSUME NEW s \in Sides, Pump(s)
        PROVE  first' = first
    BY <2>1 DEF Pump, Read, ReadFails, Write, WriteFails, Tally, Finish
  <2>2. ASSUME NEW s \in Sides, PeerSends(s) \/ PeerReads(s) \/ PeerCloses(s)
        PROVE  first' = first
    BY <2>2 DEF PeerSends, PeerReads, PeerCloses
  <2>3. ASSUME NEW c \in Closers, Begin(c) \/ Close(c)
        PROVE  first' = first
    BY <2>3 DEF Begin, Close
  <2>4. QED
    BY <2>1, <2>2, <2>3 DEF Next
<1>2. QED
  BY <1>1, PTL DEF Spec, FirstResultIsKept
-----------------------------------------------------------------------------
(* Why both pumps end: the part of PumpsEnd that is not fairness *)

\* A closing goroutine has closed the ends that it has passed.
Passed ==
    \A c \in Closers :
        /\ closer[c] \in {"tun", "closed"} => near["vpn"] = "closed"
        /\ closer[c] = "closed" => near["tun"] = "closed"

\* How many steps a pump has left when both near ends are closed.
Left(s) ==
    IF pump[s] = "ended" THEN 0
    ELSE IF pump[s] = "finish" THEN 1
    ELSE IF pump[s] \in {"read", "write"} THEN 2 ELSE 3

\* Once Relay has returned nothing that a pump may wait for can hold it up: what
\* it reads from and what it writes to are closed (relay.go:97-100).
NeverHeldUp ==
    Returned => \A s \in Sides : near[s] = "closed" /\ near[Other(s)] = "closed"

\* From then on every step of a pump brings it nearer to its end, and nobody
\* else's step takes it back.
WindsDown ==
    [][Returned => /\ Returned'
                   /\ \A s \in Sides : /\ Pump(s) => Left(s)' < Left(s)
                                       /\ ~Pump(s) => Left(s)' = Left(s)]_vars

LEMMA StepPassed ==
  ASSUME TypeOK, Passed, [Next]_vars
  PROVE  Passed' /\ (Returned => Returned')
<1> USE DEF Passed, Returned, TypeOK, chanVars, pumpVars
<1>1. ASSUME NEW s \in Sides, Pump(s)
      PROVE  UNCHANGED <<near, closer>>
  BY <1>1 DEF Pump, Read, ReadFails, Write, WriteFails, Tally, Finish
<1>2. ASSUME NEW s \in Sides, PeerSends(s) \/ PeerReads(s) \/ PeerCloses(s)
      PROVE  UNCHANGED <<near, closer>>
  BY <1>2 DEF PeerSends, PeerReads, PeerCloses
<1>3. ASSUME NEW c \in Closers, Begin(c)
      PROVE  Passed' /\ (Returned => Returned')
  BY <1>3 DEF Begin, Closers
<1>4. ASSUME NEW c \in Closers, Close(c)
      PROVE  Passed' /\ (Returned => Returned')
  <2>1. near' = [near EXCEPT ![closer[c]] = "closed"]
        /\ closer[c] \in {"vpn", "tun"}
        /\ closer' = [closer EXCEPT ![c] = IF @ = "vpn" THEN "tun" ELSE "closed"]
    BY <1>4 DEF Close, Sides
  <2>2. ASSUME NEW d \in Sides, near[d] = "closed"
        PROVE  near'[d] = "closed"
    BY <2>1, <2>2
  <2>3. ASSUME NEW e \in Closers
        PROVE  /\ closer'[e] \in {"tun", "closed"} => near'["vpn"] = "closed"
               /\ closer'[e] = "closed" => near'["tun"] = "closed"
    <3>1. CASE e = c
      BY <2>1, <2>2, <3>1 DEF Sides
    <3>2. CASE e # c
      BY <2>1, <2>2, <3>2 DEF Sides
    <3>3. QED
      BY <3>1, <3>2
  <2>4. Returned => Returned'
    BY <2>1 DEF Closers
  <2>5. QED
    BY <2>3, <2>4
<1>5. QED
  BY <1>1, <1>2, <1>3, <1>4 DEF Next, vars

LEMMA ReturnedClosed ==
  ASSUME Passed, Returned, NEW s \in Sides
  PROVE  near[s] = "closed"
BY DEF Passed, Returned, Closers, Sides

\* A pump's own step: no Read and no Write, only the steps towards the end.
LEMMA PumpWindsDown ==
  ASSUME TypeOK, Passed, Returned, NEW s \in Sides, Pump(s)
  PROVE  Left(s)' < Left(s)
<1>1. near[s] = "closed" /\ near[Other(s)] = "closed"
  BY ReturnedClosed, Sides2
<1>2. pump \in [Sides -> {"read", "write", "tally", "finish", "ended"}]
  BY DEF TypeOK
<1>3. ~Read(s) /\ ~Write(s)
  BY <1>1 DEF Read, Write
<1>4. CASE ReadFails(s)
  BY <1>2, <1>4 DEF ReadFails, Finishing, Goto, Left
<1>5. CASE WriteFails(s)
  BY <1>2, <1>5 DEF WriteFails, Finishing, Goto, Left
<1>6. CASE Tally(s)
  BY <1>2, <1>6 DEF Tally, Goto, Left
<1>7. CASE Finish(s)
  BY <1>2, <1>7 DEF Finish, Goto, Left
<1>8. QED
  BY <1>3, <1>4, <1>5, <1>6, <1>7 DEF Pump

\* The step of anyone else, the other pump included.
LEMMA OthersLeavePump ==
  ASSUME TypeOK, [Next]_vars, NEW s \in Sides, ~Pump(s)
  PROVE  Left(s)' = Left(s)
<1>1. pump \in [Sides -> {"read", "write", "tally", "finish", "ended"}]
  BY DEF TypeOK
<1>2. pump'[s] = pump[s]
  <2>1. ASSUME NEW t \in Sides, Pump(t)
        PROVE  pump'[s] = pump[s]
    <3>1. t # s
      BY <2>1
    <3>2. QED
      BY <1>1, <2>1, <3>1
      DEF Pump, Read, ReadFails, Write, WriteFails, Tally, Finish, Finishing, Goto
  <2>2. ASSUME NEW t \in Sides, PeerSends(t) \/ PeerReads(t) \/ PeerCloses(t)
        PROVE  pump'[s] = pump[s]
    BY <2>2 DEF PeerSends, PeerReads, PeerCloses, pumpVars
  <2>3. ASSUME NEW c \in Closers, Begin(c) \/ Close(c)
        PROVE  pump'[s] = pump[s]
    BY <2>3 DEF Begin, Close, pumpVars
  <2>4. QED
    BY <2>1, <2>2, <2>3 DEF Next, vars, pumpVars
<1>3. QED
  BY <1>2 DEF Left

\* When Relay has returned, neither pump can be held up by a read or by a write
\* to a full socket, and each is at most three steps of its own from its end.
\* With the scheduler's fairness this is PumpsEnd (relay.go:97-100).
THEOREM RelayWindsDown == Spec => []NeverHeldUp /\ WindsDown
<1>1. Init => Passed
  BY DEF Init, Passed, Closers
<1>2. Passed => NeverHeldUp
  BY ReturnedClosed, Sides2 DEF NeverHeldUp
<1>3. TypeOK /\ Passed /\ [Next]_vars => Passed'
  BY StepPassed
<1>4. TypeOK /\ Passed /\ [Next]_vars
      => [Returned => /\ Returned'
                      /\ \A s \in Sides : /\ Pump(s) => Left(s)' < Left(s)
                                          /\ ~Pump(s) => Left(s)' = Left(s)]_vars
  BY StepPassed, PumpWindsDown, OthersLeavePump
<1>5. QED
  BY <1>1, <1>2, <1>3, <1>4, RelayTypes, PTL DEF Spec, WindsDown
=============================================================================
