------------------------ MODULE LocalIdentityProofs ------------------------
(***************************************************************************)
(* For any number of processes that do not overlap, each stopped anywhere: *)
(* the identity is consistent and never replaced once it has been used.    *)
(* The argument is that server.key is written last: while it is missing    *)
(* nobody has used any of the files, and once it is there nobody writes.   *)
(***************************************************************************)
EXTENDS LocalIdentity, FiniteSetTheorems, TLAPS

\* The schedule without an overlap.
Serial == MaxAtOnce = 1

Complete == file["server.key"] # 0

Alone == \A p, q \in Procs : Runs(p) /\ Runs(q) => p = q

KeyIsLast == Complete => \A f \in PKI : file[f] = file["server.key"]

StatInv(p) ==
    pc[p] = "stat" => \A i \in 1..4 : i < next[p] => file[Checked[i]] # 0
WriteInv(p) ==
    pc[p] = "write" => /\ mine[p] # 0
                       /\ \A i \in 1..4 : i < next[p] => file[Written[i]] = mine[p]
StageInv(p) ==
    /\ pc[p] \in {"unborn", "generate"} => next[p] = 1
    /\ pc[p] \in {"generate", "write"} => ~Complete
    /\ pc[p] \in {"readCreds", "writeCreds", "use"} => Complete
    /\ pc[p] = "writeCreds" => file["vpn-creds"] = 0
    /\ pc[p] = "use" => mine[p] # 0 /\ mine[p] = file["vpn-creds"]

ShownInv ==
    shown.ca # 0 => /\ Complete
                    /\ shown.ca = file["ca.crt"]
                    /\ shown.creds # 0 /\ shown.creds = file["vpn-creds"]
ServedInv ==
    \A p \in Procs :
        served[p].crt # 0 => /\ Complete
                             /\ served[p].crt = served[p].key
                             /\ served[p].crt = file["ca.crt"]

IInv ==
    /\ TypeOK /\ Alone /\ KeyIsLast
    /\ \A p \in Procs : StatInv(p) /\ WriteInv(p) /\ StageInv(p)
    /\ ShownInv /\ ServedInv /\ SettingsAreAccepted

USE ConstantsAssumption

\* The two lists, position by position.
LEMMA Lists ==
  /\ Checked \in [1..4 -> PKI] /\ Written \in [1..4 -> PKI]
  /\ Written[4] = "server.key"
  /\ \A i \in 1..4 : Written[i] = "server.key" => i = 4
  /\ \A f \in PKI : \E i \in 1..4 : Written[i] = f
  /\ \A f \in PKI : \E i \in 1..4 : Checked[i] = f
  /\ \A i, j \in 1..4 : Written[i] = Written[j] => i = j
  /\ "vpn-creds" \notin PKI /\ "server.key" \in PKI /\ "ca.crt" \in PKI
  /\ "server.crt" \in PKI
  BY DEF Checked, Written, PKI

LEMMA InitIInv == Init => IInv
  BY DEF Init, IInv, TypeOK, Generations, Alone, Runs, KeyIsLast, Complete,
         StatInv, WriteInv, StageInv, ShownInv, ServedInv, PKI,
         SettingsAreAccepted

LEMMA TypeStep == TypeOK /\ [Next]_vars => TypeOK'
<1> SUFFICES ASSUME TypeOK, [Next]_vars PROVE TypeOK'
  OBVIOUS
<1>1. CASE UNCHANGED vars
  BY <1>1 DEF TypeOK, vars
<1>2. ASSUME NEW p \in Procs,
             Start(p) \/ Stat(p) \/ Generate(p) \/ Write(p) \/ ReadCreds(p)
             \/ WriteCreds(p) \/ Show(p) \/ Serve(p) \/ Stops(p)
             \/ Login(p)
      PROVE  TypeOK'
  <2>1. CASE Start(p) \/ Stops(p)
    BY <2>1 DEF TypeOK, Start, Stops, Goto
  <2>2. CASE Stat(p)
    <3>1. next[p] < 4 => next[p] + 1 \in 1..4
      BY DEF TypeOK
    <3>2. /\ next' \in [Procs -> 1..4]
          /\ \/ UNCHANGED pc
             \/ \E l \in {"generate", "readCreds"} : Goto(p, l)
      BY <2>2, <3>1 DEF TypeOK, Stat, Advance, Rewind
    <3>3. QED
      BY <2>2, <3>2 DEF TypeOK, Stat, Goto
  <2>3. CASE Generate(p)
    <3>1. newest + 1 \in Generations
      BY <2>3 DEF Generate, TypeOK, Generations
    <3>2. QED
      BY <2>3, <3>1 DEF TypeOK, Generate, Goto
  <2>4. CASE Write(p)
    <3>1. mine[p] \in Generations /\ (next[p] < 4 => next[p] + 1 \in 1..4)
      BY DEF TypeOK
    <3>2. /\ next' \in [Procs -> 1..4]
          /\ UNCHANGED pc \/ Goto(p, "readCreds")
      BY <2>4, <3>1 DEF TypeOK, Write, Advance, Rewind
    <3>3. file' \in [PKI \cup {"vpn-creds"} -> Generations]
      BY <2>4, <3>1 DEF TypeOK, Write
    <3>4. QED
      BY <2>4, <3>2, <3>3 DEF TypeOK, Write, Goto
  <2>5. CASE ReadCreds(p)
    <3>1. file["vpn-creds"] \in Generations
      BY DEF TypeOK
    <3>2. QED
      BY <2>5, <3>1 DEF TypeOK, ReadCreds, Goto
  <2>6. CASE WriteCreds(p)
    <3>1. newest + 1 \in Generations
      BY <2>6 DEF WriteCreds, TypeOK, Generations
    <3>2. QED
      BY <2>6, <3>1 DEF TypeOK, WriteCreds, Goto
  <2>7. CASE Show(p)
    <3>1. file["ca.crt"] \in Generations /\ mine[p] \in Generations
      BY Lists DEF TypeOK
    <3>2. QED
      BY <2>7, <3>1 DEF TypeOK, Show, Goto
  <2>8. CASE Serve(p)
    <3>1. /\ file["server.crt"] \in Generations
          /\ file["server.key"] \in Generations
      BY Lists DEF TypeOK
    <3>2. QED
      BY <2>8, <3>1 DEF TypeOK, Serve, Goto
  <2>9. CASE Login(p)
    BY <2>9 DEF TypeOK, Login
  <2>10. QED
    BY <1>2, <2>1, <2>2, <2>3, <2>4, <2>5, <2>6, <2>7, <2>8, <2>9
<1>3. QED
  BY <1>1, <1>2 DEF Next

\* Only Start adds a running process, and it waits until there is none.
LEMMA AloneStep ==
  ASSUME Serial, TypeOK, Alone, [Next]_vars
  PROVE  Alone'
<1>1. CASE UNCHANGED vars
  BY <1>1 DEF Alone, Runs, vars
<1>2. ASSUME NEW p \in Procs, Start(p) PROVE Alone'
  <2> DEFINE S == {q \in Procs : Runs(q)}
  <2>1. IsFiniteSet(S) /\ Cardinality(S) < 1
    BY <1>2, FS_Subset DEF Start, Serial
  <2>2. Cardinality(S) = 0
    <3> HIDE DEF S
    <3>1. Cardinality(S) \in Nat
      BY <2>1, FS_CardinalityType
    <3>2. QED
      BY <2>1, <3>1
  <2>3. S = {}
    <3> HIDE DEF S
    <3>1. QED
      BY <2>1, <2>2, FS_EmptySet
  <2>4. QED
    BY <1>2, <2>3 DEF Alone, Runs, Start, Goto, TypeOK
<1>3. ASSUME NEW p \in Procs, Next, Runs(p)' PROVE Runs(p) \/ Start(p)
  BY <1>3 DEF Next, Runs, Start, Stat, Generate, Write, ReadCreds, WriteCreds,
     Show, Serve, Stops, Login, Goto, TypeOK
<1>4. QED
  BY <1>1, <1>2, <1>3 DEF Alone, Next

StepInv ==
    /\ KeyIsLast
    /\ \A q \in Procs : StatInv(q) /\ WriteInv(q) /\ StageInv(q)
    /\ ShownInv /\ ServedInv

\* While p takes a step no other process runs, and one that does not run has
\* nothing to keep.
LEMMA OthersInv ==
  ASSUME IInv, NEW p \in Procs, Runs(p), NEW l, Goto(p, l) \/ UNCHANGED pc,
         Advance(p) \/ Rewind(p) \/ UNCHANGED next
  PROVE  \A q \in Procs : q # p => (StatInv(q) /\ WriteInv(q) /\ StageInv(q))'
<1> SUFFICES ASSUME NEW q \in Procs, q # p
             PROVE  (StatInv(q) /\ WriteInv(q) /\ StageInv(q))'
  OBVIOUS
<1>1. pc'[q] = pc[q] /\ next'[q] = next[q]
  BY DEF IInv, TypeOK, Goto, Advance, Rewind
<1>2. pc[q] \in {"unborn", "ended"}
  BY DEF IInv, Alone, Runs
<1>3. StageInv(q)
  BY DEF IInv
<1>4. QED
  BY <1>1, <1>2, <1>3 DEF StatInv, WriteInv, StageInv

\* A step that leaves the files, and what was shown and served, alone keeps
\* what the invariant says of these.
LEMMA SameFiles ==
  ASSUME IInv, UNCHANGED <<file, shown, served>>
  PROVE  KeyIsLast' /\ ShownInv' /\ ServedInv' /\ Complete' = Complete
  BY DEF IInv, KeyIsLast, ShownInv, ServedInv, Complete

LEMMA StartStep ==
  ASSUME IInv, NEW p \in Procs, Start(p)
  PROVE  StepInv'
<1>1. KeyIsLast' /\ ShownInv' /\ ServedInv'
  BY SameFiles DEF Start
<1>2. ASSUME NEW q \in Procs PROVE (StatInv(q) /\ WriteInv(q) /\ StageInv(q))'
  <2>1. CASE q = p
    <3>1. pc'[p] = "stat" /\ next'[p] = 1
      BY DEF IInv, TypeOK, StageInv, Start, Goto
    <3>2. QED
      BY <2>1, <3>1 DEF StatInv, WriteInv, StageInv
  <2>2. CASE q # p
    <3>1. pc'[q] = pc[q] /\ UNCHANGED <<next, mine, file>>
      BY <2>2 DEF IInv, TypeOK, Start, Goto
    <3>2. StatInv(q) /\ WriteInv(q) /\ StageInv(q)
      BY DEF IInv
    <3>3. QED
      BY <3>1, <3>2 DEF StatInv, WriteInv, StageInv, Complete
  <2>3. QED
    BY <2>1, <2>2
<1>3. QED
  BY <1>1, <1>2 DEF StepInv

\* A missing file means that server.key is missing, since it is the last.
LEMMA StatStep ==
  ASSUME IInv, NEW p \in Procs, Stat(p)
  PROVE  StepInv'
<1>1. KeyIsLast' /\ ShownInv' /\ ServedInv' /\ Complete' = Complete
  BY SameFiles DEF Stat
<1>2. \A q \in Procs : q # p => (StatInv(q) /\ WriteInv(q) /\ StageInv(q))'
  BY OthersInv DEF Stat, Runs
<1>3. /\ StatInv(p) /\ pc[p] = "stat" /\ UNCHANGED file
      /\ next[p] \in 1..4 /\ TypeOK
  BY DEF IInv, TypeOK, Stat
<1>4. CASE file[Checked[next[p]]] = 0
  <2>1. pc'[p] = "generate" /\ next'[p] = 1
    BY <1>3, <1>4 DEF TypeOK, Stat, Goto, Rewind
  <2>2. ~Complete
    BY <1>3, <1>4, Lists DEF IInv, KeyIsLast, Complete
  <2>3. (StatInv(p) /\ WriteInv(p) /\ StageInv(p))'
    BY <1>1, <2>1, <2>2 DEF StatInv, WriteInv, StageInv
  <2>4. QED
    BY <1>1, <1>2, <2>3 DEF StepInv
<1>5. CASE file[Checked[next[p]]] # 0 /\ next[p] < 4
  <2>1. pc'[p] = "stat" /\ next'[p] = next[p] + 1
    BY <1>3, <1>5 DEF TypeOK, Stat, Advance
  <2>2. \A i \in 1..4 : i < next[p] + 1 => i < next[p] \/ i = next[p]
    BY <1>3
  <2>3. (StatInv(p) /\ WriteInv(p) /\ StageInv(p))'
    BY <1>3, <1>5, <2>1, <2>2 DEF StatInv, WriteInv, StageInv
  <2>4. QED
    BY <1>1, <1>2, <2>3 DEF StepInv
<1>6. CASE file[Checked[next[p]]] # 0 /\ ~(next[p] < 4)
  <2>1. pc'[p] = "readCreds"
    BY <1>3, <1>6 DEF TypeOK, Stat, Goto
  <2>2. next[p] = 4 /\ \A i \in 1..4 : i < 4 \/ i = 4
    BY <1>3, <1>6
  <2>3. \A i \in 1..4 : file[Checked[i]] # 0
    BY <1>3, <1>6, <2>2 DEF StatInv
  <2>4. Complete
    BY <2>3, Lists DEF Complete
  <2>5. (StatInv(p) /\ WriteInv(p) /\ StageInv(p))'
    BY <1>1, <2>1, <2>4 DEF StatInv, WriteInv, StageInv
  <2>6. QED
    BY <1>1, <1>2, <2>5 DEF StepInv
<1>7. QED
  BY <1>4, <1>5, <1>6

LEMMA GenerateStep ==
  ASSUME IInv, NEW p \in Procs, Generate(p)
  PROVE  StepInv'
<1>1. KeyIsLast' /\ ShownInv' /\ ServedInv' /\ Complete' = Complete
  BY SameFiles DEF Generate
<1>2. \A q \in Procs : q # p => (StatInv(q) /\ WriteInv(q) /\ StageInv(q))'
  BY OthersInv DEF Generate, Runs
<1>3. newest + 1 # 0
  BY DEF IInv, TypeOK, Generations
<1>4. /\ pc'[p] = "write" /\ mine'[p] # 0
      /\ next'[p] = 1 /\ ~Complete
  BY <1>3 DEF IInv, TypeOK, StageInv, Generate, Goto
<1>5. (StatInv(p) /\ WriteInv(p) /\ StageInv(p))'
  BY <1>1, <1>4 DEF StatInv, WriteInv, StageInv
<1>6. QED
  BY <1>1, <1>2, <1>5 DEF StepInv

\* Before the last file is written nobody has used any; after it the four are
\* of the generation that p has made.
LEMMA WriteStep ==
  ASSUME IInv, NEW p \in Procs, Write(p)
  PROVE  StepInv'
<1>1. \A q \in Procs : q # p => (StatInv(q) /\ WriteInv(q) /\ StageInv(q))'
  BY OthersInv DEF Write, Runs
<1>2. /\ TypeOK /\ pc[p] = "write" /\ ~Complete
      /\ mine[p] # 0 /\ next[p] \in 1..4
      /\ \A i \in 1..4 : i < next[p] => file[Written[i]] = mine[p]
      /\ UNCHANGED <<mine, shown, served>>
  BY DEF IInv, TypeOK, StageInv, WriteInv, Write
<1>3. /\ file'[Written[next[p]]] = mine[p]
      /\ \A f \in PKI : f # Written[next[p]] => file'[f] = file[f]
  BY <1>2, Lists DEF TypeOK, Write
<1>4. shown.ca = 0 /\ \A q \in Procs : served[q].crt = 0
  BY <1>2 DEF IInv, ShownInv, ServedInv
<1>5. ShownInv' /\ ServedInv'
  BY <1>2, <1>4 DEF ShownInv, ServedInv
<1>6. CASE next[p] < 4
  <2>1. pc'[p] = "write" /\ next'[p] = next[p] + 1
    BY <1>2, <1>6 DEF TypeOK, Write, Advance
  <2>2. next[p] # 4
    BY <1>6, <1>2
  <2>3. ~Complete'
    BY <1>2, <1>3, <2>2, Lists DEF Complete
  <2>4. \A i \in 1..4 : i < next[p] + 1 /\ i # next[p] => i < next[p]
    BY <1>2
  <2>5. \A i \in 1..4 : i < next[p] + 1 => file'[Written[i]] = mine[p]
    BY <1>2, <1>3, <2>4, Lists
  <2>6. (StatInv(p) /\ WriteInv(p) /\ StageInv(p))'
    BY <1>2, <2>1, <2>3, <2>5 DEF StatInv, WriteInv, StageInv
  <2>7. QED
    BY <1>1, <1>5, <2>3, <2>6 DEF StepInv, KeyIsLast
<1>7. CASE ~(next[p] < 4)
  <2>1. pc'[p] = "readCreds"
    BY <1>2, <1>7 DEF TypeOK, Write, Goto
  <2>2. next[p] = 4 /\ \A i \in 1..4 : i < 4 \/ i = 4
    BY <1>2, <1>7
  <2>3. \A i \in 1..4 : file'[Written[i]] = mine[p]
    BY <1>2, <1>3, <2>2, Lists
  <2>4. \A f \in PKI : file'[f] = mine[p]
    BY <2>3, Lists
  <2>5. Complete' /\ KeyIsLast'
    BY <1>2, <2>4, Lists DEF Complete, KeyIsLast
  <2>6. (StatInv(p) /\ WriteInv(p) /\ StageInv(p))'
    BY <2>1, <2>5 DEF StatInv, WriteInv, StageInv
  <2>7. QED
    BY <1>1, <1>5, <2>5, <2>6 DEF StepInv
<1>8. QED
  BY <1>6, <1>7

LEMMA ReadCredsStep ==
  ASSUME IInv, NEW p \in Procs, ReadCreds(p)
  PROVE  StepInv'
<1>1. KeyIsLast' /\ ShownInv' /\ ServedInv' /\ Complete' = Complete
  BY SameFiles DEF ReadCreds
<1>2. \A q \in Procs : q # p => (StatInv(q) /\ WriteInv(q) /\ StageInv(q))'
  BY OthersInv DEF ReadCreds, Runs
<1>3. Complete /\ UNCHANGED file /\ mine'[p] = file["vpn-creds"]
  BY DEF IInv, TypeOK, StageInv, ReadCreds
<1>4. \/ pc'[p] = "use" /\ file["vpn-creds"] # 0
      \/ pc'[p] = "writeCreds" /\ file["vpn-creds"] = 0
  BY DEF IInv, TypeOK, ReadCreds, Goto
<1>5. (StatInv(p) /\ WriteInv(p) /\ StageInv(p))'
  BY <1>1, <1>3, <1>4 DEF StatInv, WriteInv, StageInv
<1>6. QED
  BY <1>1, <1>2, <1>5 DEF StepInv

\* Credentials are written while there are none, so none have been shown.
LEMMA WriteCredsStep ==
  ASSUME IInv, NEW p \in Procs, WriteCreds(p)
  PROVE  StepInv'
<1>1. \A q \in Procs : q # p => (StatInv(q) /\ WriteInv(q) /\ StageInv(q))'
  BY OthersInv DEF WriteCreds, Runs
<1>2. Complete /\ file["vpn-creds"] = 0 /\ UNCHANGED <<shown, served>>
  BY DEF IInv, StageInv, WriteCreds
<1>3. newest + 1 # 0
  BY DEF IInv, TypeOK, Generations
<1>4. /\ pc'[p] = "use" /\ mine'[p] = newest + 1
      /\ file'["vpn-creds"] = newest + 1
      /\ \A f \in PKI : file'[f] = file[f]
  BY Lists DEF IInv, TypeOK, WriteCreds, Goto
<1>5. Complete' /\ KeyIsLast' /\ ServedInv'
  BY <1>2, <1>4, Lists DEF IInv, KeyIsLast, ServedInv, Complete
<1>6. shown.ca = 0
  BY <1>2 DEF IInv, ShownInv
<1>7. ShownInv'
  BY <1>2, <1>6 DEF ShownInv
<1>8. (StatInv(p) /\ WriteInv(p) /\ StageInv(p))'
  BY <1>3, <1>4, <1>5 DEF StatInv, WriteInv, StageInv
<1>9. QED
  BY <1>1, <1>5, <1>7, <1>8 DEF StepInv

\* Show, Serve and Stops: the process ends, and what it has used is there.
LEMMA LastStep ==
  ASSUME IInv, NEW p \in Procs, Show(p) \/ Serve(p) \/ Stops(p)
  PROVE  StepInv'
<1>1. \A q \in Procs : q # p => (StatInv(q) /\ WriteInv(q) /\ StageInv(q))'
  BY OthersInv DEF Show, Serve, Stops, Runs
<1>2. pc'[p] = "ended" /\ UNCHANGED file
  BY DEF IInv, TypeOK, Show, Serve, Stops, Goto
<1>3. (StatInv(p) /\ WriteInv(p) /\ StageInv(p))'
  BY <1>2 DEF StatInv, WriteInv, StageInv
<1>4. KeyIsLast' /\ Complete' = Complete
  BY <1>2 DEF IInv, KeyIsLast, Complete
<1>5. ShownInv'
  <2>1. CASE Show(p)
    <3>1. shown' = [ca |-> file["ca.crt"], creds |-> mine[p]]
      BY <2>1 DEF Show
    <3>2. Complete /\ mine[p] # 0 /\ mine[p] = file["vpn-creds"]
      BY <2>1 DEF IInv, StageInv, Show
    <3>3. QED
      BY <1>2, <1>4, <3>1, <3>2 DEF ShownInv
  <2>2. CASE ~Show(p)
    BY <1>2, <1>4, <2>2 DEF IInv, ShownInv, Serve, Stops
  <2>3. QED
    BY <2>1, <2>2
<1>6. ServedInv'
  <2>1. CASE Serve(p)
    <3>1. /\ served'[p] = [crt |-> file["server.crt"], key |-> file["server.key"]]
          /\ \A q \in Procs : q # p => served'[q] = served[q]
      BY <2>1 DEF IInv, TypeOK, Serve
    <3>2. /\ Complete
          /\ file["server.crt"] = file["server.key"]
          /\ file["ca.crt"] = file["server.key"]
      BY <2>1, Lists DEF IInv, StageInv, KeyIsLast, Serve
    <3>3. QED
      BY <1>2, <1>4, <3>1, <3>2 DEF IInv, ServedInv
  <2>2. CASE ~Serve(p)
    BY <1>2, <1>4, <2>2 DEF IInv, ServedInv, Show, Stops
  <2>3. QED
    BY <2>1, <2>2
<1>7. QED
  BY <1>1, <1>3, <1>4, <1>5, <1>6 DEF StepInv

\* A login finds the certificate of the one generation there is, and the
\* credentials that were shown; it changes nothing else.
LEMMA LoginStep ==
  ASSUME IInv, NEW p \in Procs, Login(p)
  PROVE  StepInv' /\ SettingsAreAccepted'
<1>1. KeyIsLast' /\ ShownInv' /\ ServedInv' /\ Complete' = Complete
  BY SameFiles DEF Login
<1>2. \A q \in Procs : (StatInv(q) /\ WriteInv(q) /\ StageInv(q))'
  BY <1>1 DEF IInv, Login, StatInv, WriteInv, StageInv
<1>3. /\ served[p].crt = served[p].key /\ served[p].crt = file["ca.crt"]
      /\ shown.creds # 0 /\ shown.creds = file["vpn-creds"]
  BY DEF IInv, ShownInv, ServedInv, Login
<1>4. login' = [login EXCEPT ![p] = "accepted"]
  BY <1>3 DEF Login, AuthCheck, Wanted
<1>5. SettingsAreAccepted'
  BY <1>4 DEF IInv, TypeOK, SettingsAreAccepted
<1>6. QED
  BY <1>1, <1>2, <1>5 DEF StepInv

LEMMA StepIInv == Serial /\ IInv /\ [Next]_vars => IInv'
<1> SUFFICES ASSUME Serial, IInv, [Next]_vars PROVE IInv'
  OBVIOUS
<1>1. TypeOK' /\ Alone'
  BY TypeStep, AloneStep DEF IInv
<1>2. CASE UNCHANGED vars
  BY <1>1, <1>2 DEF IInv, KeyIsLast, Complete, StatInv, WriteInv, StageInv,
     ShownInv, ServedInv, SettingsAreAccepted, vars
<1>3. CASE Next
  <2>1. StepInv'
    BY <1>3, StartStep, StatStep, GenerateStep, WriteStep, ReadCredsStep,
       WriteCredsStep, LastStep, LoginStep DEF Next
  <2>2. SettingsAreAccepted'
    <3>1. CASE \E p \in Procs : Login(p)
      BY <3>1, LoginStep
    <3>2. CASE UNCHANGED login
      BY <3>2 DEF IInv, SettingsAreAccepted
    <3>3. (\E p \in Procs : Login(p)) \/ UNCHANGED login
      BY <1>3 DEF Next, Start, Stat, Generate, Write, ReadCreds, WriteCreds,
         Show, Serve, Stops
    <3>4. QED
      BY <3>1, <3>2, <3>3
  <2>3. QED
    BY <1>1, <2>1, <2>2 DEF IInv, StepInv
<1>4. QED
  BY <1>2, <1>3

LEMMA IInvImplies ==
  IInv => /\ TypeOK /\ CompleteIsConsistent /\ ServerIsTrusted
          /\ ShownStaysValid /\ SettingsAreAccepted
<1> SUFFICES ASSUME IInv
             PROVE  TypeOK /\ CompleteIsConsistent /\ ServerIsTrusted
                    /\ ShownStaysValid /\ SettingsAreAccepted
  OBVIOUS
<1>1. CompleteIsConsistent
  BY Lists DEF IInv, KeyIsLast, Complete, CompleteIsConsistent
<1>2. ServerIsTrusted
  BY DEF IInv, ServedInv, ServerIsTrusted
<1>3. ShownStaysValid
  BY DEF IInv, ShownInv, ShownStaysValid
<1>4. QED
  BY <1>1, <1>2, <1>3 DEF IInv

\* Processes that do not overlap, however many and wherever each of them is
\* stopped, leave files that belong together, never start a server whose
\* certificate the client would refuse, never replace what the user has been
\* shown, and let in the client that was set up with it (pki.go:43-153,
\* main.go:368-370, 414-448).
THEOREM SerialIdentity ==
  ASSUME Serial
  PROVE  Spec => [](/\ TypeOK /\ CompleteIsConsistent /\ ServerIsTrusted
                    /\ ShownStaysValid /\ SettingsAreAccepted)
<1>1. Init => IInv
  BY InitIInv
<1>2. IInv /\ [Next]_vars => IInv'
  BY StepIInv
<1>3. IInv => /\ TypeOK /\ CompleteIsConsistent /\ ServerIsTrusted
              /\ ShownStaysValid /\ SettingsAreAccepted
  BY IInvImplies
<1>4. QED
  BY <1>1, <1>2, <1>3, PTL DEF Spec
=============================================================================
