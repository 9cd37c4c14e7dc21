-------------------------- MODULE AtomicFileProofs --------------------------
(***************************************************************************)
(* With a single writer, for any number of inodes and updates, the file is *)
(* the atomic register its readers rely on.  The run of two writers shows  *)
(* why the assumption is needed.                                           *)
(***************************************************************************)
EXTENDS AtomicFile, TLAPS

SingleWriter == \A v, w \in Writers : v = w

\* The temporary inode is private: neither published nor held by a reader.
TmpPrivate == tmp # None => tmp # path /\ tmp # rd

\* What the writer in flight has and is about to publish.
InFlight(w) ==
    /\ pc[w] # "idle" => snap[w] \in 1..cur /\ done < snap[w]
    /\ pc[w] \in {"write", "rename"} => tmp # None /\ fd[w] = tmp
    /\ pc[w] = "write" => content[fd[w]] = 0
    /\ pc[w] = "rename" => content[fd[w]] = snap[w]

IInv ==
    /\ TypeOK
    /\ NeverPartial
    /\ TmpPrivate
    /\ done <= cur
    /\ Shown = done
    /\ \A w \in Writers : InFlight(w)

\* Before the first update there is no file and nobody has one open.
LEMMA InitIInv == Init => IInv
  BY ConstantsAssumption
     DEF Init, IInv, TypeOK, NeverPartial, TmpPrivate, Shown, InFlight

\* The locked half of Update numbers a fresh update and touches no file.
LEMMA MutateIInv ==
  ASSUME IInv, SingleWriter, NEW w \in Writers, Mutate(w)
  PROVE  IInv'
  BY ConstantsAssumption
     DEF IInv, TypeOK, NeverPartial, Complete, Version, TmpPrivate, Shown,
         InFlight, SingleWriter, Mutate, Goto

\* Opening truncates an inode that nobody else can see.
LEMMA OpenTmpIInv ==
  ASSUME IInv, SingleWriter, NEW w \in Writers, OpenTmp(w)
  PROVE  IInv'
<1>1. PICK i \in IF tmp = None THEN Inodes \ InUse ELSE {tmp} :
        /\ tmp' = i
        /\ fd' = [fd EXCEPT ![w] = i]
        /\ content' = [content EXCEPT ![i] = 0]
  BY DEF OpenTmp
<1>2. i \in Inodes /\ i # path /\ i # rd /\ i # None
  BY <1>1, ConstantsAssumption DEF IInv, TypeOK, TmpPrivate, InUse
<1>3. TypeOK'
  BY <1>1, <1>2, ConstantsAssumption DEF IInv, TypeOK, OpenTmp, Goto
<1>4. NeverPartial' /\ TmpPrivate' /\ Shown' = done'
  BY <1>1, <1>2
     DEF IInv, TypeOK, OpenTmp, NeverPartial, Complete, Version, TmpPrivate,
         Shown
<1>5. \A v \in Writers : InFlight(v)'
  BY <1>1, <1>2 DEF IInv, TypeOK, OpenTmp, Goto, InFlight, SingleWriter
<1>6. QED
  BY <1>3, <1>4, <1>5 DEF IInv, OpenTmp

\* The write lands in the private inode.
LEMMA WriteTmpIInv ==
  ASSUME IInv, SingleWriter, NEW w \in Writers, WriteTmp(w)
  PROVE  IInv'
<1>1. /\ content' = [content EXCEPT ![fd[w]] = snap[w]]
      /\ fd[w] = tmp /\ tmp \in Inodes /\ tmp # path /\ tmp # rd
      /\ snap[w] \in 0..MaxUpdates
  BY ConstantsAssumption DEF IInv, TypeOK, WriteTmp, InFlight, TmpPrivate
<1>2. TypeOK'
  BY <1>1 DEF IInv, TypeOK, WriteTmp, Goto
<1>3. NeverPartial' /\ TmpPrivate' /\ Shown' = done'
  BY <1>1
     DEF IInv, TypeOK, WriteTmp, NeverPartial, Complete, Version, TmpPrivate,
         Shown
<1>4. \A v \in Writers : InFlight(v)'
  BY <1>1 DEF IInv, TypeOK, WriteTmp, Goto, InFlight, SingleWriter
<1>5. QED
  BY <1>2, <1>3, <1>4 DEF IInv, WriteTmp

\* A failed write spoils only the private inode.
LEMMA WriteFailsIInv ==
  ASSUME IInv, SingleWriter, NEW w \in Writers, WriteFails(w)
  PROVE  IInv'
<1>1. /\ content' = [content EXCEPT ![fd[w]] = Torn]
      /\ fd[w] = tmp /\ tmp \in Inodes /\ tmp # path /\ tmp # rd
      /\ tmp' \in {tmp, None}
  BY DEF IInv, TypeOK, WriteFails, InFlight, TmpPrivate
<1>2. TypeOK'
  BY <1>1 DEF IInv, TypeOK, WriteFails, Return, Goto
<1>3. NeverPartial' /\ TmpPrivate' /\ Shown' = done'
  BY <1>1
     DEF IInv, TypeOK, WriteFails, NeverPartial, Complete, Version,
         TmpPrivate, Shown
<1>4. \A v \in Writers : InFlight(v)'
  BY <1>1 DEF IInv, TypeOK, WriteFails, Return, Goto, InFlight, SingleWriter
<1>5. QED
  BY <1>2, <1>3, <1>4 DEF IInv, WriteFails

\* The rename publishes a complete update, newer than the one it replaces.
LEMMA RenameIInv ==
  ASSUME IInv, SingleWriter, NEW w \in Writers, Rename(w)
  PROVE  IInv' /\ path' = tmp /\ tmp # None /\ content[tmp] = snap[w]
         /\ done < snap[w] /\ done' = snap[w]
<1>1. /\ tmp # None /\ tmp \in Inodes /\ fd[w] = tmp
      /\ content[tmp] = snap[w]
      /\ snap[w] \in 1..cur /\ done < snap[w]
      /\ cur \in 0..MaxUpdates /\ done \in 0..MaxUpdates
      /\ MaxUpdates \in Nat
  BY ConstantsAssumption DEF IInv, TypeOK, InFlight, Rename
<1>2. /\ path' = tmp /\ tmp' = None /\ done' = snap[w]
      /\ UNCHANGED <<lang, cur, snap, content, rd, seen>>
      /\ pc' = [pc EXCEPT ![w] = "idle"]
      /\ fd' = [fd EXCEPT ![w] = None]
  BY <1>1 DEF Rename, Return, Goto
<1>3. TypeOK'
  BY <1>1, <1>2 DEF IInv, TypeOK
<1>4. NeverPartial' /\ TmpPrivate' /\ Shown' = done' /\ done' <= cur'
  BY <1>1, <1>2
     DEF IInv, TypeOK, NeverPartial, Complete, Version, TmpPrivate, Shown
<1>5. \A v \in Writers : InFlight(v)'
  BY <1>1, <1>2 DEF IInv, TypeOK, InFlight, SingleWriter
<1>6. QED
  BY <1>1, <1>2, <1>3, <1>4, <1>5 DEF IInv

\* Failing to open, being killed and the reader's two steps change no file.
LEMMA QuietIInv ==
  ASSUME IInv, SingleWriter,
         \/ \E w \in Writers : OpenFails(w)
         \/ Crash \/ ReaderOpen \/ ReaderRead
         \/ UNCHANGED vars
  PROVE  IInv'
<1>1. ASSUME NEW w \in Writers, OpenFails(w) PROVE IInv'
  BY <1>1 DEF IInv, TypeOK, OpenFails, Return, Goto, NeverPartial, Complete,
              Version, TmpPrivate, Shown, InFlight, SingleWriter
<1>2. CASE Crash
  BY <1>2 DEF IInv, TypeOK, Crash, NeverPartial, Complete, Version,
              TmpPrivate, Shown, InFlight
<1>3. CASE ReaderOpen
  BY <1>3 DEF IInv, TypeOK, ReaderOpen, NeverPartial, Complete, Version,
              TmpPrivate, Shown, InFlight
<1>4. CASE ReaderRead
  BY <1>4 DEF IInv, TypeOK, ReaderRead, NeverPartial, Complete, Version,
              TmpPrivate, Shown, InFlight
<1>5. CASE UNCHANGED vars
  BY <1>5 DEF IInv, TypeOK, vars, NeverPartial, Complete, Version,
              TmpPrivate, Shown, InFlight
<1>6. QED
  BY <1>1, <1>2, <1>3, <1>4, <1>5

LEMMA NextIInv ==
  ASSUME IInv, SingleWriter, [Next]_vars
  PROVE  IInv'
  BY MutateIInv, OpenTmpIInv, WriteTmpIInv, WriteFailsIInv, RenameIInv,
     QuietIInv
     DEF Next

\* The invariant the results below follow from.
LEMMA SpecIInv ==
  ASSUME SingleWriter
  PROVE  Spec => []IInv
<1>1. IInv /\ [Next]_vars => IInv'
  BY NextIInv
<1>2. QED
  BY InitIInv, <1>1, PTL DEF Spec

\* A reader of a single-writer file never sees part of an update
\* (status.go:39, backend.py:86), whatever fails or is killed.
THEOREM OneWriterNeverPartial ==
  ASSUME SingleWriter
  PROVE  Spec => [](TypeOK /\ NeverPartial)
<1>1. IInv => TypeOK /\ NeverPartial
  BY DEF IInv
<1>2. QED
  BY SpecIInv, <1>1, PTL

\* An update that was reported as written is never replaced by an older one.
THEOREM OneWriterNeverOutdated ==
  ASSUME SingleWriter
  PROVE  Spec => []NeverOutdated
<1>1. IInv => NeverOutdated
  BY DEF IInv, TypeOK, NeverOutdated
<1>2. QED
  BY SpecIInv, <1>1, PTL

\* The register's reading: what the reader has read or is about to.
RegSeen == IF rd = None THEN seen ELSE content[rd]

\* Steps that publish nothing leave the register as it is.
LEMMA StutterStep ==
  ASSUME IInv, SingleWriter,
         \/ \E w \in Writers : \/ Mutate(w) \/ OpenTmp(w) \/ OpenFails(w)
                               \/ WriteTmp(w) \/ WriteFails(w)
         \/ Crash \/ ReaderRead
         \/ UNCHANGED vars
  PROVE  Shown' = Shown /\ RegSeen' = RegSeen
<1>1. ASSUME NEW w \in Writers, Mutate(w) \/ OpenFails(w)
      PROVE  Shown' = Shown /\ RegSeen' = RegSeen
  BY <1>1 DEF Mutate, OpenFails, Shown, RegSeen
<1>2. ASSUME NEW w \in Writers, OpenTmp(w)
      PROVE  Shown' = Shown /\ RegSeen' = RegSeen
  BY <1>2 DEF OpenTmp, InUse, IInv, TypeOK, TmpPrivate, Shown, RegSeen
<1>3. ASSUME NEW w \in Writers, WriteTmp(w) \/ WriteFails(w)
      PROVE  Shown' = Shown /\ RegSeen' = RegSeen
  BY <1>3 DEF WriteTmp, WriteFails, IInv, TypeOK, InFlight, TmpPrivate,
              Shown, RegSeen
<1>4. CASE Crash \/ UNCHANGED vars
  BY <1>4 DEF Crash, vars, Shown, RegSeen
<1>5. CASE ReaderRead
  BY <1>5 DEF ReaderRead, Shown, RegSeen
<1>6. QED
  BY <1>1, <1>2, <1>3, <1>4, <1>5

\* With a single writer, every step of the replacement is a step of the
\* atomic register or leaves it alone (pki.go:27-33, backend.py:85-95).
THEOREM OneWriterImplementsRegister ==
  ASSUME SingleWriter
  PROVE  Spec => ImplementsRegister
<1>1. Init => Reg!Init
  BY DEF Init, Reg!Init, Shown
<1>2. IInv /\ [Next]_vars => [Reg!Next]_(Reg!vars)
  <2> SUFFICES ASSUME IInv, [Next]_vars
               PROVE  [Reg!Next]_(Reg!vars)
    OBVIOUS
  <2>1. CASE Shown' = Shown /\ RegSeen' = RegSeen
    BY <2>1 DEF Reg!vars, RegSeen
  <2>2. ASSUME NEW w \in Writers, Rename(w)
        PROVE  Reg!Publish
    <3>1. /\ Shown' = snap[w] /\ snap[w] \in Nat
          /\ Shown = done /\ done \in Nat /\ done < snap[w]
      BY <2>2, RenameIInv DEF IInv, TypeOK, InFlight, Rename, Shown
    <3>2. RegSeen' = RegSeen
      BY <2>2 DEF Rename, RegSeen
    <3>3. QED
      BY <3>1, <3>2 DEF Reg!Publish, RegSeen
  <2>3. CASE ReaderOpen
    <3>1. Shown' = Shown /\ Shown # 0 /\ RegSeen' = Shown
      BY <2>3, ConstantsAssumption
         DEF ReaderOpen, IInv, TypeOK, NeverPartial, Complete, Version,
             Shown, RegSeen
    <3>2. QED
      BY <3>1 DEF Reg!Observe, Reg!Next, RegSeen
  <2>4. QED
    BY <2>1, <2>2, <2>3, StutterStep DEF Next, Reg!Next
<1>3. QED
  BY <1>1, <1>2, SpecIInv, PTL DEF Spec, ImplementsRegister, Reg!Spec
=============================================================================
