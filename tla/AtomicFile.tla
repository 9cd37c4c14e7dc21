----------------------------- MODULE AtomicFile -----------------------------
(***************************************************************************)
(* The program's one way of replacing a file: write <path>.tmp, rename it  *)
(* over <path>.  Go has it as writeFile (pki.go:27-33), which              *)
(* Publisher.Update (status.go:48-61) calls AFTER it has released its      *)
(* mutex; Python has it as _write_atomic (backend.py:85-95), which also    *)
(* unlinks the temporary file when the write fails.                        *)
(*                                                                         *)
(* A file's data is the number of the update it holds.  Inodes are         *)
(* explicit because O_TRUNC truncates whatever inode the temporary name    *)
(* has, which may be another writer's, and a reader keeps the inode it     *)
(* opened.                                                                 *)
(***************************************************************************)
EXTENDS Naturals

CONSTANTS Writers,     \* goroutines or threads that replace this file
          Langs,       \* implementations considered: subset of {"go", "py"}
          Inodes,      \* identities the file system hands out
          None,        \* no inode
          Torn,        \* content that is no update's output
          MaxUpdates   \* bound: updates started in one behaviour

ASSUME ConstantsAssumption ==
    /\ Langs \subseteq {"go", "py"}
    /\ None \notin Inodes
    /\ Torn \notin Nat
    /\ MaxUpdates \in Nat

VARIABLES lang,     \* which of the two implementations runs
          cur,      \* Publisher.cur: number of the newest update
          pc,       \* pc[w]: next step of w's replacement
          snap,     \* snap[w]: the marshalled bytes w is to write
          fd,       \* fd[w]: the inode w has open
          tmp,      \* inode named <path>.tmp
          path,     \* inode named <path>
          content,  \* content[i]: an update's number, 0 (empty) or Torn
          rd,       \* the inode the reader has open
          seen,     \* what the reader read last, 0 before that
          done      \* history: newest update whose caller was told "ok"

vars == <<lang, cur, pc, snap, fd, tmp, path, content, rd, seen, done>>

Version == 1..MaxUpdates
Complete(i) == content[i] \in Version
Shown == IF path = None THEN 0 ELSE content[path]
InUse == {tmp, path, rd} \cup {fd[w] : w \in Writers}

Init ==
    /\ lang \in Langs
    /\ cur = 0 /\ seen = 0 /\ done = 0
    /\ pc = [w \in Writers |-> "idle"]
    /\ snap = [w \in Writers |-> 0]
    /\ fd = [w \in Writers |-> None]
    /\ tmp = None /\ path = None /\ rd = None
    /\ content = [i \in Inodes |-> 0]

Goto(w, l) == pc' = [pc EXCEPT ![w] = l]

\* The call of w ends: it holds no file any more.
Return(w) == Goto(w, "idle") /\ fd' = [fd EXCEPT ![w] = None]

\* A bug: the marshalled update is counted twice.
Mutate_Twice(w) ==
    /\ pc[w] = "idle"
    /\ cur < MaxUpdates
    /\ cur' = cur + 1
    /\ snap' = [snap EXCEPT ![w] = cur + 2]
    /\ Goto(w, "open")
    /\ UNCHANGED <<lang, fd, tmp, path, content, rd, seen, done>>

(***************************************************************************)
(* The locked half of Publisher.Update: change cur and marshal it.  For    *)
(* the other callers, which build their bytes themselves, it is the moment *)
(* the call is made.                                                       *)
(***************************************************************************)
Mutate(w) ==
    /\ pc[w] = "idle"
    /\ cur < MaxUpdates
    /\ cur' = cur + 1
    /\ snap' = [snap EXCEPT ![w] = cur + 1]
    /\ Goto(w, "open")
    /\ UNCHANGED <<lang, fd, tmp, path, content, rd, seen, done>>

\* A bug: replacing the file in place.
OpenTmp_InPlace(w) ==
    /\ pc[w] = "open"
    /\ \E i \in IF path = None THEN Inodes \ InUse ELSE {path} :
          /\ tmp' = i
          /\ fd' = [fd EXCEPT ![w] = i]
          /\ content' = [content EXCEPT ![i] = 0]
    /\ Goto(w, "write")
    /\ UNCHANGED <<lang, cur, snap, path, rd, seen, done>>

\* open(tmp, O_WRONLY|O_CREAT|O_TRUNC): a leftover temporary file, or another
\* writer's, is truncated; otherwise a new inode gets the name.
OpenTmp(w) ==
    /\ pc[w] = "open"
    /\ \E i \in IF tmp = None THEN Inodes \ InUse ELSE {tmp} :
          /\ tmp' = i
          /\ fd' = [fd EXCEPT ![w] = i]
          /\ content' = [content EXCEPT ![i] = 0]
    /\ Goto(w, "write")
    /\ UNCHANGED <<lang, cur, snap, path, rd, seen, done>>

\* The directory is gone or the disk is full: the error goes to the caller.
OpenFails(w) ==
    /\ pc[w] = "open"
    /\ Return(w)
    /\ UNCHANGED <<lang, cur, snap, tmp, path, content, rd, seen, done>>

\* Write from offset 0.  Over another writer's bytes the longer of the two
\* leaves its tail behind, so the result may be neither's.
WriteTmp(w) ==
    /\ pc[w] = "write"
    /\ \E c \in IF content[fd[w]] = 0 THEN {snap[w]} ELSE {snap[w], Torn} :
          content' = [content EXCEPT ![fd[w]] = c]
    /\ Goto(w, "rename")
    /\ UNCHANGED <<lang, cur, snap, fd, tmp, path, rd, seen, done>>

\* A bug: the rename goes ahead although the write failed.
WriteFails_Ignored(w) ==
    /\ pc[w] = "write"
    /\ content' = [content EXCEPT ![fd[w]] = Torn]
    /\ Goto(w, "rename")
    /\ UNCHANGED <<lang, cur, snap, fd, tmp, path, rd, seen, done>>

\* A short write (no space left).  Go leaves the temporary file, Python
\* unlinks it.
WriteFails(w) ==
    /\ pc[w] = "write"
    /\ content' = [content EXCEPT ![fd[w]] = Torn]
    /\ tmp' = IF lang = "py" THEN None ELSE tmp
    /\ Return(w)
    /\ UNCHANGED <<lang, cur, snap, path, rd, seen, done>>

\* rename(tmp, path).  With two writers the name may be gone: the second
\* rename is an error its caller drops.
Rename(w) ==
    /\ pc[w] = "rename"
    /\ IF tmp = None
       THEN UNCHANGED <<tmp, path, done>>
       ELSE /\ path' = tmp
            /\ tmp' = None
            /\ done' = IF snap[w] > done THEN snap[w] ELSE done
    /\ Return(w)
    /\ UNCHANGED <<lang, cur, snap, content, rd, seen>>

\* The process is killed; a later one continues with the files it left.
Crash ==
    /\ \E w \in Writers : pc[w] # "idle"
    /\ pc' = [w \in Writers |-> "idle"]
    /\ fd' = [w \in Writers |-> None]
    /\ UNCHANGED <<lang, cur, snap, tmp, path, content, rd, seen, done>>

\* Another process opens the file (backend.py:553, _load, _read_pid) ...
ReaderOpen ==
    /\ rd = None
    /\ path # None
    /\ rd' = path
    /\ UNCHANGED <<lang, cur, pc, snap, fd, tmp, path, content, seen, done>>

\* ... and reads it, any time later.
ReaderRead ==
    /\ rd # None
    /\ seen' = content[rd]
    /\ rd' = None
    /\ UNCHANGED <<lang, cur, pc, snap, fd, tmp, path, content, done>>

Next ==
    \/ \E w \in Writers : \/ Mutate(w)
                          \/ OpenTmp(w)
                          \/ OpenFails(w)
                          \/ WriteTmp(w)
                          \/ WriteFails(w)
                          \/ Rename(w)
    \/ Crash
    \/ ReaderOpen
    \/ ReaderRead

Spec == Init /\ [][Next]_vars
-----------------------------------------------------------------------------
\* The types of the variables.
TypeOK ==
    /\ lang \in Langs
    /\ cur \in 0..MaxUpdates
    /\ pc \in [Writers -> {"idle", "open", "write", "rename"}]
    /\ snap \in [Writers -> 0..MaxUpdates]
    /\ fd \in [Writers -> Inodes \cup {None}]
    /\ tmp \in Inodes \cup {None}
    /\ path \in Inodes \cup {None}
    /\ content \in [Inodes -> 0..MaxUpdates \cup {Torn}]
    /\ rd \in Inodes \cup {None}
    /\ seen \in 0..MaxUpdates \cup {Torn}
    /\ done \in 0..MaxUpdates

\* Whoever opens the file finds, then and for as long as it is held open, the
\* whole output of one update (status.go:39, backend.py:86).
NeverPartial ==
    /\ path # None => Complete(path)
    /\ rd # None => Complete(rd)

\* Once Update has returned nil, the file shows that update or a newer one: a
\* state the bridge has left behind (status.go:48-61) never comes back.
NeverOutdated == done <= Shown

\* The file is an atomic register; the reader's linearisation point is open().
Reg == INSTANCE AtomicRegister
         WITH value <- Shown, seen <- IF rd = None THEN seen ELSE content[rd]

\* Every step of a replacement, failed or killed half-way included, is a
\* stutter of the register or its Publish or Observe.
ImplementsRegister == Reg!Spec
=============================================================================
