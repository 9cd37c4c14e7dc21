--------------------------- MODULE AtomicRegister ---------------------------
(***************************************************************************)
(* What a reader of status.json, profiles.json or a pid file is entitled   *)
(* to: one value that is replaced as a whole, only ever by a newer one.    *)
(* The writers promise it in a sentence each: status.go:39 ("atomically    *)
(* so a reader never sees a partial file") and backend.py:86 ("a crash     *)
(* cannot leave a half-written file").  A value is the number of the       *)
(* update that produced it; 0 is the file that does not exist yet.         *)
(***************************************************************************)
EXTENDS Naturals

VARIABLES value,  \* what the file says
          seen    \* what the reader read last

vars == <<value, seen>>

Init == value = 0 /\ seen = 0

Publish == value' \in Nat /\ value' > value /\ UNCHANGED seen

Observe == value # 0 /\ seen' = value /\ UNCHANGED value

Next == Publish \/ Observe

Spec == Init /\ [][Next]_vars
=============================================================================
