----------------------------- MODULE BridgeLife -----------------------------
(***************************************************************************)
(* What one ocbridge process promises the app, which only ever sees the    *)
(* two files it writes: it announces itself in status.json, then registers *)
(* in ocbridge.pid, and shows a later state only after that.  Bridge.tla   *)
(* (main.go) implements it; the processes of ControlPlane.tla (backend.py) *)
(* obey it.                                                                *)
(***************************************************************************)

VARIABLES life,      \* "launched", "registered" or "gone"
          published  \* the last state it wrote to status.json

vars == <<life, published>>

Init == life = "launched" /\ published = "none"

Announce ==
    /\ life = "launched" /\ published = "none"
    /\ published' = "starting"
    /\ UNCHANGED life

Register ==
    /\ life = "launched" /\ published = "starting"
    /\ life' = "registered"
    /\ UNCHANGED published

Publish ==
    /\ life = "registered"
    /\ published' \in {"starting", "up", "down", "error"}
    /\ UNCHANGED life

Exit == life # "gone" /\ life' = "gone" /\ UNCHANGED published

Next == Announce \/ Register \/ Publish \/ Exit

Spec == Init /\ [][Next]_vars
=============================================================================
