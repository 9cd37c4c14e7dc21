--------------------------------- MODULE UI ---------------------------------
(***************************************************************************)
(* The app's window (qml/Main.qml, qml/pages/ProfileListPage.qml) and the  *)
(* asynchronous road between it and backend.py.                            *)
(*                                                                         *)
(* py.call queues a call; PyOtherSide's one Python thread takes them in    *)
(* order and posts each result back, to be handled by a callback in the    *)
(* GUI thread.  The worker thread of connect() posts its connect_state     *)
(* events into the same GUI queue at any time.  So a callback acts on a    *)
(* state the backend had when it answered, and an event on a state the     *)
(* window had when the attempt began.                                      *)
(*                                                                         *)
(* Each profile has a gateway of its own; a profile stands for the         *)
(* fingerprint its gateway presents.  Files and processes are the subject  *)
(* of ControlPlane: here a tunnel is "down", "coming" (openconnect has     *)
(* been started) or "up".                                                  *)
(***************************************************************************)
EXTENDS Naturals, Sequences, FiniteSets

CONSTANTS Profiles,     \* profiles that are saved or may be added
          Saved,        \* profiles that are saved at first
          None,         \* no profile
          MaxClicks,    \* bound: buttons pressed in one behaviour
          MaxRefreshes  \* bound: status calls on their way at the same time

ASSUME ConstantsAssumption ==
    Saved \subseteq Profiles /\ None \notin Profiles /\ MaxClicks \in Nat /\ MaxRefreshes \in Nat

VARIABLES
    phase,    \* root.phase: "", authenticating, starting, up or error
    bridge,   \* root.bridge.state, as the last status said
    active,   \* root.activeProfileId
    list,     \* root.profiles: like stored, as list_profiles last told it
    page,     \* the edit page: a profile, "new", or None without one
    asking,   \* the profile the password dialog asks for, None without one
    dialog,   \* the trust dialog: [profile, fingerprint], None without one
    calls,    \* calls that wait for the Python thread
    inbox,    \* results and events that wait for the GUI thread
    worker,   \* _connect_worker: [profile, pin, at], at = "none" without one
    tunnel,   \* "down", "coming" or "up"
    stored,   \* profiles.json: the servercert, or None, of each saved profile
    unused,   \* profiles whose random id has not been given out
    accepted, \* history: the profile "Trust and connect" was pressed for
    clicks    \* bound counter for MaxClicks

guiVars == <<phase, bridge, active, list, page, asking, dialog>>
pyVars  == <<worker, tunnel, stored, unused>>
vars == <<guiVars, calls, inbox, pyVars, accepted, clicks>>

busy == phase \in {"authenticating", "starting"}
tunnelUp == bridge = "up"

NoDialogOpen == [profile |-> None, fingerprint |-> None]
Idle == [profile |-> None, pin |-> None, at |-> "none"]

\* The window after backend.init has answered; a tunnel may be up already.
\* (The list is asked for by the window and by its page; here once.)
Init ==
    /\ phase = "" /\ bridge = "down" /\ active = None
    /\ list = <<>> /\ page = None /\ asking = None /\ dialog = NoDialogOpen
    /\ calls = <<[op |-> "list"], [op |-> "status"]>> /\ inbox = <<>>
    /\ worker = Idle /\ tunnel \in {"down", "up"}
    /\ stored = [p \in Saved |-> None] /\ unused = Profiles \ Saved
    /\ accepted = None /\ clicks = 0

Click == clicks < MaxClicks /\ clicks' = clicks + 1
NoDialog == asking = None /\ dialog.profile = None
ListEnabled == ~busy /\ ~tunnelUp /\ page = None /\ NoDialog
Call(c) == calls' = Append(calls, c)
Post(m) == inbox' = Append(inbox, m)
RefreshesUnderWay ==
    Len(SelectSeq(calls, LAMBDA c : c.op = "status"))
        + Len(SelectSeq(inbox, LAMBDA m : m.kind = "status"))
-----------------------------------------------------------------------------
(* The user *)

Connect(p) ==
    /\ active' = p /\ phase' = "authenticating"
    /\ Call([op |-> "connect", profile |-> p])

\* A list item that is enabled; without a stored password it asks for one.
ClickProfile(p) ==
    /\ ListEnabled /\ p \in DOMAIN list
    /\ Click
    /\ \/ Connect(p) /\ UNCHANGED asking
       \/ asking' = p /\ UNCHANGED <<active, phase, calls>>
    /\ UNCHANGED <<bridge, list, page, dialog, inbox, pyVars, accepted>>

ClickDelete(p) ==
    /\ ListEnabled /\ p \in DOMAIN list
    /\ Click
    /\ Call([op |-> "delete", profile |-> p])
    /\ UNCHANGED <<guiVars, inbox, pyVars, accepted>>

\* The edit page is opened for a profile of the list, or for a new one ...
OpenPage(p) ==
    /\ page = None /\ NoDialog
    /\ p = "new" \/ (ListEnabled /\ p \in DOMAIN list)
    /\ page' = p
    /\ UNCHANGED <<phase, bridge, active, list, asking, dialog, calls, inbox,
                   pyVars, accepted, clicks>>

\* ... and saved, which sends no fingerprint, or left.  The ids that are left
\* bound the number of new profiles.
NewUnderWay ==
    Len(SelectSeq(calls, LAMBDA c : c.op = "save" /\ c.profile = "new"))

ClickSave ==
    /\ page # None /\ NoDialog
    /\ page = "new" => NewUnderWay < Cardinality(unused)
    /\ Click
    /\ Call([op |-> "save", profile |-> page, fingerprint |-> None])
    /\ UNCHANGED <<guiVars, inbox, pyVars, accepted>>

LeavePage ==
    /\ page # None /\ NoDialog
    /\ page' = None
    /\ UNCHANGED <<phase, bridge, active, list, asking, dialog, calls, inbox,
                   pyVars, accepted, clicks>>

\* The password dialog is answered, whatever has happened since, or left.
ClickPassword ==
    /\ asking # None /\ dialog.profile = None
    /\ Click
    /\ Connect(asking) \/ UNCHANGED <<active, phase, calls>>
    /\ asking' = None
    /\ UNCHANGED <<bridge, list, page, dialog, inbox, pyVars, accepted>>

ClickDisconnect ==
    /\ tunnelUp \/ busy
    /\ page = None /\ NoDialog /\ Click
    /\ Call([op |-> "disconnect"])
    /\ UNCHANGED <<guiVars, inbox, pyVars, accepted>>

CloseDialog ==
    /\ dialog' = NoDialogOpen
    /\ UNCHANGED <<phase, bridge, active, list, page, asking>>

\* "Trust and connect": the list's profile is saved with the fingerprint.
ClickTrust ==
    /\ dialog.profile # None /\ accepted = None
    /\ Click
    /\ IF dialog.profile \in DOMAIN list
       THEN /\ Call([op |-> "save", profile |-> dialog.profile,
                     fingerprint |-> dialog.fingerprint])
            /\ accepted' = dialog.profile
            /\ UNCHANGED guiVars
       ELSE CloseDialog /\ UNCHANGED <<calls, accepted>>
    /\ UNCHANGED <<inbox, pyVars>>

ClickCancel ==
    /\ dialog.profile # None
    /\ Click
    /\ CloseDialog
    /\ UNCHANGED <<calls, inbox, pyVars, accepted>>

\* The timer, every two seconds.
Refresh ==
    /\ RefreshesUnderWay < MaxRefreshes
    /\ Call([op |-> "status"])
    /\ UNCHANGED <<guiVars, inbox, pyVars, accepted, clicks>>
-----------------------------------------------------------------------------
(* The Python thread answers the call at the head of its queue *)

Answer(op) == calls # <<>> /\ Head(calls).op = op /\ calls' = Tail(calls)
Result(kind, ok) == Post([kind |-> kind, ok |-> ok])

\* connect() refuses while an attempt runs or the tunnel is up, and a profile
\* that is gone (319-325); the worker gets the profile as it is now.
AnswerConnect ==
    /\ Answer("connect")
    /\ LET p == Head(calls).profile IN
       \/ Result("connected", "no") /\ UNCHANGED worker
       \/ /\ worker.at = "none" /\ tunnel # "up" /\ p \in DOMAIN stored
          /\ worker' = [profile |-> p, pin |-> stored[p], at |-> "begin"]
          /\ Result("connected", "yes")
    /\ UNCHANGED <<guiVars, tunnel, stored, unused, accepted, clicks>>

\* disconnect() signals what it finds; the worker is not told.
AnswerDisconnect ==
    /\ Answer("disconnect")
    /\ tunnel' \in {tunnel, "down"}
    /\ Result("disconnected", "yes")
    /\ UNCHANGED <<guiVars, worker, stored, unused, accepted, clicks>>

AnswerStatus ==
    /\ Answer("status")
    /\ Post([kind |-> "status", state |-> IF tunnel = "up" THEN "up" ELSE "down"])
    /\ UNCHANGED <<guiVars, pyVars, accepted, clicks>>

Saving(p, fingerprint) ==
    [q \in DOMAIN stored \cup {p} |-> IF q = p THEN fingerprint ELSE stored[q]]

\* A bug: what is sent replaces what is stored, also when it is empty.
WithPin_Replaces(p, fingerprint) == Saving(p, fingerprint)

\* An empty servercert leaves the stored one alone.
WithPin(p, fingerprint) ==
    IF fingerprint = None /\ p \in DOMAIN stored THEN stored
    ELSE Saving(p, fingerprint)

\* save_profile; without an id the profile is a new one.
AnswerSave ==
    /\ Answer("save")
    /\ LET c == Head(calls) IN
       IF c.profile = "new"
       THEN \E p \in unused : stored' = WithPin(p, None) /\ unused' = unused \ {p}
       ELSE stored' = WithPin(c.profile, c.fingerprint) /\ UNCHANGED unused
    /\ Post([kind |-> "saved", by |-> IF Head(calls).fingerprint = None
                                     THEN "page" ELSE "dialog"])
    /\ UNCHANGED <<guiVars, worker, tunnel, accepted, clicks>>

AnswerDelete ==
    /\ Answer("delete")
    /\ stored' = [p \in DOMAIN stored \ {Head(calls).profile} |-> stored[p]]
    /\ Post([kind |-> "deleted"])
    /\ UNCHANGED <<guiVars, worker, tunnel, unused, accepted, clicks>>

AnswerList ==
    /\ Answer("list")
    /\ Post([kind |-> "list", profiles |-> stored])
    /\ UNCHANGED <<guiVars, pyVars, accepted, clicks>>

Python ==
    \/ AnswerConnect \/ AnswerDisconnect \/ AnswerStatus
    \/ AnswerSave \/ AnswerDelete \/ AnswerList
-----------------------------------------------------------------------------
(* The worker thread, and the tunnel *)

\* A bug: the event does not name its phase.
Emit_Blank(p) == Post([kind |-> "event", phase |-> "", fingerprint |-> None])

Emit(p) == Post([kind |-> "event", phase |-> p, fingerprint |-> None])
WorkerAt(l) == worker' = [worker EXCEPT !.at = l]
WorkerEnds == worker' = Idle

WorkerBegins ==
    /\ worker.at = "begin"
    /\ Emit("authenticating") /\ WorkerAt("auth")
    /\ UNCHANGED <<guiVars, calls, tunnel, stored, unused, accepted, clicks>>

\* A gateway whose certificate is not pinned may need to be trusted first.
WorkerAuthenticates ==
    /\ worker.at = "auth"
    /\ \/ /\ Emit("starting") /\ WorkerAt("start")
          /\ tunnel' = IF tunnel = "up" THEN "up" ELSE "coming"
       \/ Emit("error") /\ WorkerEnds /\ UNCHANGED tunnel
       \/ /\ worker.pin = None
          /\ Post([kind |-> "event", phase |-> "error",
                   fingerprint |-> worker.profile])
          /\ WorkerEnds /\ UNCHANGED tunnel
    /\ UNCHANGED <<guiVars, calls, stored, unused, accepted, clicks>>

\* A bug: an attempt that fails in its last step says nothing.
WorkerStarts_Silent ==
    /\ worker.at = "start"
    /\ \/ Emit("up") /\ UNCHANGED tunnel
       \/ tunnel' \in {tunnel, "down"} /\ UNCHANGED inbox
    /\ WorkerEnds
    /\ UNCHANGED <<guiVars, calls, stored, unused, accepted, clicks>>

\* _start_tunnel finds a bridge, or terminates the openconnect it started.
WorkerStarts ==
    /\ worker.at = "start"
    /\ \/ Emit("up") /\ UNCHANGED tunnel
       \/ Emit("error") /\ tunnel' \in {tunnel, "down"}
    /\ WorkerEnds
    /\ UNCHANGED <<guiVars, calls, stored, unused, accepted, clicks>>

Worker == WorkerBegins \/ WorkerAuthenticates \/ WorkerStarts

TunnelRises ==
    /\ tunnel = "coming"
    /\ tunnel' = "up"
    /\ UNCHANGED <<guiVars, calls, inbox, worker, stored, unused, accepted, clicks>>

TunnelDies ==
    /\ tunnel # "down"
    /\ tunnel' = "down"
    /\ UNCHANGED <<guiVars, calls, inbox, worker, stored, unused, accepted, clicks>>
-----------------------------------------------------------------------------
(* The GUI thread handles the result or event at the head of its queue *)

Receive(kind) == inbox # <<>> /\ Head(inbox).kind = kind /\ inbox' = Tail(inbox)
Message == Head(inbox)

\* A bug: a refusal is not noticed.
OnConnected_Ignored ==
    /\ Receive("connected")
    /\ UNCHANGED <<guiVars, calls, pyVars, accepted, clicks>>

OnConnected ==
    /\ Receive("connected")
    /\ phase' = IF Message.ok = "no" THEN "error" ELSE phase
    /\ UNCHANGED <<bridge, active, list, page, asking, dialog, calls, pyVars, accepted, clicks>>

OnDisconnected ==
    /\ Receive("disconnected")
    /\ phase' = ""
    /\ Call([op |-> "status"])
    /\ UNCHANGED <<bridge, active, list, page, asking, dialog, pyVars, accepted, clicks>>

\* A bug: a status that is not "up" does not end the phase "up".
OnStatus_NeverDown ==
    /\ Receive("status")
    /\ bridge' = Message.state
    /\ phase' = IF Message.state = "up" /\ ~busy THEN "up" ELSE phase
    /\ UNCHANGED <<active, list, page, asking, dialog, calls, pyVars, accepted, clicks>>

OnStatus ==
    /\ Receive("status")
    /\ bridge' = Message.state
    /\ phase' = CASE Message.state = "up" /\ ~busy -> "up"
                  [] Message.state # "up" /\ phase = "up" -> ""
                  [] OTHER -> phase
    /\ UNCHANGED <<active, list, page, asking, dialog, calls, pyVars, accepted, clicks>>

\* A bug: the list is not refreshed.
OnSaved_NoRefresh ==
    /\ Receive("saved")
    /\ IF Message.by = "dialog" THEN dialog' = NoDialogOpen /\ UNCHANGED page
                               ELSE page' = None /\ UNCHANGED dialog
    /\ UNCHANGED <<phase, bridge, active, list, asking, calls, pyVars, accepted,
                   clicks>>

\* saveProfile's callback: the list is refreshed, and what sent it closes.
OnSaved ==
    /\ Receive("saved")
    /\ Call([op |-> "list"])
    /\ IF Message.by = "dialog" THEN dialog' = NoDialogOpen /\ UNCHANGED page
                               ELSE page' = None /\ UNCHANGED dialog
    /\ UNCHANGED <<phase, bridge, active, list, asking, pyVars, accepted, clicks>>

OnDeleted ==
    /\ Receive("deleted")
    /\ Call([op |-> "list"])
    /\ UNCHANGED <<guiVars, pyVars, accepted, clicks>>

OnList ==
    /\ Receive("list")
    /\ list' = Message.profiles
    /\ UNCHANGED <<phase, bridge, active, page, asking, dialog, calls, pyVars,
                   accepted, clicks>>

\* connect_state; the fingerprint is taken to be the active profile's.
OnEvent ==
    /\ Receive("event")
    /\ phase' = Message.phase
    /\ dialog' = IF Message.fingerprint = None THEN dialog
                 ELSE [profile |-> active, fingerprint |-> Message.fingerprint]
    /\ Call([op |-> "status"])
    /\ UNCHANGED <<bridge, active, list, page, asking, pyVars, accepted, clicks>>

GUI ==
    \/ OnConnected \/ OnDisconnected \/ OnStatus \/ OnEvent
    \/ OnSaved \/ OnDeleted \/ OnList

Next ==
    \/ \E p \in Profiles : ClickProfile(p) \/ ClickDelete(p)
    \/ \E p \in Profiles \cup {"new"} : OpenPage(p)
    \/ ClickSave \/ LeavePage
    \/ ClickPassword \/ ClickDisconnect \/ ClickTrust \/ ClickCancel
    \/ Refresh \/ Python \/ Worker \/ TunnelRises \/ TunnelDies \/ GUI

Spec == Init /\ [][Next]_vars

(***************************************************************************)
(* The threads run and the timer fires; the user and the tunnel's death    *)
(* are not relied on.                                                      *)
(***************************************************************************)
Fairness == WF_vars(Refresh) /\ WF_vars(Python) /\ WF_vars(Worker)
                /\ WF_vars(GUI)

FairSpec == Spec /\ Fairness
-----------------------------------------------------------------------------
Phases == {"", "authenticating", "starting", "up", "error"}
MaybeProfile == Profiles \cup {None}

\* Calls, lists and messages about the profiles known.
CallType(known) ==
    [op : {"status", "disconnect", "list"}]
    \cup [op : {"connect", "delete"}, profile : known]
    \cup [op : {"save"}, profile : known \cup {"new"}, fingerprint : MaybeProfile]
Listing(known) == UNION {[saved -> MaybeProfile] : saved \in SUBSET known}
MessageType(known) ==
    [kind : {"connected", "disconnected"}, ok : {"yes", "no"}]
    \cup [kind : {"saved"}, by : {"page", "dialog"}] \cup [kind : {"deleted"}]
    \cup [kind : {"list"}, profiles : Listing(known)]
    \cup [kind : {"status"}, state : {"down", "up"}]
    \cup [kind : {"event"}, phase : Phases \ {""}, fingerprint : MaybeProfile]

\* The types of the variables.
TypeOK ==
    /\ phase \in Phases /\ bridge \in {"down", "up"}
    /\ active \in MaybeProfile /\ asking \in MaybeProfile
    /\ list \in Listing(Profiles) /\ page \in MaybeProfile \cup {"new"}
    /\ dialog \in [profile : MaybeProfile, fingerprint : MaybeProfile]
    /\ calls \in Seq(CallType(Profiles)) /\ inbox \in Seq(MessageType(Profiles))
    /\ worker \in [profile : MaybeProfile, pin : MaybeProfile,
                   at : {"none", "begin", "auth", "start"}]
    /\ tunnel \in {"down", "coming", "up"}
    /\ stored \in Listing(Profiles) /\ unused \subseteq Profiles \ DOMAIN stored
    /\ accepted \in MaybeProfile /\ clicks \in 0..MaxClicks

\* While the window shows an attempt, and its list is disabled, there is one,
\* or word of it is on its way: no order of clicks, events and results leaves
\* it waiting for nothing (Main.qml:28, 68-78, 147-158).
BusyHasACause ==
    busy => \/ \E i \in 1..Len(calls) : calls[i].op = "connect"
            \/ worker.at # "none"
            \/ \E i \in 1..Len(inbox) :
                  \/ inbox[i].kind = "event"
                  \/ inbox[i].kind = "connected" /\ inbox[i].ok = "no"

\* A tunnel that stays up is shown as up, also one found at startup, and
\* whatever refused attempts and stale answers came in between (Main.qml:88-97).
LastingTunnelIsShown ==
    <>[](tunnel = "up" /\ worker.at = "none") => <>[](tunnelUp /\ phase = "up")

\* With no tunnel and no attempt the list is enabled again (Main.qml:88-97,
\* ProfileListPage.qml:152).
NoTunnelIsShown ==
    <>[](tunnel # "up" /\ worker.at = "none")
        => <>[](~tunnelUp /\ phase \in {"", "error"})

\* A pinned certificate is never forgotten while its profile exists, whatever
\* page or dialog, with however old a copy of the profile, saves it
\* (backend.py:190-192).
PinIsKept ==
    [][\A p \in DOMAIN stored \cap DOMAIN stored' :
            stored[p] # None => stored'[p] # None]_stored

\* The window's list does not stay behind the stored profiles: what a save, a
\* deletion or a trusted certificate changed is shown (Main.qml:43-63).
ListIsRefreshed == <>[](list = stored)
-----------------------------------------------------------------------------
(* What the documents say and the code does not do (README.md) *)

\* "the fingerprint is shown for confirmation and then pinned per profile"
\* (CHANGELOG.md:17-18): what is pinned is what the profile's gateway presents.
PinIsItsGateways == \A p \in DOMAIN stored : stored[p] \in {None, p}

\* The dialog's button says "Trust and connect" (ProfileListPage.qml:248).
TrustConnects == accepted # None ~> worker.profile = accepted
=============================================================================
