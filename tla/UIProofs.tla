------------------------------ MODULE UIProofs ------------------------------
(***************************************************************************)
(* For any profiles, any number of clicks and any order of calls, results  *)
(* and events: the window waits only for what will come, and no pinned     *)
(* certificate is forgotten.                                               *)
(***************************************************************************)
EXTENDS UI, TLAPS

\* The profiles that have been saved at some time.
Known == Profiles \ unused

\* Nothing, in the window, in the calls or in the messages on their way, is
\* about a profile that does not exist yet: so none of them can save one under
\* an id that is given out later.
GivenOut ==
    /\ stored \in Listing(Known) /\ list \in Listing(Known)
    /\ active \in Known \cup {None} /\ asking \in Known \cup {None}
    /\ page \in Known \cup {None, "new"}
    /\ dialog \in [profile : Known \cup {None}, fingerprint : MaybeProfile]
    /\ calls \in Seq(CallType(Known)) /\ inbox \in Seq(MessageType(Known))

Rest ==
    /\ phase \in Phases /\ bridge \in {"down", "up"}
    /\ worker \in [profile : MaybeProfile, pin : MaybeProfile,
                   at : {"none", "begin", "auth", "start"}]
    /\ tunnel \in {"down", "coming", "up"}
    /\ unused \subseteq Profiles
    /\ accepted \in MaybeProfile /\ clicks \in 0..MaxClicks

\* The last event on its way says how the attempt ended, unless it still runs.
LastWord ==
    \A i \in 1..Len(inbox) :
        inbox[i].kind = "event" /\ inbox[i].phase \in {"authenticating", "starting"}
            => \/ worker.at # "none"
               \/ \E j \in (i + 1)..Len(inbox) : inbox[j].kind = "event"

IInv == GivenOut /\ Rest /\ LastWord /\ BusyHasACause
-----------------------------------------------------------------------------
(* Calls, messages and lists *)

LEMMA SeqMono ==
  ASSUME NEW S, NEW T, S \subseteq T, NEW q \in Seq(S)
  PROVE  q \in Seq(T)
<1>1. Len(q) \in Nat /\ \A n \in 1..Len(q) : q[n] \in T
  OBVIOUS
<1>2. q = [n \in 1..Len(q) |-> q[n]]
  OBVIOUS
<1>3. QED
  BY <1>1, <1>2

\* A queue: what is put at its end and what is taken from its head.
LEMMA Queue ==
  ASSUME NEW S, NEW q \in Seq(S)
  PROVE  /\ \A e \in S : Append(q, e) \in Seq(S)
         /\ q # <<>> => Head(q) \in S /\ Tail(q) \in Seq(S)
OBVIOUS

\* The calls there are.
LEMMA CallFacts ==
  ASSUME NEW K
  PROVE  /\ \A o \in {"status", "disconnect", "list"} : [op |-> o] \in CallType(K)
         /\ \A o \in {"connect", "delete"}, p \in K :
               [op |-> o, profile |-> p] \in CallType(K)
         /\ \A p \in K \cup {"new"}, f \in MaybeProfile :
               [op |-> "save", profile |-> p, fingerprint |-> f] \in CallType(K)
         /\ \A c \in CallType(K) :
               /\ c.op \in {"connect", "delete"} => c.profile \in K
               /\ c.op = "save" => /\ c.profile \in K \cup {"new"}
                                   /\ c.fingerprint \in MaybeProfile
BY DEF CallType

\* The messages there are.
LEMMA MessageFacts ==
  ASSUME NEW K
  PROVE  /\ \A k \in {"connected", "disconnected"}, o \in {"yes", "no"} :
               [kind |-> k, ok |-> o] \in MessageType(K)
         /\ \A b \in {"page", "dialog"} : [kind |-> "saved", by |-> b] \in MessageType(K)
         /\ [kind |-> "deleted"] \in MessageType(K)
         /\ \A l \in Listing(K) : [kind |-> "list", profiles |-> l] \in MessageType(K)
         /\ \A t \in {"down", "up"} : [kind |-> "status", state |-> t] \in MessageType(K)
         /\ \A h \in Phases \ {""}, f \in MaybeProfile :
               [kind |-> "event", phase |-> h, fingerprint |-> f] \in MessageType(K)
         /\ \A m \in MessageType(K) :
               /\ m.kind = "list" => m.profiles \in Listing(K)
               /\ m.kind = "status" => m.state \in {"down", "up"}
               /\ m.kind = "event" => /\ m.phase \in Phases \ {""}
                                      /\ m.fingerprint \in MaybeProfile
BY DEF MessageType

\* What is about known profiles stays so when more are known.
LEMMA Grows ==
  ASSUME NEW K, NEW L, K \subseteq L
  PROVE  /\ Listing(K) \subseteq Listing(L)
         /\ CallType(K) \subseteq CallType(L)
         /\ MessageType(K) \subseteq MessageType(L)
<1>1. Listing(K) \subseteq Listing(L)
  BY DEF Listing
<1>2. CallType(K) \subseteq CallType(L)
  BY DEF CallType
<1>3. MessageType(K) \subseteq MessageType(L)
  BY <1>1 DEF MessageType
<1>4. QED
  BY <1>1, <1>2, <1>3

LEMMA ListingFacts ==
  ASSUME NEW K, NEW l \in Listing(K)
  PROVE  /\ DOMAIN l \subseteq K /\ \A p \in DOMAIN l : l[p] \in MaybeProfile
         /\ \A p \in K, f \in MaybeProfile :
               [q \in DOMAIN l \cup {p} |-> IF q = p THEN f ELSE l[q]] \in Listing(K)
         /\ \A p : [o \in DOMAIN l \ {p} |-> l[o]] \in Listing(K)
<1>1. PICK d \in SUBSET K : l \in [d -> MaybeProfile]
  BY DEF Listing
<1>2. ASSUME NEW p \in K, NEW f \in MaybeProfile
      PROVE  [q \in DOMAIN l \cup {p} |-> IF q = p THEN f ELSE l[q]] \in Listing(K)
  <2>1. [q \in DOMAIN l \cup {p} |-> IF q = p THEN f ELSE l[q]]
          \in [d \cup {p} -> MaybeProfile]
    BY <1>1
  <2>2. d \cup {p} \in SUBSET K
    OBVIOUS
  <2>3. QED
    BY <2>1, <2>2 DEF Listing
<1>3. ASSUME NEW p
      PROVE  [o \in DOMAIN l \ {p} |-> l[o]] \in Listing(K)
  <2>1. [o \in DOMAIN l \ {p} |-> l[o]] \in [d \ {p} -> MaybeProfile]
    BY <1>1
  <2>2. QED
    BY <2>1 DEF Listing
<1>4. QED
  BY <1>1, <1>2, <1>3

LEMMA WithPinType ==
  ASSUME NEW K, stored \in Listing(K), NEW p \in K, NEW f \in MaybeProfile
  PROVE  WithPin(p, f) \in Listing(K)
<1>1. Saving(p, f) \in Listing(K)
  BY ListingFacts DEF Saving
<1>2. QED
  BY <1>1 DEF WithPin
-----------------------------------------------------------------------------
(* Types *)

\* What may be called and posted, and what is answered and handled.
LEMMA Queues ==
  ASSUME GivenOut
  PROVE  /\ \A c \in CallType(Known) : Append(calls, c) \in Seq(CallType(Known))
         /\ \A m \in MessageType(Known) : Append(inbox, m) \in Seq(MessageType(Known))
         /\ calls # <<>> => /\ Head(calls) \in CallType(Known)
                            /\ Tail(calls) \in Seq(CallType(Known))
         /\ inbox # <<>> => /\ Head(inbox) \in MessageType(Known)
                            /\ Tail(inbox) \in Seq(MessageType(Known))
BY Queue DEF GivenOut

LEMMA InitTypes == Init => GivenOut /\ Rest
<1> SUFFICES ASSUME Init
             PROVE  GivenOut /\ Rest
  OBVIOUS
<1>1. Known = Saved
  BY ConstantsAssumption DEF Init, Known
<1>2. stored \in Listing(Known) /\ list \in Listing(Known)
  <2>1. stored \in [Saved -> MaybeProfile]
    BY DEF Init, MaybeProfile
  <2>2. <<>> \in [{} -> MaybeProfile]
    <3>1. <<>> \in [1..0 -> MaybeProfile] /\ 1..0 = {}
      OBVIOUS
    <3>2. QED
      BY <3>1
  <2>3. {} \in SUBSET Known /\ Saved \in SUBSET Known
    BY <1>1
  <2>4. <<>> \in Listing(Known) /\ stored \in Listing(Known)
    BY <2>1, <2>2, <2>3 DEF Listing
  <2>5. QED
    BY <2>4 DEF Init
<1>3. calls \in Seq(CallType(Known)) /\ inbox \in Seq(MessageType(Known))
  <2>1. \A c, d \in CallType(Known) : <<c, d>> \in Seq(CallType(Known))
    OBVIOUS
  <2>2. [op |-> "list"] \in CallType(Known) /\ [op |-> "status"] \in CallType(Known)
    BY CallFacts
  <2>3. <<>> \in Seq(MessageType(Known))
    OBVIOUS
  <2>4. QED
    BY <2>1, <2>2, <2>3 DEF Init
<1>4. GivenOut
  BY <1>2, <1>3 DEF Init, GivenOut, MaybeProfile, NoDialogOpen
<1>5. Rest
  <2>1. worker \in [profile : MaybeProfile, pin : MaybeProfile,
                    at : {"none", "begin", "auth", "start"}]
    BY DEF Init, MaybeProfile, Idle
  <2>2. 0 \in 0..MaxClicks /\ Profiles \ Saved \subseteq Profiles
    BY ConstantsAssumption
  <2>3. QED
    BY <2>1, <2>2 DEF Init, Rest, Phases, MaybeProfile
<1>6. QED
  BY <1>4, <1>5

\* Only a save gives out an id.
LEMMA UserTypes ==
  ASSUME GivenOut, Rest,
         \/ \E p \in Profiles : ClickProfile(p) \/ ClickDelete(p)
         \/ \E p \in Profiles \cup {"new"} : OpenPage(p)
         \/ ClickSave \/ LeavePage \/ ClickPassword \/ ClickDisconnect
         \/ ClickTrust \/ ClickCancel \/ Refresh
  PROVE  GivenOut' /\ Rest'
<1>1. unused' = unused /\ Known' = Known
  BY DEF ClickProfile, ClickDelete, OpenPage, ClickSave, LeavePage, ClickPassword,
         ClickDisconnect, ClickTrust, ClickCancel, Refresh, Known, pyVars
<1>2. clicks' \in 0..MaxClicks
  <2>1. clicks' = clicks \/ (clicks < MaxClicks /\ clicks' = clicks + 1)
    BY DEF ClickProfile, ClickDelete, OpenPage, ClickSave, LeavePage, ClickPassword,
           ClickDisconnect, ClickTrust, ClickCancel, Refresh, Click
  <2>2. clicks \in 0..MaxClicks
    BY DEF Rest
  <2>3. QED
    BY <2>1, <2>2, ConstantsAssumption
<1>3. DOMAIN list \subseteq Known /\ \A p \in DOMAIN list : list[p] \in MaybeProfile
  BY ListingFacts DEF GivenOut
<1> USE DEF GivenOut, Rest, guiVars, pyVars, Call, Phases
<1>4. ASSUME NEW p \in Profiles, ClickProfile(p)
      PROVE  GivenOut' /\ Rest'
  <2>1. p \in Known /\ Append(calls, [op |-> "connect", profile |-> p]) \in Seq(CallType(Known))
    BY <1>3, <1>4, CallFacts, Queues DEF ClickProfile
  <2>2. QED
    BY <1>1, <1>2, <1>4, <2>1 DEF ClickProfile, Connect
<1>5. ASSUME NEW p \in Profiles, ClickDelete(p)
      PROVE  GivenOut' /\ Rest'
  <2>1. Append(calls, [op |-> "delete", profile |-> p]) \in Seq(CallType(Known))
    BY <1>3, <1>5, CallFacts, Queues DEF ClickDelete
  <2>2. QED
    BY <1>1, <1>2, <1>5, <2>1 DEF ClickDelete
<1>6. ASSUME NEW p \in Profiles \cup {"new"}, OpenPage(p)
      PROVE  GivenOut' /\ Rest'
  BY <1>1, <1>2, <1>3, <1>6 DEF OpenPage
<1>7. CASE ClickSave
  <2>1. page \in Known \cup {"new"} /\ None \in MaybeProfile
    BY <1>7 DEF ClickSave, MaybeProfile
  <2>2. Append(calls, [op |-> "save", profile |-> page, fingerprint |-> None])
          \in Seq(CallType(Known))
    BY <2>1, CallFacts, Queues
  <2>3. QED
    BY <1>1, <1>2, <1>7, <2>2 DEF ClickSave
<1>8. CASE ClickPassword
  <2>1. Append(calls, [op |-> "connect", profile |-> asking]) \in Seq(CallType(Known))
    BY <1>8, CallFacts, Queues DEF ClickPassword
  <2>2. QED
    BY <1>1, <1>2, <1>8, <2>1 DEF ClickPassword, Connect
<1>9. CASE ClickDisconnect \/ Refresh
  <2>1. /\ Append(calls, [op |-> "disconnect"]) \in Seq(CallType(Known))
        /\ Append(calls, [op |-> "status"]) \in Seq(CallType(Known))
    BY CallFacts, Queues
  <2>2. QED
    BY <1>1, <1>2, <1>9, <2>1 DEF ClickDisconnect, Refresh
<1>10. NoDialogOpen \in [profile : Known \cup {None}, fingerprint : MaybeProfile]
  BY DEF NoDialogOpen, MaybeProfile
<1>11. CASE ClickTrust
  <2>1. dialog.profile \in Known /\ dialog.profile \in MaybeProfile /\ dialog.fingerprint \in MaybeProfile
    BY <1>11 DEF ClickTrust, Known, MaybeProfile
  <2>2. Append(calls, [op |-> "save", profile |-> dialog.profile,
                       fingerprint |-> dialog.fingerprint]) \in Seq(CallType(Known))
    BY <2>1, CallFacts, Queues
  <2>3. QED
    BY <1>1, <1>2, <1>10, <1>11, <2>1, <2>2 DEF ClickTrust, CloseDialog
<1>12. CASE LeavePage \/ ClickCancel
  BY <1>1, <1>2, <1>10, <1>12 DEF LeavePage, ClickCancel, CloseDialog
<1>13. QED
  BY <1>4, <1>5, <1>6, <1>7, <1>8, <1>9, <1>11, <1>12

LEMMA PythonTypes ==
  ASSUME GivenOut, Rest, Python
  PROVE  GivenOut' /\ Rest'
<1> USE DEF GivenOut, Rest, guiVars, Post, Result, Answer
<1>1. unused' = unused => Known' = Known
  BY DEF Known
<1>2. CASE AnswerConnect
  <2>1. \A o \in {"yes", "no"} :
           Append(inbox, [kind |-> "connected", ok |-> o]) \in Seq(MessageType(Known))
    BY MessageFacts, Queues
  <2>2. Head(calls).profile \in Known /\ Tail(calls) \in Seq(CallType(Known))
    BY <1>2, CallFacts, Queues DEF AnswerConnect
  <2>3. \A p \in DOMAIN stored : stored[p] \in MaybeProfile
    BY ListingFacts
  <2>4. worker' = worker \/ worker' \in [profile : MaybeProfile, pin : MaybeProfile,
                                        at : {"begin"}]
    BY <1>2, <2>2, <2>3 DEF AnswerConnect, Known, MaybeProfile
  <2>5. inbox' \in Seq(MessageType(Known))
    BY <1>2, <2>1 DEF AnswerConnect
  <2>6. QED
    BY <1>1, <1>2, <2>2, <2>4, <2>5 DEF AnswerConnect
<1>3. CASE AnswerDisconnect \/ AnswerStatus \/ AnswerList
  <2>1. /\ Append(inbox, [kind |-> "disconnected", ok |-> "yes"]) \in Seq(MessageType(Known))
        /\ \A t \in {"down", "up"} :
              Append(inbox, [kind |-> "status", state |-> t]) \in Seq(MessageType(Known))
        /\ Append(inbox, [kind |-> "list", profiles |-> stored]) \in Seq(MessageType(Known))
    BY MessageFacts, Queues
  <2>2. Tail(calls) \in Seq(CallType(Known))
    BY <1>3, Queues DEF AnswerDisconnect, AnswerStatus, AnswerList
  <2>3. QED
    BY <1>1, <1>3, <2>1, <2>2 DEF AnswerDisconnect, AnswerStatus, AnswerList, pyVars
<1>4. CASE AnswerDelete
  <2>1. Append(inbox, [kind |-> "deleted"]) \in Seq(MessageType(Known))
    BY MessageFacts, Queues
  <2>2. Tail(calls) \in Seq(CallType(Known))
    BY <1>4, Queues DEF AnswerDelete
  <2>3. stored' \in Listing(Known)
    BY <1>4, ListingFacts DEF AnswerDelete
  <2>4. QED
    BY <1>1, <1>4, <2>1, <2>2, <2>3 DEF AnswerDelete
<1>5. CASE AnswerSave
  <2>1. /\ Head(calls).profile \in Known \cup {"new"}
        /\ Head(calls).fingerprint \in MaybeProfile
        /\ Tail(calls) \in Seq(CallType(Known))
    BY <1>5, CallFacts, Queues DEF AnswerSave
  <2>2. inbox' \in Seq(MessageType(Known))
    BY <1>5, MessageFacts, Queues DEF AnswerSave
  <2>4. CASE Head(calls).profile # "new"
    <3>1. stored' \in Listing(Known)
      BY <1>5, <2>1, <2>4, WithPinType DEF AnswerSave
    <3>2. QED
      BY <1>1, <1>5, <2>1, <2>2, <2>4, <3>1 DEF AnswerSave
  <2>5. CASE Head(calls).profile = "new"
    <3>1. PICK p \in unused : stored' = WithPin(p, None) /\ unused' = unused \ {p}
      BY <1>5, <2>5 DEF AnswerSave
    <3>2. Known \subseteq Known' /\ p \in Known' /\ unused' \subseteq Profiles
      BY <3>1 DEF Known
    <3>3. /\ Listing(Known) \subseteq Listing(Known')
          /\ CallType(Known) \subseteq CallType(Known')
          /\ MessageType(Known) \subseteq MessageType(Known')
      BY <3>2, Grows
    <3>4. stored' \in Listing(Known')
      <4>1. stored \in Listing(Known') /\ None \in MaybeProfile
        BY <3>3 DEF MaybeProfile
      <4>2. QED
        BY <3>1, <3>2, <4>1, WithPinType
    <3>5. calls' \in Seq(CallType(Known')) /\ inbox' \in Seq(MessageType(Known'))
      <4>1. calls' = Tail(calls)
        BY <1>5 DEF AnswerSave
      <4>2. QED
        BY <2>1, <2>2, <3>3, <4>1, SeqMono
    <3>6. list' \in Listing(Known')
      BY <1>5, <3>3 DEF AnswerSave
    <3>7. UNCHANGED <<guiVars, worker, tunnel, accepted, clicks>>
      BY <1>5 DEF AnswerSave
    <3>8. QED
      BY <3>2, <3>4, <3>5, <3>6, <3>7
  <2>6. QED
    BY <2>4, <2>5
<1>6. QED
  BY <1>2, <1>3, <1>4, <1>5 DEF Python

LEMMA WorkerTypes ==
  ASSUME GivenOut, Rest, Worker \/ TunnelRises \/ TunnelDies
  PROVE  GivenOut' /\ Rest'
<1> USE DEF GivenOut, Rest, guiVars, Post, Emit, WorkerAt, WorkerEnds
<1>1. unused' = unused /\ Known' = Known
  BY DEF Worker, WorkerBegins, WorkerAuthenticates, WorkerStarts, TunnelRises,
         TunnelDies, Known
<1>2. \A h \in Phases \ {""}, f \in MaybeProfile :
         Append(inbox, [kind |-> "event", phase |-> h, fingerprint |-> f])
           \in Seq(MessageType(Known))
  BY MessageFacts, Queues
<1>3. None \in MaybeProfile /\ {"authenticating", "starting", "up", "error"} \subseteq Phases \ {""}
  BY DEF MaybeProfile, Phases
<1>4. inbox' \in Seq(MessageType(Known))
  <2>1. /\ Append(inbox, [kind |-> "event", phase |-> "authenticating",
                         fingerprint |-> None]) \in Seq(MessageType(Known))
        /\ Append(inbox, [kind |-> "event", phase |-> "starting",
                         fingerprint |-> None]) \in Seq(MessageType(Known))
        /\ Append(inbox, [kind |-> "event", phase |-> "up",
                         fingerprint |-> None]) \in Seq(MessageType(Known))
        /\ \A f \in MaybeProfile :
              Append(inbox, [kind |-> "event", phase |-> "error",
                             fingerprint |-> f]) \in Seq(MessageType(Known))
    BY <1>2, <1>3
  <2>2. CASE WorkerBegins
    BY <2>1, <2>2 DEF WorkerBegins
  <2>3. CASE WorkerAuthenticates
    <3>1. worker.profile \in MaybeProfile
      OBVIOUS
    <3>2. QED
      BY <1>3, <2>1, <2>3, <3>1 DEF WorkerAuthenticates
  <2>4. CASE WorkerStarts
    BY <1>3, <2>1, <2>4 DEF WorkerStarts
  <2>5. CASE TunnelRises \/ TunnelDies
    BY <2>5 DEF TunnelRises, TunnelDies
  <2>6. QED
    BY <2>2, <2>3, <2>4, <2>5 DEF Worker
<1>5. worker' \in [profile : MaybeProfile, pin : MaybeProfile,
                   at : {"none", "begin", "auth", "start"}]
  BY <1>3 DEF Worker, WorkerBegins, WorkerAuthenticates, WorkerStarts, TunnelRises,
              TunnelDies, Idle
<1>6. tunnel' \in {"down", "coming", "up"}
  BY DEF Worker, WorkerBegins, WorkerAuthenticates, WorkerStarts, TunnelRises,
         TunnelDies
<1>7. UNCHANGED <<guiVars, calls, stored, accepted, clicks>>
  BY DEF Worker, WorkerBegins, WorkerAuthenticates, WorkerStarts, TunnelRises,
         TunnelDies
<1>8. QED
  BY <1>1, <1>4, <1>5, <1>6, <1>7

LEMMA GUITypes ==
  ASSUME GivenOut, Rest, GUI
  PROVE  GivenOut' /\ Rest'
<1> USE DEF GivenOut, Rest, Receive, Call, Message, pyVars
<1>1. unused' = unused /\ Known' = Known
  BY DEF GUI, OnConnected, OnDisconnected, OnStatus, OnSaved, OnDeleted, OnList,
         OnEvent, Known
<1>2. inbox # <<>> /\ inbox' = Tail(inbox)
  BY DEF GUI, OnConnected, OnDisconnected, OnStatus, OnSaved, OnDeleted, OnList,
         OnEvent
<1>3. Head(inbox) \in MessageType(Known) /\ inbox' \in Seq(MessageType(Known))
  BY <1>2, Queues
<1>4. /\ Append(calls, [op |-> "status"]) \in Seq(CallType(Known))
      /\ Append(calls, [op |-> "list"]) \in Seq(CallType(Known))
  BY CallFacts, Queues
<1>5. NoDialogOpen \in [profile : Known \cup {None}, fingerprint : MaybeProfile]
  BY DEF NoDialogOpen, MaybeProfile
<1>6. CASE OnConnected \/ OnDisconnected \/ OnDeleted
  BY <1>1, <1>3, <1>4, <1>6
  DEF OnConnected, OnDisconnected, OnDeleted, guiVars, Phases
<1>7. CASE OnStatus
  <2>1. Head(inbox).state \in {"down", "up"}
    BY <1>3, <1>7, MessageFacts DEF OnStatus
  <2>2. QED
    BY <1>1, <1>3, <1>7, <2>1 DEF OnStatus, Phases
<1>8. CASE OnSaved
  BY <1>1, <1>3, <1>4, <1>5, <1>8 DEF OnSaved
<1>9. CASE OnList
  <2>1. Head(inbox).profiles \in Listing(Known)
    BY <1>3, <1>9, MessageFacts DEF OnList
  <2>2. QED
    BY <1>1, <1>3, <1>9, <2>1 DEF OnList
<1>10. CASE OnEvent
  <2>1. Head(inbox).phase \in Phases /\ Head(inbox).fingerprint \in MaybeProfile
    BY <1>3, <1>10, MessageFacts DEF OnEvent
  <2>2. QED
    BY <1>1, <1>3, <1>4, <1>10, <2>1 DEF OnEvent
<1>11. QED
  BY <1>6, <1>7, <1>8, <1>9, <1>10 DEF GUI

LEMMA StepTypes == GivenOut /\ Rest /\ [Next]_vars => GivenOut' /\ Rest'
<1>1. ASSUME GivenOut, Rest, UNCHANGED vars
      PROVE  GivenOut' /\ Rest'
  BY <1>1 DEF GivenOut, Rest, vars, guiVars, pyVars, Known
<1>2. QED
  BY <1>1, UserTypes, PythonTypes, WorkerTypes, GUITypes DEF Next
-----------------------------------------------------------------------------
(* What the window waits for *)

Asked == \E i \in 1..Len(calls) : calls[i].op = "connect"

\* m ends the wait, or comes from an attempt.
IsWord(m) == m.kind = "event" \/ (m.kind = "connected" /\ m.ok = "no")

WordComes == \E i \in 1..Len(inbox) : IsWord(inbox[i])

LEMMA Cause == BusyHasACause <=> (busy => Asked \/ worker.at # "none" \/ WordComes)
BY DEF BusyHasACause, Asked, WordComes, IsWord

\* The elements of a queue that grows, and of one that is served.
LEMMA QueueElements ==
  ASSUME NEW S, NEW q \in Seq(S)
  PROVE  /\ Len(q) \in Nat
         /\ \A e : /\ Len(Append(q, e)) = Len(q) + 1
                  /\ Append(q, e)[Len(q) + 1] = e
                  /\ \A i \in 1..Len(q) : Append(q, e)[i] = q[i]
         /\ q # <<>> => /\ Len(Tail(q)) = Len(q) - 1 /\ Head(q) = q[1]
                        /\ \A i \in 2..Len(q) : Tail(q)[i - 1] = q[i]
                        /\ \A i \in 1..(Len(q) - 1) : Tail(q)[i] = q[i + 1]
OBVIOUS

LEMMA AskedSteps ==
  ASSUME GivenOut
  PROVE  /\ calls' = calls /\ Asked => Asked'
         /\ \A c : calls' = Append(calls, c) /\ (Asked \/ c.op = "connect") => Asked'
         /\ calls # <<>> /\ calls' = Tail(calls) /\ Asked
               => Asked' \/ Head(calls).op = "connect"
<1>1. calls \in Seq(CallType(Known))
  BY DEF GivenOut
<1>2. calls' = calls /\ Asked => Asked'
  BY DEF Asked
<1>3. ASSUME NEW c, calls' = Append(calls, c),
             Asked \/ c.op = "connect"
      PROVE  Asked'
  <2>1. /\ Len(calls) \in Nat /\ Len(calls') = Len(calls) + 1
        /\ calls'[Len(calls) + 1] = c
        /\ \A i \in 1..Len(calls) : calls'[i] = calls[i]
    BY <1>1, <1>3, QueueElements
  <2>2. QED
    BY <1>3, <2>1 DEF Asked
<1>4. ASSUME calls # <<>>, calls' = Tail(calls), Asked, Head(calls).op # "connect"
      PROVE  Asked'
  <2>1. /\ Len(calls) \in Nat /\ Len(calls') = Len(calls) - 1 /\ Head(calls) = calls[1]
        /\ \A i \in 2..Len(calls) : calls'[i - 1] = calls[i]
    BY <1>1, <1>4, QueueElements
  <2>2. PICK i \in 1..Len(calls) : calls[i].op = "connect"
    BY <1>4 DEF Asked
  <2>3. i \in 2..Len(calls) /\ i - 1 \in 1..Len(calls')
    BY <1>4, <2>1, <2>2
  <2>4. calls'[i - 1].op = "connect"
    BY <2>1, <2>2, <2>3
  <2>5. QED
    BY <2>3, <2>4 DEF Asked
<1>5. QED
  BY <1>2, <1>3, <1>4

LEMMA WordSteps ==
  ASSUME GivenOut
  PROVE  /\ inbox' = inbox /\ WordComes => WordComes'
         /\ \A m : inbox' = Append(inbox, m) /\ (WordComes \/ IsWord(m)) => WordComes'
         /\ inbox # <<>> /\ inbox' = Tail(inbox) /\ WordComes
               => WordComes' \/ IsWord(Head(inbox))
<1>1. inbox \in Seq(MessageType(Known))
  BY DEF GivenOut
<1>2. inbox' = inbox /\ WordComes => WordComes'
  BY DEF WordComes, IsWord
<1>3. ASSUME NEW m, inbox' = Append(inbox, m),
             WordComes \/ IsWord(m)
      PROVE  WordComes'
  <2>1. /\ Len(inbox) \in Nat /\ Len(inbox') = Len(inbox) + 1
        /\ inbox'[Len(inbox) + 1] = m
        /\ \A i \in 1..Len(inbox) : inbox'[i] = inbox[i]
    BY <1>1, <1>3, QueueElements
  <2>2. QED
    BY <1>3, <2>1 DEF WordComes, IsWord
<1>4. ASSUME inbox # <<>>, inbox' = Tail(inbox), WordComes, ~IsWord(Head(inbox))
      PROVE  WordComes'
  <2>1. /\ Len(inbox) \in Nat /\ Len(inbox') = Len(inbox) - 1 /\ Head(inbox) = inbox[1]
        /\ \A i \in 2..Len(inbox) : inbox'[i - 1] = inbox[i]
    BY <1>1, <1>4, QueueElements
  <2>2. PICK i \in 1..Len(inbox) : IsWord(inbox[i])
    BY <1>4 DEF WordComes
  <2>3. i # 1
    BY <1>4, <2>1, <2>2
  <2>4. i \in 2..Len(inbox) /\ i - 1 \in 1..Len(inbox')
    BY <2>1, <2>2, <2>3
  <2>5. IsWord(inbox'[i - 1])
    BY <2>1, <2>2, <2>4
  <2>6. \E j \in 1..Len(inbox') : IsWord(inbox'[j])
    BY <2>4, <2>5
  <2>7. QED
    BY <2>6 DEF WordComes, IsWord
<1>5. QED
  BY <1>2, <1>3, <1>4

BusyPhases == {"authenticating", "starting"}

\* The last word stays said: by messages that are no events, by an event of an
\* attempt that goes on or that says how it ended, and as they are taken.
LEMMA LastWordSteps ==
  ASSUME GivenOut, LastWord
  PROVE  /\ inbox' = inbox /\ (worker.at = "none" \/ worker'.at # "none") => LastWord'
         /\ \A m :
               /\ inbox' = Append(inbox, m)
               /\ IF m.kind = "event" THEN m.phase \notin BusyPhases \/ worker'.at # "none"
                  ELSE worker.at = "none" \/ worker'.at # "none"
               => LastWord'
         /\ inbox # <<>> /\ inbox' = Tail(inbox) /\ worker' = worker => LastWord'
<1>1. inbox \in Seq(MessageType(Known)) /\ Len(inbox) \in Nat
  BY QueueElements DEF GivenOut
<1>2. inbox' = inbox /\ (worker.at = "none" \/ worker'.at # "none") => LastWord'
  BY DEF LastWord
<1>3. ASSUME NEW m, inbox' = Append(inbox, m),
             IF m.kind = "event" THEN m.phase \notin BusyPhases \/ worker'.at # "none"
             ELSE worker.at = "none" \/ worker'.at # "none"
      PROVE  LastWord'
  <2>1. /\ Len(inbox') = Len(inbox) + 1 /\ inbox'[Len(inbox) + 1] = m
        /\ \A i \in 1..Len(inbox) : inbox'[i] = inbox[i]
    BY <1>1, <1>3, QueueElements
  <2>2. SUFFICES ASSUME NEW i \in 1..Len(inbox'), inbox'[i].kind = "event",
                        inbox'[i].phase \in BusyPhases, worker'.at = "none"
                 PROVE  \E j \in (i + 1)..Len(inbox') : inbox'[j].kind = "event"
    BY DEF LastWord, BusyPhases
  <2>3. i \in 1..Len(inbox)
    BY <1>1, <1>3, <2>1, <2>2
  <2>4. CASE m.kind = "event"
    <3>1. Len(inbox) + 1 \in (i + 1)..Len(inbox')
      BY <1>1, <2>1, <2>3
    <3>2. QED
      BY <2>1, <2>4, <3>1
  <2>5. CASE m.kind # "event"
    <3>1. worker.at = "none" /\ inbox[i].kind = "event" /\ inbox[i].phase \in BusyPhases
      BY <1>3, <2>1, <2>2, <2>3, <2>5
    <3>2. PICK j \in (i + 1)..Len(inbox) : inbox[j].kind = "event"
      BY <2>3, <3>1 DEF LastWord, BusyPhases
    <3>3. j \in 1..Len(inbox) /\ j \in (i + 1)..Len(inbox')
      BY <1>1, <2>1, <2>3, <3>2
    <3>4. QED
      BY <2>1, <3>2, <3>3
  <2>6. QED
    BY <2>4, <2>5
<1>4. ASSUME inbox # <<>>, inbox' = Tail(inbox), worker' = worker
      PROVE  LastWord'
  <2>1. /\ Len(inbox') = Len(inbox) - 1
        /\ \A i \in 2..Len(inbox) : inbox'[i - 1] = inbox[i]
        /\ \A i \in 1..(Len(inbox) - 1) : inbox'[i] = inbox[i + 1]
    BY <1>1, <1>4, QueueElements
  <2>2. SUFFICES ASSUME NEW i \in 1..Len(inbox'), inbox'[i].kind = "event",
                        inbox'[i].phase \in BusyPhases, worker'.at = "none"
                 PROVE  \E j \in (i + 1)..Len(inbox') : inbox'[j].kind = "event"
    BY DEF LastWord, BusyPhases
  <2>3. i + 1 \in 1..Len(inbox) /\ inbox'[i] = inbox[i + 1]
    BY <1>1, <2>1
  <2>4. PICK j \in ((i + 1) + 1)..Len(inbox) : inbox[j].kind = "event"
    BY <1>4, <2>2, <2>3 DEF LastWord, BusyPhases
  <2>5. j \in 2..Len(inbox) /\ j - 1 \in (i + 1)..Len(inbox')
    BY <1>1, <2>1, <2>3, <2>4
  <2>6. QED
    BY <2>1, <2>4, <2>5
<1>5. QED
  BY <1>2, <1>3, <1>4

\* The user can only add to what is waited for.
LEMMA UserWaits ==
  ASSUME GivenOut, Rest, LastWord, BusyHasACause,
         \/ \E p \in Profiles : ClickProfile(p) \/ ClickDelete(p)
         \/ \E p \in Profiles \cup {"new"} : OpenPage(p)
         \/ ClickSave \/ LeavePage \/ ClickPassword \/ ClickDisconnect
         \/ ClickTrust \/ ClickCancel \/ Refresh
  PROVE  LastWord' /\ BusyHasACause'
<1>1. inbox' = inbox /\ worker' = worker
  BY DEF ClickProfile, ClickDelete, OpenPage, ClickSave, LeavePage, ClickPassword,
         ClickDisconnect, ClickTrust, ClickCancel, Refresh, pyVars
<1>2. calls' = calls \/ \E c : calls' = Append(calls, c)
  BY DEF ClickProfile, ClickDelete, OpenPage, ClickSave, LeavePage, ClickPassword,
         ClickDisconnect, ClickTrust, ClickCancel, Refresh, Connect, Call
<1>3. LastWord' /\ (WordComes => WordComes') /\ (Asked => Asked')
  BY <1>1, <1>2, LastWordSteps, WordSteps, AskedSteps
<1>4. phase' = phase \/ \E p : calls' = Append(calls, [op |-> "connect", profile |-> p])
  BY DEF ClickProfile, ClickDelete, OpenPage, ClickSave, LeavePage, ClickPassword,
         ClickDisconnect, ClickTrust, ClickCancel, Refresh, Connect, Call,
         CloseDialog, guiVars
<1>5. ASSUME NEW p, calls' = Append(calls, [op |-> "connect", profile |-> p])
      PROVE  Asked'
  BY <1>5, AskedSteps
<1>6. CASE phase' = phase
  <2>1. busy' => Asked \/ worker.at # "none" \/ WordComes
    BY <1>6, Cause DEF busy
  <2>2. busy' => Asked' \/ worker'.at # "none" \/ WordComes'
    BY <1>1, <1>3, <2>1
  <2>3. QED
    BY <1>3, <2>2 DEF BusyHasACause, Asked, WordComes, IsWord
<1>7. CASE Asked'
  BY <1>3, <1>7 DEF BusyHasACause, Asked
<1>8. QED
  BY <1>3, <1>4, <1>5, <1>6, <1>7

\* A call that is answered: the answer to connect is the worker, or a word.
LEMMA PythonWaits ==
  ASSUME GivenOut, Rest, LastWord, BusyHasACause, Python
  PROVE  LastWord' /\ BusyHasACause'
<1> USE DEF Answer, Result, Post
<1>1. /\ calls # <<>> /\ calls' = Tail(calls) /\ phase' = phase
      /\ \/ worker' = worker
         \/ worker.at = "none" /\ worker'.at # "none"
  BY DEF Python, AnswerConnect, AnswerDisconnect, AnswerStatus, AnswerSave,
         AnswerDelete, AnswerList, guiVars, pyVars
<1>2. PICK m : inbox' = Append(inbox, m) /\ m.kind # "event"
  BY DEF Python, AnswerConnect, AnswerDisconnect, AnswerStatus, AnswerSave,
         AnswerDelete, AnswerList
<1>3. LastWord' /\ (WordComes => WordComes')
  BY <1>1, <1>2, LastWordSteps, WordSteps
<1>4. Asked => Asked' \/ Head(calls).op = "connect"
  BY <1>1, AskedSteps
<1>5. CASE Head(calls).op = "connect"
  <2>1. AnswerConnect
    BY <1>5 DEF Python, AnswerDisconnect, AnswerStatus, AnswerSave, AnswerDelete,
                AnswerList
  <2>2. CASE inbox' = Append(inbox, [kind |-> "connected", ok |-> "no"])
    <3>1. WordComes'
      BY <2>2, WordSteps DEF IsWord
    <3>2. QED
      BY <1>3, <3>1 DEF BusyHasACause, WordComes, IsWord
  <2>3. CASE worker'.at # "none"
    BY <1>3, <2>3 DEF BusyHasACause
  <2>4. QED
    BY <2>1, <2>2, <2>3 DEF AnswerConnect
<1>6. CASE Head(calls).op # "connect"
  BY <1>1, <1>3, <1>4, <1>6, Cause DEF BusyHasACause, Asked, WordComes, IsWord, busy
<1>7. QED
  BY <1>5, <1>6

\* An attempt that ends says so in its last event.
LEMMA WorkerWaits ==
  ASSUME GivenOut, Rest, LastWord, BusyHasACause, Worker \/ TunnelRises \/ TunnelDies
  PROVE  LastWord' /\ BusyHasACause'
<1> USE DEF Post, Emit, WorkerAt, WorkerEnds
<1>1. calls' = calls /\ phase' = phase
  BY DEF Worker, WorkerBegins, WorkerAuthenticates, WorkerStarts, TunnelRises,
         TunnelDies, guiVars
<1>2. CASE Worker
  <2>1. PICK h, f : /\ inbox' = Append(inbox, [kind |-> "event", phase |-> h,
                                              fingerprint |-> f])
                    /\ h \notin BusyPhases \/ worker'.at # "none"
    <3>1. CASE WorkerBegins
      <4>1. worker'.at # "none"
        BY <3>1 DEF WorkerBegins, Rest
      <4>2. QED
        BY <3>1, <4>1 DEF WorkerBegins
    <3>2. CASE WorkerAuthenticates
      <4>1. WorkerAt("start") => worker'.at # "none"
        BY DEF Rest
      <4>2. "error" \notin BusyPhases
        BY DEF BusyPhases
      <4>3. QED
        BY <3>2, <4>1, <4>2 DEF WorkerAuthenticates
    <3>3. CASE WorkerStarts
      <4>1. "error" \notin BusyPhases /\ "up" \notin BusyPhases
        BY DEF BusyPhases
      <4>2. QED
        BY <3>3, <4>1 DEF WorkerStarts
    <3>4. QED
      BY <1>2, <3>1, <3>2, <3>3 DEF Worker
  <2>2. LastWord'
    BY <2>1, LastWordSteps
  <2>3. WordComes'
    BY <2>1, WordSteps DEF IsWord
  <2>4. QED
    BY <2>2, <2>3 DEF BusyHasACause, WordComes, IsWord
<1>3. CASE TunnelRises \/ TunnelDies
  <2>1. inbox' = inbox /\ worker' = worker
    BY <1>3 DEF TunnelRises, TunnelDies
  <2>2. LastWord' /\ (WordComes => WordComes') /\ (Asked => Asked')
    BY <1>1, <2>1, LastWordSteps, WordSteps, AskedSteps
  <2>3. QED
    BY <1>1, <2>1, <2>2, Cause DEF BusyHasACause, Asked, WordComes, IsWord, busy
<1>4. QED
  BY <1>2, <1>3

\* A message that is handled: a refusal ends the wait, and after an event that
\* prolongs it there is another one, or the attempt goes on.
LEMMA GUIWaits ==
  ASSUME GivenOut, Rest, LastWord, BusyHasACause, GUI
  PROVE  LastWord' /\ BusyHasACause'
<1> USE DEF Receive, Call, Message
<1>1. /\ inbox # <<>> /\ inbox' = Tail(inbox) /\ worker' = worker
      /\ calls' = calls \/ \E c : calls' = Append(calls, c)
  BY DEF GUI, OnConnected, OnDisconnected, OnStatus, OnSaved, OnDeleted, OnList,
         OnEvent, pyVars
<1>2. LastWord' /\ (Asked => Asked') /\ (WordComes => WordComes' \/ IsWord(Head(inbox)))
  BY <1>1, LastWordSteps, AskedSteps, WordSteps
<1>3. CASE OnEvent
  <2>1. /\ phase' = Head(inbox).phase /\ Head(inbox).kind = "event"
    BY <1>3 DEF OnEvent
  <2>2. CASE phase' \notin BusyPhases
    BY <1>2, <2>2 DEF BusyHasACause, busy, BusyPhases
  <2>3. CASE phase' \in BusyPhases
    <3>1. /\ Len(inbox) \in Nat /\ Len(inbox') = Len(inbox) - 1 /\ Head(inbox) = inbox[1]
          /\ \A i \in 2..Len(inbox) : inbox'[i - 1] = inbox[i]
      BY <1>1, QueueElements DEF GivenOut
    <3>2. 1 \in 1..Len(inbox)
      BY <1>1, Queues, <3>1 DEF GivenOut
    <3>3. worker.at # "none" \/ \E j \in 2..Len(inbox) : inbox[j].kind = "event"
      BY <2>1, <2>3, <3>1, <3>2 DEF LastWord, BusyPhases
    <3>4. ASSUME NEW j \in 2..Len(inbox), inbox[j].kind = "event"
          PROVE  WordComes'
      <4>1. j - 1 \in 1..Len(inbox') /\ inbox'[j - 1].kind = "event"
        BY <3>1, <3>4
      <4>2. QED
        BY <4>1 DEF WordComes, IsWord
    <3>5. worker'.at # "none" \/ WordComes'
      BY <1>1, <3>3, <3>4
    <3>6. QED
      BY <1>2, <3>5 DEF BusyHasACause, WordComes, IsWord
  <2>4. QED
    BY <2>2, <2>3
<1>4. CASE OnConnected /\ Head(inbox).ok = "no"
  <2>1. phase' = "error"
    BY <1>4 DEF OnConnected
  <2>2. QED
    BY <1>2, <2>1 DEF BusyHasACause, busy
<1>5. CASE ~OnEvent /\ ~(OnConnected /\ Head(inbox).ok = "no")
  <2>1. ~IsWord(Head(inbox)) /\ (phase' \in BusyPhases => phase' = phase)
    BY <1>5 DEF GUI, OnConnected, OnDisconnected, OnStatus, OnSaved, OnDeleted,
                OnList, guiVars, IsWord, BusyPhases
  <2>2. QED
    BY <1>1, <1>2, <2>1, Cause DEF BusyHasACause, Asked, WordComes, IsWord, busy,
                                   BusyPhases
<1>6. QED
  BY <1>3, <1>4, <1>5

LEMMA InitIInv == Init => IInv
<1> SUFFICES ASSUME Init
             PROVE  IInv
  OBVIOUS
<1>1. GivenOut /\ Rest
  BY InitTypes
<1>2. Len(inbox) = 0
  BY DEF Init
<1>3. LastWord
  BY <1>2 DEF LastWord
<1>4. BusyHasACause
  BY DEF Init, BusyHasACause, busy
<1>5. QED
  BY <1>1, <1>3, <1>4 DEF IInv

LEMMA StepIInv == IInv /\ [Next]_vars => IInv'
<1> SUFFICES ASSUME IInv, [Next]_vars
             PROVE  IInv'
  OBVIOUS
<1>1. GivenOut /\ Rest /\ LastWord /\ BusyHasACause
  BY DEF IInv
<1>2. GivenOut' /\ Rest'
  BY <1>1, StepTypes
<1>3. CASE UNCHANGED vars
  BY <1>1, <1>3 DEF vars, guiVars, pyVars, LastWord, BusyHasACause, busy, IInv,
                    GivenOut, Rest, Known
<1>4. CASE Next
  BY <1>1, <1>2, <1>4, UserWaits, PythonWaits, WorkerWaits, GUIWaits DEF Next, IInv
<1>5. QED
  BY <1>3, <1>4

LEMMA UIInv == Spec => []IInv
BY InitIInv, StepIInv, PTL DEF Spec
-----------------------------------------------------------------------------
(* The results *)

\* The types of the variables, and an id is given out once: nothing on its way
\* can save a profile under one that a new profile will get.
THEOREM UITypes == Spec => []TypeOK
<1>1. IInv => TypeOK
  <2> SUFFICES ASSUME GivenOut, Rest
               PROVE  TypeOK
    BY DEF IInv
  <2>1. Known \subseteq Profiles /\ Known \cap unused = {}
    BY DEF Known
  <2>2. /\ Listing(Known) \subseteq Listing(Profiles)
        /\ CallType(Known) \subseteq CallType(Profiles)
        /\ MessageType(Known) \subseteq MessageType(Profiles)
    BY <2>1, Grows
  <2>3. calls \in Seq(CallType(Profiles)) /\ inbox \in Seq(MessageType(Profiles))
    BY <2>2, SeqMono DEF GivenOut
  <2>4. DOMAIN stored \subseteq Known
    BY ListingFacts DEF GivenOut
  <2>5. unused \subseteq Profiles \ DOMAIN stored
    BY <2>1, <2>4 DEF Rest
  <2>6. dialog \in [profile : MaybeProfile, fingerprint : MaybeProfile]
    BY <2>1 DEF GivenOut, MaybeProfile
  <2>7. /\ active \in MaybeProfile /\ asking \in MaybeProfile
        /\ page \in MaybeProfile \cup {"new"}
    BY <2>1 DEF GivenOut, MaybeProfile
  <2>8. list \in Listing(Profiles) /\ stored \in Listing(Profiles)
    BY <2>2 DEF GivenOut
  <2>9. QED
    BY <2>3, <2>5, <2>6, <2>7, <2>8 DEF Rest, TypeOK
<1>2. QED
  BY <1>1, UIInv, PTL

\* For any profiles and any clicks, no order of calls, results and events leaves
\* the window busy with nothing to wait for (Main.qml:28, 68-78, 147-158).
THEOREM WindowWaitsForSomething == Spec => []BusyHasACause
<1>1. IInv => BusyHasACause
  BY DEF IInv
<1>2. QED
  BY <1>1, UIInv, PTL

\* No save, by the page or the dialog, with however old a copy of the profile,
\* forgets a certificate that is pinned (backend.py:190-192).
THEOREM PinsAreKept == Spec => PinIsKept
<1>1. [Next]_vars => [\A p \in DOMAIN stored \cap DOMAIN stored' :
                         stored[p] # None => stored'[p] # None]_stored
  <2> SUFFICES ASSUME Next, NEW p \in DOMAIN stored \cap DOMAIN stored',
                      stored[p] # None, stored' # stored
               PROVE  stored'[p] # None
    BY DEF vars, pyVars
  <2>1. AnswerSave \/ AnswerDelete
    BY DEF Next, ClickProfile, ClickDelete, OpenPage, ClickSave, LeavePage,
           ClickPassword, ClickDisconnect, ClickTrust, ClickCancel, Refresh, Python,
           AnswerConnect, AnswerDisconnect, AnswerStatus, AnswerList, Worker,
           WorkerBegins, WorkerAuthenticates, WorkerStarts, TunnelRises, TunnelDies,
           GUI, OnConnected, OnDisconnected, OnStatus, OnSaved, OnDeleted, OnList,
           OnEvent, pyVars
  <2>2. CASE AnswerSave
    <3>1. \E q, f : stored' = WithPin(q, f)
      BY <2>2 DEF AnswerSave
    <3>2. QED
      BY <3>1 DEF WithPin, Saving
  <2>3. CASE AnswerDelete
    BY <2>3 DEF AnswerDelete
  <2>4. QED
    BY <2>1, <2>2, <2>3
<1>2. QED
  BY <1>1, PTL DEF Spec, PinIsKept
=============================================================================
