------------------------------- MODULE VmList -------------------------------
(***************************************************************************)
(* The window of an open server (VirtualMachineList, ServerWindow and      *)
(* SignalingUTMRemoteClient in src/utmremote/gui.py): the list of virtual  *)
(* machines is filled by listings, which run in the asyncio thread, and    *)
(* kept up to date by what the server reports; both change the list in the *)
(* GTK thread, through AsyncLoop.wrap and the queue of idle callbacks      *)
(* (src/utmremote/asyncglib.py).                                           *)
(*                                                                         *)
(* The wire keeps the order in which the server sends.  The task of a      *)
(* frame from the server runs at once, but a listing whose answer has come *)
(* goes on only when the event loop gets to it: after the tasks of all the *)
(* frames that came in the same chunk.                                     *)
(***************************************************************************)
EXTENDS Naturals, Sequences, FiniteSets, SequencesExt

CONSTANTS VMs,         \* virtual machines of the server
          Stopped,     \* the state UTMVirtualMachineState.stopped
          States,      \* UTMVirtualMachineState
          NoVM,        \* no row is selected
          Listings,    \* runs of _list_vms under way at a time
          First,       \* the one ServerWindow starts with
          MaxChanges   \* bound on what happens at the server

ASSUME StoppedIsAState == Stopped \in States
ASSUME FirstIsAListing == First \in Listings
ASSUME NoVMIsNone == NoVM \notin VMs
ASSUME MaxChangesIsNat == MaxChanges \in Nat

VARIABLES
    state,     \* the state of each virtual machine at the server
    exists,    \* the virtual machines the server has
    changes,   \* how much has happened at the server
    wire,      \* frames the server has sent, in order
    requests,  \* listings that wait for the server, in order
    listing,   \* how far each listing has come
    ids,       \* vm_ids of each listing
    infos,     \* the answer each listing has got
    idle,      \* callbacks queued for the GTK thread
    shown,     \* the rows of the model, as a function from ids to states
    selected,  \* the row selected
    buttons,   \* the sensitive buttons: "none", "start" or "all"
    disorder   \* history: what has got out of order

server == <<state, exists, changes>>
tasks == <<requests, listing, ids, infos>>
window == <<shown, selected, buttons>>
vars == <<server, wire, tasks, idle, window, disorder>>

Rows == UNION {[S -> States] : S \in SUBSET VMs}

Frames ==
    [kind : {"ids"}, to : Listings, vms : SUBSET VMs]
        \cup [kind : {"infos"}, to : Listings, rows : Rows]
        \cup [kind : {"error"}, to : Listings]
        \cup [kind : {"transition"}, vm : VMs, state : States]
        \cup [kind : {"list"}, vms : SUBSET VMs]

\* "answers": the server did not answer requests in the order they came;
\* "chunk": a frame was dealt with while a listing was still to go on.
Disorders == {"answers", "chunk"}

\* asksIds and asksInfos wait for an answer, the others have theirs.
Stages == {"off", "asksIds", "hasIds", "asksInfos", "hasInfos"}

TypeOK ==
    /\ state \in [VMs -> States]
    /\ exists \subseteq VMs
    /\ changes \in 0..MaxChanges
    /\ wire \in Seq(Frames)
    /\ requests \in Seq(Listings)
    /\ listing \in [Listings -> Stages]
    /\ ids \in [Listings -> SUBSET VMs]
    /\ infos \in [Listings -> Rows]
    /\ idle \in Seq(Frames)
    /\ shown \in Rows
    /\ selected \in VMs \cup {NoVM}
    /\ buttons \in {"none", "start", "all"}
    /\ disorder \subseteq Disorders

\* The window has just been opened; its listing is on its way.
Init ==
    /\ state \in [VMs -> States]
    /\ exists \in SUBSET VMs
    /\ changes = 0
    /\ wire = <<>>
    /\ requests = <<First>>
    /\ listing = [l \in Listings |-> IF l = First THEN "asksIds" ELSE "off"]
    /\ ids = [l \in Listings |-> {}]
    /\ infos = [l \in Listings |-> <<>>]
    /\ idle = <<>>
    /\ shown = <<>>
    /\ selected = NoVM
    /\ buttons = "none"
    /\ disorder = {}

-----------------------------------------------------------------------------
(* The server.                                                             *)

Happens ==
    /\ changes < MaxChanges
    /\ changes' = changes + 1
    /\ UNCHANGED <<tasks, idle, window, disorder>>

Transition(v) ==
    /\ Happens
    /\ v \in exists
    /\ \E s \in States \ {state[v]} :
          /\ state' = [state EXCEPT ![v] = s]
          /\ wire' = Append(wire, [kind |-> "transition", vm |-> v, state |-> s])
    /\ UNCHANGED exists

ComeOrGo(v) ==
    /\ Happens
    /\ exists' = (exists \ {v}) \cup ({v} \ exists)
    /\ wire' = Append(wire, [kind |-> "list", vms |-> exists'])
    /\ UNCHANGED state

\* The answer tells how things are when it is sent.
AnswerTo(l) ==
    IF listing[l] = "asksIds" THEN [kind |-> "ids", to |-> l, vms |-> exists]
    ELSE IF ids[l] \subseteq exists
    THEN [kind |-> "infos", to |-> l, rows |-> [v \in ids[l] |-> state[v]]]
    ELSE [kind |-> "error", to |-> l]

ServerAnswers ==
    /\ \E i \in DOMAIN requests :
          /\ disorder' = disorder \cup {d \in {"answers"} : i # 1}
          /\ wire' = Append(wire, AnswerTo(requests[i]))
          /\ requests' = RemoveAt(requests, i)
    /\ UNCHANGED <<server, listing, ids, infos, idle, window>>

-----------------------------------------------------------------------------
(* The asyncio thread.                                                     *)

Ready(l) == listing[l] \in {"hasIds", "hasInfos"}

\* The task of a frame: an answer is put into the future of its listing,
\* a report goes to the GTK thread by way of AsyncLoop.wrap.
FrameArrives ==
    /\ wire # <<>>
    /\ wire' = Tail(wire)
    /\ disorder' = disorder \cup {d \in {"chunk"} : \E l \in Listings : Ready(l)}
    /\ LET f == Head(wire)
       IN  \/ /\ f.kind = "ids"
              /\ listing' = [listing EXCEPT ![f.to] = "hasIds"]
              /\ ids' = [ids EXCEPT ![f.to] = f.vms]
              /\ UNCHANGED <<infos, idle>>
           \/ /\ f.kind = "infos"
              /\ listing' = [listing EXCEPT ![f.to] = "hasInfos"]
              /\ infos' = [infos EXCEPT ![f.to] = f.rows]
              /\ UNCHANGED <<ids, idle>>
           \/ /\ f.kind = "error"
              /\ listing' = [listing EXCEPT ![f.to] = "off"]
              /\ UNCHANGED <<ids, infos, idle>>
           \/ /\ f.kind \in {"transition", "list"}
              /\ idle' = Append(idle, f)
              /\ UNCHANGED <<listing, ids, infos>>
    /\ UNCHANGED <<server, requests, window>>

\* _list_vms goes on after an await.
ListingGoesOn(l) ==
    /\ \/ /\ listing[l] = "hasIds"
          /\ listing' = [listing EXCEPT ![l] = "asksInfos"]
          /\ requests' = Append(requests, l)
          /\ UNCHANGED idle
       \/ /\ listing[l] = "hasInfos"
          /\ listing' = [listing EXCEPT ![l] = "off"]
          /\ idle' = Append(idle, [kind |-> "infos", to |-> l, rows |-> infos[l]])
          /\ UNCHANGED requests
    /\ UNCHANGED <<server, wire, ids, infos, window, disorder>>

-----------------------------------------------------------------------------
(* The GTK thread.                                                         *)

\* Mutant: the buttons stay as they are.
ButtonsLeft(rows, vm) == buttons

\* _selection_changed
ButtonsFor(rows, vm) ==
    IF vm = NoVM THEN "none" ELSE IF rows[vm] = Stopped THEN "start" ELSE "all"

\* Mutant: the id is written where the state belongs.
ReportedId(v, s) == [w \in DOMAIN shown |-> IF w = v THEN v ELSE shown[w]]

\* Mutant: only the selected row is kept up to date.
ReportedSelected(v, s) ==
    [w \in DOMAIN shown |-> IF w = v /\ v = selected THEN s ELSE shown[w]]

\* vm_did_transition changes a row that is there.
Reported(v, s) == [w \in DOMAIN shown |-> IF w = v THEN s ELSE shown[w]]

\* The model is cleared and filled anew; clearing drops the selection.
ShowInfos(rows) ==
    /\ shown' = rows
    /\ selected' = NoVM
    /\ buttons' = ButtonsFor(rows, NoVM)
    /\ UNCHANGED tasks

ShowTransition(v, s) ==
    /\ shown' = Reported(v, s)
    /\ buttons' = ButtonsFor(shown', selected)
    /\ UNCHANGED <<tasks, selected>>

\* A new listing starts, with the ids that came with the report.
ListChanged(vms) ==
    /\ \E l \in Listings :
          /\ listing[l] = "off"
          /\ listing' = [listing EXCEPT ![l] = "asksInfos"]
          /\ ids' = [ids EXCEPT ![l] = vms]
          /\ requests' = Append(requests, l)
    /\ buttons' = ButtonsFor(shown, selected)
    /\ UNCHANGED <<infos, shown, selected>>

IdleCallback ==
    /\ idle # <<>>
    /\ idle' = Tail(idle)
    /\ LET f == Head(idle)
       IN  \/ f.kind = "infos" /\ ShowInfos(f.rows)
           \/ f.kind = "transition" /\ ShowTransition(f.vm, f.state)
           \/ f.kind = "list" /\ ListChanged(f.vms)
    /\ UNCHANGED <<server, wire, disorder>>

Select ==
    /\ \E v \in DOMAIN shown :
          /\ selected' = v
          /\ buttons' = ButtonsFor(shown, v)
    /\ UNCHANGED <<server, wire, tasks, idle, shown, disorder>>

Next ==
    \/ \E v \in VMs : Transition(v) \/ ComeOrGo(v)
    \/ ServerAnswers
    \/ FrameArrives
    \/ \E l \in Listings : ListingGoesOn(l)
    \/ IdleCallback
    \/ Select

Spec == Init /\ [][Next]_vars

-----------------------------------------------------------------------------
(* Properties.                                                             *)

\* The buttons fit the selected row: it is listed, and what they offer is
\* what its state, as last reported or listed, allows.
ButtonsFit ==
    /\ selected \in DOMAIN shown \cup {NoVM}
    /\ buttons = IF selected = NoVM THEN "none"
                 ELSE IF shown[selected] = Stopped THEN "start" ELSE "all"

\* Nothing is on its way to the window any more.
Quiet ==
    /\ wire = <<>> /\ requests = <<>> /\ idle = <<>>
    /\ \A l \in Listings : listing[l] = "off"

\* When all that the server said has been dealt with, in the order it said
\* it and in the order it was asked, the window shows the virtual machines
\* the server has, in the states they are in.
ShowsTheTruth ==
    Quiet /\ disorder = {} => shown = [v \in exists |-> state[v]]
=============================================================================
