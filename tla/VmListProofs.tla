---------------------------- MODULE VmListProofs ----------------------------
(***************************************************************************)
(* Safety of VmList for any number of virtual machines and listings.       *)
(*                                                                         *)
(* That the buttons fit is inductive once it is known that what travels,   *)
(* on the wire and to the GTK thread, are frames: what a frame shows is a  *)
(* list of virtual machines, of which none has the name of the empty       *)
(* selection.                                                              *)
(*                                                                         *)
(* That the window ends up showing the truth follows from what is still on *)
(* its way to it.  Stream is that, in the order in which the GTK thread    *)
(* will see it: its own idle callbacks, the answer its listing waits for,  *)
(* and the wire.  As long as nothing has been taken out of order, the last *)
(* frame of the stream that settles the state of a machine tells it as it  *)
(* is, the last news of which machines exist is current, and once there is *)
(* no such news the last request and the last snapshot are of the machines *)
(* that exist (Truth).  An empty stream leaves nothing but the window.     *)
(***************************************************************************)
EXTENDS VmList, SequenceTheorems, TLAPS

\* The rows of some virtual machines, and what such rows are.
LEMMA RowsOf ==
    ASSUME NEW S \in SUBSET VMs, NEW f \in [S -> States] PROVE f \in Rows
BY DEF Rows

LEMMA RowsAre ==
    ASSUME NEW f \in Rows
    PROVE  /\ DOMAIN f \in SUBSET VMs
           /\ f \in [DOMAIN f -> States]
<1>1. PICK S \in SUBSET VMs : f \in [S -> States]
  BY DEF Rows
<1> QED
  BY <1>1

\* The head and the rest of a queue of frames.
LEMMA QueueOfFrames ==
    ASSUME NEW S, NEW q \in Seq(S), q # <<>>
    PROVE  Head(q) \in S /\ Tail(q) \in Seq(S)
BY HeadTailProperties

\* What RemoveAt leaves of a queue is a queue.
LEMMA RemoveAtLeaves ==
    ASSUME NEW S, NEW q \in Seq(S), NEW k \in DOMAIN q
    PROVE  RemoveAt(q, k) \in Seq(S)
BY DEF RemoveAt

-----------------------------------------------------------------------------
(* Types and buttons together.                                             *)

VmListInv == TypeOK /\ ButtonsFit

LEMMA InitVmList == Init => VmListInv
<1> SUFFICES ASSUME Init PROVE VmListInv
  OBVIOUS
<1>1. <<>> \in Rows /\ DOMAIN <<>> = {}
  <2>1. <<>> \in [{} -> States]
    OBVIOUS
  <2> QED
    BY <2>1, RowsOf
<1>2. requests \in Seq(Listings)
  BY FirstIsAListing DEF Init
<1>3. TypeOK
  BY <1>1, <1>2, MaxChangesIsNat DEF Init, TypeOK, Stages
<1>4. ButtonsFit
  BY DEF Init, ButtonsFit
<1> QED
  BY <1>3, <1>4 DEF VmListInv

\* What happens at the server leaves the window alone.
LEMMA HappensKeeps ==
    ASSUME VmListInv, Happens, state' \in [VMs -> States], exists' \subseteq VMs,
           wire' \in Seq(Frames)
    PROVE  VmListInv'
<1>1. changes' \in 0..MaxChanges
  BY MaxChangesIsNat DEF VmListInv, TypeOK, Happens
<1>2. TypeOK'
  BY <1>1 DEF VmListInv, TypeOK, Happens, tasks, window
<1>3. ButtonsFit'
  BY DEF VmListInv, ButtonsFit, Happens, window
<1> QED
  BY <1>2, <1>3 DEF VmListInv

LEMMA TransitionKeeps ==
    ASSUME VmListInv, NEW v \in VMs, Transition(v) PROVE VmListInv'
<1>1. PICK s \in States :
          /\ state' = [state EXCEPT ![v] = s]
          /\ wire' = Append(wire, [kind |-> "transition", vm |-> v, state |-> s])
  BY DEF Transition
<1>2. [kind |-> "transition", vm |-> v, state |-> s] \in Frames
  BY DEF Frames
<1>3. wire' \in Seq(Frames)
  BY <1>1, <1>2 DEF VmListInv, TypeOK
<1>4. state' \in [VMs -> States] /\ exists' \subseteq VMs
  BY DEF VmListInv, TypeOK, Transition
<1> QED
  BY <1>3, <1>4, HappensKeeps DEF Transition

LEMMA ComeOrGoKeeps ==
    ASSUME VmListInv, NEW v \in VMs, ComeOrGo(v) PROVE VmListInv'
<1>1. exists' \subseteq VMs /\ state' \in [VMs -> States]
  BY DEF VmListInv, TypeOK, ComeOrGo
<1>2. [kind |-> "list", vms |-> exists'] \in Frames
  BY <1>1 DEF Frames
<1>3. wire' \in Seq(Frames)
  BY <1>2 DEF VmListInv, TypeOK, ComeOrGo
<1> QED
  BY <1>1, <1>3, HappensKeeps DEF ComeOrGo

\* Whatever a listing has asked for, its answer is a frame.
LEMMA AnswerIsFrame ==
    ASSUME VmListInv, NEW l \in Listings PROVE AnswerTo(l) \in Frames
<1>1. CASE listing[l] = "asksIds"
  <2>1. [kind |-> "ids", to |-> l, vms |-> exists] \in Frames
    BY DEF VmListInv, TypeOK, Frames
  <2> QED
    BY <1>1, <2>1 DEF AnswerTo
<1>2. CASE listing[l] # "asksIds" /\ ids[l] \subseteq exists
  <2>1. [v \in ids[l] |-> state[v]] \in Rows
    <3>1. ids[l] \in SUBSET VMs
      BY DEF VmListInv, TypeOK
    <3>2. [v \in ids[l] |-> state[v]] \in [ids[l] -> States]
      BY DEF VmListInv, TypeOK
    <3> QED
      BY <3>1, <3>2, RowsOf
  <2>2. [kind |-> "infos", to |-> l, rows |-> [v \in ids[l] |-> state[v]]]
            \in Frames
    BY <2>1 DEF Frames
  <2> QED
    BY <1>2, <2>2 DEF AnswerTo
<1>3. CASE listing[l] # "asksIds" /\ ~(ids[l] \subseteq exists)
  <2>1. [kind |-> "error", to |-> l] \in Frames
    BY DEF Frames
  <2> QED
    BY <1>3, <2>1 DEF AnswerTo
<1> QED
  BY <1>1, <1>2, <1>3

LEMMA ServerAnswersKeeps == ASSUME VmListInv, ServerAnswers PROVE VmListInv'
<1>1. PICK i \in DOMAIN requests :
          /\ disorder' = disorder \cup {d \in {"answers"} : i # 1}
          /\ wire' = Append(wire, AnswerTo(requests[i]))
          /\ requests' = RemoveAt(requests, i)
  BY DEF ServerAnswers
<1>2. requests \in Seq(Listings) /\ requests[i] \in Listings
  BY DEF VmListInv, TypeOK
<1>3. wire' \in Seq(Frames)
  BY <1>1, AnswerIsFrame DEF VmListInv, TypeOK
<1>4. requests' \in Seq(Listings)
  BY <1>1, <1>2, RemoveAtLeaves
<1>5. disorder' \subseteq Disorders
  BY <1>1 DEF VmListInv, TypeOK, Disorders
<1>6. TypeOK'
  BY <1>3, <1>4, <1>5 DEF VmListInv, TypeOK, ServerAnswers, server, window
<1>7. ButtonsFit'
  BY DEF VmListInv, ButtonsFit, ServerAnswers, window
<1> QED
  BY <1>6, <1>7 DEF VmListInv

\* What a frame carries, by its kind.
LEMMA FrameHolds ==
    ASSUME NEW f \in Frames
    PROVE  /\ f.kind = "ids" => f.to \in Listings /\ f.vms \in SUBSET VMs
           /\ f.kind = "infos" => f.to \in Listings /\ f.rows \in Rows
           /\ f.kind = "error" => f.to \in Listings
           /\ f.kind = "transition" => f.vm \in VMs /\ f.state \in States
           /\ f.kind = "list" => f.vms \in SUBSET VMs
BY DEF Frames

LEMMA FrameArrivesKeeps == ASSUME VmListInv, FrameArrives PROVE VmListInv'
<1> DEFINE f == Head(wire)
<1>1. f \in Frames /\ wire' \in Seq(Frames)
  BY DEF VmListInv, TypeOK, FrameArrives
<1>2. disorder' \subseteq Disorders
  BY DEF VmListInv, TypeOK, Disorders, FrameArrives
<1>3. /\ listing' \in [Listings -> Stages]
      /\ ids' \in [Listings -> SUBSET VMs]
      /\ infos' \in [Listings -> Rows]
      /\ idle' \in Seq(Frames)
  <2>1. /\ listing \in [Listings -> Stages] /\ ids \in [Listings -> SUBSET VMs]
        /\ infos \in [Listings -> Rows] /\ idle \in Seq(Frames)
    BY DEF VmListInv, TypeOK
  <2>2. {"hasIds", "hasInfos", "off"} \subseteq Stages
    BY DEF Stages
  <2>3. f.kind \in {"ids", "infos", "error", "transition", "list"}
    BY DEF FrameArrives
  <2>4. CASE f.kind = "ids"
    BY <1>1, <2>1, <2>2, <2>4, FrameHolds DEF FrameArrives
  <2>5. CASE f.kind = "infos"
    BY <1>1, <2>1, <2>2, <2>5, FrameHolds DEF FrameArrives
  <2>6. CASE f.kind = "error"
    BY <2>1, <2>2, <2>6 DEF FrameArrives
  <2>7. CASE f.kind \in {"transition", "list"}
    <3>1. /\ idle' = Append(idle, f)
          /\ UNCHANGED <<listing, ids, infos>>
      BY <2>7 DEF FrameArrives
    <3> QED
      BY <1>1, <2>1, <3>1
  <2> QED
    BY <2>3, <2>4, <2>5, <2>6, <2>7
<1>4. TypeOK'
  BY <1>2, <1>3 DEF VmListInv, TypeOK, FrameArrives, server, window
<1>5. ButtonsFit'
  BY DEF VmListInv, ButtonsFit, FrameArrives, window
<1> QED
  BY <1>4, <1>5 DEF VmListInv

LEMMA ListingGoesOnKeeps ==
    ASSUME VmListInv, NEW l \in Listings, ListingGoesOn(l) PROVE VmListInv'
<1>1. listing' \in [Listings -> Stages]
  BY DEF VmListInv, TypeOK, Stages, ListingGoesOn
<1>2. requests' \in Seq(Listings) /\ idle' \in Seq(Frames)
  <2>1. [kind |-> "infos", to |-> l, rows |-> infos[l]] \in Frames
    BY DEF VmListInv, TypeOK, Frames
  <2>2. requests \in Seq(Listings) /\ idle \in Seq(Frames)
    BY DEF VmListInv, TypeOK
  <2>3. CASE listing[l] = "hasIds"
    <3>1. requests' = Append(requests, l) /\ idle' = idle
      BY <2>3 DEF ListingGoesOn
    <3> QED
      BY <2>2, <3>1
  <2>4. CASE listing[l] = "hasInfos"
    <3>1. /\ idle' = Append(idle, [kind |-> "infos", to |-> l,
                                  rows |-> infos[l]])
          /\ requests' = requests
      BY <2>4 DEF ListingGoesOn
    <3> QED
      BY <2>1, <2>2, <3>1
  <2> QED
    BY <2>3, <2>4 DEF ListingGoesOn
<1>3. TypeOK'
  BY <1>1, <1>2 DEF VmListInv, TypeOK, ListingGoesOn, server, window
<1>4. ButtonsFit'
  BY DEF VmListInv, ButtonsFit, ListingGoesOn, window
<1> QED
  BY <1>3, <1>4 DEF VmListInv

-----------------------------------------------------------------------------
(* The GTK thread.                                                         *)

\* Buttons that were made for the rows and the selection fit them.
LEMMA ButtonsMade ==
    ASSUME selected' \in DOMAIN shown' \cup {NoVM},
           buttons' = ButtonsFor(shown', selected')
    PROVE  ButtonsFit' /\ buttons' \in {"none", "start", "all"}
BY DEF ButtonsFit, ButtonsFor

LEMMA ShowInfosKeeps ==
    ASSUME VmListInv, NEW rows \in Rows, ShowInfos(rows)
    PROVE  /\ ButtonsFit' /\ shown' \in Rows /\ selected' \in VMs \cup {NoVM}
           /\ buttons' \in {"none", "start", "all"}
BY ButtonsMade DEF ShowInfos

LEMMA ShowTransitionKeeps ==
    ASSUME VmListInv, NEW v \in VMs, NEW s \in States, ShowTransition(v, s)
    PROVE  /\ ButtonsFit' /\ shown' \in Rows /\ selected' \in VMs \cup {NoVM}
           /\ buttons' \in {"none", "start", "all"}
<1>1. DOMAIN shown \in SUBSET VMs /\ shown \in [DOMAIN shown -> States]
  BY RowsAre DEF VmListInv, TypeOK
<1>2. shown' \in [DOMAIN shown -> States] /\ DOMAIN shown' = DOMAIN shown
  BY <1>1 DEF ShowTransition, Reported
<1>3. shown' \in Rows
  BY <1>1, <1>2, RowsOf
<1>4. /\ selected' = selected
      /\ selected' \in DOMAIN shown' \cup {NoVM}
      /\ buttons' = ButtonsFor(shown', selected')
  BY <1>2 DEF VmListInv, ButtonsFit, ShowTransition
<1> QED
  BY <1>3, <1>4, ButtonsMade DEF VmListInv, TypeOK

LEMMA ListChangedKeeps ==
    ASSUME VmListInv, NEW vms \in SUBSET VMs, ListChanged(vms)
    PROVE  /\ ButtonsFit' /\ buttons' \in {"none", "start", "all"}
           /\ listing' \in [Listings -> Stages]
           /\ ids' \in [Listings -> SUBSET VMs]
           /\ requests' \in Seq(Listings)
<1>1. PICK l \in Listings :
          /\ listing' = [listing EXCEPT ![l] = "asksInfos"]
          /\ ids' = [ids EXCEPT ![l] = vms]
          /\ requests' = Append(requests, l)
  BY DEF ListChanged
<1>2. /\ listing' \in [Listings -> Stages]
      /\ ids' \in [Listings -> SUBSET VMs]
      /\ requests' \in Seq(Listings)
  BY <1>1 DEF VmListInv, TypeOK, Stages
<1>3. /\ selected' \in DOMAIN shown' \cup {NoVM}
      /\ buttons' = ButtonsFor(shown', selected')
  BY DEF VmListInv, ButtonsFit, ListChanged
<1> QED
  BY <1>2, <1>3, ButtonsMade

LEMMA IdleCallbackKeeps == ASSUME VmListInv, IdleCallback PROVE VmListInv'
<1> DEFINE f == Head(idle)
<1>1. f \in Frames /\ idle' \in Seq(Frames)
  BY DEF VmListInv, TypeOK, IdleCallback
<1>2. CASE f.kind = "infos"
  <2>1. f.rows \in Rows /\ ShowInfos(f.rows)
    BY <1>1, <1>2, FrameHolds DEF IdleCallback
  <2>2. /\ ButtonsFit' /\ shown' \in Rows /\ selected' \in VMs \cup {NoVM}
        /\ buttons' \in {"none", "start", "all"}
    BY <2>1, ShowInfosKeeps
  <2> QED
    BY <2>1, <2>2
       DEF VmListInv, TypeOK, IdleCallback, ShowInfos, server, tasks
<1>3. CASE f.kind = "transition"
  <2>1. f.vm \in VMs /\ f.state \in States /\ ShowTransition(f.vm, f.state)
    BY <1>1, <1>3, FrameHolds DEF IdleCallback
  <2>2. /\ ButtonsFit' /\ shown' \in Rows /\ selected' \in VMs \cup {NoVM}
        /\ buttons' \in {"none", "start", "all"}
    BY <2>1, ShowTransitionKeeps
  <2> QED
    BY <2>1, <2>2
       DEF VmListInv, TypeOK, IdleCallback, ShowTransition, server, tasks
<1>4. CASE f.kind = "list"
  <2>1. f.vms \in SUBSET VMs /\ ListChanged(f.vms)
    BY <1>1, <1>4, FrameHolds DEF IdleCallback
  <2>2. /\ ButtonsFit' /\ buttons' \in {"none", "start", "all"}
        /\ listing' \in [Listings -> Stages]
        /\ ids' \in [Listings -> SUBSET VMs]
        /\ requests' \in Seq(Listings)
    BY <2>1, ListChangedKeeps
  <2> QED
    BY <2>1, <2>2 DEF VmListInv, TypeOK, IdleCallback, ListChanged, server
<1> QED
  BY <1>2, <1>3, <1>4 DEF IdleCallback

LEMMA SelectKeeps == ASSUME VmListInv, Select PROVE VmListInv'
<1>1. PICK v \in DOMAIN shown : selected' = v /\ buttons' = ButtonsFor(shown, v)
  BY DEF Select
<1>2. v \in VMs /\ shown' = shown
  BY RowsAre DEF VmListInv, TypeOK, Select
<1>3. ButtonsFit' /\ buttons' \in {"none", "start", "all"}
  BY <1>1, <1>2, ButtonsMade
<1>4. TypeOK'
  BY <1>1, <1>2, <1>3 DEF VmListInv, TypeOK, Select, server, tasks
<1> QED
  BY <1>3, <1>4 DEF VmListInv

LEMMA StutterKeeps == ASSUME VmListInv, UNCHANGED vars PROVE VmListInv'
<1>1. TypeOK'
  BY DEF VmListInv, TypeOK, vars, server, tasks, window
<1>2. ButtonsFit'
  BY DEF VmListInv, ButtonsFit, vars, window
<1> QED
  BY <1>1, <1>2 DEF VmListInv

LEMMA InvariantHolds == Spec => []VmListInv
<1>1. VmListInv /\ [Next]_vars => VmListInv'
  <2> SUFFICES ASSUME VmListInv, [Next]_vars PROVE VmListInv'
    OBVIOUS
  <2>1. ASSUME NEW v \in VMs, Transition(v) PROVE VmListInv'
    BY <2>1, TransitionKeeps
  <2>2. ASSUME NEW v \in VMs, ComeOrGo(v) PROVE VmListInv'
    BY <2>2, ComeOrGoKeeps
  <2>3. CASE ServerAnswers
    BY <2>3, ServerAnswersKeeps
  <2>4. CASE FrameArrives
    BY <2>4, FrameArrivesKeeps
  <2>5. ASSUME NEW l \in Listings, ListingGoesOn(l) PROVE VmListInv'
    BY <2>5, ListingGoesOnKeeps
  <2>6. CASE IdleCallback
    BY <2>6, IdleCallbackKeeps
  <2>7. CASE Select
    BY <2>7, SelectKeeps
  <2>8. CASE UNCHANGED vars
    BY <2>8, StutterKeeps
  <2> QED
    BY <2>1, <2>2, <2>3, <2>4, <2>5, <2>6, <2>7, <2>8 DEF Next
<1> QED
  BY <1>1, InitVmList, PTL DEF Spec

\* Window, listings and frames keep their types (VirtualMachineList and
\* SignalingUTMRemoteClient).
THEOREM WindowTyped == Spec => []TypeOK
<1>1. VmListInv => TypeOK
  BY DEF VmListInv
<1> QED
  BY <1>1, InvariantHolds, PTL

\* The buttons of a window fit the row that is selected, however listings,
\* transitions and clicks follow on each other (_selection_changed).
THEOREM ButtonsAlwaysFit == Spec => []ButtonsFit
<1>1. VmListInv => ButtonsFit
  BY DEF VmListInv
<1> QED
  BY <1>1, InvariantHolds, PTL
-----------------------------------------------------------------------------
(* What the window will show.                                              *)

\* The last element of K in a queue, if there is one, is in OK.
LastIn(q, K, OK) ==
    \A i \in DOMAIN q :
        q[i] \in K /\ (\A j \in DOMAIN q : j > i => q[j] \notin K) => q[i] \in OK

NoneOf(q, K) == \A i \in DOMAIN q : q[i] \notin K

\* The listing that has its answer and is still to go on, as a queue of the
\* frame it will pass on.
Passed(l, rows) == [kind |-> "infos", to |-> l, rows |-> rows]

WaitingOf(stage, got) ==
    LET W == {l \in Listings : stage[l] = "hasInfos"}
        l == CHOOSE l \in W : TRUE
    IN  IF W = {} THEN <<>> ELSE <<Passed(l, got[l])>>

Waiting == WaitingOf(listing, infos)

\* All that is on its way to the window, in the order it will get there.
Stream == idle \o (Waiting \o wire)

OneReady == \A l, m \in Listings : Ready(l) /\ Ready(m) => l = m

NoInfosYet ==
    \A i \in DOMAIN wire :
        wire[i].kind \in {"infos", "error"} => listing[wire[i].to] # "asksIds"

\* Frames that settle the state of v, and those that tell it as it is.
Settling(v) ==
    {f \in Frames : f.kind = "infos" \/ (f.kind = "transition" /\ f.vm = v)}

Telling(v) ==
    {f \in Frames :
        /\ f.kind = "transition" => f.state = state[v]
        /\ f.kind = "infos" /\ v \in DOMAIN f.rows => f.rows[v] = state[v]}

StatesTold ==
    \A v \in VMs :
        /\ LastIn(Stream, Settling(v), Telling(v))
        /\ NoneOf(Stream, Settling(v)) /\ v \in DOMAIN shown
               => shown[v] = state[v]

\* Frames that tell which virtual machines there are, and those that are
\* up to date.
Lists == {f \in Frames : f.kind = "list"}
News == {f \in Frames : f.kind \in {"list", "ids"}}
Current == {f \in Frames : f.kind \in {"list", "ids"} /\ f.vms = exists}

NewsTold == LastIn(Stream, Lists, Current)

IdsTold ==
    /\ LastIn(wire, News, Current)
    /\ \A l \in Listings :
           listing[l] = "hasIds" /\ NoneOf(wire, News) => ids[l] = exists

\* Nothing will start another listing.
NewsDone ==
    /\ NoneOf(Stream, Lists) /\ NoneOf(wire, News)
    /\ \A l \in Listings : listing[l] \notin {"asksIds", "hasIds"}

Snapshots == {f \in Frames : f.kind = "infos"}
Whole == {f \in Frames : f.kind = "infos" /\ DOMAIN f.rows = exists}

RowsTold ==
    NewsDone =>
        /\ requests # <<>> => ids[requests[Len(requests)]] = exists
        /\ requests = <<>> =>
               /\ LastIn(Stream, Snapshots, Whole)
               /\ NoneOf(Stream, Snapshots) => DOMAIN shown = exists

Truth == OneReady /\ NoInfosYet /\ StatesTold /\ NewsTold /\ IdsTold /\ RowsTold

-----------------------------------------------------------------------------
(* Queues of frames.                                                       *)

LEMMA AppendPast ==
    ASSUME NEW S, NEW p \in Seq(S), NEW r \in Seq(S), NEW f \in S
    PROVE  p \o Append(r, f) = Append(p \o r, f)
BY AppendIsConcat, ConcatAssociative, ConcatProperties

LEMMA HeadFirst ==
    ASSUME NEW S, NEW r \in Seq(S), r # <<>>
    PROVE  r = <<Head(r)>> \o Tail(r)
OBVIOUS

LEMMA HeadMoves ==
    ASSUME NEW S, NEW p \in Seq(S), NEW r \in Seq(S), r # <<>>
    PROVE  p \o r = Append(p, Head(r)) \o Tail(r)
OBVIOUS

LEMMA TailPast ==
    ASSUME NEW S, NEW p \in Seq(S), NEW r \in Seq(S), p # <<>>
    PROVE  /\ Tail(p \o r) = Tail(p) \o r
           /\ Head(p \o r) = Head(p) /\ p \o r # <<>>
OBVIOUS

\* What is appended is the last of its set.
LEMMA AppendLast ==
    ASSUME NEW S, NEW q \in Seq(S), NEW f \in S, NEW K, NEW OK
    PROVE  /\ f \in K => ~NoneOf(Append(q, f), K)
           /\ f \in K /\ f \in OK => LastIn(Append(q, f), K, OK)
           /\ f \notin K /\ LastIn(q, K, OK) => LastIn(Append(q, f), K, OK)
           /\ NoneOf(Append(q, f), K) => NoneOf(q, K)
<1> DEFINE r == Append(q, f)
<1>1. /\ Len(q) \in Nat /\ DOMAIN q = 1..Len(q)
      /\ DOMAIN r = 1..(Len(q) + 1)
      /\ \A i \in 1..Len(q) : r[i] = q[i]
      /\ r[Len(q) + 1] = f
  BY AppendProperties, LenProperties
<1> HIDE DEF r
<1>2. f \in K => ~NoneOf(r, K)
  BY <1>1 DEF NoneOf
<1>3. ASSUME f \in K, f \in OK PROVE LastIn(r, K, OK)
  <2> SUFFICES ASSUME NEW i \in DOMAIN r, \A j \in DOMAIN r : j > i => r[j] \notin K
               PROVE  r[i] \in OK
    BY DEF LastIn
  <2>1. ~(Len(q) + 1 > i)
    BY <1>1, <1>3
  <2> QED
    BY <1>1, <1>3, <2>1
<1>4. ASSUME f \notin K, LastIn(q, K, OK) PROVE LastIn(r, K, OK)
  <2> SUFFICES ASSUME NEW i \in DOMAIN r, r[i] \in K,
                      \A j \in DOMAIN r : j > i => r[j] \notin K
               PROVE  r[i] \in OK
    BY DEF LastIn
  <2>1. i \in DOMAIN q
    BY <1>1, <1>4
  <2>2. \A j \in DOMAIN q : j > i => q[j] \notin K
    BY <1>1
  <2> QED
    BY <1>1, <1>4, <2>1, <2>2 DEF LastIn
<1>5. NoneOf(r, K) => NoneOf(q, K)
  BY <1>1 DEF NoneOf
<1> QED
  BY <1>2, <1>3, <1>4, <1>5 DEF r

\* The head was the last of its set if it has left none.
LEMMA TailLast ==
    ASSUME NEW S, NEW q \in Seq(S), q # <<>>, NEW K, NEW OK
    PROVE  /\ LastIn(q, K, OK) => LastIn(Tail(q), K, OK)
           /\ NoneOf(q, K) => NoneOf(Tail(q), K)
           /\ NoneOf(Tail(q), K) /\ Head(q) \notin K => NoneOf(q, K)
           /\ NoneOf(Tail(q), K) /\ Head(q) \in K /\ LastIn(q, K, OK)
                  => Head(q) \in OK
<1> DEFINE r == Tail(q)
<1>1. /\ Len(q) \in Nat \ {0} /\ DOMAIN q = 1..Len(q) /\ Head(q) = q[1]
      /\ DOMAIN r = 1..(Len(q) - 1)
      /\ \A i \in 1..(Len(q) - 1) : r[i] = q[i + 1]
  BY HeadTailProperties, LenProperties, EmptySeq
<1> HIDE DEF r
<1>2. \A i \in 2..Len(q) : i - 1 \in DOMAIN r /\ r[i - 1] = q[i]
  BY <1>1
<1>3. ASSUME LastIn(q, K, OK) PROVE LastIn(r, K, OK)
  <2> SUFFICES ASSUME NEW i \in DOMAIN r, r[i] \in K,
                      \A j \in DOMAIN r : j > i => r[j] \notin K
               PROVE  r[i] \in OK
    BY DEF LastIn
  <2>1. i + 1 \in DOMAIN q /\ q[i + 1] = r[i]
    BY <1>1
  <2>2. ASSUME NEW j \in DOMAIN q, j > i + 1 PROVE q[j] \notin K
    <3>1. j \in 2..Len(q) /\ j - 1 > i
      BY <1>1, <2>2
    <3> QED
      BY <1>2, <3>1
  <2> QED
    BY <1>3, <2>1, <2>2 DEF LastIn
<1>4. NoneOf(q, K) => NoneOf(r, K)
  BY <1>1 DEF NoneOf
<1>5. ASSUME NoneOf(r, K) PROVE \A j \in DOMAIN q : j > 1 => q[j] \notin K
  BY <1>1, <1>2, <1>5 DEF NoneOf
<1>6. NoneOf(r, K) /\ Head(q) \notin K => NoneOf(q, K)
  BY <1>1, <1>5 DEF NoneOf
<1>7. NoneOf(r, K) /\ Head(q) \in K /\ LastIn(q, K, OK) => Head(q) \in OK
  BY <1>1, <1>5 DEF LastIn
<1> QED
  BY <1>3, <1>4, <1>6, <1>7 DEF r

\* What is no member of the set may leave the middle of the queue.
LEMMA DropLast ==
    ASSUME NEW S, NEW p \in Seq(S), NEW r \in Seq(S), r # <<>>, NEW K, NEW OK,
           Head(r) \notin K
    PROVE  /\ LastIn(p \o r, K, OK) => LastIn(p \o Tail(r), K, OK)
           /\ NoneOf(p \o Tail(r), K) => NoneOf(p \o r, K)
<1> DEFINE q == p \o r
           s == p \o Tail(r)
           n == Len(p)
<1>1. /\ n \in Nat /\ Len(r) \in Nat \ {0}
      /\ DOMAIN q = 1..(n + Len(r)) /\ DOMAIN s = 1..(n + Len(r) - 1)
      /\ \A i \in 1..n : q[i] = p[i] /\ s[i] = p[i]
  BY HeadTailProperties, LenProperties, EmptySeq, ConcatProperties
<1>2. q[n + 1] = Head(r)
  BY HeadTailProperties, LenProperties, EmptySeq, ConcatProperties
<1>3. \A i \in (n + 2)..(n + Len(r)) : q[i] = s[i - 1]
  <2>1. ASSUME NEW i \in (n + 2)..(n + Len(r)) PROVE q[i] = s[i - 1]
    <3>1. q[i] = r[i - n]
      BY <1>1, ConcatProperties
    <3>2. /\ Tail(r) \in Seq(S) /\ Len(Tail(r)) = Len(r) - 1
          /\ i - 1 \in 1..(n + (Len(r) - 1)) /\ i - 1 > n
      BY <1>1, HeadTailProperties
    <3>3. s[i - 1] = Tail(r)[(i - 1) - n]
      BY <1>1, <3>2, ConcatProperties
    <3>4. Tail(r)[(i - 1) - n] = r[(i - 1) - n + 1]
      BY <1>1, <3>2, HeadTailProperties
    <3> QED
      BY <1>1, <3>1, <3>3, <3>4
  <2> QED
    BY <2>1
<1> HIDE DEF q, s, n
<1>4. ASSUME LastIn(q, K, OK) PROVE LastIn(s, K, OK)
  <2> SUFFICES ASSUME NEW i \in DOMAIN s, s[i] \in K,
                      \A j \in DOMAIN s : j > i => s[j] \notin K
               PROVE  s[i] \in OK
    BY DEF LastIn
  <2>1. CASE i <= n
    <3>1. i \in DOMAIN q /\ q[i] = s[i]
      BY <1>1, <2>1
    <3>2. ASSUME NEW j \in DOMAIN q, j > i PROVE q[j] \notin K
      <4>1. CASE j <= n
        BY <1>1, <3>2, <4>1
      <4>2. CASE j = n + 1
        BY <1>2, <4>2
      <4>3. CASE j > n + 1
        <5>1. j \in (n + 2)..(n + Len(r)) /\ j - 1 \in DOMAIN s /\ j - 1 > i
          BY <1>1, <2>1, <4>3
        <5> QED
          BY <1>3, <5>1
      <4> QED
        BY <1>1, <4>1, <4>2, <4>3
    <3> QED
      BY <1>4, <3>1, <3>2 DEF LastIn
  <2>2. CASE i > n
    <3>1. i + 1 \in (n + 2)..(n + Len(r)) /\ (i + 1) - 1 = i
      BY <1>1, <2>2
    <3>2. i + 1 \in DOMAIN q /\ q[i + 1] = s[i]
      <4>1. q[i + 1] = s[(i + 1) - 1]
        BY <1>3, <3>1
      <4> QED
        BY <1>1, <3>1, <4>1
    <3>3. ASSUME NEW j \in DOMAIN q, j > i + 1 PROVE q[j] \notin K
      <4>1. j \in (n + 2)..(n + Len(r)) /\ j - 1 \in DOMAIN s /\ j - 1 > i
        BY <1>1, <2>2, <3>3
      <4> QED
        BY <1>3, <4>1
    <3> QED
      BY <1>4, <3>2, <3>3 DEF LastIn
  <2> QED
    BY <1>1, <2>1, <2>2
<1>5. ASSUME NoneOf(s, K), NEW i \in DOMAIN q PROVE q[i] \notin K
  <2>1. CASE i <= n
    BY <1>1, <1>5, <2>1 DEF NoneOf
  <2>2. CASE i = n + 1
    BY <1>2, <2>2
  <2>3. CASE i > n + 1
    <3>1. i \in (n + 2)..(n + Len(r)) /\ i - 1 \in DOMAIN s
      BY <1>1, <2>3
    <3> QED
      BY <1>3, <1>5, <3>1 DEF NoneOf
  <2> QED
    BY <1>1, <2>1, <2>2, <2>3
<1> QED
  BY <1>4, <1>5 DEF NoneOf, q, s

-----------------------------------------------------------------------------
(* The stream, and what each action makes of it.                           *)

LEMMA WaitingOfNone ==
    ASSUME NEW stage, NEW got, \A l \in Listings : stage[l] # "hasInfos"
    PROVE  WaitingOf(stage, got) = <<>>
BY DEF WaitingOf

LEMMA WaitingOfOne ==
    ASSUME NEW stage, NEW got, NEW l \in Listings, stage[l] = "hasInfos",
           \A m \in Listings : stage[m] = "hasInfos" => m = l
    PROVE  WaitingOf(stage, got) = <<Passed(l, got[l])>>
<1>1. {m \in Listings : stage[m] = "hasInfos"} = {l}
  OBVIOUS
<1> QED
  BY <1>1 DEF WaitingOf

LEMMA PassedIsFrame ==
    ASSUME NEW l \in Listings, NEW rows \in Rows PROVE Passed(l, rows) \in Frames
BY DEF Passed, Frames

LEMMA StreamOfFrames ==
    ASSUME VmListInv
    PROVE  /\ idle \in Seq(Frames) /\ wire \in Seq(Frames)
           /\ Waiting \in Seq(Frames) /\ Stream \in Seq(Frames)
<1>1. /\ idle \in Seq(Frames) /\ wire \in Seq(Frames)
      /\ infos \in [Listings -> Rows]
  BY DEF VmListInv, TypeOK
<1>2. Waiting \in Seq(Frames)
  <2> DEFINE W == {l \in Listings : listing[l] = "hasInfos"}
             l == CHOOSE l \in W : TRUE
  <2>1. CASE W = {}
    BY <2>1 DEF Waiting, WaitingOf
  <2>2. CASE W # {}
    <3>1. l \in Listings
      BY <2>2
    <3>2. Passed(l, infos[l]) \in Frames
      BY <1>1, <3>1, PassedIsFrame
    <3>3. Waiting = <<Passed(l, infos[l])>>
      BY <2>2 DEF Waiting, WaitingOf
    <3> QED
      BY <3>2, <3>3
  <2> QED
    BY <2>1, <2>2
<1> QED
  BY <1>1, <1>2, ConcatProperties DEF Stream

\* What the server sends is the end of the stream.
LEMMA SentIsLast ==
    ASSUME VmListInv, NEW f \in Frames, wire' = Append(wire, f),
           UNCHANGED <<idle, listing, infos>>
    PROVE  Stream' = Append(Stream, f)
<1>1. Waiting' = Waiting
  BY DEF Waiting
<1>2. Stream' = idle \o (Waiting \o Append(wire, f))
  BY <1>1 DEF Stream
<1>3. /\ Waiting \o Append(wire, f) = Append(Waiting \o wire, f)
      /\ Waiting \o wire \in Seq(Frames)
  BY StreamOfFrames, AppendPast, ConcatProperties
<1>4. idle \o Append(Waiting \o wire, f) = Append(idle \o (Waiting \o wire), f)
  BY <1>3, StreamOfFrames, AppendPast
<1> QED
  BY <1>2, <1>3, <1>4 DEF Stream

\* A frame that arrives stays in the stream, if it is for the window; then
\* no listing had its answer, as nothing is out of order.
LEMMA ArrivalKeepsStream ==
    ASSUME VmListInv, FrameArrives, disorder' = {}
    PROVE  /\ \A l \in Listings : ~Ready(l)
           /\ Stream = idle \o wire
           /\ Head(wire).kind \in {"infos", "transition", "list"}
                  => Stream' = Stream
           /\ Head(wire).kind \in {"ids", "error"}
                  => Stream' = idle \o Tail(wire)
<1> DEFINE f == Head(wire)
<1>1. \A l \in Listings : ~Ready(l)
  <2>1. "chunk" \notin disorder'
    BY DEF FrameArrives
  <2> QED
    BY <2>1 DEF FrameArrives
<1>2. /\ f \in Frames /\ wire # <<>> /\ wire' = Tail(wire)
      /\ Tail(wire) \in Seq(Frames)
      /\ idle \in Seq(Frames) /\ wire \in Seq(Frames)
  BY StreamOfFrames, QueueOfFrames DEF FrameArrives
<1>3. \A q \in Seq(Frames) : <<>> \o q = q
  BY ConcatEmptySeq
<1>4. Stream = idle \o wire
  <2>1. Waiting = <<>>
    BY <1>1, WaitingOfNone DEF Waiting, Ready
  <2> QED
    BY <1>2, <1>3, <2>1 DEF Stream
<1>5. CASE f.kind = "infos"
  <2>1. /\ listing' = [listing EXCEPT ![f.to] = "hasInfos"]
        /\ infos' = [infos EXCEPT ![f.to] = f.rows]
        /\ idle' = idle
    BY <1>5 DEF FrameArrives
  <2>2. f.to \in Listings /\ f.rows \in Rows
    BY <1>2, <1>5, FrameHolds
  <2>3. /\ listing'[f.to] = "hasInfos" /\ infos'[f.to] = f.rows
        /\ \A m \in Listings : listing'[m] = "hasInfos" => m = f.to
    BY <1>1, <2>1, <2>2 DEF VmListInv, TypeOK, Ready
  <2>4. Waiting' = <<Passed(f.to, f.rows)>>
    BY <2>2, <2>3, WaitingOfOne DEF Waiting
  <2>5. Passed(f.to, f.rows) = f
    BY <1>2, <1>5 DEF Passed, Frames
  <2>6. Stream' = idle \o (<<f>> \o Tail(wire))
    BY <1>2, <2>1, <2>4, <2>5 DEF Stream
  <2>7. wire = <<f>> \o Tail(wire)
    BY <1>2, HeadFirst
  <2> QED
    BY <1>1, <1>4, <1>5, <2>6, <2>7
<1>6. CASE f.kind \in {"ids", "error", "transition", "list"}
  <2>1. \A l \in Listings : listing'[l] # "hasInfos"
    <3>1. f.kind \in {"transition", "list"} => listing' = listing
      BY DEF FrameArrives
    <3>2. f.kind = "ids" => listing' = [listing EXCEPT ![f.to] = "hasIds"]
      BY DEF FrameArrives
    <3>3. f.kind = "error" => listing' = [listing EXCEPT ![f.to] = "off"]
      BY DEF FrameArrives
    <3> QED
      BY <1>1, <1>6, <3>1, <3>2, <3>3 DEF VmListInv, TypeOK, Ready
  <2>2. Waiting' = <<>>
    BY <2>1, WaitingOfNone DEF Waiting
  <2>3. Stream' = idle' \o Tail(wire)
    BY <1>2, <1>3, <2>2 DEF Stream
  <2>4. f.kind \in {"ids", "error"} => idle' = idle
    BY DEF FrameArrives
  <2>5. f.kind \in {"transition", "list"} => idle' = Append(idle, f)
    BY DEF FrameArrives
  <2>6. idle \o wire = Append(idle, f) \o Tail(wire)
    BY <1>2, HeadMoves
  <2> QED
    BY <1>1, <1>4, <1>6, <2>3, <2>4, <2>5, <2>6
<1> QED
  BY <1>1, <1>4, <1>5, <1>6

\* So does what a listing passes on.
LEMMA GoingOnKeepsStream ==
    ASSUME VmListInv, OneReady, NEW l \in Listings, ListingGoesOn(l)
    PROVE  Stream' = Stream
<1>1. /\ idle \in Seq(Frames) /\ wire \in Seq(Frames) /\ wire' = wire
      /\ infos' = infos /\ \A q \in Seq(Frames) : <<>> \o q = q
  BY StreamOfFrames, ConcatEmptySeq DEF ListingGoesOn
<1>2. \A m \in Listings : listing'[m] # "hasInfos"
  BY DEF VmListInv, TypeOK, OneReady, Ready, ListingGoesOn
<1>3. Waiting' = <<>>
  BY <1>2, WaitingOfNone DEF Waiting
<1>4. Stream' = idle' \o wire
  BY <1>1, <1>3 DEF Stream
<1>5. CASE listing[l] = "hasIds"
  <2>1. idle' = idle
    BY <1>5 DEF ListingGoesOn
  <2>2. \A m \in Listings : listing[m] # "hasInfos"
    BY <1>5 DEF OneReady, Ready
  <2>3. Waiting = <<>>
    BY <2>2, WaitingOfNone DEF Waiting
  <2> QED
    BY <1>1, <1>4, <2>1, <2>3 DEF Stream
<1>6. CASE listing[l] = "hasInfos"
  <2> DEFINE f == Passed(l, infos[l])
  <2>1. f \in Frames
    BY PassedIsFrame DEF VmListInv, TypeOK
  <2>2. idle' = Append(idle, f)
    BY <1>6 DEF ListingGoesOn, Passed
  <2>3. \A m \in Listings : listing[m] = "hasInfos" => m = l
    BY <1>6 DEF OneReady, Ready
  <2>4. Waiting = <<f>>
    BY <1>6, <2>3, WaitingOfOne DEF Waiting
  <2>5. Append(idle, f) \o wire = idle \o (<<f>> \o wire)
    <3>1. Append(idle, f) = idle \o <<f>> /\ <<f>> \in Seq(Frames)
      BY <1>1, <2>1, AppendIsConcat
    <3> HIDE DEF f
    <3> QED
      BY <1>1, <3>1, ConcatAssociative
  <2> QED
    BY <1>4, <2>2, <2>4, <2>5 DEF Stream
<1> QED
  BY <1>5, <1>6 DEF ListingGoesOn

\* A callback takes the head of the stream.
LEMMA CallbackTakesHead ==
    ASSUME VmListInv, OneReady, IdleCallback
    PROVE  /\ Stream # <<>> /\ Head(Stream) = Head(idle)
           /\ Head(idle) \in Frames /\ Stream' = Tail(Stream)
<1>1. /\ idle \in Seq(Frames) /\ idle # <<>> /\ idle' = Tail(idle)
      /\ Waiting \o wire \in Seq(Frames) /\ wire' = wire
  BY StreamOfFrames, ConcatProperties DEF IdleCallback
<1>2. Waiting' = Waiting
  <2>1. infos' = infos
    BY DEF IdleCallback, ShowInfos, ShowTransition, ListChanged, tasks
  <2>2. \A l \in Listings : listing'[l] = "hasInfos" <=> listing[l] = "hasInfos"
    <3>1. CASE listing' = listing
      BY <3>1
    <3>2. CASE \E vms : ListChanged(vms)
      BY <3>2 DEF VmListInv, TypeOK, ListChanged
    <3> QED
      BY <3>1, <3>2 DEF IdleCallback, ShowInfos, ShowTransition, tasks
  <2>3. CASE \A l \in Listings : listing[l] # "hasInfos"
    BY <2>2, <2>3, WaitingOfNone DEF Waiting
  <2>4. ASSUME NEW l \in Listings, listing[l] = "hasInfos"
        PROVE  Waiting' = Waiting
    <3>1. \A m \in Listings : listing[m] = "hasInfos" => m = l
      BY <2>4 DEF OneReady, Ready
    <3>2. Waiting = <<Passed(l, infos[l])>>
      BY <2>4, <3>1, WaitingOfOne DEF Waiting
    <3>3. WaitingOf(listing', infos') = <<Passed(l, infos'[l])>>
      BY <2>2, <2>4, <3>1, WaitingOfOne
    <3> QED
      BY <2>1, <3>2, <3>3 DEF Waiting
  <2> QED
    BY <2>3, <2>4
<1>3. /\ Tail(Stream) = Tail(idle) \o (Waiting \o wire)
      /\ Head(Stream) = Head(idle) /\ Stream # <<>>
  BY <1>1, TailPast DEF Stream
<1>4. Stream' = Tail(idle) \o (Waiting \o wire)
  BY <1>1, <1>2 DEF Stream
<1> QED
  BY <1>1, <1>3, <1>4, QueueOfFrames

-----------------------------------------------------------------------------
(* Nothing that is on its way misleads the window.                         *)

LEMMA InitTruth == Init => Truth
<1> SUFFICES ASSUME Init PROVE Truth
  OBVIOUS
<1>1. \A l \in Listings : listing[l] \notin {"hasIds", "hasInfos"}
  BY DEF Init
<1>2. Stream = <<>> /\ wire = <<>> /\ shown = <<>>
  <2>1. Waiting = <<>>
    BY <1>1, WaitingOfNone DEF Waiting
  <2> QED
    BY <2>1, ConcatEmptySeq, EmptySeq DEF Init, Stream
<1>3. OneReady /\ NoInfosYet
  BY <1>1, <1>2 DEF OneReady, Ready, NoInfosYet
<1>4. StatesTold /\ NewsTold /\ IdsTold
  BY <1>1, <1>2 DEF StatesTold, NewsTold, IdsTold, LastIn
<1>5. RowsTold
  <2>1. listing[First] = "asksIds"
    BY FirstIsAListing DEF Init
  <2> QED
    BY <2>1, FirstIsAListing DEF RowsTold, NewsDone
<1> QED
  BY <1>3, <1>4, <1>5 DEF Truth

LEMMA TransitionTells ==
    ASSUME VmListInv, Truth, NEW v \in VMs, Transition(v) PROVE Truth'
<1>1. PICK s \in States :
          /\ state' = [state EXCEPT ![v] = s]
          /\ wire' = Append(wire,
                            [kind |-> "transition", vm |-> v, state |-> s])
  BY DEF Transition
<1> DEFINE f == [kind |-> "transition", vm |-> v, state |-> s]
<1>2. f \in Frames
  BY DEF Frames
<1>3. /\ UNCHANGED <<idle, listing, infos, ids, requests, shown, exists>>
      /\ state' = [state EXCEPT ![v] = s] /\ wire' = Append(wire, f)
  BY <1>1 DEF Transition, Happens, tasks, window
<1> HIDE DEF f
<1>4. Stream' = Append(Stream, f) /\ Stream \in Seq(Frames)
  BY <1>2, <1>3, SentIsLast, StreamOfFrames
<1>5. f.kind = "transition" /\ f.vm = v /\ f.state = s
  BY DEF f
<1>6. OneReady'
  BY <1>3 DEF Truth, OneReady, Ready
<1>7. NoInfosYet'
  <2>1. wire \in Seq(Frames)
    BY StreamOfFrames
  <2> QED
    BY <1>2, <1>3, <1>5, <2>1, AppendProperties, LenProperties
       DEF Truth, NoInfosYet
<1>8. StatesTold'
  <2> SUFFICES ASSUME NEW w \in VMs
               PROVE  /\ LastIn(Stream', Settling(w), Telling(w)')
                      /\ NoneOf(Stream', Settling(w)) /\ w \in DOMAIN shown
                             => shown[w] = state'[w]
    BY <1>3 DEF StatesTold, Settling
  <2>1. CASE w = v
    <3>1. f \in Settling(v)
      BY <1>2, <1>5 DEF Settling
    <3>2. f \in Telling(v)'
      BY <1>1, <1>2, <1>5 DEF VmListInv, TypeOK, Telling
    <3>3. /\ LastIn(Append(Stream, f), Settling(v), Telling(v)')
          /\ ~NoneOf(Append(Stream, f), Settling(v))
      BY <1>2, <1>4, <3>1, <3>2, AppendLast
    <3> QED
      BY <1>4, <2>1, <3>3
  <2>2. CASE w # v
    <3>1. state'[w] = state[w]
      BY <1>3, <2>2 DEF VmListInv, TypeOK
    <3>2. Telling(w)' = Telling(w)
      BY <3>1 DEF Telling
    <3>3. f \notin Settling(w)
      BY <1>5, <2>2 DEF Settling
    <3>4. /\ LastIn(Stream, Settling(w), Telling(w))
          /\ NoneOf(Stream, Settling(w)) /\ w \in DOMAIN shown
                 => shown[w] = state[w]
      BY DEF Truth, StatesTold
    <3> QED
      BY <1>2, <1>4, <3>1, <3>2, <3>3, <3>4, AppendLast
  <2> QED
    BY <2>1, <2>2
<1>9. NewsTold'
  <2>1. f \notin Lists /\ Current' = Current
    BY <1>3, <1>5 DEF Lists, Current
  <2> QED
    BY <1>2, <1>4, <2>1, AppendLast DEF Truth, NewsTold, Lists
<1>10. IdsTold'
  <2>1. f \notin News /\ Current' = Current /\ wire \in Seq(Frames)
    BY <1>3, <1>5, StreamOfFrames DEF News, Current
  <2>2. /\ LastIn(wire, News, Current) => LastIn(Append(wire, f), News, Current)
        /\ NoneOf(Append(wire, f), News) => NoneOf(wire, News)
    BY <1>2, <2>1, AppendLast
  <2> QED
    BY <1>3, <2>1, <2>2 DEF Truth, IdsTold, News
<1>11. RowsTold'
  <2>1. f \notin Snapshots /\ Whole' = Whole /\ wire \in Seq(Frames)
    BY <1>3, <1>5, StreamOfFrames DEF Snapshots, Whole
  <2>2. NewsDone' => NewsDone
    BY <1>2, <1>3, <1>4, <2>1, AppendLast DEF NewsDone, Lists, News
  <2>3. /\ LastIn(Stream, Snapshots, Whole)
               => LastIn(Stream', Snapshots, Whole)
        /\ NoneOf(Stream', Snapshots) => NoneOf(Stream, Snapshots)
    BY <1>2, <1>4, <2>1, AppendLast
  <2> QED
    BY <1>3, <2>1, <2>2, <2>3 DEF Truth, RowsTold, Snapshots
<1> QED
  BY <1>6, <1>7, <1>8, <1>9, <1>10, <1>11 DEF Truth

LEMMA ComeOrGoTells ==
    ASSUME VmListInv, Truth, NEW v \in VMs, ComeOrGo(v) PROVE Truth'
<1> DEFINE f == [kind |-> "list", vms |-> exists']
<1>1. f \in Frames
  <2>1. exists' \in SUBSET VMs
    BY DEF VmListInv, TypeOK, ComeOrGo
  <2> QED
    BY <2>1 DEF Frames
<1>2. /\ UNCHANGED <<idle, listing, infos, ids, requests, shown, state>>
      /\ wire' = Append(wire, f)
  BY DEF ComeOrGo, Happens, tasks, window
<1>3. f.kind = "list" /\ f.vms = exists'
  OBVIOUS
<1> HIDE DEF f
<1>4. Stream' = Append(Stream, f) /\ Stream \in Seq(Frames)
  BY <1>1, <1>2, SentIsLast, StreamOfFrames
<1>5. wire \in Seq(Frames)
  BY StreamOfFrames
<1>6. OneReady'
  BY <1>2 DEF Truth, OneReady, Ready
<1>7. NoInfosYet'
  BY <1>1, <1>2, <1>3, <1>5, AppendProperties, LenProperties
     DEF Truth, NoInfosYet
<1>8. StatesTold'
  <2> SUFFICES ASSUME NEW w \in VMs
               PROVE  /\ LastIn(Stream', Settling(w), Telling(w)')
                      /\ NoneOf(Stream', Settling(w)) /\ w \in DOMAIN shown
                             => shown[w] = state'[w]
    BY <1>2 DEF StatesTold, Settling
  <2>1. f \notin Settling(w) /\ Telling(w)' = Telling(w)
    BY <1>2, <1>3 DEF Settling, Telling
  <2>2. /\ LastIn(Stream, Settling(w), Telling(w))
        /\ NoneOf(Stream, Settling(w)) /\ w \in DOMAIN shown
               => shown[w] = state[w]
    BY DEF Truth, StatesTold
  <2> QED
    BY <1>1, <1>2, <1>4, <2>1, <2>2, AppendLast
<1>9. f \in Lists /\ f \in News /\ f \in Current'
  BY <1>1, <1>3 DEF Lists, News, Current
<1>10. NewsTold'
  BY <1>1, <1>4, <1>9, AppendLast DEF NewsTold, Lists
<1>11. IdsTold'
  <2>1. LastIn(wire', News, Current') /\ ~NoneOf(wire', News)
    BY <1>1, <1>2, <1>5, <1>9, AppendLast
  <2> QED
    BY <2>1 DEF IdsTold, News
<1>12. RowsTold'
  <2>1. ~NoneOf(Stream', Lists)
    BY <1>1, <1>4, <1>9, AppendLast
  <2> QED
    BY <2>1 DEF RowsTold, NewsDone, Lists
<1> QED
  BY <1>6, <1>7, <1>8, <1>10, <1>11, <1>12 DEF Truth

LEMMA ServerAnswersTells ==
    ASSUME VmListInv, Truth, ServerAnswers, disorder' = {} PROVE Truth'
<1> DEFINE l == requests[1]
           f == AnswerTo(l)
<1>1. /\ requests \in Seq(Listings) /\ Len(requests) \in Nat
      /\ DOMAIN requests = 1..Len(requests) /\ 1 \in DOMAIN requests
      /\ wire' = Append(wire, f) /\ requests' = RemoveAt(requests, 1)
  <2>1. PICK i \in DOMAIN requests :
            /\ disorder' = disorder \cup {d \in {"answers"} : i # 1}
            /\ wire' = Append(wire, AnswerTo(requests[i]))
            /\ requests' = RemoveAt(requests, i)
    BY DEF ServerAnswers
  <2>2. i = 1
    BY <2>1
  <2>3. requests \in Seq(Listings)
    BY DEF VmListInv, TypeOK
  <2> QED
    BY <2>1, <2>2, <2>3, LenProperties
<1>2. l \in Listings /\ f \in Frames
  <2>1. l \in Listings
    BY <1>1
  <2> QED
    BY <2>1, AnswerIsFrame
<1>3. UNCHANGED <<idle, listing, infos, ids, shown, state, exists>>
  BY DEF ServerAnswers, server, window
<1>4. /\ listing[l] = "asksIds" => f.kind = "ids" /\ f.vms = exists
      /\ listing[l] # "asksIds" /\ ids[l] = exists
             => /\ f.kind = "infos"
                /\ f.rows = [v \in ids[l] |-> state[v]]
      /\ f.kind = "ids" => listing[l] = "asksIds"
      /\ f.kind \in {"ids", "infos", "error"}
      /\ f.to = l
      /\ f.kind = "infos" => f.rows = [v \in ids[l] |-> state[v]]
  BY DEF AnswerTo
<1> HIDE DEF f, l
<1>5. Stream' = Append(Stream, f) /\ Stream \in Seq(Frames)
  BY <1>1, <1>2, <1>3, SentIsLast, StreamOfFrames
<1>6. wire \in Seq(Frames)
  BY StreamOfFrames
<1>7. OneReady'
  BY <1>3 DEF Truth, OneReady, Ready
<1>8. NoInfosYet'
  <2> SUFFICES ASSUME NEW i \in DOMAIN wire', wire'[i].kind \in {"infos", "error"}
               PROVE  listing[wire'[i].to] # "asksIds"
    BY <1>3 DEF NoInfosYet
  <2>1. CASE i \in DOMAIN wire
    <3>1. wire'[i] = wire[i]
      BY <1>1, <1>2, <1>6, <2>1, AppendProperties, LenProperties
    <3> QED
      BY <2>1, <3>1 DEF Truth, NoInfosYet
  <2>2. CASE i \notin DOMAIN wire
    <3>1. wire'[i] = f
      BY <1>1, <1>2, <1>6, <2>2, AppendProperties, LenProperties
    <3> QED
      BY <1>4, <3>1
  <2> QED
    BY <2>1, <2>2
<1>9. StatesTold'
  <2> SUFFICES ASSUME NEW w \in VMs
               PROVE  /\ LastIn(Stream', Settling(w), Telling(w)')
                      /\ NoneOf(Stream', Settling(w)) /\ w \in DOMAIN shown
                             => shown[w] = state'[w]
    BY <1>3 DEF StatesTold, Settling
  <2>1. Telling(w)' = Telling(w) /\ f \in Telling(w)
    BY <1>2, <1>3, <1>4 DEF Telling
  <2>2. /\ LastIn(Stream, Settling(w), Telling(w))
        /\ NoneOf(Stream, Settling(w)) /\ w \in DOMAIN shown
               => shown[w] = state[w]
    BY DEF Truth, StatesTold
  <2> QED
    BY <1>2, <1>3, <1>5, <2>1, <2>2, AppendLast
<1>10. NewsTold'
  <2>1. f \notin Lists /\ Current' = Current
    BY <1>3, <1>4 DEF Lists, Current
  <2> QED
    BY <1>2, <1>5, <2>1, AppendLast DEF Truth, NewsTold, Lists
<1>11. IdsTold'
  <2>1. Current' = Current /\ (f \in News => f \in Current)
    BY <1>2, <1>3, <1>4 DEF News, Current
  <2>2. /\ LastIn(wire, News, Current) => LastIn(Append(wire, f), News, Current)
        /\ NoneOf(Append(wire, f), News) => NoneOf(wire, News)
    BY <1>2, <1>6, <2>1, AppendLast
  <2> QED
    BY <1>1, <1>3, <2>1, <2>2 DEF Truth, IdsTold, News
<1>12. RowsTold'
  <2> SUFFICES ASSUME NewsDone'
               PROVE  /\ requests' # <<>>
                             => ids[requests'[Len(requests')]] = exists
                      /\ requests' = <<>> =>
                             /\ LastIn(Stream', Snapshots, Whole)
                             /\ NoneOf(Stream', Snapshots)
                                    => DOMAIN shown = exists
    BY <1>3 DEF RowsTold, Snapshots, Whole
  <2>1. NewsDone /\ f.kind # "ids"
    <3>1. /\ NoneOf(Append(Stream, f), Lists) => NoneOf(Stream, Lists)
          /\ NoneOf(Append(wire, f), News) => NoneOf(wire, News)
          /\ f \in News => ~NoneOf(Append(wire, f), News)
      BY <1>2, <1>5, <1>6, AppendLast
    <3> QED
      BY <1>1, <1>2, <1>3, <1>5, <3>1 DEF NewsDone, Lists, News
  <2>2. ids[requests[Len(requests)]] = exists
    BY <1>1, <2>1 DEF Truth, RowsTold
  <2>3. ASSUME requests' # <<>>
        PROVE  requests'[Len(requests')] = requests[Len(requests)]
    BY <1>1, <2>3 DEF RemoveAt
  <2>4. ASSUME requests' = <<>> PROVE Len(requests) = 1
    BY <1>1, <2>4 DEF RemoveAt
  <2>5. ASSUME Len(requests) = 1
        PROVE  /\ LastIn(Stream', Snapshots, Whole)
               /\ ~NoneOf(Stream', Snapshots)
    <3>1. ids[l] = exists /\ listing[l] # "asksIds"
      BY <1>2, <2>1, <2>2, <2>5 DEF NewsDone, l
    <3>2. f.kind = "infos" /\ DOMAIN f.rows = exists
      BY <1>4, <3>1
    <3>3. f \in Snapshots /\ f \in Whole
      BY <1>2, <3>2 DEF Snapshots, Whole
    <3> QED
      BY <1>2, <1>5, <3>3, AppendLast
  <2> QED
    BY <2>2, <2>3, <2>4, <2>5
<1> QED
  BY <1>7, <1>8, <1>9, <1>10, <1>11, <1>12 DEF Truth

LEMMA FrameArrivesTells ==
    ASSUME VmListInv, Truth, FrameArrives, disorder' = {} PROVE Truth'
<1> DEFINE f == Head(wire)
<1>1. /\ wire \in Seq(Frames) /\ wire # <<>> /\ f \in Frames
      /\ wire' = Tail(wire) /\ idle \in Seq(Frames)
      /\ UNCHANGED <<requests, shown, state, exists>>
  BY StreamOfFrames, QueueOfFrames DEF FrameArrives, server, window
<1>2. /\ \A l \in Listings : ~Ready(l)
      /\ Stream = idle \o wire
      /\ f.kind \in {"infos", "transition", "list"} => Stream' = Stream
      /\ f.kind \in {"ids", "error"} => Stream' = idle \o Tail(wire)
  BY ArrivalKeepsStream
<1>3. \/ /\ f.kind = "ids"
         /\ listing' = [listing EXCEPT ![f.to] = "hasIds"]
         /\ ids' = [ids EXCEPT ![f.to] = f.vms]
      \/ /\ f.kind = "infos"
         /\ listing' = [listing EXCEPT ![f.to] = "hasInfos"] /\ ids' = ids
      \/ /\ f.kind = "error"
         /\ listing' = [listing EXCEPT ![f.to] = "off"] /\ ids' = ids
      \/ /\ f.kind \in {"transition", "list"}
         /\ listing' = listing /\ ids' = ids
  BY DEF FrameArrives
<1>4. /\ listing \in [Listings -> Stages] /\ ids \in [Listings -> SUBSET VMs]
      /\ f.kind \in {"ids", "infos", "error"} => f.to \in Listings
  BY <1>1, FrameHolds DEF VmListInv, TypeOK
<1> HIDE DEF f
<1>5. ASSUME NEW K, NEW OK, f.kind \in {"ids", "error"} => f \notin K
      PROVE  /\ LastIn(Stream, K, OK) => LastIn(Stream', K, OK)
             /\ NoneOf(Stream', K) => NoneOf(Stream, K)
  <2>1. CASE f.kind \in {"infos", "transition", "list"}
    BY <1>2, <2>1
  <2>2. CASE f.kind \in {"ids", "error"}
    <3>1. Head(wire) \notin K
      BY <1>5, <2>2 DEF f
    <3> QED
      BY <1>1, <1>2, <2>2, <3>1, DropLast
  <2> QED
    BY <1>3, <2>1, <2>2
<1>6. OneReady'
  BY <1>2, <1>3, <1>4 DEF OneReady, Ready
<1>7. NoInfosYet'
  <2> SUFFICES ASSUME NEW i \in DOMAIN wire', wire'[i].kind \in {"infos", "error"}
               PROVE  listing'[wire'[i].to] # "asksIds"
    BY DEF NoInfosYet
  <2>1. i + 1 \in DOMAIN wire /\ wire'[i] = wire[i + 1]
    BY <1>1, HeadTailProperties, LenProperties
  <2>2. listing[wire'[i].to] # "asksIds"
    BY <2>1 DEF Truth, NoInfosYet
  <2>3. wire'[i] \in Frames
    BY <1>1, <2>1, LenProperties, ElementOfSeq
  <2>4. wire'[i].to \in Listings
    BY <2>3, FrameHolds
  <2> QED
    BY <1>3, <1>4, <2>2, <2>4
<1>8. StatesTold'
  <2> SUFFICES ASSUME NEW w \in VMs
               PROVE  /\ LastIn(Stream', Settling(w), Telling(w))
                      /\ NoneOf(Stream', Settling(w)) /\ w \in DOMAIN shown
                             => shown[w] = state[w]
    BY <1>1 DEF StatesTold, Settling, Telling
  <2>1. f.kind \in {"ids", "error"} => f \notin Settling(w)
    BY DEF Settling
  <2> QED
    BY <1>5, <2>1 DEF Truth, StatesTold
<1>9. NewsTold'
  <2>1. f.kind \in {"ids", "error"} => f \notin Lists
    BY DEF Lists
  <2>2. Current' = Current
    BY <1>1 DEF Current
  <2> QED
    BY <1>5, <2>1, <2>2 DEF Truth, NewsTold, Lists
<1>10. /\ LastIn(wire, News, Current) => LastIn(wire', News, Current)
       /\ NoneOf(wire', News) /\ f \notin News => NoneOf(wire, News)
       /\ NoneOf(wire', News) /\ f \in News /\ LastIn(wire, News, Current)
              => f \in Current
  BY <1>1, TailLast DEF f
<1>11. IdsTold'
  <2>1. LastIn(wire', News', Current')
    BY <1>1, <1>10 DEF Truth, IdsTold, Current, News
  <2>2. ASSUME NEW l \in Listings, listing'[l] = "hasIds", NoneOf(wire', News)
        PROVE  ids'[l] = exists
    <3>1. f.kind = "ids" /\ l = f.to
      BY <1>2, <1>3, <1>4, <2>2 DEF Ready
    <3>2. f \in News
      BY <1>1, <3>1 DEF News
    <3>3. f \in Current
      BY <1>10, <2>2, <3>2 DEF Truth, IdsTold
    <3> QED
      BY <1>3, <1>4, <3>1, <3>3 DEF Current
  <2> QED
    BY <1>1, <2>1, <2>2 DEF IdsTold, News
<1>12. RowsTold'
  <2> SUFFICES ASSUME NewsDone'
               PROVE  /\ requests # <<>>
                             => ids'[requests[Len(requests)]] = exists
                      /\ requests = <<>> =>
                             /\ LastIn(Stream', Snapshots, Whole)
                             /\ NoneOf(Stream', Snapshots)
                                    => DOMAIN shown = exists
    BY <1>1 DEF RowsTold, Snapshots, Whole
  <2>1. f.kind # "ids"
    BY <1>3, <1>4 DEF NewsDone
  <2>2. ids' = ids
    BY <1>3, <2>1
  <2>3. NoneOf(Stream, Lists)
    <3>1. f.kind \in {"ids", "error"} => f \notin Lists
      BY DEF Lists
    <3> QED
      BY <1>5, <3>1 DEF NewsDone, Lists
  <2>4. NoneOf(wire, News)
    <3>1. CASE f.kind = "list"
      <4>1. f \in Lists
        BY <1>1, <3>1 DEF Lists
      <4>2. Stream' = idle \o wire
        BY <1>2, <3>1
      <4>3. Stream' = Append(idle, f) \o Tail(wire)
        BY <1>1, <4>2, HeadMoves DEF f
      <4>4. Len(idle) + 1 \in DOMAIN Stream' /\ Stream'[Len(idle) + 1] = f
        <5>1. /\ Append(idle, f) \in Seq(Frames)
              /\ Len(Append(idle, f)) = Len(idle) + 1
              /\ Append(idle, f)[Len(idle) + 1] = f
              /\ Len(idle) \in Nat
          BY <1>1, AppendProperties, LenProperties
        <5>2. Tail(wire) \in Seq(Frames) /\ Len(Tail(wire)) \in Nat
          BY <1>1, HeadTailProperties, LenProperties
        <5> QED
          BY <4>3, <5>1, <5>2, ConcatProperties, LenProperties
      <4> QED
        BY <4>1, <4>4 DEF NewsDone, NoneOf, Lists
    <3>2. CASE f.kind # "list"
      <4>1. f \notin News
        BY <2>1, <3>2 DEF News
      <4> QED
        BY <1>10, <4>1 DEF NewsDone, News
    <3> QED
      BY <3>1, <3>2
  <2>5. \A l \in Listings : listing[l] \notin {"asksIds", "hasIds"}
    <3> SUFFICES ASSUME NEW l \in Listings
                 PROVE  listing[l] \notin {"asksIds", "hasIds"}
      OBVIOUS
    <3>1. listing'[l] \notin {"asksIds", "hasIds"}
      BY DEF NewsDone
    <3>2. CASE f.kind \in {"infos", "error"} /\ l = f.to
      <4>1. 1 \in DOMAIN wire /\ wire[1] = f
        BY <1>1, LenProperties, EmptySeq DEF f
      <4>2. listing[l] # "asksIds"
        BY <3>2, <4>1 DEF Truth, NoInfosYet
      <4> QED
        BY <1>2, <4>2 DEF Ready
    <3>3. CASE ~(f.kind \in {"infos", "error"} /\ l = f.to)
      BY <1>3, <1>4, <2>1, <3>1, <3>3
    <3> QED
      BY <3>2, <3>3
  <2>6. NewsDone
    BY <2>3, <2>4, <2>5 DEF NewsDone
  <2>7. f.kind \in {"ids", "error"} => f \notin Snapshots
    BY DEF Snapshots
  <2> QED
    BY <1>5, <2>2, <2>6, <2>7 DEF Truth, RowsTold
<1> QED
  BY <1>6, <1>7, <1>8, <1>9, <1>11, <1>12 DEF Truth

LEMMA ListingGoesOnTells ==
    ASSUME VmListInv, Truth, NEW l \in Listings, ListingGoesOn(l)
    PROVE  Truth'
<1>1. /\ UNCHANGED <<wire, ids, shown, state, exists>>
      /\ listing \in [Listings -> Stages]
      /\ \/ /\ listing[l] = "hasIds"
            /\ listing' = [listing EXCEPT ![l] = "asksInfos"]
            /\ requests' = Append(requests, l)
         \/ /\ listing[l] = "hasInfos"
            /\ listing' = [listing EXCEPT ![l] = "off"]
            /\ requests' = requests
  BY DEF VmListInv, TypeOK, ListingGoesOn, server, window
<1>2. Stream' = Stream
  BY GoingOnKeepsStream DEF Truth
<1>3. OneReady' /\ NoInfosYet'
  <2>1. \A m \in Listings : /\ Ready(m)' => Ready(m)
                            /\ listing'[m] = "asksIds" => listing[m] = "asksIds"
    BY <1>1 DEF Ready
  <2>2. OneReady'
    BY <2>1 DEF Truth, OneReady
  <2>3. ASSUME NEW i \in DOMAIN wire, wire[i].kind \in {"infos", "error"}
        PROVE  listing'[wire[i].to] # "asksIds"
    <3>1. wire[i] \in Frames
      BY StreamOfFrames, LenProperties, ElementOfSeq
    <3>2. wire[i].to \in Listings
      BY <2>3, <3>1, FrameHolds
    <3> QED
      BY <2>1, <2>3, <3>2 DEF Truth, NoInfosYet
  <2> QED
    BY <1>1, <2>2, <2>3 DEF NoInfosYet
<1>4. StatesTold' /\ NewsTold'
  BY <1>1, <1>2
     DEF Truth, StatesTold, NewsTold, Settling, Telling, Lists, Current
<1>5. IdsTold'
  BY <1>1 DEF Truth, IdsTold, News, Current
<1>6. RowsTold'
  <2> SUFFICES ASSUME NewsDone'
               PROVE  /\ requests' # <<>>
                             => ids[requests'[Len(requests')]] = exists
                      /\ requests' = <<>> =>
                             /\ LastIn(Stream, Snapshots, Whole)
                             /\ NoneOf(Stream, Snapshots)
                                    => DOMAIN shown = exists
    BY <1>1, <1>2 DEF RowsTold, Snapshots, Whole
  <2>1. NoneOf(Stream, Lists) /\ NoneOf(wire, News)
    BY <1>1, <1>2 DEF NewsDone, Lists, News
  <2>2. CASE listing[l] = "hasIds"
    <3>1. ids[l] = exists
      BY <2>1, <2>2 DEF Truth, IdsTold
    <3>2. requests' = Append(requests, l) /\ requests \in Seq(Listings)
      BY <1>1, <2>2 DEF VmListInv, TypeOK
    <3>3. requests' # <<>> /\ requests'[Len(requests')] = l
      BY <3>2, AppendProperties
    <3> QED
      BY <3>1, <3>3
  <2>3. CASE listing[l] = "hasInfos"
    <3>1. \A m \in Listings : listing[m] \notin {"asksIds", "hasIds"}
      BY <1>1, <2>3 DEF NewsDone
    <3>2. NewsDone
      BY <2>1, <3>1 DEF NewsDone
    <3> QED
      BY <1>1, <2>3, <3>2 DEF Truth, RowsTold
  <2> QED
    BY <1>1, <2>2, <2>3
<1> QED
  BY <1>3, <1>4, <1>5, <1>6 DEF Truth

LEMMA IdleCallbackTells ==
    ASSUME VmListInv, Truth, IdleCallback PROVE Truth'
<1> DEFINE f == Head(idle)
<1>1. UNCHANGED <<wire, infos, state, exists>>
  BY DEF IdleCallback, ShowInfos, ShowTransition, ListChanged, server, tasks
<1>2. /\ Stream # <<>> /\ Head(Stream) = f /\ f \in Frames
      /\ Stream' = Tail(Stream) /\ Stream \in Seq(Frames)
  BY CallbackTakesHead, StreamOfFrames DEF Truth
<1>3. \/ /\ f.kind = "infos" /\ shown' = f.rows
         /\ UNCHANGED <<requests, listing, ids>>
      \/ /\ f.kind = "transition" /\ shown' = Reported(f.vm, f.state)
         /\ UNCHANGED <<requests, listing, ids>>
      \/ /\ f.kind = "list" /\ shown' = shown
         /\ \E l \in Listings :
               /\ listing[l] = "off"
               /\ listing' = [listing EXCEPT ![l] = "asksInfos"]
               /\ ids' = [ids EXCEPT ![l] = f.vms]
               /\ requests' = Append(requests, l)
  BY DEF IdleCallback, ShowInfos, ShowTransition, ListChanged, tasks
<1>4. /\ listing \in [Listings -> Stages] /\ ids \in [Listings -> SUBSET VMs]
      /\ requests \in Seq(Listings)
  BY DEF VmListInv, TypeOK
<1> HIDE DEF f
<1>5. ASSUME NEW K, NEW OK
      PROVE  /\ LastIn(Stream, K, OK) => LastIn(Stream', K, OK)
             /\ NoneOf(Stream', K) /\ f \notin K => NoneOf(Stream, K)
             /\ NoneOf(Stream', K) /\ f \in K /\ LastIn(Stream, K, OK)
                    => f \in OK
  BY <1>2, TailLast
<1>6. \A m \in Listings :
          /\ Ready(m)' => Ready(m)
          /\ listing'[m] \in {"asksIds", "hasIds"} <=>
                 listing[m] \in {"asksIds", "hasIds"}
          /\ listing'[m] = "asksIds" <=> listing[m] = "asksIds"
          /\ listing'[m] = "hasIds" => listing[m] = "hasIds" /\ ids'[m] = ids[m]
  BY <1>3, <1>4 DEF Ready
<1>7. OneReady'
  BY <1>6 DEF Truth, OneReady
<1>8. NoInfosYet'
  <2>1. ASSUME NEW i \in DOMAIN wire, wire[i].kind \in {"infos", "error"}
        PROVE  listing'[wire[i].to] # "asksIds"
    <3>1. wire[i] \in Frames
      BY StreamOfFrames, LenProperties, ElementOfSeq
    <3>2. wire[i].to \in Listings
      BY <2>1, <3>1, FrameHolds
    <3> QED
      BY <1>6, <2>1, <3>2 DEF Truth, NoInfosYet
  <2> QED
    BY <1>1, <2>1 DEF NoInfosYet
<1>9. StatesTold'
  <2> SUFFICES ASSUME NEW w \in VMs
               PROVE  /\ LastIn(Stream', Settling(w), Telling(w))
                      /\ NoneOf(Stream', Settling(w)) /\ w \in DOMAIN shown'
                             => shown'[w] = state[w]
    BY <1>1 DEF StatesTold, Settling, Telling
  <2>1. /\ LastIn(Stream, Settling(w), Telling(w))
        /\ NoneOf(Stream, Settling(w)) /\ w \in DOMAIN shown
               => shown[w] = state[w]
    BY DEF Truth, StatesTold
  <2>2. LastIn(Stream', Settling(w), Telling(w))
    BY <1>5, <2>1
  <2>3. ASSUME NoneOf(Stream', Settling(w)), w \in DOMAIN shown'
        PROVE  shown'[w] = state[w]
    <3>1. CASE f \in Settling(w)
      <4>1. f \in Telling(w)
        BY <1>5, <2>1, <2>3, <3>1
      <4>2. CASE f.kind = "infos"
        BY <1>3, <2>3, <4>1, <4>2 DEF Telling
      <4>3. CASE f.kind = "transition"
        BY <1>3, <2>3, <3>1, <4>1, <4>3 DEF Telling, Settling, Reported
      <4> QED
        BY <3>1, <4>2, <4>3 DEF Settling
    <3>2. CASE f \notin Settling(w)
      <4>1. NoneOf(Stream, Settling(w))
        BY <1>5, <2>3, <3>2
      <4>2. f.kind # "infos" /\ ~(f.kind = "transition" /\ f.vm = w)
        BY <1>2, <3>2 DEF Settling
      <4>3. w \in DOMAIN shown /\ shown'[w] = shown[w]
        BY <1>3, <2>3, <4>2 DEF Reported
      <4> QED
        BY <2>1, <4>1, <4>3
    <3> QED
      BY <3>1, <3>2
  <2> QED
    BY <2>2, <2>3
<1>10. NewsTold'
  BY <1>1, <1>5 DEF Truth, NewsTold, Lists, Current
<1>11. IdsTold'
  BY <1>1, <1>6 DEF Truth, IdsTold, News, Current
<1>12. RowsTold'
  <2> SUFFICES ASSUME NewsDone'
               PROVE  /\ requests' # <<>>
                             => ids'[requests'[Len(requests')]] = exists
                      /\ requests' = <<>> =>
                             /\ LastIn(Stream', Snapshots, Whole)
                             /\ NoneOf(Stream', Snapshots)
                                    => DOMAIN shown' = exists
    BY <1>1 DEF RowsTold, Snapshots, Whole
  <2>1. CASE f.kind = "list"
    <3>1. f.vms = exists
      <4>1. f \in Lists /\ NoneOf(Stream', Lists)
        BY <1>2, <2>1 DEF NewsDone, Lists
      <4>2. f \in Current
        BY <1>5, <4>1 DEF Truth, NewsTold
      <4> QED
        BY <4>2 DEF Current
    <3>2. PICK l \in Listings : /\ ids' = [ids EXCEPT ![l] = f.vms]
                                /\ requests' = Append(requests, l)
      BY <1>3, <2>1
    <3>3. requests' # <<>> /\ requests'[Len(requests')] = l
      BY <1>4, <3>2, AppendProperties
    <3> QED
      BY <1>4, <3>1, <3>2, <3>3
  <2>2. CASE f.kind # "list"
    <3>1. UNCHANGED <<requests, listing, ids>>
      BY <1>3, <2>2
    <3>2. NoneOf(Stream, Lists)
      <4>1. f \notin Lists
        BY <2>2 DEF Lists
      <4> QED
        BY <1>5, <4>1 DEF NewsDone, Lists
    <3>3. NewsDone
      BY <1>1, <3>1, <3>2 DEF NewsDone, News
    <3>4. requests # <<>> => ids[requests[Len(requests)]] = exists
      BY <3>3 DEF Truth, RowsTold
    <3>5. ASSUME requests = <<>>
          PROVE  /\ LastIn(Stream', Snapshots, Whole)
                 /\ NoneOf(Stream', Snapshots) => DOMAIN shown' = exists
      <4>1. /\ LastIn(Stream, Snapshots, Whole)
            /\ NoneOf(Stream, Snapshots) => DOMAIN shown = exists
        BY <3>3, <3>5 DEF Truth, RowsTold
      <4>2. ASSUME NoneOf(Stream', Snapshots) PROVE DOMAIN shown' = exists
        <5>1. CASE f.kind = "infos"
          <6>1. f \in Snapshots
            BY <1>2, <5>1 DEF Snapshots
          <6>2. f \in Whole
            BY <1>5, <4>1, <4>2, <6>1
          <6> QED
            BY <1>3, <5>1, <6>2 DEF Whole
        <5>2. CASE f.kind # "infos"
          <6>1. f \notin Snapshots
            BY <5>2 DEF Snapshots
          <6>2. NoneOf(Stream, Snapshots)
            BY <1>5, <4>2, <6>1
          <6>3. DOMAIN shown' = DOMAIN shown
            BY <1>3, <2>2, <5>2 DEF Reported
          <6> QED
            BY <4>1, <6>2, <6>3
        <5> QED
          BY <5>1, <5>2
      <4> QED
        BY <1>5, <4>1, <4>2
    <3> QED
      BY <3>1, <3>4, <3>5
  <2> QED
    BY <2>1, <2>2
<1> QED
  BY <1>7, <1>8, <1>9, <1>10, <1>11, <1>12 DEF Truth

\* A click changes the selection only.
LEMMA OthersTell ==
    ASSUME Truth, UNCHANGED <<server, wire, tasks, idle, shown>>
    PROVE  Truth'
<1>1. UNCHANGED <<state, exists, wire, requests, listing, ids, infos, idle, shown>>
  BY DEF server, tasks
<1>2. Stream' = Stream
  BY <1>1 DEF Stream, Waiting
<1>3. OneReady' /\ NoInfosYet'
  BY <1>1 DEF Truth, OneReady, Ready, NoInfosYet
<1>4. StatesTold'
  BY <1>1, <1>2 DEF Truth, StatesTold, Settling, Telling
<1>5. NewsTold' /\ IdsTold'
  BY <1>1, <1>2 DEF Truth, NewsTold, IdsTold, Lists, News, Current
<1>6. NewsDone' => NewsDone
  BY <1>1, <1>2 DEF NewsDone, Lists, News
<1>7. RowsTold'
  BY <1>1, <1>2, <1>6 DEF Truth, RowsTold, Snapshots, Whole
<1> QED
  BY <1>3, <1>4, <1>5, <1>7 DEF Truth

TruthInv == disorder = {} => Truth

LEMMA NextTells ==
    ASSUME VmListInv, TruthInv, [Next]_vars PROVE TruthInv'
<1> SUFFICES ASSUME disorder' = {} PROVE Truth'
  BY DEF TruthInv
<1>1. disorder = {}
  BY DEF Next, Transition, ComeOrGo, Happens, ServerAnswers, FrameArrives,
         ListingGoesOn, IdleCallback, Select, vars
<1>2. Truth
  BY <1>1 DEF TruthInv
<1>3. ASSUME NEW v \in VMs, Transition(v) PROVE Truth'
  BY <1>2, <1>3, TransitionTells
<1>4. ASSUME NEW v \in VMs, ComeOrGo(v) PROVE Truth'
  BY <1>2, <1>4, ComeOrGoTells
<1>5. CASE ServerAnswers
  BY <1>2, <1>5, ServerAnswersTells
<1>6. CASE FrameArrives
  BY <1>2, <1>6, FrameArrivesTells
<1>7. ASSUME NEW l \in Listings, ListingGoesOn(l) PROVE Truth'
  BY <1>2, <1>7, ListingGoesOnTells
<1>8. CASE IdleCallback
  BY <1>2, <1>8, IdleCallbackTells
<1>9. CASE Select \/ UNCHANGED vars
  <2>1. UNCHANGED <<server, wire, tasks, idle, shown>>
    BY <1>9 DEF Select, vars, window
  <2> QED
    BY <1>2, <2>1, OthersTell
<1> QED
  BY <1>3, <1>4, <1>5, <1>6, <1>7, <1>8, <1>9 DEF Next

\* Once all that the server said has been dealt with, in order, the window
\* shows the virtual machines that the server has, in the states they are
\* in, for any number of machines, changes and listings under way
\* (VirtualMachineList and the reports that reach it).
THEOREM WindowShowsTheTruth == Spec => []ShowsTheTruth
<1>1. Init => TruthInv
  BY InitTruth DEF TruthInv
<1>2. VmListInv /\ TruthInv /\ [Next]_vars => TruthInv'
  BY NextTells
<1>3. VmListInv /\ TruthInv => ShowsTheTruth
  <2> SUFFICES ASSUME VmListInv, Truth, Quiet
               PROVE  shown = [v \in exists |-> state[v]]
    BY DEF TruthInv, ShowsTheTruth
  <2>1. Stream = <<>>
    <3>1. Waiting = <<>>
      BY WaitingOfNone DEF Quiet, Waiting
    <3> QED
      BY <3>1, ConcatEmptySeq, EmptySeq DEF Quiet, Stream
  <2>2. \A K : NoneOf(<<>>, K)
    BY DEF NoneOf
  <2>3. NewsDone
    BY <2>1, <2>2 DEF Quiet, NewsDone
  <2>4. DOMAIN shown = exists
    BY <2>1, <2>2, <2>3 DEF Quiet, Truth, RowsTold
  <2>5. exists \in SUBSET VMs /\ shown \in [exists -> States]
    BY <2>4, RowsAre DEF VmListInv, TypeOK
  <2>6. \A v \in exists : shown[v] = state[v]
    BY <2>1, <2>2, <2>4, <2>5 DEF Truth, StatesTold
  <2> QED
    BY <2>5, <2>6
<1> QED
  BY <1>1, <1>2, <1>3, InvariantHolds, PTL DEF Spec
=============================================================================
