-------------------------- MODULE AsyncLoopProofs --------------------------
(***************************************************************************)
(* Safety of AsyncLoop for any number of tasks, reports and calls.         *)
(* OneContinuation is inductive once it is said task by task: what the     *)
(* queues hold for a task, and its stage, change only for the task that    *)
(* takes the step, or for the two that RunIsDone is about.  That no        *)
(* message outlives its task follows from the counters.                    *)
(*                                                                         *)
(* Then the refinement: what the bar sees of the queue is a recursive      *)
(* definition, of which an induction over the queue shows how it changes   *)
(* when a callback is queued or taken.  At the end StatusBar by itself.    *)
(***************************************************************************)
EXTENDS AsyncLoop, SequenceTheorems, FiniteSetTheorems, WellFoundedInduction,
        TLAPS

Elems(queue) == {queue[i] : i \in DOMAIN queue}

\* Adding an element for a task that the queue is not about.
LEMMA AppendElems ==
    ASSUME NEW S, NEW q \in Seq(S), NEW f \in S
    PROVE  /\ Elems(Append(q, f)) = Elems(q) \cup {f}
           /\ OnePerTask(q) /\ (\A e \in Elems(q) : e.of # f.of)
                  => OnePerTask(Append(q, f))
<1>1. /\ Len(Append(q, f)) = Len(q) + 1 /\ Len(q) \in Nat
      /\ DOMAIN Append(q, f) = 1..(Len(q) + 1) /\ DOMAIN q = 1..Len(q)
      /\ \A i \in 1..Len(q) : Append(q, f)[i] = q[i]
      /\ Append(q, f)[Len(q) + 1] = f
  BY AppendProperties
<1>2. Elems(Append(q, f)) = Elems(q) \cup {f}
  BY <1>1 DEF Elems
<1>3. ASSUME OnePerTask(q), \A e \in Elems(q) : e.of # f.of,
             NEW i \in DOMAIN Append(q, f), NEW j \in DOMAIN Append(q, f),
             Append(q, f)[i].of = Append(q, f)[j].of
      PROVE  i = j
  <2>1. \A k \in 1..Len(q) : Append(q, f)[k].of # f.of
    BY <1>1, <1>3 DEF Elems
  <2> QED
    BY <1>1, <1>3, <2>1 DEF OnePerTask
<1> QED
  BY <1>2, <1>3 DEF OnePerTask

\* Taking the first element away.
LEMMA TailElems ==
    ASSUME NEW S, NEW q \in Seq(S), q # <<>>, OnePerTask(q)
    PROVE  /\ Head(q) \in Elems(q) /\ Head(q) \in S /\ Tail(q) \in Seq(S)
           /\ Elems(Tail(q)) = Elems(q) \ {Head(q)}
           /\ \A e \in Elems(Tail(q)) : e.of # Head(q).of
           /\ OnePerTask(Tail(q))
<1>1. /\ Len(q) \in Nat \ {0} /\ DOMAIN q = 1..Len(q)
      /\ Head(q) = q[1] /\ Head(q) \in S /\ Tail(q) \in Seq(S)
      /\ DOMAIN Tail(q) = 1..(Len(q) - 1)
      /\ \A i \in 1..(Len(q) - 1) : Tail(q)[i] = q[i + 1]
  BY HeadTailProperties, LenProperties, EmptySeq
<1>2. \A e \in Elems(Tail(q)) : e \in Elems(q) /\ e.of # Head(q).of
  <2> SUFFICES ASSUME NEW i \in 1..(Len(q) - 1)
               PROVE  q[i + 1] \in Elems(q) /\ q[i + 1].of # q[1].of
    BY <1>1 DEF Elems
  <2>1. i + 1 \in DOMAIN q /\ 1 \in DOMAIN q /\ i + 1 # 1
    BY <1>1
  <2> QED
    BY <2>1 DEF Elems, OnePerTask
<1>3. \A e \in Elems(q) : e # Head(q) => e \in Elems(Tail(q))
  <2> SUFFICES ASSUME NEW i \in DOMAIN q, q[i] # Head(q)
               PROVE  q[i] \in Elems(Tail(q))
    BY DEF Elems
  <2>1. i - 1 \in 1..(Len(q) - 1) /\ Tail(q)[i - 1] = q[i]
    BY <1>1
  <2> QED
    BY <1>1, <2>1 DEF Elems
<1>4. OnePerTask(Tail(q))
  <2> SUFFICES ASSUME NEW i \in 1..(Len(q) - 1), NEW j \in 1..(Len(q) - 1),
                      q[i + 1].of = q[j + 1].of
               PROVE  i = j
    BY <1>1 DEF OnePerTask
  <2>1. i + 1 \in DOMAIN q /\ j + 1 \in DOMAIN q
    BY <1>1
  <2>2. i + 1 = j + 1
    BY <2>1 DEF OnePerTask
  <2> QED
    BY <2>2
<1>5. Head(q) \in Elems(q)
  BY <1>1 DEF Elems
<1> QED
  BY <1>1, <1>2, <1>3, <1>4, <1>5

\* Taking the last element away.
LEMMA FrontElems ==
    ASSUME NEW S, NEW q \in Seq(S), q # <<>>, OnePerTask(q)
    PROVE  /\ Last(q) \in Elems(q) /\ Last(q) \in S /\ Front(q) \in Seq(S)
           /\ Elems(Front(q)) = Elems(q) \ {Last(q)}
           /\ \A e \in Elems(Front(q)) : e.of # Last(q).of
           /\ OnePerTask(Front(q))
<1>1. /\ Len(q) \in Nat \ {0} /\ DOMAIN q = 1..Len(q)
      /\ Last(q) = q[Len(q)] /\ Last(q) \in S
  BY LenProperties, EmptySeq DEF Last
<1>2. /\ Front(q) \in Seq(S) /\ DOMAIN Front(q) = 1..(Len(q) - 1)
      /\ \A i \in 1..(Len(q) - 1) : Front(q)[i] = q[i]
  BY <1>1, SubSeqProperties DEF Front
<1>3. \A e \in Elems(Front(q)) : e \in Elems(q) /\ e.of # Last(q).of
  <2> SUFFICES ASSUME NEW i \in 1..(Len(q) - 1)
               PROVE  q[i] \in Elems(q) /\ q[i].of # q[Len(q)].of
    BY <1>1, <1>2 DEF Elems
  <2>1. i \in DOMAIN q /\ Len(q) \in DOMAIN q /\ i # Len(q)
    <3>1. Len(q) \in Nat /\ Len(q) >= 1 /\ i \in Nat /\ 1 <= i /\ i < Len(q)
      BY <1>1
    <3>2. i \in 1..Len(q) /\ Len(q) \in 1..Len(q) /\ i # Len(q)
      BY <3>1
    <3>3. DOMAIN q = 1..Len(q)
      BY <1>1
    <3> QED
      BY <3>2, <3>3, Zenon
  <2>2. q[i] \in Elems(q)
    BY <2>1 DEF Elems
  <2>3. q[i].of # q[Len(q)].of
    BY <2>1 DEF OnePerTask
  <2> QED
    BY <2>2, <2>3
<1>4. \A e \in Elems(q) : e # Last(q) => e \in Elems(Front(q))
  BY <1>1, <1>2 DEF Elems
<1>5. OnePerTask(Front(q))
  BY <1>1, <1>2 DEF OnePerTask
<1>6. Last(q) \in Elems(q)
  BY <1>1 DEF Elems
<1> QED
  BY <1>1, <1>2, <1>3, <1>4, <1>5, <1>6

-----------------------------------------------------------------------------
(* Every task that waits goes on once.                                     *)

\* What a queue holds for a task.
About(queue, t) == {e \in Elems(queue) : e.of = t}

\* What a task at a stage has in the three queues.
Placed(inReady, inIdle, inNested, stage) ==
    \/ /\ inReady = {} /\ inIdle = {} /\ inNested = {}
       /\ stage \notin {"submitted", "asking", "ended"}
    \/ /\ inReady # {} /\ inIdle = {} /\ inNested = {}
       /\ \A e \in inReady :
              stage = IF e.kind = "start" THEN "submitted" ELSE "asking"
    \/ /\ inReady = {} /\ inIdle # {} /\ inNested = {}
       /\ \A e \in inIdle : stage = IF e.kind = "call" THEN "asking" ELSE "ended"
    \/ /\ inReady = {} /\ inIdle = {} /\ inNested # {}
       /\ stage = "asking"

GoesOn(t) == Placed(About(ready, t), About(idle, t), About(nested, t), task[t])

Queues == OnePerTask(ready) /\ OnePerTask(idle) /\ OnePerTask(nested)

LoopTypes ==
    /\ task \in [Tasks -> Stages]
    /\ asked \in [Tasks -> 0..MaxAsks]
    /\ ready \in Seq(Starts \cup Answers)
    /\ idle \in Seq(Calls \cup Ends)
    /\ nested \in Seq(Calls)

LoopInv == LoopTypes /\ Queues /\ \A t \in Tasks : GoesOn(t)

\* The kinds and the tasks of callbacks.
LEMMA CallbackFields ==
    /\ \A r \in Runs : /\ Start(r) \in Starts \cup Answers
                       /\ Start(r).kind = "start" /\ Start(r).of = r
    /\ \A t \in Tasks, ok \in BOOLEAN :
           /\ Answer(t, ok) \in Starts \cup Answers
           /\ Answer(t, ok).kind = "answer" /\ Answer(t, ok).of = t
    /\ \A t \in Tasks : /\ Call(t) \in Calls /\ Call(t) \in Calls \cup Ends
                        /\ Call(t).kind = "call" /\ Call(t).of = t
    /\ \A r \in Runs, kind \in {"done", "failed"} :
           /\ End(kind, r) \in Calls \cup Ends
           /\ End(kind, r).kind = kind /\ End(kind, r).of = r
  BY DEF Start, Answer, Call, End, Starts, Answers, Calls, Ends, Tasks

LEMMA CallbackTasks ==
    /\ \A e \in Starts \cup Answers \cup Calls \cup Ends : e.of \in Tasks
    /\ \A e \in Calls \cup Ends : e.kind = "done" => e.of \in Runs
  BY DEF Starts, Answers, Calls, Ends, Tasks

\* An element is of the type of its queue.
LEMMA ElemsTyped ==
    ASSUME NEW S, NEW q \in Seq(S) PROVE Elems(q) \subseteq S
  BY ElementOfSeq, LenProperties DEF Elems

LEMMA SettlesAppends ==
    ASSUME NEW t \in Tasks, NEW ok \in BOOLEAN, ready \in Seq(Starts \cup Answers)
    PROVE  ready \o Settles(t, ok) = Append(ready, Answer(t, ok))
<1>1. Answer(t, ok) \in Starts \cup Answers
  BY CallbackFields
<1> QED
  BY <1>1, AppendIsConcat DEF Settles

\* What is held for a task when a callback is queued.
LEMMA AppendAbout ==
    ASSUME NEW S, NEW q \in Seq(S), NEW f \in S, OnePerTask(q),
           About(q, f.of) = {}
    PROVE  /\ Append(q, f) \in Seq(S) /\ OnePerTask(Append(q, f))
           /\ About(Append(q, f), f.of) = {f}
           /\ \A t \in Tasks : t # f.of => About(Append(q, f), t) = About(q, t)
<1>1. Elems(Append(q, f)) = Elems(q) \cup {f} /\ \A e \in Elems(q) : e.of # f.of
  BY AppendElems DEF About
<1>2. OnePerTask(Append(q, f)) /\ Append(q, f) \in Seq(S)
  BY <1>1, AppendElems, AppendProperties
<1> QED
  BY <1>1, <1>2 DEF About

LEMMA AppendReady ==
    ASSUME LoopInv, NEW t \in Tasks, NEW f \in Starts \cup Answers, f.of = t,
           About(ready, t) = {}
    PROVE  LET q == Append(ready, f)
           IN  /\ q \in Seq(Starts \cup Answers) /\ OnePerTask(q) /\ About(q, t) = {f}
               /\ \A u \in Tasks : u # t => About(q, u) = About(ready, u)
<1> DEFINE v == ready
           S == Starts \cup Answers
<1>1. v \in Seq(S) /\ OnePerTask(v) /\ f \in S /\ About(v, f.of) = {}
  BY DEF LoopInv, LoopTypes, Queues
<1> HIDE DEF S, v
<1>2. /\ Append(v, f) \in Seq(S) /\ OnePerTask(Append(v, f))
      /\ About(Append(v, f), f.of) = {f}
      /\ \A u \in Tasks : u # f.of => About(Append(v, f), u) = About(v, u)
  BY <1>1, AppendAbout, SMTT(30)
<1> QED
  BY <1>2 DEF S, v

LEMMA AppendIdle ==
    ASSUME LoopInv, NEW t \in Tasks, NEW f \in Calls \cup Ends, f.of = t,
           About(idle, t) = {}
    PROVE  LET q == Append(idle, f)
           IN  /\ q \in Seq(Calls \cup Ends) /\ OnePerTask(q) /\ About(q, t) = {f}
               /\ \A u \in Tasks : u # t => About(q, u) = About(idle, u)
<1> DEFINE v == idle
           S == Calls \cup Ends
<1>1. v \in Seq(S) /\ OnePerTask(v) /\ f \in S /\ About(v, f.of) = {}
  BY DEF LoopInv, LoopTypes, Queues
<1> HIDE DEF S, v
<1>2. /\ Append(v, f) \in Seq(S) /\ OnePerTask(Append(v, f))
      /\ About(Append(v, f), f.of) = {f}
      /\ \A u \in Tasks : u # f.of => About(Append(v, f), u) = About(v, u)
  BY <1>1, AppendAbout, SMTT(30)
<1> QED
  BY <1>2 DEF S, v

LEMMA AppendNested ==
    ASSUME LoopInv, NEW t \in Tasks, NEW f \in Calls, f.of = t,
           About(nested, t) = {}
    PROVE  LET q == Append(nested, f)
           IN  /\ q \in Seq(Calls) /\ OnePerTask(q) /\ About(q, t) = {f}
               /\ \A u \in Tasks : u # t => About(q, u) = About(nested, u)
<1>1. nested \in Seq(Calls) /\ OnePerTask(nested) /\ About(nested, f.of) = {}
  BY DEF LoopInv, LoopTypes, Queues
<1>2. /\ Append(nested, f) \in Seq(Calls) /\ OnePerTask(Append(nested, f))
      /\ About(Append(nested, f), f.of) = {f}
  BY <1>1, AppendAbout
<1>3. \A u \in Tasks : u # f.of => About(Append(nested, f), u) = About(nested, u)
  BY <1>1, AppendAbout
<1> QED
  BY <1>2, <1>3

\* What is held for a task when the first callback is taken.
LEMMA TailAbout ==
    ASSUME NEW S, NEW q \in Seq(S), q # <<>>, OnePerTask(q)
    PROVE  /\ Head(q) \in S /\ Tail(q) \in Seq(S) /\ OnePerTask(Tail(q))
           /\ Head(q) \in About(q, Head(q).of)
           /\ About(Tail(q), Head(q).of) = {}
           /\ \A t \in Tasks : t # Head(q).of => About(Tail(q), t) = About(q, t)
  BY TailElems DEF About

LEMMA FrontAbout ==
    ASSUME NEW S, NEW q \in Seq(S), q # <<>>, OnePerTask(q)
    PROVE  /\ Last(q) \in S /\ Front(q) \in Seq(S) /\ OnePerTask(Front(q))
           /\ Last(q) \in About(q, Last(q).of)
           /\ About(Front(q), Last(q).of) = {}
           /\ \A t \in Tasks : t # Last(q).of => About(Front(q), t) = About(q, t)
  BY FrontElems DEF About

LEMMA LoopInvIsOneContinuation == LoopInv => OneContinuation
<1> SUFFICES ASSUME LoopInv PROVE OneContinuation
  OBVIOUS
<1>1. \A t \in Tasks : GoesOn(t)
  BY DEF LoopInv
<1>2. /\ \A i \in DOMAIN ready : /\ ready[i].of \in Tasks
                                 /\ ready[i] \in About(ready, ready[i].of)
      /\ \A i \in DOMAIN idle : /\ idle[i].of \in Tasks
                                /\ idle[i] \in About(idle, idle[i].of)
      /\ \A i \in DOMAIN nested : /\ nested[i].of \in Tasks
                                  /\ nested[i] \in About(nested, nested[i].of)
  <2>1. /\ Elems(ready) \subseteq Starts \cup Answers
        /\ Elems(idle) \subseteq Calls \cup Ends /\ Elems(nested) \subseteq Calls
    BY ElemsTyped DEF LoopInv, LoopTypes
  <2>2. /\ \A e \in Elems(ready) : e.of \in Tasks
        /\ \A e \in Elems(idle) : e.of \in Tasks
        /\ \A e \in Elems(nested) : e.of \in Tasks
    BY <2>1, CallbackTasks
  <2>3. /\ \A i \in DOMAIN ready : ready[i] \in Elems(ready)
        /\ \A i \in DOMAIN idle : idle[i] \in Elems(idle)
        /\ \A i \in DOMAIN nested : nested[i] \in Elems(nested)
    BY DEF Elems
  <2> QED
    BY <2>2, <2>3 DEF About
<1>3. \A t : /\ t \in In(ready) <=> About(ready, t) # {}
             /\ t \in In(idle) <=> About(idle, t) # {}
             /\ t \in In(nested) <=> About(nested, t) # {}
  BY DEF In, About, Elems
<1>4. \A t : t \in In(ready) \cup In(idle) \cup In(nested) => t \in Tasks
  BY <1>2 DEF In
<1>5. /\ In(ready) \cap In(idle) = {}
      /\ In(nested) \cap (In(ready) \cup In(idle)) = {}
  BY <1>1, <1>3, <1>4 DEF GoesOn, Placed
<1>6. \A t \in Tasks : task[t] \in {"submitted", "asking", "ended"}
                          <=> t \in In(ready) \cup In(idle) \cup In(nested)
  <2> SUFFICES ASSUME NEW t \in Tasks
               PROVE  task[t] \in {"submitted", "asking", "ended"}
                          <=> t \in In(ready) \cup In(idle) \cup In(nested)
    OBVIOUS
  <2> QED
    BY <1>1, <1>3 DEF GoesOn, Placed
<1>7. \A i \in DOMAIN ready :
          task[ready[i].of] =
              IF ready[i].kind = "start" THEN "submitted" ELSE "asking"
  BY <1>1, <1>2 DEF GoesOn, Placed
<1>8. \A i \in DOMAIN idle :
          task[idle[i].of] = IF idle[i].kind = "call" THEN "asking" ELSE "ended"
  BY <1>1, <1>2 DEF GoesOn, Placed
<1>9. \A i \in DOMAIN nested : task[nested[i].of] = "asking"
  BY <1>1, <1>2 DEF GoesOn, Placed
<1> QED
  BY <1>5, <1>6, <1>7, <1>8, <1>9 DEF OneContinuation, LoopInv, Queues

LEMMA InitLoop == Init => LoopInv
<1> SUFFICES ASSUME Init PROVE LoopInv
  OBVIOUS
<1>1. LoopTypes
  <2>1. /\ <<>> \in Seq(Starts \cup Answers) /\ <<>> \in Seq(Calls \cup Ends)
        /\ <<>> \in Seq(Calls) /\ 0 \in 0..MaxAsks
    BY EmptySeq, MaxAsksIsNat
  <2>2. task \in [Tasks -> Stages] /\ asked \in [Tasks -> 0..MaxAsks]
    BY <2>1 DEF Init, Stages
  <2> QED
    BY <2>1, <2>2 DEF Init, LoopTypes
<1>2. Queues
  BY DEF Init, OnePerTask, Queues
<1>3. \A t \in Tasks : GoesOn(t)
  BY DEF Init, About, Elems, GoesOn, Placed
<1> QED
  BY <1>1, <1>2, <1>3 DEF LoopInv

\* A task that does not wait is in no queue.
LEMMA NotWaiting ==
    ASSUME LoopInv, NEW t \in Tasks, task[t] \notin {"submitted", "asking", "ended"}
    PROVE  About(ready, t) = {} /\ About(idle, t) = {} /\ About(nested, t) = {}
  BY DEF LoopInv, GoesOn, Placed

\* A task begins to wait for the asyncio thread.
LEMMA RunKeepsLoop ==
    ASSUME LoopInv, NEW r \in Runs, Run(r) PROVE LoopInv'
<1>1. /\ r \in Tasks /\ Start(r) \in Starts \cup Answers /\ Start(r).of = r
      /\ Start(r).kind = "start"
  BY CallbackFields DEF Tasks
<1>2. About(ready, r) = {} /\ About(idle, r) = {} /\ About(nested, r) = {}
  BY <1>1, NotWaiting DEF Run
<1>3. /\ ready' \in Seq(Starts \cup Answers) /\ OnePerTask(ready')
      /\ About(ready', r) = {Start(r)}
      /\ \A t \in Tasks : t # r => About(ready', t) = About(ready, t)
  <2>1. ready' = Append(ready, Start(r))
    BY DEF Run, Queued
  <2> QED
    BY <1>1, <1>2, <2>1, AppendReady
<1>4. /\ task' \in [Tasks -> Stages] /\ task'[r] = "submitted"
      /\ \A t \in Tasks : t # r => task'[t] = task[t]
  BY <1>1 DEF Run, LoopInv, LoopTypes, Stages
<1>5. UNCHANGED <<asked, idle, nested>>
  BY DEF Run
<1>6. \A t \in Tasks : GoesOn(t)'
  <2> SUFFICES ASSUME NEW t \in Tasks PROVE GoesOn(t)'
    OBVIOUS
  <2>1. CASE t = r
    BY <1>1, <1>2, <1>3, <1>4, <1>5, <2>1 DEF GoesOn, Placed
  <2>2. CASE t # r
    BY <1>3, <1>4, <1>5, <2>2 DEF GoesOn, LoopInv
  <2> QED
    BY <2>1, <2>2
<1> QED
  BY <1>3, <1>4, <1>5, <1>6 DEF LoopInv, LoopTypes, Queues

\* A coroutine goes on, and its task waits no more.
LEMMA LoopStepKeepsLoop == ASSUME LoopInv, LoopStep PROVE LoopInv'
<1> DEFINE f == Head(ready)
<1>1. ready \in Seq(Starts \cup Answers) /\ OnePerTask(ready) /\ ready # <<>>
  BY DEF LoopInv, LoopTypes, Queues, LoopStep
<1>2. f \in Starts \cup Answers /\ f.of \in Tasks
  BY <1>1, TailAbout, CallbackTasks
<1>3. /\ ready' \in Seq(Starts \cup Answers) /\ OnePerTask(ready')
      /\ f \in About(ready, f.of) /\ About(ready', f.of) = {}
      /\ \A t \in Tasks : t # f.of => About(ready', t) = About(ready, t)
  <2>1. ready' = Tail(ready)
    BY DEF LoopStep
  <2> QED
    BY <1>1, <2>1, TailAbout
<1>4. About(idle, f.of) = {} /\ About(nested, f.of) = {}
  BY <1>2, <1>3 DEF LoopInv, GoesOn, Placed
<1>5. /\ task' \in [Tasks -> Stages]
      /\ task'[f.of] \notin {"submitted", "asking", "ended"}
      /\ \A t \in Tasks : t # f.of => task'[t] = task[t]
  BY <1>2 DEF LoopStep, LoopInv, LoopTypes, Stages
<1>6. UNCHANGED <<asked, idle, nested>>
  BY DEF LoopStep
<1>7. \A t \in Tasks : GoesOn(t)'
  <2> SUFFICES ASSUME NEW t \in Tasks PROVE GoesOn(t)'
    OBVIOUS
  <2>1. CASE t = f.of
    BY <1>3, <1>4, <1>5, <1>6, <2>1 DEF GoesOn, Placed
  <2>2. CASE t # f.of
    BY <1>3, <1>5, <1>6, <2>2 DEF GoesOn, LoopInv
  <2> QED
    BY <2>1, <2>2
<1> QED
  BY <1>3, <1>5, <1>6, <1>7 DEF LoopInv, LoopTypes, Queues

\* A task begins to wait for the GTK thread: its call, or its end.
LEMMA JoinIdle ==
    ASSUME LoopInv, NEW t \in Tasks, NEW f \in Calls \cup Ends, f.of = t,
           task[t] \notin {"submitted", "asking", "ended"},
           task' = [task EXCEPT ![t] =
                       IF f.kind = "call" THEN "asking" ELSE "ended"],
           idle' = Append(idle, f), asked' \in [Tasks -> 0..MaxAsks],
           UNCHANGED <<ready, nested>>
    PROVE  LoopInv'
<1>1. About(ready, t) = {} /\ About(idle, t) = {} /\ About(nested, t) = {}
  BY NotWaiting
<1>2. idle \in Seq(Calls \cup Ends) /\ OnePerTask(idle)
  BY DEF LoopInv, LoopTypes, Queues
<1>3. /\ idle' \in Seq(Calls \cup Ends) /\ OnePerTask(idle')
      /\ About(idle', t) = {f}
      /\ \A u \in Tasks : u # t => About(idle', u) = About(idle, u)
  BY <1>1, AppendIdle
<1>4. /\ task' \in [Tasks -> Stages]
      /\ task'[t] = IF f.kind = "call" THEN "asking" ELSE "ended"
      /\ \A u \in Tasks : u # t => task'[u] = task[u]
  BY DEF LoopInv, LoopTypes, Stages
<1>5. \A u \in Tasks : GoesOn(u)'
  <2> SUFFICES ASSUME NEW u \in Tasks PROVE GoesOn(u)'
    OBVIOUS
  <2>1. CASE u = t
    BY <1>1, <1>3, <1>4, <2>1 DEF GoesOn, Placed
  <2>2. CASE u # t
    BY <1>3, <1>4, <2>2 DEF GoesOn, LoopInv
  <2> QED
    BY <2>1, <2>2
<1> QED
  BY <1>3, <1>4, <1>5 DEF LoopInv, LoopTypes, Queues

LEMMA AskKeepsLoop == ASSUME LoopInv, NEW r \in Runs, Ask(r) PROVE LoopInv'
<1>1. /\ r \in Tasks /\ Call(r) \in Calls \cup Ends /\ Call(r).of = r
      /\ Call(r).kind = "call"
  BY CallbackFields DEF Tasks
<1>2. asked' \in [Tasks -> 0..MaxAsks]
  BY <1>1, MaxAsksIsNat DEF Ask, LoopInv, LoopTypes
<1>3. /\ task[r] = "running" /\ task' = [task EXCEPT ![r] = "asking"]
      /\ idle' = Append(idle, Call(r)) /\ UNCHANGED <<ready, nested>>
  BY DEF Ask, Queued
<1> QED
  BY <1>1, <1>2, <1>3, JoinIdle

LEMMA TaskEndsKeepsLoop ==
    ASSUME LoopInv, NEW r \in Runs, TaskEnds(r) PROVE LoopInv'
<1>1. PICK kind \in {"done", "failed"} : idle' = Append(idle, End(kind, r))
  BY DEF TaskEnds, Queued
<1>2. /\ r \in Tasks /\ End(kind, r) \in Calls \cup Ends /\ End(kind, r).of = r
      /\ End(kind, r).kind # "call"
  BY CallbackFields DEF Tasks
<1>3. /\ task[r] \notin {"submitted", "asking", "ended"}
      /\ task' = [task EXCEPT ![r] = "ended"]
      /\ asked' \in [Tasks -> 0..MaxAsks] /\ UNCHANGED <<ready, nested>>
  BY DEF TaskEnds, LoopInv, LoopTypes
<1> QED
  BY <1>1, <1>2, <1>3, JoinIdle

LEMMA ServerReportsKeepsLoop ==
    ASSUME LoopInv, NEW p \in Reports, ServerReports(p) PROVE LoopInv'
<1>1. /\ p \in Tasks /\ Call(p) \in Calls \cup Ends /\ Call(p).of = p
      /\ Call(p).kind = "call"
  BY CallbackFields DEF Tasks
<1>2. /\ task[p] \notin {"submitted", "asking", "ended"}
      /\ task' = [task EXCEPT ![p] = "asking"]
      /\ idle' = Append(idle, Call(p))
      /\ asked' \in [Tasks -> 0..MaxAsks] /\ UNCHANGED <<ready, nested>>
  BY DEF ServerReports, Queued, LoopInv, LoopTypes
<1> QED
  BY <1>1, <1>2, JoinIdle

\* What IdleCallback has taken is the only thing its task was waiting for.
LEMMA CallbackTaken ==
    ASSUME LoopInv, idle # <<>>, idle' = Tail(idle)
    PROVE  LET f == Head(idle)
           IN  /\ f \in Calls \cup Ends /\ f.of \in Tasks
               /\ idle' \in Seq(Calls \cup Ends) /\ OnePerTask(idle')
               /\ About(idle', f.of) = {}
               /\ About(ready, f.of) = {} /\ About(nested, f.of) = {}
               /\ task[f.of] = IF f.kind = "call" THEN "asking" ELSE "ended"
               /\ \A t \in Tasks : t # f.of => About(idle', t) = About(idle, t)
<1> DEFINE f == Head(idle)
<1>1. idle \in Seq(Calls \cup Ends) /\ OnePerTask(idle)
  BY DEF LoopInv, LoopTypes, Queues
<1>2. /\ f \in Calls \cup Ends /\ Tail(idle) \in Seq(Calls \cup Ends)
      /\ OnePerTask(Tail(idle)) /\ f \in About(idle, f.of)
      /\ About(Tail(idle), f.of) = {}
      /\ \A t \in Tasks : t # f.of => About(Tail(idle), t) = About(idle, t)
  BY <1>1, TailAbout
<1>3. f.of \in Tasks
  BY <1>2, CallbackTasks
<1>4. /\ About(ready, f.of) = {} /\ About(nested, f.of) = {}
      /\ task[f.of] = IF f.kind = "call" THEN "asking" ELSE "ended"
  BY <1>2, <1>3 DEF LoopInv, GoesOn, Placed
<1> QED
  BY <1>2, <1>3, <1>4

\* The call has settled the future, and the task will be told.
LEMMA CallSettles ==
    ASSUME LoopInv, NEW t \in Tasks, NEW ok \in BOOLEAN, task[t] = "asking",
           About(ready, t) = {}, About(idle', t) = {}, About(nested', t) = {},
           idle' \in Seq(Calls \cup Ends), OnePerTask(idle'),
           nested' \in Seq(Calls), OnePerTask(nested'),
           \A u \in Tasks : u # t => /\ About(idle', u) = About(idle, u)
                                     /\ About(nested', u) = About(nested, u),
           ready' = ready \o Settles(t, ok), UNCHANGED <<task, asked>>
    PROVE  LoopInv'
<1> DEFINE a == Answer(t, ok)
<1>1. a \in Starts \cup Answers /\ a.of = t /\ a.kind = "answer"
  BY CallbackFields
<1>2. ready \in Seq(Starts \cup Answers) /\ OnePerTask(ready)
  BY DEF LoopInv, LoopTypes, Queues
<1>3. ready' = Append(ready, a)
  BY <1>2, SettlesAppends
<1> HIDE DEF a
<1>4. /\ ready' \in Seq(Starts \cup Answers) /\ OnePerTask(ready')
      /\ About(ready', t) = {a}
      /\ \A u \in Tasks : u # t => About(ready', u) = About(ready, u)
  BY <1>1, <1>3, AppendReady
<1>5. \A u \in Tasks : GoesOn(u)'
  <2> SUFFICES ASSUME NEW u \in Tasks PROVE GoesOn(u)'
    OBVIOUS
  <2>1. CASE u = t
    BY <1>1, <1>4, <2>1 DEF GoesOn, Placed
  <2>2. CASE u # t
    BY <1>4, <2>2 DEF GoesOn, LoopInv
  <2> QED
    BY <2>1, <2>2
<1> QED
  BY <1>4, <1>5 DEF LoopInv, LoopTypes, Queues

\* The dialog of a call comes up.
LEMMA DialogOpens ==
    ASSUME LoopInv, idle # <<>>, idle' = Tail(idle), Head(idle).kind = "call",
           nested' = Append(nested, Call(Head(idle).of)),
           UNCHANGED <<task, asked, ready>>
    PROVE  LoopInv'
<1> DEFINE t == Head(idle).of  c == Call(t)
<1>1. /\ t \in Tasks /\ idle' \in Seq(Calls \cup Ends) /\ OnePerTask(idle')
      /\ About(idle', t) = {} /\ About(ready, t) = {} /\ About(nested, t) = {}
      /\ task[t] = "asking"
      /\ \A u \in Tasks : u # t => About(idle', u) = About(idle, u)
  BY CallbackTaken
<1>2. c \in Calls /\ c.of = t
  BY <1>1, CallbackFields
<1>3. nested \in Seq(Calls) /\ OnePerTask(nested) /\ nested' = Append(nested, c)
  BY DEF LoopInv, LoopTypes, Queues
<1> HIDE DEF t, c
<1>4. /\ nested' \in Seq(Calls) /\ OnePerTask(nested') /\ About(nested', t) = {c}
      /\ \A u \in Tasks : u # t => About(nested', u) = About(nested, u)
  BY <1>1, <1>2, <1>3, AppendNested
<1>5. \A u \in Tasks : GoesOn(u)'
  <2> SUFFICES ASSUME NEW u \in Tasks PROVE GoesOn(u)'
    OBVIOUS
  <2>1. CASE u = t
    BY <1>1, <1>4, <2>1 DEF GoesOn, Placed
  <2>2. CASE u # t
    BY <1>1, <1>4, <2>2 DEF GoesOn, LoopInv
  <2> QED
    BY <2>1, <2>2
<1> QED
  BY <1>1, <1>4, <1>5 DEF LoopInv, LoopTypes, Queues

\* A task is over, and its end is handled.
LEMMA EndHandled ==
    ASSUME LoopInv, idle # <<>>, idle' = Tail(idle), Head(idle).kind # "call",
           task' = [task EXCEPT ![Head(idle).of] = "finished"],
           UNCHANGED <<asked, ready, nested>>
    PROVE  LoopInv'
<1> DEFINE r == Head(idle).of
<1>1. /\ r \in Tasks /\ idle' \in Seq(Calls \cup Ends) /\ OnePerTask(idle')
      /\ About(idle', r) = {} /\ About(ready, r) = {} /\ About(nested, r) = {}
      /\ \A u \in Tasks : u # r => About(idle', u) = About(idle, u)
  BY CallbackTaken
<1> HIDE DEF r
<1>2. /\ task' \in [Tasks -> Stages] /\ task'[r] = "finished"
      /\ \A u \in Tasks : u # r => task'[u] = task[u]
  BY <1>1 DEF LoopInv, LoopTypes, Stages, r
<1>3. \A u \in Tasks : GoesOn(u)'
  <2> SUFFICES ASSUME NEW u \in Tasks PROVE GoesOn(u)'
    OBVIOUS
  <2>1. CASE u = r
    BY <1>1, <1>2, <2>1 DEF GoesOn, Placed
  <2>2. CASE u # r
    BY <1>1, <1>2, <2>2 DEF GoesOn, LoopInv
  <2> QED
    BY <2>1, <2>2
<1> QED
  BY <1>1, <1>2, <1>3 DEF LoopInv, LoopTypes, Queues

\* A task is over, and its done_cb has submitted the next one.
LEMMA EndHandledThen ==
    ASSUME LoopInv, idle # <<>>, idle' = Tail(idle), Head(idle).kind # "call",
           NEW next \in Runs, task[next] = "idle",
           task' = [task EXCEPT ![Head(idle).of] = "finished",
                                ![next] = "submitted"],
           ready' = Append(ready, Start(next)), UNCHANGED <<asked, nested>>
    PROVE  LoopInv'
<1> DEFINE r == Head(idle).of  s == Start(next)
<1>1. /\ r \in Tasks /\ idle' \in Seq(Calls \cup Ends) /\ OnePerTask(idle')
      /\ About(idle', r) = {} /\ About(ready, r) = {} /\ About(nested, r) = {}
      /\ task[r] \in {"asking", "ended"}
      /\ \A u \in Tasks : u # r => About(idle', u) = About(idle, u)
  BY CallbackTaken
<1>2. /\ next \in Tasks /\ s \in Starts \cup Answers /\ s.of = next
      /\ s.kind = "start"
  BY CallbackFields DEF Tasks
<1>3. /\ About(ready, next) = {} /\ About(idle, next) = {}
      /\ About(nested, next) = {}
  BY <1>2, NotWaiting
<1>4. /\ ready \in Seq(Starts \cup Answers) /\ OnePerTask(ready)
      /\ ready' = Append(ready, s)
  BY DEF LoopInv, LoopTypes, Queues
<1>5. /\ task' \in [Tasks -> Stages]
      /\ task'[r] = "finished" /\ task'[next] = "submitted" /\ r # next
      /\ \A u \in Tasks : u # r /\ u # next => task'[u] = task[u]
  BY <1>1, <1>2 DEF LoopInv, LoopTypes, Stages
<1> HIDE DEF r, s
<1>6. /\ ready' \in Seq(Starts \cup Answers) /\ OnePerTask(ready')
      /\ About(ready', next) = {s}
      /\ \A u \in Tasks : u # next => About(ready', u) = About(ready, u)
  BY <1>2, <1>3, <1>4, AppendReady
<1>7. \A u \in Tasks : GoesOn(u)'
  <2> SUFFICES ASSUME NEW u \in Tasks PROVE GoesOn(u)'
    OBVIOUS
  <2>1. CASE u = r
    BY <1>1, <1>5, <1>6, <2>1 DEF GoesOn, Placed
  <2>2. CASE u = next
    <3>1. About(idle', next) = {}
      BY <1>1, <1>2, <1>3, <1>5
    <3> QED
      BY <1>2, <1>3, <1>5, <1>6, <2>2, <3>1 DEF GoesOn, Placed
  <2>3. CASE u # r /\ u # next
    BY <1>1, <1>5, <1>6, <2>3 DEF GoesOn, LoopInv
  <2> QED
    BY <2>1, <2>2, <2>3
<1> QED
  BY <1>1, <1>5, <1>6, <1>7 DEF LoopInv, LoopTypes, Queues

LEMMA IdleCallbackKeepsLoop == ASSUME LoopInv, IdleCallback PROVE LoopInv'
<1> DEFINE f == Head(idle)
<1>1. idle # <<>> /\ idle' = Tail(idle) /\ UNCHANGED asked
  BY DEF IdleCallback
<1>2. /\ f \in Calls \cup Ends /\ f.of \in Tasks
      /\ idle' \in Seq(Calls \cup Ends) /\ OnePerTask(idle')
      /\ About(idle', f.of) = {}
      /\ About(ready, f.of) = {} /\ About(nested, f.of) = {}
      /\ task[f.of] = IF f.kind = "call" THEN "asking" ELSE "ended"
      /\ \A t \in Tasks : t # f.of => About(idle', t) = About(idle, t)
  BY <1>1, CallbackTaken
<1>3. nested \in Seq(Calls) /\ OnePerTask(nested)
  BY DEF LoopInv, LoopTypes, Queues
<1>4. ASSUME f.kind = "call", NEW ok \in BOOLEAN, ready' = ready \o Settles(f.of, ok),
             UNCHANGED <<task, nested>>
      PROVE  LoopInv'
  <2>1. /\ task[f.of] = "asking" /\ nested' \in Seq(Calls) /\ OnePerTask(nested')
        /\ About(nested', f.of) = {}
        /\ \A t \in Tasks : t # f.of => /\ About(idle', t) = About(idle, t)
                                        /\ About(nested', t) = About(nested, t)
    BY <1>2, <1>3, <1>4
  <2> HIDE DEF f
  <2> QED
    BY <1>1, <1>2, <1>4, <2>1, CallSettles
<1>5. CASE f.kind = "call" /\ CallWrapped(f.of)
  <2>1. CASE nested' = Append(nested, Call(f.of)) /\ UNCHANGED ready
    BY <1>1, <1>5, <2>1, DialogOpens DEF CallWrapped
  <2>2. CASE (\E ok \in BOOLEAN : ready' = ready \o Settles(f.of, ok))
             /\ UNCHANGED nested
    BY <1>4, <1>5, <2>2 DEF CallWrapped
  <2> QED
    BY <1>5, <2>1, <2>2 DEF CallWrapped
<1>6. CASE f.kind = "call" /\ ReportIsEmitted(f.of)
  BY <1>4, <1>6 DEF ReportIsEmitted
<1>7. CASE f.kind = "done" /\ RunIsDone(f.of)
  <2>1. CASE task' = [task EXCEPT ![f.of] = "finished"] /\ UNCHANGED ready
    BY <1>1, <1>7, <2>1, EndHandled DEF RunIsDone
  <2>2. ASSUME NEW next \in Runs, task[next] = "idle",
               task' = [task EXCEPT ![f.of] = "finished", ![next] = "submitted"],
               ready' = Queued(ready, Start(next))
        PROVE  LoopInv'
    BY <1>1, <1>7, <2>2, EndHandledThen DEF RunIsDone, Queued
  <2> QED
    BY <1>7, <2>1, <2>2 DEF RunIsDone
<1>8. CASE f.kind = "failed" /\ RunHasFailed(f.of)
  BY <1>1, <1>8, EndHandled DEF RunHasFailed
<1> QED
  BY <1>5, <1>6, <1>7, <1>8 DEF IdleCallback

LEMMA DialogAnsweredKeepsLoop == ASSUME LoopInv, DialogAnswered PROVE LoopInv'
<1> DEFINE f == Last(nested)
<1>1. nested # <<>> /\ nested' = Front(nested) /\ UNCHANGED <<task, asked, idle>>
  BY DEF DialogAnswered
<1>2. /\ nested \in Seq(Calls) /\ OnePerTask(nested)
      /\ idle \in Seq(Calls \cup Ends) /\ OnePerTask(idle)
  BY DEF LoopInv, LoopTypes, Queues
<1>3. /\ f \in Calls /\ nested' \in Seq(Calls) /\ OnePerTask(nested')
      /\ f \in About(nested, f.of) /\ About(nested', f.of) = {}
      /\ \A t \in Tasks : t # f.of => About(nested', t) = About(nested, t)
  BY <1>1, <1>2, FrontAbout
<1>4. f.of \in Tasks
  BY <1>3, CallbackTasks
<1>5. task[f.of] = "asking" /\ About(ready, f.of) = {} /\ About(idle, f.of) = {}
  BY <1>3, <1>4 DEF LoopInv, GoesOn, Placed
<1>6. PICK ok \in BOOLEAN : ready' = ready \o Settles(f.of, ok)
  BY DEF DialogAnswered
<1> HIDE DEF f
<1>7. /\ idle' \in Seq(Calls \cup Ends) /\ OnePerTask(idle')
      /\ About(idle', f.of) = {}
      /\ \A t \in Tasks : t # f.of => /\ About(idle', t) = About(idle, t)
                                      /\ About(nested', t) = About(nested, t)
  BY <1>1, <1>2, <1>3, <1>5
<1> QED
  BY <1>1, <1>3, <1>4, <1>5, <1>6, <1>7, CallSettles

LEMMA NextLoop == LoopInv /\ [Next]_vars => LoopInv'
<1> SUFFICES ASSUME LoopInv, [Next]_vars PROVE LoopInv'
  OBVIOUS
<1>1. CASE \E r \in Runs : Run(r) \/ Ask(r) \/ TaskEnds(r)
  BY <1>1, RunKeepsLoop, AskKeepsLoop, TaskEndsKeepsLoop
<1>2. CASE \E p \in Reports : ServerReports(p)
  BY <1>2, ServerReportsKeepsLoop
<1>3. CASE LoopStep
  BY <1>3, LoopStepKeepsLoop
<1>4. CASE IdleCallback
  BY <1>4, IdleCallbackKeepsLoop
<1>5. CASE DialogAnswered
  BY <1>5, DialogAnsweredKeepsLoop
<1>6. CASE UNCHANGED vars
  BY <1>6 DEF vars, LoopInv, LoopTypes, Queues, GoesOn
<1> QED
  BY <1>1, <1>2, <1>3, <1>4, <1>5, <1>6 DEF Next

-----------------------------------------------------------------------------
(* The bar.                                                                *)

UnderWay(r) == task[r] \notin {"idle", "finished"}

BarInv ==
    /\ shown \in Bar!Messages
    /\ counter \in Nat
    /\ counterAt \in [Runs -> Nat]
    /\ \A r \in Runs : /\ counterAt[r] <= counter
                       /\ counterAt[r] = counter <=> shown = Bar!Progress(r)
                       /\ shown = Bar!Progress(r) => UnderWay(r)

LEMMA MessagesDiffer ==
    \A r, s \in Runs : /\ Bar!Progress(r) = Bar!Progress(s) => r = s
                       /\ Bar!Progress(r) # Bar!Nothing
                       /\ Bar!Progress(r) # Bar!Error
                       /\ Bar!Progress(r) \in Bar!Messages
  BY DEF Bar!Progress, Bar!Nothing, Bar!Error, Bar!Messages

LEMMA InitBar == Init => BarInv
<1> SUFFICES ASSUME Init PROVE BarInv
  OBVIOUS
<1>1. shown = Bar!Nothing /\ counter = 1 /\ counterAt = [r \in Runs |-> 0]
  BY DEF Init
<1>2. Bar!Nothing \in Bar!Messages
  BY DEF Bar!Messages
<1> QED
  BY <1>1, <1>2, MessagesDiffer DEF BarInv

\* Nothing is said, and no task ends that has a message.
LEMMA BarIsLeft ==
    ASSUME BarInv, UNCHANGED bar,
           \A r \in Runs : UnderWay(r) => UnderWay(r)'
    PROVE  BarInv'
  BY DEF BarInv, bar

\* A task says what it does.
LEMMA BarBegins ==
    ASSUME BarInv, NEW r \in Runs, NEW n \in Nat, counter <= n, Bar!Begin(r, n),
           UnderWay(r)'
    PROVE  BarInv'
<1>1. /\ shown' = Bar!Progress(r) /\ counter' = n + 1
      /\ counterAt' = [counterAt EXCEPT ![r] = counter']
  BY DEF Bar!Begin, Bar!Counted, Bar!CounterOf
<1>2. \A s \in Runs : counterAt[s] \in Nat /\ counterAt[s] <= counter
  BY DEF BarInv
<1>3. counterAt' \in [Runs -> Nat] /\ counter' \in Nat
  BY <1>1 DEF BarInv
<1>4. \A s \in Runs : /\ counterAt'[s] <= counter'
                      /\ counterAt'[s] = counter' <=> s = r
  BY <1>1, <1>2 DEF BarInv
<1> QED
  BY <1>1, <1>3, <1>4, MessagesDiffer DEF BarInv

\* Something is said that is not of a task.
LEMMA BarIsSet ==
    ASSUME BarInv, shown' \in {Bar!Nothing, Bar!Error}, counter' = counter + 1,
           UNCHANGED counterAt
    PROVE  BarInv'
<1>1. shown' \in Bar!Messages /\ counter' \in Nat /\ counterAt' \in [Runs -> Nat]
  BY DEF BarInv, Bar!Messages
<1>2. \A r \in Runs : /\ counterAt[r] \in Nat /\ counterAt[r] <= counter
                      /\ counter \in Nat
  BY DEF BarInv
<1>3. \A r \in Runs : counterAt'[r] <= counter' /\ counterAt'[r] # counter'
  BY <1>2
<1> QED
  BY <1>1, <1>3, MessagesDiffer DEF BarInv

LEMMA NextBar == LoopInv /\ BarInv /\ [Next]_vars => BarInv'
<1> SUFFICES ASSUME LoopInv, BarInv, [Next]_vars PROVE BarInv'
  OBVIOUS
<1>1. task \in [Tasks -> Stages] /\ Runs \subseteq Tasks
  BY DEF LoopInv, LoopTypes, Tasks
<1>2. ASSUME NEW r \in Runs, Run(r) PROVE BarInv'
  <2>1. Bar!Begin(r, counter) /\ counter \in Nat /\ counter <= counter
    BY <1>2 DEF Run, BarInv
  <2>2. UnderWay(r)'
    BY <1>1, <1>2 DEF Run, UnderWay
  <2> QED
    BY <2>1, <2>2, BarBegins
<1>3. ASSUME NEW r \in Runs, Ask(r) \/ TaskEnds(r) PROVE BarInv'
  <2>1. UNCHANGED bar /\ \A s \in Runs : UnderWay(s) => UnderWay(s)'
    BY <1>1, <1>3 DEF Ask, TaskEnds, UnderWay
  <2> QED
    BY <2>1, BarIsLeft
<1>4. ASSUME NEW p \in Reports, ServerReports(p) PROVE BarInv'
  <2>1. UNCHANGED bar /\ \A s \in Runs : UnderWay(s) => UnderWay(s)'
    BY <1>1, <1>4 DEF ServerReports, UnderWay
  <2> QED
    BY <2>1, BarIsLeft
<1>5. CASE LoopStep
  <2>1. Head(ready) \in Starts \cup Answers
    BY <1>5, TailAbout DEF LoopStep, LoopInv, LoopTypes, Queues
  <2>2. \A s \in Runs : task'[s] \in {task[s], "raising", "running"}
    BY <1>1, <1>5, RunsAreNoReports DEF LoopStep
  <2> QED
    BY <1>5, <2>2, BarIsLeft DEF LoopStep, UnderWay
<1>6. CASE IdleCallback
  <2> DEFINE f == Head(idle)
  <2>1. f \in Calls \cup Ends
    BY <1>6, CallbackTaken DEF IdleCallback
  <2>2. CASE f.kind = "call" /\ CallWrapped(f.of)
    BY <2>2, BarIsLeft DEF CallWrapped, UnderWay
  <2>3. CASE f.kind = "call" /\ ReportIsEmitted(f.of)
    BY <2>3, BarIsSet DEF ReportIsEmitted, Bar!ShowError, Bar!Counted
  <2>4. CASE f.kind = "failed" /\ RunHasFailed(f.of)
    BY <2>4, BarIsSet DEF RunHasFailed, Bar!ShowError, Bar!Counted
  <2>5. CASE f.kind = "done" /\ RunIsDone(f.of)
    <3> DEFINE r == f.of
    <3>1. r \in Runs
      BY <2>1, <2>5, CallbackTasks
    <3>2. CASE task' = [task EXCEPT ![r] = "finished"] /\ Bar!WhenDone(r)
      <4>1. CASE Bar!IsLatest(r)
        BY <3>2, <4>1, BarIsSet DEF Bar!WhenDone, Bar!Counted
      <4>2. CASE ~Bar!IsLatest(r)
        <5>1. UNCHANGED bar
          BY <3>2, <4>2 DEF Bar!WhenDone, bar
        <5>2. shown # Bar!Progress(r)
          BY <3>1, <4>2 DEF Bar!IsLatest, BarInv
        <5>3. \A s \in Runs : shown = Bar!Progress(s) => s # r
          BY <5>2
        <5>4. \A s \in Runs : s # r => task'[s] = task[s]
          BY <1>1, <3>2
        <5> QED
          BY <5>1, <5>3, <5>4 DEF BarInv, bar, UnderWay
      <4> QED
        BY <4>1, <4>2
    <3>3. ASSUME NEW next \in Runs, task[next] = "idle",
                 task' = [task EXCEPT ![r] = "finished", ![next] = "submitted"],
                 Bar!WhenDoneThen(r, next)
          PROVE  BarInv'
      <4> DEFINE n == IF Bar!IsLatest(r) THEN counter + 1 ELSE counter
      <4>1. n \in Nat /\ counter <= n
        BY DEF BarInv
      <4>2. Bar!Begin(next, n)
        BY <3>3 DEF Bar!WhenDoneThen, Bar!Counted
      <4>3. UnderWay(next)'
        BY <1>1, <3>1, <3>3 DEF UnderWay
      <4> HIDE DEF n
      <4> QED
        BY <4>1, <4>2, <4>3, BarBegins
    <3> QED
      BY <2>5, <3>2, <3>3 DEF RunIsDone
  <2> QED
    BY <1>6, <2>2, <2>3, <2>4, <2>5 DEF IdleCallback
<1>7. CASE DialogAnswered
  BY <1>7, BarIsLeft DEF DialogAnswered, UnderWay
<1>8. CASE UNCHANGED vars
  BY <1>8, BarIsLeft DEF vars, bar, UnderWay
<1> QED
  BY <1>2, <1>3, <1>4, <1>5, <1>6, <1>7, <1>8 DEF Next

-----------------------------------------------------------------------------

LEMMA Invariants == Spec => [](LoopInv /\ BarInv)
<1>1. Init => LoopInv /\ BarInv
  BY InitLoop, InitBar
<1>2. LoopInv /\ BarInv /\ [Next]_vars => LoopInv' /\ BarInv'
  BY NextLoop, NextBar
<1> QED
  BY <1>1, <1>2, PTL DEF Spec

\* The queues hold callbacks of their kinds, the bar messages, whatever the
\* number of tasks: what AsyncLoop and StatusBar of the GUI keep is typed.
THEOREM LoopTyped == Spec => []TypeOK
<1>1. LoopInv /\ BarInv => TypeOK
  BY DEF LoopInv, LoopTypes, BarInv, TypeOK
<1> QED
  BY <1>1, Invariants, PTL

\* submit and wrap of asyncglib.py: for any number of tasks, calls, dialogs
\* and reports, a task that waits goes on exactly once.
THEOREM GoesOnOnce == Spec => []OneContinuation
  BY Invariants, LoopInvIsOneContinuation, PTL

\* run_async_task of gui.py: when what is in the bar is the message of a
\* task, that task is not over, whatever dialogs are up.
THEOREM MessagesEndWithTasks == Spec => []NoMessageOutlivesItsTask
<1>1. LoopInv /\ BarInv => NoMessageOutlivesItsTask
  <2> SUFFICES ASSUME LoopInv, BarInv, shown.kind = "progress"
               PROVE  BarStage(shown.of) \in {"running", "ended"}
                      /\ shown.of \in Runs
    BY DEF Bar!NoMessageOutlivesItsTask, NoMessageOutlivesItsTask
  <2>1. PICK r \in Runs : shown = Bar!Progress(r)
    BY DEF BarInv, Bar!Messages, Bar!Nothing, Bar!Error
  <2>2. shown.of = r /\ task[r] \in Stages \ {"idle", "finished"}
    BY <2>1 DEF Bar!Progress, BarInv, UnderWay, LoopInv, LoopTypes, Tasks
  <2> QED
    BY <2>1, <2>2 DEF BarStage, Stages
<1> QED
  BY <1>1, Invariants, PTL

-----------------------------------------------------------------------------
(* What the bar sees of a queue.                                           *)

\* Induction for a set of naturals.
LEMMA Induct ==
    ASSUME NEW T \in SUBSET Nat, 0 \in T, \A n \in T : n + 1 \in T
    PROVE  T = Nat
<1> DEFINE U == Nat \ T
<1>1. SUFFICES ASSUME U # {} PROVE FALSE
  OBVIOUS
<1>2. PICK n \in U : \A m \in U : ~(<<m, n>> \in OpToRel(<, Nat))
  <2> HIDE DEF U
  <2>1. U \subseteq Nat
    BY DEF U
  <2> QED
    BY <1>1, <2>1, WFMin, NatLessThanWellFounded
<1>3. \A m \in U : ~(m < n)
  BY <1>2 DEF OpToRel
<1>4. n - 1 \in T /\ n # 0
  BY <1>3
<1> QED
  BY <1>4

\* What is seen of the first i callbacks, with what is seen before them.
Sees(queue, before, i) ==
    IF BarKnows(queue[i]) THEN Append(before, BarCallback(queue[i])) ELSE before

LEMMA CallbackSeen ==
    ASSUME NEW f \in Calls \cup Ends, BarKnows(f)
    PROVE  BarCallback(f) \in Bar!Callbacks
  BY DEF BarKnows, BarCallback, Calls, Ends, Bar!Callbacks

\* The equations of BarSees have a solution, and it is typed.
LEMMA BarSeesEquations ==
    ASSUME NEW q \in Seq(Calls \cup Ends)
    PROVE  /\ BarSees(q) \in [0..Len(q) -> Seq(Bar!Callbacks)]
           /\ BarSees(q)[0] = <<>>
           /\ \A i \in 1..Len(q) : BarSees(q)[i] = Sees(q, BarSees(q)[i - 1], i)
<1> DEFINE D == Seq(Bar!Callbacks)
           Step(f, i) == IF i = 0 THEN <<>> ELSE Sees(q, f[i - 1], i)
           Begun(n) == \E f \in [0..n -> D] : \A i \in 0..n : f[i] = Step(f, i)
<1>1. BarSees(q) = CHOOSE f : f = [i \in 0..Len(q) |-> Step(f, i)]
  BY DEF BarSees, Sees
<1>2. ASSUME NEW s \in D, NEW i \in 1..Len(q) PROVE Sees(q, s, i) \in D
  <2>1. q[i] \in Calls \cup Ends
    OBVIOUS
  <2>2. CASE BarKnows(q[i])
    <3>1. BarCallback(q[i]) \in Bar!Callbacks
      BY <2>1, <2>2, CallbackSeen
    <3> QED
      BY <2>2, <3>1, AppendProperties DEF Sees
  <2>3. CASE ~BarKnows(q[i])
    BY <2>3 DEF Sees
  <2> QED
    BY <2>2, <2>3
<1>3. <<>> \in D
  BY EmptySeq
<1> HIDE DEF D
<1>4. Begun(Len(q))
  <2> DEFINE T == {n \in Nat : n <= Len(q) => Begun(n)}
  <2>1. Begun(0)
    <3> DEFINE f == [i \in 0..0 |-> <<>>]
    <3>1. f \in [0..0 -> D] /\ \A i \in 0..0 : f[i] = Step(f, i)
      BY <1>3
    <3> QED
      BY <3>1
  <2>2. ASSUME NEW n \in Nat, n + 1 <= Len(q), Begun(n) PROVE Begun(n + 1)
    <3>1. PICK f \in [0..n -> D] : \A i \in 0..n : f[i] = Step(f, i)
      BY <2>2
    <3> DEFINE last == Sees(q, f[n], n + 1)
               g == [i \in 0..(n + 1) |-> IF i = n + 1 THEN last ELSE f[i]]
    <3>2. last \in D
      BY <1>2, <2>2
    <3>3. g \in [0..(n + 1) -> D]
      <4> HIDE DEF last
      <4> QED
        BY <3>2
    <3>4. ASSUME NEW i \in 0..(n + 1) PROVE g[i] = Step(g, i)
      <4>1. CASE i = n + 1
        <5>1. g[n] = f[n] /\ i - 1 = n /\ i # 0 /\ g[i] = last
          BY <4>1
        <5> QED
          BY <4>1, <5>1
      <4>2. CASE i # n + 1
        <5>1. i \in 0..n /\ g[i] = f[i] /\ f[i] = Step(f, i)
          BY <3>1, <4>2
        <5>2. i # 0 => g[i - 1] = f[i - 1]
          BY <5>1
        <5> QED
          BY <5>1, <5>2
      <4> QED
        BY <4>1, <4>2
    <3> HIDE DEF g, Step
    <3> QED
      BY <3>3, <3>4
  <2> HIDE DEF Begun
  <2>3. 0 \in T /\ T \subseteq Nat
    BY <2>1
  <2>4. \A n \in T : n + 1 \in T
    BY <2>2
  <2>5. T = Nat
    <3> HIDE DEF T
    <3> QED
      BY <2>3, <2>4, Induct
  <2>6. Len(q) \in T
    BY <2>5, LenProperties
  <2> QED
    BY <2>6
<1>5. PICK f \in [0..Len(q) -> D] : \A i \in 0..Len(q) : f[i] = Step(f, i)
  BY <1>4
<1> HIDE DEF Step, Begun
<1>6. f = [i \in 0..Len(q) |-> Step(f, i)]
  BY <1>5
<1>7. BarSees(q) = [i \in 0..Len(q) |-> Step(BarSees(q), i)]
  BY <1>1, <1>6
<1>8. \A i \in 0..Len(q) : BarSees(q)[i] = Step(BarSees(q), i)
  BY <1>7
<1>9. /\ BarSees(q)[0] = <<>>
      /\ \A i \in 1..Len(q) : BarSees(q)[i] = Sees(q, BarSees(q)[i - 1], i)
  BY <1>8, LenProperties DEF Step
<1> DEFINE Typed == {n \in Nat : n <= Len(q) => BarSees(q)[n] \in D}
<1>10. Typed = Nat
  <2>1. 0 \in Typed /\ Typed \subseteq Nat
    BY <1>3, <1>9
  <2>2. ASSUME NEW n \in Typed, n + 1 <= Len(q) PROVE n + 1 \in Typed
    <3>1. n + 1 \in 1..Len(q) /\ (n + 1) - 1 = n /\ BarSees(q)[n] \in D
      BY <2>2
    <3>2. BarSees(q)[n + 1] \in D
      BY <1>2, <1>9, <3>1
    <3> QED
      BY <3>2
  <2>3. \A n \in Typed : n + 1 \in Typed
    BY <2>2
  <2> HIDE DEF Typed
  <2> QED
    BY <2>1, <2>3, Induct
<1>11. \A i \in 0..Len(q) : BarSees(q)[i] \in D
  BY <1>10
<1>12. BarSees(q) \in [0..Len(q) -> D]
  BY <1>7, <1>11
<1> QED
  BY <1>9, <1>12 DEF D

\* What is seen of a queue.
Seen(queue) == BarSees(queue)[Len(queue)]

LEMMA SeenTyped ==
    ASSUME NEW q \in Seq(Calls \cup Ends) PROVE Seen(q) \in Seq(Bar!Callbacks)
  BY BarSeesEquations, LenProperties DEF Seen

\* A callback that is queued is seen last,
LEMMA SeenAppend ==
    ASSUME NEW q \in Seq(Calls \cup Ends), NEW f \in Calls \cup Ends
    PROVE  Seen(Append(q, f)) =
               IF BarKnows(f) THEN Append(Seen(q), BarCallback(f)) ELSE Seen(q)
<1> DEFINE r == Append(q, f)
           n == Len(q)
<1>1. /\ r \in Seq(Calls \cup Ends) /\ n \in Nat /\ Len(r) = n + 1
      /\ \A i \in 1..n : r[i] = q[i]
      /\ r[n + 1] = f
  BY AppendProperties, LenProperties
<1> HIDE DEF r
<1>2. /\ BarSees(r)[0] = <<>>
      /\ \A i \in 1..(n + 1) : BarSees(r)[i] = Sees(r, BarSees(r)[i - 1], i)
      /\ BarSees(q)[0] = <<>>
      /\ \A i \in 1..n : BarSees(q)[i] = Sees(q, BarSees(q)[i - 1], i)
  BY <1>1, BarSeesEquations
<1> HIDE DEF n
<1> DEFINE T == {i \in Nat : i <= n => BarSees(r)[i] = BarSees(q)[i]}
<1>3. T = Nat
  <2>1. 0 \in T
    BY <1>2
  <2>2. ASSUME NEW i \in T, i + 1 <= n PROVE i + 1 \in T
    <3>1. /\ i + 1 \in 1..n /\ i + 1 \in 1..(n + 1) /\ (i + 1) - 1 = i
          /\ BarSees(r)[i] = BarSees(q)[i]
      BY <1>1, <2>2
    <3>2. /\ BarSees(r)[i + 1] = Sees(r, BarSees(r)[i], i + 1)
          /\ BarSees(q)[i + 1] = Sees(q, BarSees(q)[i], i + 1)
          /\ r[i + 1] = q[i + 1]
      BY <1>1, <1>2, <3>1
    <3>3. BarSees(r)[i + 1] = BarSees(q)[i + 1]
      BY <3>1, <3>2 DEF Sees
    <3> QED
      BY <3>3
  <2>3. \A i \in T : i + 1 \in T
    BY <2>2
  <2> QED
    BY <2>1, <2>3, Induct
<1>4. BarSees(r)[n] = BarSees(q)[n]
  BY <1>1, <1>3
<1>5. n + 1 \in 1..(n + 1) /\ (n + 1) - 1 = n
  BY <1>1
<1>6. BarSees(r)[n + 1] = Sees(r, BarSees(q)[n], n + 1)
  BY <1>2, <1>4, <1>5
<1> QED
  BY <1>1, <1>6 DEF Seen, Sees, n, r

\* and the one that is taken is seen first.
LEMMA SeenTail ==
    ASSUME NEW q \in Seq(Calls \cup Ends), q # <<>>
    PROVE  IF BarKnows(Head(q))
           THEN Seen(q) = <<BarCallback(Head(q))>> \o Seen(Tail(q))
           ELSE Seen(q) = Seen(Tail(q))
<1> DEFINE r == Tail(q)
           n == Len(r)
           D == Seq(Bar!Callbacks)
           first == IF BarKnows(Head(q)) THEN <<BarCallback(Head(q))>> ELSE <<>>
<1>1. /\ r \in Seq(Calls \cup Ends) /\ n \in Nat /\ Len(q) = n + 1
      /\ \A i \in 1..n : r[i] = q[i + 1]
      /\ q[1] = Head(q) /\ Head(q) \in Calls \cup Ends
  BY HeadTailProperties, LenProperties, EmptySeq
<1> HIDE DEF r
<1>2. /\ BarSees(r)[0] = <<>>
      /\ \A i \in 1..n : BarSees(r)[i] = Sees(r, BarSees(r)[i - 1], i)
      /\ BarSees(q)[0] = <<>>
      /\ \A i \in 1..(n + 1) : BarSees(q)[i] = Sees(q, BarSees(q)[i - 1], i)
      /\ \A i \in 0..n : BarSees(r)[i] \in D
  BY <1>1, BarSeesEquations
<1> HIDE DEF n
<1>3. first \in D /\ BarSees(q)[1] = first
  <2>1. BarSees(q)[1] = Sees(q, <<>>, 1)
    <3>1. 1 \in 1..(n + 1) /\ 1 - 1 = 0
      BY <1>1
    <3> QED
      BY <1>2, <3>1
  <2>2. BarKnows(Head(q)) => BarCallback(Head(q)) \in Bar!Callbacks
    BY <1>1, CallbackSeen
  <2> QED
    BY <1>1, <2>1, <2>2 DEF Sees
<1> HIDE DEF first
<1> DEFINE Lag(i) == BarSees(q)[i + 1] = first \o BarSees(r)[i]
           T == {i \in Nat : i <= n => Lag(i)}
<1>4. T = Nat
  <2>1. 0 \in T
    BY <1>2, <1>3, ConcatEmptySeq
  <2>2. ASSUME NEW i \in T, i + 1 <= n PROVE Lag(i + 1)
    <3>1. /\ i + 1 \in 1..n /\ (i + 1) - 1 = i /\ i \in 0..n
          /\ i + 2 \in 1..(n + 1) /\ (i + 2) - 1 = i + 1
          /\ BarSees(q)[i + 1] = first \o BarSees(r)[i]
      BY <1>1, <2>2
    <3>2. /\ BarSees(r)[i + 1] = Sees(r, BarSees(r)[i], i + 1)
          /\ BarSees(q)[i + 2] = Sees(q, BarSees(q)[i + 1], i + 2)
      BY <1>2, <3>1
    <3>3. r[i + 1] = q[i + 2] /\ r[i + 1] \in Calls \cup Ends
      BY <1>1, <3>1
    <3>4. BarSees(q)[i + 2] = first \o BarSees(r)[i + 1]
      <4>1. CASE BarKnows(r[i + 1])
        <5> DEFINE c == BarCallback(r[i + 1])
                   s == BarSees(r)[i]
        <5>1. s \in D /\ c \in Bar!Callbacks
          BY <1>2, <3>1, <3>3, <4>1, CallbackSeen
        <5>2. /\ BarSees(r)[i + 1] = Append(s, c)
              /\ BarSees(q)[i + 2] = Append(first \o s, c)
          BY <3>1, <3>2, <3>3, <4>1 DEF Sees
        <5> HIDE DEF c, s
        <5>3. Append(first \o s, c) = first \o Append(s, c)
          <6>1. /\ Append(s, c) = s \o <<c>> /\ <<c>> \in D
                /\ first \o s \in D
            BY <1>3, <5>1, AppendIsConcat, ConcatProperties
          <6>2. Append(first \o s, c) = (first \o s) \o <<c>>
            BY <5>1, <6>1, AppendIsConcat
          <6> QED
            BY <1>3, <5>1, <6>1, <6>2, ConcatAssociative
        <5> QED
          BY <5>2, <5>3
      <4>2. CASE ~BarKnows(r[i + 1])
        BY <3>1, <3>2, <3>3, <4>2 DEF Sees
      <4> QED
        BY <4>1, <4>2
    <3>5. (i + 1) + 1 = i + 2
      OBVIOUS
    <3> QED
      BY <3>4, <3>5
  <2> HIDE DEF Lag
  <2>3. \A i \in T : i + 1 \in T
    BY <2>2
  <2> QED
    BY <2>1, <2>3, Induct
<1>5. BarSees(q)[n + 1] = first \o BarSees(r)[n]
  <2> HIDE DEF Lag
  <2>1. Lag(n)
    BY <1>1, <1>4
  <2> QED
    BY <2>1 DEF Lag
<1>6. <<>> \o Seen(r) = Seen(r)
  BY <1>1, SeenTyped, ConcatEmptySeq
<1> QED
  BY <1>1, <1>5, <1>6 DEF Seen, first, n, r

-----------------------------------------------------------------------------
(* The refinement of StatusBar.                                            *)

\* The state that the bar sees.
BarStages == [r \in Runs |-> BarStage(r)]
Reported == {p \in Reports : task[p] # "idle"}
BarReports == Cardinality(Reported)
BarVars == <<shown, counter, BarStages, counterAt, BarIdle, BarReports>>

LEMMA QueueSeen ==
    ASSUME LoopInv, NEW f \in Calls \cup Ends, idle' = Append(idle, f)
    PROVE  BarIdle' = IF BarKnows(f) THEN Append(BarIdle, BarCallback(f))
                                     ELSE BarIdle
<1>1. idle \in Seq(Calls \cup Ends) /\ BarIdle = Seen(idle) /\ BarIdle' = Seen(idle')
  BY DEF LoopInv, LoopTypes, BarIdle, Seen
<1> QED
  BY <1>1, SeenAppend

LEMMA CallbackSeenTaken ==
    ASSUME LoopInv, idle # <<>>, idle' = Tail(idle)
    PROVE  LET f == Head(idle)
           IN  IF BarKnows(f)
               THEN /\ BarIdle # <<>> /\ Head(BarIdle) = BarCallback(f)
                    /\ BarIdle' = Tail(BarIdle)
               ELSE BarIdle' = BarIdle
<1> DEFINE f == Head(idle)
           c == BarCallback(f)
<1>1. /\ idle \in Seq(Calls \cup Ends) /\ idle' \in Seq(Calls \cup Ends)
      /\ f \in Calls \cup Ends
      /\ BarIdle = Seen(idle) /\ BarIdle' = Seen(idle')
  BY HeadTailProperties DEF LoopInv, LoopTypes, BarIdle, Seen
<1>2. CASE BarKnows(f)
  <2>1. BarIdle = <<c>> \o BarIdle'
    BY <1>1, <1>2, SeenTail
  <2>2. BarIdle' \in Seq(Bar!Callbacks) /\ c \in Bar!Callbacks
    BY <1>1, <1>2, SeenTyped, CallbackSeen
  <2> HIDE DEF c
  <2>3. /\ <<c>> \o BarIdle' # <<>> /\ Head(<<c>> \o BarIdle') = c
        /\ Tail(<<c>> \o BarIdle') = BarIdle'
    BY <2>2
  <2> QED
    BY <1>2, <2>1, <2>3 DEF c
<1>3. CASE ~BarKnows(f)
  BY <1>1, <1>3, SeenTail
<1> QED
  BY <1>2, <1>3

\* Which callbacks the bar sees, and as what.
LEMMA CallbacksSeen ==
    /\ \A r \in Runs : ~BarKnows(Call(r))
    /\ \A p \in Reports : /\ BarKnows(Call(p))
                          /\ BarCallback(Call(p)) = [kind |-> "report"]
    /\ \A r \in Runs, k \in {"done", "failed"} :
           /\ BarKnows(End(k, r))
           /\ BarCallback(End(k, r)) = [kind |-> k, of |-> r]
  BY RunsAreNoReports DEF BarKnows, BarCallback, Call, End

\* The stages, when those of the other runs do not change.
LEMMA StageSeen ==
    ASSUME NEW r \in Runs, NEW s, BarStage(r)' = s,
           \A u \in Runs : u # r => BarStage(u)' = BarStage(u)
    PROVE  BarStages' = [BarStages EXCEPT ![r] = s]
<1>1. \A u \in Runs : BarStages'[u] = [BarStages EXCEPT ![r] = s][u]
  BY DEF BarStages
<1> QED
  BY <1>1 DEF BarStages

LEMMA StagesKept ==
    ASSUME \A r \in Runs : BarStage(r)' = BarStage(r)
    PROVE  BarStages' = BarStages
  BY DEF BarStages

LEMMA ReportedKept ==
    ASSUME \A p \in Reports : task'[p] = "idle" <=> task[p] = "idle"
    PROVE  BarReports' = BarReports
<1>1. Reported' = Reported
  BY DEF Reported
<1> QED
  BY <1>1 DEF BarReports

LEMMA RunIsSeen == ASSUME LoopInv, NEW r \in Runs, Run(r) PROVE Bar!Run(r)
<1>1. /\ task \in [Tasks -> Stages] /\ task[r] = "idle"
      /\ task' = [task EXCEPT ![r] = "submitted"]
      /\ Bar!Begin(r, counter) /\ idle' = idle
      /\ r \in Tasks /\ r \notin Reports
  BY RunsAreNoReports DEF Run, LoopInv, LoopTypes, Tasks
<1>2. BarStages' = [BarStages EXCEPT ![r] = "running"]
  <2>1. BarStage(r)' = "running" /\ \A u \in Runs : u # r => BarStage(u)' = BarStage(u)
    BY <1>1 DEF BarStage, Tasks
  <2> QED
    BY <2>1, StageSeen
<1>3. BarReports' = BarReports
  <2>1. \A p \in Reports : task'[p] = task[p]
    BY <1>1 DEF Tasks
  <2> QED
    BY <2>1, ReportedKept
<1>4. BarIdle' = BarIdle
  BY <1>1 DEF BarIdle
<1> QED
  BY <1>1, <1>2, <1>3, <1>4 DEF Bar!Run, BarStages, BarReports, Reported

LEMMA TaskEndsIsSeen ==
    ASSUME LoopInv, NEW r \in Runs, TaskEnds(r) PROVE Bar!TaskEnds(r)
<1>1. /\ task \in [Tasks -> Stages] /\ task[r] \in {"running", "raising"}
      /\ task' = [task EXCEPT ![r] = "ended"] /\ UNCHANGED bar
      /\ r \in Tasks /\ r \notin Reports
  BY RunsAreNoReports DEF TaskEnds, LoopInv, LoopTypes, Tasks
<1>2. BarStages' = [BarStages EXCEPT ![r] = "ended"]
  <2>1. BarStage(r)' = "ended" /\ \A u \in Runs : u # r => BarStage(u)' = BarStage(u)
    BY <1>1 DEF BarStage, Tasks
  <2> QED
    BY <2>1, StageSeen
<1>3. BarReports' = BarReports
  <2>1. \A p \in Reports : task'[p] = task[p]
    BY <1>1 DEF Tasks
  <2> QED
    BY <2>1, ReportedKept
<1>4. PICK k \in {"done", "failed"} : idle' = Append(idle, End(k, r))
  BY DEF TaskEnds, Queued
<1>5. BarIdle' = Append(BarIdle, [kind |-> k, of |-> r])
  BY <1>4, CallbackFields, CallbacksSeen, QueueSeen
<1>6. BarStages[r] = "running"
  BY <1>1 DEF BarStages, BarStage
<1> QED
  BY <1>1, <1>2, <1>3, <1>5, <1>6
     DEF Bar!TaskEnds, BarStages, BarReports, Reported, bar

LEMMA ServerReportsIsSeen ==
    ASSUME LoopInv, NEW p \in Reports, ServerReports(p) PROVE Bar!ServerReports
<1>1. /\ task \in [Tasks -> Stages] /\ task[p] = "idle"
      /\ task' = [task EXCEPT ![p] = "asking"] /\ UNCHANGED bar
      /\ idle' = Append(idle, Call(p)) /\ p \in Tasks
  BY DEF ServerReports, Queued, LoopInv, LoopTypes, Tasks
<1>2. BarStages' = BarStages
  <2>1. \A u \in Runs : BarStage(u)' = BarStage(u)
    BY <1>1, RunsAreNoReports DEF BarStage, Tasks
  <2> QED
    BY <2>1, StagesKept
<1>3. BarReports < Cardinality(Reports) /\ BarReports' = BarReports + 1
  <2>1. Reported' = Reported \cup {p} /\ p \notin Reported
    BY <1>1 DEF Reported, Tasks
  <2>2. IsFiniteSet(Reported) /\ IsFiniteSet(Reported')
    BY ReportsAreFinite, FS_Subset DEF Reported
  <2>3. BarReports' = BarReports + 1
    BY <2>1, <2>2, FS_AddElement DEF BarReports
  <2>4. BarReports' <= Cardinality(Reports)
    BY ReportsAreFinite, FS_Subset DEF BarReports, Reported
  <2>5. BarReports \in Nat /\ Cardinality(Reports) \in Nat
    BY <2>2, ReportsAreFinite, FS_CardinalityType DEF BarReports
  <2> QED
    BY <2>3, <2>4, <2>5
<1>4. BarIdle' = Append(BarIdle, [kind |-> "report"])
  BY <1>1, CallbackFields, CallbacksSeen, QueueSeen
<1> QED
  BY <1>1, <1>2, <1>3, <1>4
     DEF Bar!ServerReports, BarStages, BarReports, Reported, bar

\* Steps that the bar does not see.
LEMMA AskIsUnseen ==
    ASSUME LoopInv, NEW r \in Runs, Ask(r) PROVE BarVars' = BarVars
<1>1. /\ task \in [Tasks -> Stages] /\ task[r] = "running"
      /\ task' = [task EXCEPT ![r] = "asking"] /\ UNCHANGED bar
      /\ idle' = Append(idle, Call(r)) /\ r \in Tasks /\ r \notin Reports
  BY RunsAreNoReports DEF Ask, Queued, LoopInv, LoopTypes, Tasks
<1>2. BarStages' = BarStages
  <2>1. \A u \in Runs : BarStage(u)' = BarStage(u)
    BY <1>1 DEF BarStage, Tasks
  <2> QED
    BY <2>1, StagesKept
<1>3. BarReports' = BarReports
  <2>1. \A p \in Reports : task'[p] = task[p]
    BY <1>1 DEF Tasks
  <2> QED
    BY <2>1, ReportedKept
<1>4. BarIdle' = BarIdle
  BY <1>1, CallbackFields, CallbacksSeen, QueueSeen
<1> QED
  BY <1>1, <1>2, <1>3, <1>4 DEF BarVars, bar

LEMMA LoopStepIsUnseen == ASSUME LoopInv, LoopStep PROVE BarVars' = BarVars
<1> DEFINE f == Head(ready)
           t == f.of
<1>1. /\ ready # <<>> /\ UNCHANGED bar /\ idle' = idle
      /\ task' = [task EXCEPT ![t] =
                      IF f.kind = "answer" /\ ~f.ok THEN "raising"
                      ELSE IF t \in Reports THEN "finished" ELSE "running"]
      /\ task \in [Tasks -> Stages]
  BY DEF LoopStep, LoopInv, LoopTypes
<1>2. t \in Tasks /\ task[t] \in {"submitted", "asking"}
  <2>1. ready \in Seq(Starts \cup Answers) /\ OnePerTask(ready)
    BY DEF LoopInv, LoopTypes, Queues
  <2>2. f \in Starts \cup Answers /\ f \in About(ready, t)
    BY <1>1, <2>1, TailAbout
  <2>3. t \in Tasks
    BY <2>2, CallbackTasks
  <2> QED
    BY <2>2, <2>3 DEF LoopInv, GoesOn, Placed
<1>3. /\ task'[t] \in {"running", "raising", "finished"}
      /\ t \in Runs => task'[t] # "finished"
      /\ \A u \in Tasks : u # t => task'[u] = task[u]
  BY <1>1, <1>2, RunsAreNoReports
<1> HIDE DEF f, t
<1>4. BarStages' = BarStages
  <2>1. ASSUME NEW u \in Runs PROVE BarStage(u)' = BarStage(u)
    <3>1. CASE u = t
      BY <1>2, <1>3, <3>1 DEF BarStage
    <3>2. CASE u # t
      BY <1>3, <3>2 DEF BarStage, Tasks
    <3> QED
      BY <3>1, <3>2
  <2> QED
    BY <2>1, StagesKept
<1>5. BarReports' = BarReports
  <2>1. \A p \in Reports : task'[p] = "idle" <=> task[p] = "idle"
    BY <1>2, <1>3 DEF Tasks
  <2> QED
    BY <2>1, ReportedKept
<1>6. BarIdle' = BarIdle
  BY <1>1 DEF BarIdle
<1> QED
  BY <1>1, <1>4, <1>5, <1>6 DEF BarVars, bar

LEMMA DialogAnsweredIsUnseen ==
    ASSUME DialogAnswered PROVE BarVars' = BarVars
<1>1. UNCHANGED <<bar, task, idle>>
  BY DEF DialogAnswered
<1>2. BarStages' = BarStages /\ BarReports' = BarReports /\ BarIdle' = BarIdle
  BY <1>1 DEF BarStages, BarStage, BarReports, Reported, BarIdle
<1> QED
  BY <1>1, <1>2 DEF BarVars, bar

\* A callback of the GTK thread is one of the bar, or the bar does not see it.
LEMMA IdleCallbackIsSeen ==
    ASSUME LoopInv, IdleCallback
    PROVE  Bar!IdleCallback \/ BarVars' = BarVars
<1> DEFINE f == Head(idle)
           c == BarCallback(f)
<1>1. idle # <<>> /\ idle' = Tail(idle)
  BY DEF IdleCallback
<1>2. f \in Calls \cup Ends /\ f.of \in Tasks
  BY <1>1, CallbackTaken
<1>3. IF BarKnows(f)
      THEN BarIdle # <<>> /\ Head(BarIdle) = c /\ BarIdle' = Tail(BarIdle)
      ELSE BarIdle' = BarIdle
  BY <1>1, CallbackSeenTaken
<1>4. task \in [Tasks -> Stages]
  BY DEF LoopInv, LoopTypes
<1>5. CASE f.kind = "call" /\ CallWrapped(f.of)
  <2>1. ~BarKnows(f)
    BY <1>5, RunsAreNoReports DEF CallWrapped, BarKnows
  <2>2. UNCHANGED <<bar, task>>
    BY <1>5 DEF CallWrapped
  <2>3. BarStages' = BarStages /\ BarReports' = BarReports
    BY <2>2 DEF BarStages, BarStage, BarReports, Reported
  <2> QED
    BY <1>3, <2>1, <2>2, <2>3 DEF BarVars, bar
<1>6. CASE f.kind = "call" /\ ReportIsEmitted(f.of)
  <2>1. BarKnows(f) /\ c = [kind |-> "report"]
    BY <1>6 DEF ReportIsEmitted, BarKnows, BarCallback
  <2>2. Bar!ShowError /\ UNCHANGED task
    BY <1>6 DEF ReportIsEmitted
  <2>3. BarStages' = BarStages /\ BarReports' = BarReports
    BY <2>2 DEF BarStages, BarStage, BarReports, Reported
  <2>4. c.kind = "report"
    BY <2>1
  <2> HIDE DEF c, f
  <2> QED
    BY <1>3, <2>1, <2>2, <2>3, <2>4
       DEF Bar!IdleCallback, BarStages, BarReports, Reported
<1>7. ASSUME f.kind \in {"done", "failed"}
      PROVE  /\ f.of \in Runs /\ BarKnows(f) /\ c.kind = f.kind /\ c.of = f.of
             /\ BarIdle # <<>> /\ Head(BarIdle) = c /\ BarIdle' = Tail(BarIdle)
  <2>1. f \in Ends
    BY <1>2, <1>7 DEF Calls
  <2>2. f.of \in Runs
    BY <2>1 DEF Ends
  <2>3. BarKnows(f) /\ c = f
    BY <1>7 DEF BarKnows, BarCallback
  <2> QED
    BY <1>3, <2>2, <2>3
<1>8. ASSUME f.of \in Runs, NEW x, x = f.of, \A u \in Runs : task'[u] =
                  IF u = x THEN "finished" ELSE task[u],
             \A p \in Reports : task'[p] = task[p]
      PROVE  /\ BarStages' = [BarStages EXCEPT ![x] = "finished"]
             /\ BarReports' = BarReports
  <2>1. /\ BarStage(x)' = "finished"
        /\ \A u \in Runs : u # x => BarStage(u)' = BarStage(u)
    BY <1>8 DEF BarStage
  <2> QED
    BY <1>8, <2>1, StageSeen, ReportedKept
<1>9. CASE f.kind = "failed" /\ RunHasFailed(f.of)
  <2>1. BarStages' = [BarStages EXCEPT ![f.of] = "finished"] /\ BarReports' = BarReports
    BY <1>4, <1>7, <1>8, <1>9, RunsAreNoReports DEF RunHasFailed, Tasks
  <2>2. Bar!ShowError
    BY <1>9 DEF RunHasFailed
  <2> HIDE DEF f, c
  <2> QED
    BY <1>7, <1>9, <2>1, <2>2
       DEF Bar!IdleCallback, BarStages, BarReports, Reported
<1>10. CASE f.kind = "done" /\ RunIsDone(f.of)
  <2>1. CASE task' = [task EXCEPT ![f.of] = "finished"] /\ Bar!WhenDone(f.of)
    <3>1. BarStages' = [BarStages EXCEPT ![f.of] = "finished"] /\ BarReports' = BarReports
      BY <1>4, <1>7, <1>8, <1>10, <2>1, RunsAreNoReports DEF Tasks
    <3> HIDE DEF f, c
    <3> QED
      BY <1>7, <1>10, <2>1, <3>1
         DEF Bar!IdleCallback, BarStages, BarReports, Reported
  <2>2. ASSUME NEW next \in Runs, task[next] = "idle",
               task' = [task EXCEPT ![f.of] = "finished", ![next] = "submitted"],
               Bar!WhenDoneThen(f.of, next)
        PROVE  Bar!IdleCallback
    <3>1. f.of \in Runs
      BY <1>7, <1>10
    <3>2. BarReports' = BarReports
      <4>1. \A p \in Reports : task'[p] = task[p]
        BY <1>4, <2>2, <3>1, RunsAreNoReports DEF Tasks
      <4> QED
        BY <4>1, ReportedKept
    <3> HIDE DEF f, c
    <3> QED
      BY <1>7, <1>10, <2>2, <3>1, <3>2
         DEF Bar!IdleCallback, BarStages, BarReports, Reported
  <2> QED
    BY <1>10, <2>1, <2>2 DEF RunIsDone
<1> QED
  BY <1>5, <1>6, <1>9, <1>10 DEF IdleCallback

LEMMA InitIsSeen == Init => Bar!Init
<1> SUFFICES ASSUME Init PROVE Bar!Init
  OBVIOUS
<1>1. BarStages = [r \in Runs |-> "idle"]
  BY DEF Init, BarStages, BarStage, Tasks
<1>2. BarReports = 0
  <2>1. Reported = {}
    BY DEF Init, Reported, Tasks
  <2> QED
    BY <2>1, FS_EmptySet DEF BarReports
<1>3. BarIdle = <<>>
  <2>1. idle = <<>> /\ idle \in Seq(Calls \cup Ends) /\ Len(idle) = 0
    BY EmptySeq DEF Init
  <2> QED
    BY <2>1, BarSeesEquations DEF BarIdle
<1> QED
  BY <1>1, <1>2, <1>3 DEF Init, Bar!Init, BarStages, BarReports, Reported

LEMMA NextIsSeen == LoopInv /\ [Next]_vars => [Bar!Next]_BarVars
<1> SUFFICES ASSUME LoopInv, [Next]_vars PROVE Bar!Next \/ BarVars' = BarVars
  OBVIOUS
<1>1. ASSUME NEW r \in Runs, Run(r) \/ Ask(r) \/ TaskEnds(r)
      PROVE  Bar!Run(r) \/ Bar!TaskEnds(r) \/ BarVars' = BarVars
  BY <1>1, RunIsSeen, AskIsUnseen, TaskEndsIsSeen
<1>2. ASSUME NEW p \in Reports, ServerReports(p) PROVE Bar!ServerReports
  BY <1>2, ServerReportsIsSeen
<1>3. CASE LoopStep
  BY <1>3, LoopStepIsUnseen
<1>4. CASE IdleCallback
  BY <1>4, IdleCallbackIsSeen DEF Bar!Next
<1>5. CASE DialogAnswered
  BY <1>5, DialogAnsweredIsUnseen
<1>6. CASE UNCHANGED vars
  BY <1>6 DEF vars, BarVars, BarStages, BarStage, BarReports, Reported, BarIdle
<1> QED
  BY <1>1, <1>2, <1>3, <1>4, <1>5, <1>6 DEF Next, Bar!Next

\* AsyncLoop of asyncglib.py shows the bar what StatusBar is written for:
\* for any number of tasks, calls, dialogs and reports, the ends of the runs
\* and the reports come once each, and in the order they were queued.
THEOREM LoopImplementsBar == Spec => ImplementsBar
<1>1. LoopInv /\ [Next]_vars => [Bar!Next]_(Bar!vars)
  BY NextIsSeen DEF Bar!vars, BarVars, BarStages, BarReports, Reported
<1>2. [](LoopInv /\ BarInv) /\ [][Next]_vars => [][Bar!Next]_(Bar!vars)
  BY <1>1, PTL
<1> QED
  BY <1>2, InitIsSeen, Invariants, PTL DEF Spec, ImplementsBar, Bar!Spec

-----------------------------------------------------------------------------
(* StatusBar by itself, whatever the loop does: on variables of its own,   *)
(* for any number of tasks and of errors.  What makes the comparison of    *)
(* counters work is CounterTells; the rest follows from it.                *)

CONSTANT MaxReports
VARIABLES barStage, barIdle, barReports

B == INSTANCE StatusBar WITH
             stage <- barStage, idle <- barIdle, reports <- barReports

OwnInv == B!TypeOK /\ B!CounterTells /\ B!NoMessageOutlivesItsTask

\* Messages of different tasks differ, and differ from the others.
LEMMA OwnMessagesDiffer ==
    /\ B!Nothing # B!Error
    /\ B!Nothing.kind # "progress" /\ B!Error.kind # "progress"
    /\ \A r \in Runs : /\ B!Progress(r) # B!Nothing /\ B!Progress(r) # B!Error
                       /\ B!Progress(r).kind = "progress"
                       /\ B!Progress(r).of = r
                       /\ \A q \in Runs : B!Progress(r) = B!Progress(q) => r = q
<1>1. /\ B!Nothing.kind = "nothing" /\ B!Error.kind = "error"
      /\ \A r : B!Progress(r).kind = "progress" /\ B!Progress(r).of = r
  BY DEF B!Nothing, B!Error, B!Progress
<1> QED
  BY <1>1

\* A callback for the end of a task names the task.
LEMMA OwnHeadIsTyped ==
    ASSUME B!TypeOK, barIdle # <<>>
    PROVE  /\ Head(barIdle) \in B!Callbacks
           /\ Tail(barIdle) \in Seq(B!Callbacks)
           /\ Head(barIdle).kind \in {"done", "failed"} => Head(barIdle).of \in Runs
<1>1. Head(barIdle) \in B!Callbacks /\ Tail(barIdle) \in Seq(B!Callbacks)
  BY DEF B!TypeOK
<1>2. \A f \in B!Callbacks : f.kind \in {"done", "failed"} => f.of \in Runs
  BY DEF B!Callbacks
<1> QED
  BY <1>1, <1>2

LEMMA InitOwn == B!Init => OwnInv
<1> SUFFICES ASSUME B!Init PROVE OwnInv
  OBVIOUS
<1>1. B!TypeOK
  BY DEF B!Init, B!TypeOK, B!Messages
<1>2. B!CounterTells
  <2>1. ASSUME NEW r \in Runs
        PROVE  /\ counterAt[r] <= counter /\ counterAt[r] # counter
               /\ shown # B!Progress(r)
    <3>1. counterAt[r] = 0 /\ counter = 1 /\ shown = B!Nothing
      BY DEF B!Init
    <3> QED
      BY <3>1, OwnMessagesDiffer
  <2> QED
    BY <2>1 DEF B!CounterTells
<1>3. B!NoMessageOutlivesItsTask
  BY OwnMessagesDiffer DEF B!Init, B!NoMessageOutlivesItsTask
<1> QED
  BY <1>1, <1>2, <1>3 DEF OwnInv

\* Running a task sets its message and makes its counter the latest.
LEMMA OwnBeginKeeps ==
    ASSUME OwnInv, NEW r \in Runs, NEW n \in Nat, counter <= n, B!Begin(r, n)
    PROVE  /\ shown' = B!Progress(r) /\ shown' \in B!Messages
           /\ counter' \in Nat
           /\ counterAt' \in [Runs -> Nat]
           /\ B!CounterTells'
<1>1. /\ shown' = B!Progress(r)
      /\ counter' = n + 1
      /\ counterAt' = [counterAt EXCEPT ![r] = n + 1]
  BY DEF B!Begin, B!Counted, B!CounterOf
<1>2. counter' \in Nat /\ counterAt' \in [Runs -> Nat]
  BY <1>1 DEF OwnInv, B!TypeOK
<1>3. ASSUME NEW q \in Runs
      PROVE  /\ counterAt'[q] <= counter'
             /\ counterAt'[q] = counter' <=> shown' = B!Progress(q)
  <2>1. CASE q = r
    BY <1>1, <2>1 DEF OwnInv, B!TypeOK
  <2>2. CASE q # r
    <3>1. counterAt'[q] = counterAt[q] /\ counterAt[q] \in Nat
      BY <1>1, <2>2 DEF OwnInv, B!TypeOK
    <3>2. counterAt'[q] < counter'
      BY <1>1, <3>1 DEF OwnInv, B!TypeOK, B!CounterTells
    <3>3. shown' # B!Progress(q)
      BY <1>1, <2>2, OwnMessagesDiffer
    <3> QED
      BY <1>2, <3>1, <3>2, <3>3
  <2> QED
    BY <2>1, <2>2
<1>4. shown' \in B!Messages
  BY <1>1 DEF B!Messages
<1> QED
  BY <1>1, <1>2, <1>3, <1>4 DEF B!CounterTells

\* A message that is not a task's leaves every task's counter behind.
LEMMA OwnOtherMessageKeeps ==
    ASSUME OwnInv, shown' \in {B!Nothing, B!Error}, counter' = counter + 1,
           counterAt' = counterAt
    PROVE  /\ shown' \in B!Messages /\ counter' \in Nat
           /\ B!CounterTells'
           /\ B!NoMessageOutlivesItsTask'
<1>1. shown' \in B!Messages /\ counter' \in Nat
  BY DEF OwnInv, B!TypeOK, B!Messages
<1>2. ASSUME NEW q \in Runs
      PROVE  counterAt'[q] < counter' /\ shown' # B!Progress(q)
  BY OwnMessagesDiffer DEF OwnInv, B!TypeOK, B!CounterTells
<1>3. \A q \in Runs : counterAt'[q] \in Nat
  BY DEF OwnInv, B!TypeOK
<1>4. B!CounterTells'
  BY <1>1, <1>2, <1>3 DEF B!CounterTells
<1>5. B!NoMessageOutlivesItsTask'
  BY OwnMessagesDiffer DEF B!NoMessageOutlivesItsTask
<1> QED
  BY <1>1, <1>4, <1>5

LEMMA NextOwn == OwnInv /\ [B!Next]_(B!vars) => OwnInv'
<1> SUFFICES ASSUME OwnInv, [B!Next]_(B!vars) PROVE OwnInv'
  OBVIOUS
<1>1. ASSUME NEW r \in Runs, B!Run(r) PROVE OwnInv'
  <2>1. /\ shown' = B!Progress(r) /\ shown' \in B!Messages
        /\ counter' \in Nat /\ counterAt' \in [Runs -> Nat] /\ B!CounterTells'
    <3>1. B!Begin(r, counter) /\ counter \in Nat /\ counter <= counter
      BY <1>1 DEF B!Run, OwnInv, B!TypeOK
    <3> QED
      BY <3>1, OwnBeginKeeps
  <2>2. barStage' = [barStage EXCEPT ![r] = "running"] /\ UNCHANGED <<barIdle, barReports>>
    BY <1>1 DEF B!Run
  <2>3. B!TypeOK'
    BY <2>1, <2>2 DEF OwnInv, B!TypeOK
  <2>4. B!NoMessageOutlivesItsTask'
    BY <2>1, <2>2, OwnMessagesDiffer DEF OwnInv, B!TypeOK, B!NoMessageOutlivesItsTask
  <2> QED
    BY <2>1, <2>3, <2>4 DEF OwnInv
<1>2. ASSUME NEW r \in Runs, B!TaskEnds(r) PROVE OwnInv'
  <2>1. PICK k \in {"done", "failed"} :
            barIdle' = Append(barIdle, [kind |-> k, of |-> r])
    BY <1>2 DEF B!TaskEnds
  <2>2. [kind |-> k, of |-> r] \in B!Callbacks
    BY DEF B!Callbacks
  <2>3. B!TypeOK'
    BY <1>2, <2>1, <2>2 DEF B!TaskEnds, OwnInv, B!TypeOK
  <2>4. B!CounterTells' /\ B!NoMessageOutlivesItsTask'
    BY <1>2 DEF B!TaskEnds, OwnInv, B!TypeOK, B!CounterTells,
                B!NoMessageOutlivesItsTask, B!Messages, B!Nothing, B!Error, B!Progress
  <2> QED
    BY <2>3, <2>4 DEF OwnInv
<1>3. CASE B!ServerReports
  <2>1. [kind |-> "report"] \in B!Callbacks
    BY DEF B!Callbacks
  <2>2. B!TypeOK'
    BY <1>3, <2>1 DEF B!ServerReports, OwnInv, B!TypeOK
  <2>3. B!CounterTells' /\ B!NoMessageOutlivesItsTask'
    BY <1>3 DEF B!ServerReports, OwnInv, B!CounterTells, B!NoMessageOutlivesItsTask
  <2> QED
    BY <2>2, <2>3 DEF OwnInv
<1>4. CASE B!IdleCallback
  <2> DEFINE f == Head(barIdle)
  <2>1. /\ barIdle # <<>> /\ barIdle' = Tail(barIdle) /\ barReports' = barReports
        /\ barIdle' \in Seq(B!Callbacks)
        /\ f.kind \in {"done", "failed"} => f.of \in Runs
    BY <1>4, OwnHeadIsTyped DEF B!IdleCallback, OwnInv
  <2>2. CASE f.kind = "done" /\ B!WhenDone(f.of)
    <3>1. f.of \in Runs
      BY <2>1, <2>2
    <3>2. barStage' = [barStage EXCEPT ![f.of] = "finished"] /\ counterAt' = counterAt
      BY <2>2 DEF B!WhenDone
    <3>3. barStage' \in [Runs -> {"idle", "running", "ended", "finished"}]
      BY <3>1, <3>2 DEF OwnInv, B!TypeOK
    <3>4. CASE B!IsLatest(f.of)
      <4>1. shown' = B!Nothing /\ counter' = counter + 1
        BY <2>2, <3>4 DEF B!WhenDone, B!Counted
      <4> QED
        BY <2>1, <3>2, <3>3, <4>1, OwnOtherMessageKeeps DEF OwnInv, B!TypeOK
    <3>5. CASE ~B!IsLatest(f.of)
      <4>1. shown' = shown /\ counter' = counter
        BY <2>2, <3>5 DEF B!WhenDone
      <4>2. shown # B!Progress(f.of)
        BY <3>1, <3>5 DEF B!IsLatest, OwnInv, B!CounterTells
      <4>3. ASSUME NEW r \in Runs, shown' = B!Progress(r)
            PROVE  barStage'[r] \in {"running", "ended"}
        BY <3>1, <3>2, <4>1, <4>2, <4>3, OwnMessagesDiffer
           DEF OwnInv, B!TypeOK, B!NoMessageOutlivesItsTask
      <4>4. shown'.kind = "progress" => \E r \in Runs : shown' = B!Progress(r)
        BY <4>1, OwnMessagesDiffer DEF OwnInv, B!TypeOK, B!Messages
      <4>5. B!NoMessageOutlivesItsTask'
        BY <4>3, <4>4, OwnMessagesDiffer DEF B!NoMessageOutlivesItsTask
      <4>6. B!CounterTells'
        BY <3>2, <4>1 DEF OwnInv, B!CounterTells
      <4> QED
        BY <2>1, <3>2, <3>3, <4>1, <4>5, <4>6 DEF OwnInv, B!TypeOK
    <3> QED
      BY <3>4, <3>5
  <2>3. ASSUME f.kind = "done", NEW r \in Runs, B!WhenDoneThen(f.of, r)
        PROVE  OwnInv'
    <3> DEFINE n == IF B!IsLatest(f.of) THEN B!Counted(B!Nothing, counter)
                                      ELSE counter
    <3>1. n \in Nat /\ counter <= n
      BY DEF B!Counted, OwnInv, B!TypeOK
    <3>2. B!Begin(r, n)
      BY <2>3 DEF B!WhenDoneThen
    <3>3. /\ shown' = B!Progress(r) /\ shown' \in B!Messages
          /\ counter' \in Nat /\ counterAt' \in [Runs -> Nat] /\ B!CounterTells'
      <4> HIDE DEF n
      <4> QED
        BY <3>1, <3>2, OwnBeginKeeps
    <3>4. /\ barStage' = [barStage EXCEPT ![f.of] = "finished", ![r] = "running"]
          /\ f.of \in Runs
      BY <2>1, <2>3 DEF B!WhenDoneThen
    <3>5. /\ barStage' \in [Runs -> {"idle", "running", "ended", "finished"}]
          /\ barStage'[r] = "running"
      BY <3>4 DEF OwnInv, B!TypeOK
    <3>6. B!NoMessageOutlivesItsTask'
      BY <3>3, <3>5, OwnMessagesDiffer DEF B!NoMessageOutlivesItsTask
    <3> QED
      BY <2>1, <3>3, <3>5, <3>6 DEF OwnInv, B!TypeOK
  <2>4. CASE \/ f.kind = "failed" /\ B!ShowError
                /\ barStage' = [barStage EXCEPT ![f.of] = "finished"]
             \/ f.kind = "report" /\ B!ShowError /\ UNCHANGED barStage
    <3>1. barStage' \in [Runs -> {"idle", "running", "ended", "finished"}]
      BY <2>1, <2>4 DEF OwnInv, B!TypeOK
    <3>2. shown' = B!Error /\ counter' = counter + 1 /\ counterAt' = counterAt
      BY <2>4 DEF B!ShowError, B!Counted
    <3> QED
      BY <2>1, <3>1, <3>2, OwnOtherMessageKeeps DEF OwnInv, B!TypeOK
  <2> QED
    BY <1>4, <2>2, <2>3, <2>4 DEF B!IdleCallback
<1>5. CASE UNCHANGED B!vars
  BY <1>5 DEF B!vars, OwnInv, B!TypeOK, B!CounterTells, B!NoMessageOutlivesItsTask
<1> QED
  BY <1>1, <1>2, <1>3, <1>4, <1>5 DEF B!Next

LEMMA OwnInvariant == B!Spec => []OwnInv
  BY InitOwn, NextOwn, PTL DEF B!Spec

\* The state of the bar keeps its types, however many tasks overlap.
THEOREM TypeCorrect == B!Spec => []B!TypeOK
<1>1. OwnInv => B!TypeOK
  BY DEF OwnInv
<1> QED
  BY <1>1, OwnInvariant, PTL

\* The counter a run remembers is the latest exactly while its message is
\* the one in the bar.
THEOREM CounterIsTelling == B!Spec => []B!CounterTells
<1>1. OwnInv => B!CounterTells
  BY DEF OwnInv
<1> QED
  BY <1>1, OwnInvariant, PTL

\* The message of a task that is over is never in the bar, in whatever order
\* any number of tasks end.
THEOREM MessagesEnd == B!Spec => []B!NoMessageOutlivesItsTask
<1>1. OwnInv => B!NoMessageOutlivesItsTask
  BY DEF OwnInv
<1> QED
  BY <1>1, OwnInvariant, PTL

\* No end of a task wipes out an error.
THEOREM ErrorsRemain == B!Spec => B!ErrorsStay
<1>1. OwnInv /\ [B!Next]_(B!vars) => [shown = B!Error => shown' # B!Nothing]_(B!vars)
  <2> SUFFICES ASSUME OwnInv, B!Next, shown = B!Error PROVE shown' # B!Nothing
    BY DEF B!vars
  <2>1. ASSUME NEW r \in Runs, NEW n, B!Begin(r, n) PROVE shown' # B!Nothing
    BY <2>1, OwnMessagesDiffer DEF B!Begin
  <2>2. CASE \E r \in Runs : B!Run(r) \/ B!TaskEnds(r)
    BY <2>1, <2>2, OwnMessagesDiffer DEF B!Run, B!TaskEnds
  <2>3. CASE B!ServerReports
    BY <2>3, OwnMessagesDiffer DEF B!ServerReports
  <2>4. CASE B!IdleCallback
    <3> DEFINE f == Head(barIdle)
    <3>1. f.kind \in {"done", "failed"} => f.of \in Runs
      BY <2>4, OwnHeadIsTyped DEF B!IdleCallback, OwnInv
    <3>2. CASE f.kind = "done" /\ B!WhenDone(f.of)
      <4>1. ~B!IsLatest(f.of)
        BY <3>1, <3>2, OwnMessagesDiffer DEF B!IsLatest, OwnInv, B!CounterTells
      <4> QED
        BY <3>2, <4>1, OwnMessagesDiffer DEF B!WhenDone
    <3>3. CASE f.kind = "done" /\ \E r \in Runs : B!WhenDoneThen(f.of, r)
      BY <2>1, <3>3 DEF B!WhenDoneThen
    <3>4. CASE B!ShowError
      BY <3>4, OwnMessagesDiffer DEF B!ShowError
    <3> QED
      BY <2>4, <3>2, <3>3, <3>4 DEF B!IdleCallback
  <2> QED
    BY <2>2, <2>3, <2>4 DEF B!Next
<1> QED
  BY <1>1, OwnInvariant, PTL DEF B!Spec, B!ErrorsStay
=============================================================================
