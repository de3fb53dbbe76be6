----------------------------- MODULE AsyncLoop -----------------------------
(***************************************************************************)
(* The two threads of the GUI: coroutines run in an asyncio thread, and    *)
(* all that touches a window runs in the GTK thread (AsyncLoop in          *)
(* src/utmremote/asyncglib.py).  The GTK thread submits a coroutine to the *)
(* loop; the end of the coroutine, and what it wants to have called in the *)
(* GTK thread meanwhile, come back as idle callbacks.  A call that opens a *)
(* dialog runs a main loop of its own, in which other idle callbacks run   *)
(* and other dialogs open.                                                 *)
(*                                                                         *)
(* The tasks are the runs of StatusBar.run_async_task and the errors that  *)
(* the server reports; what they do to the bar is as in StatusBar, which   *)
(* this module implements.  What a task awaits other than a call is not    *)
(* seen.                                                                   *)
(***************************************************************************)
EXTENDS Naturals, Sequences, FiniteSets, SequencesExt

CONSTANTS Runs,     \* calls of run_async_task, all of them with a message
          Reports,  \* errors that the server reports
          MaxAsks   \* bound on the calls of wrap in a run

ASSUME RunsAreNoReports == Runs \cap Reports = {}
ASSUME ReportsAreFinite == IsFiniteSet(Reports)
ASSUME MaxAsksIsNat == MaxAsks \in Nat

VARIABLES
    shown,      \* the message in the bar
    counter,    \* its _counter
    counterAt,  \* "counter" of each run
    task,       \* how far the coroutine of each task has come
    asked,      \* calls of wrap it has made
    ready,      \* callbacks queued for the asyncio thread
    idle,       \* callbacks queued for the GTK thread
    nested      \* calls whose dialogs are up, the latest one last

vars == <<shown, counter, counterAt, task, asked, ready, idle, nested>>

Tasks == Runs \cup Reports

Starts == [kind : {"start"}, of : Runs]
Answers == [kind : {"answer"}, of : Tasks, ok : BOOLEAN]
Calls == [kind : {"call"}, of : Tasks]
Ends == [kind : {"done", "failed"}, of : Runs]

Start(r) == [kind |-> "start", of |-> r]
Answer(t, ok) == [kind |-> "answer", of |-> t, ok |-> ok]
Call(t) == [kind |-> "call", of |-> t]
End(kind, r) == [kind |-> kind, of |-> r]

Stages == {"idle", "submitted", "running", "asking", "raising", "ended", "finished"}

-----------------------------------------------------------------------------
(* The bar.                                                                *)

BarStage(r) ==
    CASE task[r] \in {"submitted", "running", "asking", "raising"} -> "running"
      [] OTHER -> task[r]

\* Of what is queued the bar knows the ends of runs and the reports.
BarKnows(f) == f.kind # "call" \/ f.of \in Reports

BarCallback(f) == IF f.kind = "call" THEN [kind |-> "report"] ELSE f

\* What it sees of the first i callbacks of a queue.
BarSees(queue) ==
    LET sees[i \in 0..Len(queue)] ==
            IF i = 0 THEN <<>>
            ELSE IF BarKnows(queue[i])
                 THEN Append(sees[i - 1], BarCallback(queue[i]))
                 ELSE sees[i - 1]
    IN  sees

BarIdle == BarSees(idle)[Len(idle)]

Bar == INSTANCE StatusBar WITH
           MaxReports <- Cardinality(Reports),
           stage <- [r \in Runs |-> BarStage(r)],
           idle <- BarIdle,
           reports <- Cardinality({p \in Reports : task[p] # "idle"})

-----------------------------------------------------------------------------

Init ==
    /\ shown = Bar!Nothing
    /\ counter = 1
    /\ counterAt = [r \in Runs |-> 0]
    /\ task = [t \in Tasks |-> "idle"]
    /\ asked = [t \in Tasks |-> 0]
    /\ ready = <<>>
    /\ idle = <<>>
    /\ nested = <<>>

bar == <<shown, counter, counterAt>>

\* Mutant: the latest callback is called first.
QueuedInFront(queue, f) == <<f>> \o queue

\* Both threads take their callbacks in the order they were queued.
Queued(queue, f) == Append(queue, f)

\* run_async_task: submit queues the start of the coroutine.
Run(r) ==
    /\ task[r] = "idle"
    /\ task' = [task EXCEPT ![r] = "submitted"]
    /\ Bar!Begin(r, counter)
    /\ ready' = Queued(ready, Start(r))
    /\ UNCHANGED <<asked, idle, nested>>

\* A coroutine starts, or the future that it awaits in wrap is settled.
LoopStep ==
    /\ ready # <<>>
    /\ ready' = Tail(ready)
    /\ LET f == Head(ready)
       IN  task' = [task EXCEPT ![f.of] =
                       IF f.kind = "answer" /\ ~f.ok THEN "raising"
                       ELSE IF f.of \in Reports THEN "finished" ELSE "running"]
    /\ UNCHANGED <<bar, asked, idle, nested>>

\* wrap
Ask(r) ==
    /\ task[r] = "running"
    /\ asked[r] < MaxAsks
    /\ asked' = [asked EXCEPT ![r] = @ + 1]
    /\ task' = [task EXCEPT ![r] = "asking"]
    /\ idle' = Queued(idle, Call(r))
    /\ UNCHANGED <<bar, ready, nested>>

\* The coroutine returns or raises, and the callback that submit added to
\* its future, before or after that, queues call_when_done.
TaskEnds(r) ==
    /\ task[r] \in {"running", "raising"}
    /\ task' = [task EXCEPT ![r] = "ended"]
    /\ \E kind \in {"done", "failed"} :
           /\ task[r] = "raising" => kind = "failed"
           /\ idle' = Queued(idle, End(kind, r))
    /\ UNCHANGED <<bar, asked, ready, nested>>

\* Local.handle awaits wrap(emit) of virtual_machine_did_error.
ServerReports(p) ==
    /\ task[p] = "idle"
    /\ task' = [task EXCEPT ![p] = "asking"]
    /\ idle' = Queued(idle, Call(p))
    /\ UNCHANGED <<bar, asked, ready, nested>>

\* Mutant: an exception of the call is not passed on.
SettlesOnSuccess(t, ok) == IF ok THEN <<Answer(t, ok)>> ELSE <<>>

\* Mutant: the exception is handled where success has been submitted.
SettlesTwice(t, ok) ==
    IF ok THEN <<Answer(t, ok)>> ELSE <<Answer(t, TRUE), Answer(t, ok)>>

\* What call_wrapped submits when the call is over.
Settles(t, ok) == <<Answer(t, ok)>>

\* call_wrapped of a run: the call returns, raises or opens a dialog.
CallWrapped(t) ==
    /\ t \in Runs
    /\ \/ /\ nested' = Append(nested, Call(t))
          /\ UNCHANGED ready
       \/ /\ \E ok \in BOOLEAN : ready' = ready \o Settles(t, ok)
          /\ UNCHANGED nested
    /\ UNCHANGED <<bar, task>>

\* call_wrapped of a report: emit calls what the window has connected.
ReportIsEmitted(t) ==
    /\ t \in Reports
    /\ Bar!ShowError
    /\ ready' = ready \o Settles(t, TRUE)
    /\ UNCHANGED <<task, nested>>

\* call_when_done, after which another task may be run.
RunIsDone(r) ==
    /\ \/ /\ task' = [task EXCEPT ![r] = "finished"]
          /\ Bar!WhenDone(r)
          /\ UNCHANGED ready
       \/ \E next \in Runs :
              /\ task[next] = "idle"
              /\ task' = [task EXCEPT ![r] = "finished", ![next] = "submitted"]
              /\ Bar!WhenDoneThen(r, next)
              /\ ready' = Queued(ready, Start(next))
    /\ UNCHANGED nested

RunHasFailed(r) ==
    /\ task' = [task EXCEPT ![r] = "finished"]
    /\ Bar!ShowError
    /\ UNCHANGED <<ready, nested>>

\* The main loop, or the one of the latest dialog, calls a callback.
IdleCallback ==
    /\ idle # <<>>
    /\ idle' = Tail(idle)
    /\ LET f == Head(idle)
       IN  \/ f.kind = "call" /\ (CallWrapped(f.of) \/ ReportIsEmitted(f.of))
           \/ f.kind = "done" /\ RunIsDone(f.of)
           \/ f.kind = "failed" /\ RunHasFailed(f.of)
    /\ UNCHANGED asked

\* The user answers the latest dialog, which has the grab; what asked for it
\* makes a value or an exception of the response.
DialogAnswered ==
    /\ nested # <<>>
    /\ nested' = Front(nested)
    /\ \E ok \in BOOLEAN : ready' = ready \o Settles(Last(nested).of, ok)
    /\ UNCHANGED <<bar, task, asked, idle>>

Next ==
    \/ \E r \in Runs : Run(r) \/ Ask(r) \/ TaskEnds(r)
    \/ \E p \in Reports : ServerReports(p)
    \/ LoopStep
    \/ IdleCallback
    \/ DialogAnswered

Spec == Init /\ [][Next]_vars

\* Both threads run their callbacks, the user answers dialogs, and what the
\* coroutines do otherwise ends.
FairSpec ==
    /\ Spec
    /\ WF_vars(LoopStep)
    /\ WF_vars(IdleCallback)
    /\ WF_vars(DialogAnswered)
    /\ \A r \in Runs : WF_vars(TaskEnds(r))

-----------------------------------------------------------------------------
(* Properties.                                                             *)

TypeOK ==
    /\ shown \in Bar!Messages
    /\ counter \in Nat
    /\ counterAt \in [Runs -> Nat]
    /\ task \in [Tasks -> Stages]
    /\ asked \in [Tasks -> 0..MaxAsks]
    /\ ready \in Seq(Starts \cup Answers)
    /\ idle \in Seq(Calls \cup Ends)
    /\ nested \in Seq(Calls)

\* The tasks that a queue is about.
In(queue) == {queue[i].of : i \in DOMAIN queue}

OnePerTask(queue) ==
    \A i, j \in DOMAIN queue : queue[i].of = queue[j].of => i = j

\* A task that waits goes on exactly once: there is one thing, in either of
\* the queues or under the dialogs, that will start it, settle the future it
\* awaits or handle its end, and nothing of the kind for any other task.  So
\* no future is settled twice, which would raise, and none is forgotten.
OneContinuation ==
    /\ OnePerTask(ready) /\ OnePerTask(idle) /\ OnePerTask(nested)
    /\ In(ready) \cap In(idle) = {}
    /\ In(nested) \cap (In(ready) \cup In(idle)) = {}
    /\ \A t \in Tasks : task[t] \in {"submitted", "asking", "ended"}
                           <=> t \in In(ready) \cup In(idle) \cup In(nested)
    /\ \A i \in DOMAIN ready :
           task[ready[i].of] =
               IF ready[i].kind = "start" THEN "submitted" ELSE "asking"
    /\ \A i \in DOMAIN idle :
           task[idle[i].of] = IF idle[i].kind = "call" THEN "asking" ELSE "ended"
    /\ \A i \in DOMAIN nested : task[nested[i].of] = "asking"

\* With tasks that ask, dialogs that pile up and reports that come with calls
\* of their own, the bar sees what it is written for: the ends of the tasks
\* and the reports, each once and in the order they were queued.
ImplementsBar == Bar!Spec

\* No message outlives its task, while dialogs are up as otherwise.
NoMessageOutlivesItsTask == Bar!NoMessageOutlivesItsTask

\* Every task that is submitted ends and has its end handled, however many
\* dialogs are up, in whatever order they opened; a report is answered.
TasksFinish ==
    /\ \A r \in Runs : task[r] = "submitted" ~> task[r] = "finished"
    /\ \A p \in Reports : task[p] = "asking" ~> task[p] = "finished"
=============================================================================
