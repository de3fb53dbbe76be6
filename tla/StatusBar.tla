----------------------------- MODULE StatusBar -----------------------------
(***************************************************************************)
(* The status bar of a window (StatusBar in src/utmremote/gui.py) and the  *)
(* tasks that report in it.  A task runs in the asyncio thread; its end is *)
(* handled in the GTK thread, from the queue of idle callbacks             *)
(* (AsyncLoop.submit in src/utmremote/asyncglib.py), as are the errors     *)
(* that the server reports.  Tasks overlap, and end in any order.          *)
(***************************************************************************)
EXTENDS Naturals, Sequences

CONSTANTS Runs,       \* calls of run_async_task, all of them with a message
          MaxReports  \* bound on the errors the server reports

VARIABLES
    shown,      \* the message in the bar
    counter,    \* _counter
    stage,      \* how far each run has come
    counterAt,  \* "counter" of each run
    idle,       \* callbacks queued for the GTK thread
    reports     \* errors the server has reported

vars == <<shown, counter, stage, counterAt, idle, reports>>

Nothing == [kind |-> "nothing"]
Error == [kind |-> "error"]
Progress(r) == [kind |-> "progress", of |-> r]

Messages == {Nothing, Error} \cup {Progress(r) : r \in Runs}

Callbacks ==
    [kind : {"done", "failed"}, of : Runs] \cup [kind : {"report"}]

TypeOK ==
    /\ shown \in Messages
    /\ counter \in Nat
    /\ stage \in [Runs -> {"idle", "running", "ended", "finished"}]
    /\ counterAt \in [Runs -> Nat]
    /\ idle \in Seq(Callbacks)
    /\ reports \in Nat

\* The bar is cleared when it is made.
Init ==
    /\ shown = Nothing
    /\ counter = 1
    /\ stage = [r \in Runs |-> "idle"]
    /\ counterAt = [r \in Runs |-> 0]
    /\ idle = <<>>
    /\ reports = 0

-----------------------------------------------------------------------------

\* Mutant: the counter goes down.
CountedDown(message, n) == n - 1

\* What _set makes of the counter.
Counted(message, n) == n + 1

\* Mutant: the counter is read before the message is set.
CounterBefore(n) == n - 1

\* The counter a run compares with.
CounterOf(n) == n

\* run_async_task, when the counter stands at n.
Begin(r, n) ==
    /\ stage[r] = "idle"
    /\ shown' = Progress(r)
    /\ counter' = Counted(Progress(r), n)
    /\ counterAt' = [counterAt EXCEPT ![r] = CounterOf(counter')]

Run(r) ==
    /\ Begin(r, counter)
    /\ stage' = [stage EXCEPT ![r] = "running"]
    /\ UNCHANGED <<idle, reports>>

\* The task returns or raises.
TaskEnds(r) ==
    /\ stage[r] = "running"
    /\ stage' = [stage EXCEPT ![r] = "ended"]
    /\ \E k \in {"done", "failed"} : idle' = Append(idle, [kind |-> k, of |-> r])
    /\ UNCHANGED <<shown, counter, counterAt, reports>>

\* virtual_machine_did_error
ServerReports ==
    /\ reports < MaxReports
    /\ reports' = reports + 1
    /\ idle' = Append(idle, [kind |-> "report"])
    /\ UNCHANGED <<shown, counter, stage, counterAt>>

\* Nothing was said in the bar since the run began.
IsLatest(r) == counterAt[r] = counter

\* when_done without done_cb, or with one that runs no task.
WhenDone(r) ==
    /\ shown' = IF IsLatest(r) THEN Nothing ELSE shown
    /\ counter' = IF IsLatest(r) THEN Counted(Nothing, counter) ELSE counter
    /\ stage' = [stage EXCEPT ![r] = "finished"]
    /\ UNCHANGED counterAt

\* when_done with a done_cb that runs another task: _start_complete.
WhenDoneThen(r, next) ==
    /\ Begin(next, IF IsLatest(r) THEN Counted(Nothing, counter) ELSE counter)
    /\ stage' = [stage EXCEPT ![r] = "finished", ![next] = "running"]

\* when_exception, or what the server reported.
ShowError ==
    /\ shown' = Error
    /\ counter' = Counted(Error, counter)
    /\ UNCHANGED counterAt

IdleCallback ==
    /\ idle # <<>>
    /\ idle' = Tail(idle)
    /\ LET f == Head(idle)
       IN  \/ f.kind = "done" /\ WhenDone(f.of)
           \/ f.kind = "done" /\ \E r \in Runs : WhenDoneThen(f.of, r)
           \/ /\ f.kind = "failed"
              /\ ShowError
              /\ stage' = [stage EXCEPT ![f.of] = "finished"]
           \/ /\ f.kind = "report"
              /\ ShowError
              /\ UNCHANGED stage
    /\ UNCHANGED reports

Next ==
    \/ \E r \in Runs : Run(r) \/ TaskEnds(r)
    \/ ServerReports
    \/ IdleCallback

Spec == Init /\ [][Next]_vars

-----------------------------------------------------------------------------
(* Properties.                                                             *)

\* The bar never says that something is being done when it is over: in
\* whatever order overlapping tasks end, the message of a finished task is
\* gone, cleared by its task or overwritten.
NoMessageOutlivesItsTask ==
    shown.kind = "progress" => stage[shown.of] \in {"running", "ended"}

\* An error stays until there is something newer to say: the end of a task
\* that began before does not wipe it out.
ErrorsStay ==
    [][shown = Error => shown' # Nothing]_vars

\* The counter tells whose message is in the bar: what IsLatest asks for is
\* that it is the run's own.
CounterTells ==
    \A r \in Runs :
        /\ counterAt[r] <= counter
        /\ counterAt[r] = counter <=> shown = Progress(r)
=============================================================================
