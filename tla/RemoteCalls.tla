---------------------------- MODULE RemoteCalls ----------------------------
(***************************************************************************)
(* What the message layer of pyutmremote promises its callers: a remote    *)
(* call gets at most one outcome; an outcome that came from the server is  *)
(* the answer to that very call; losing the connection fails, in one step, *)
(* every call that is outstanding; and no answer reaches a caller after    *)
(* that.  Tokens, queues, flow control and the wire are not visible here.  *)
(***************************************************************************)
CONSTANTS Calls,   \* invocations of a remote operation
          NoCall   \* "no answer yet"

VARIABLES up,      \* FALSE once the connection is lost
          status,  \* status[c]: the outcome of call c
          answer   \* answer[c]: the call whose request c was answered with

vars == <<up, status, answer>>

Statuses == {"idle", "pending", "result", "error", "closed", "raised"}

TypeOK ==
    /\ up \in BOOLEAN
    /\ status \in [Calls -> Statuses]
    /\ answer \in [Calls -> Calls \cup {NoCall}]

Init ==
    /\ up = TRUE
    /\ status = [c \in Calls |-> "idle"]
    /\ answer = [c \in Calls |-> NoCall]

Issue(c) ==
    /\ status[c] = "idle"
    /\ status' = [status EXCEPT ![c] = "pending"]
    /\ UNCHANGED <<up, answer>>

\* The server's answer, a result or an error, reaches its caller.
Answer(c) ==
    /\ up
    /\ status[c] = "pending"
    /\ \E o \in {"result", "error"} : status' = [status EXCEPT ![c] = o]
    /\ answer' = [answer EXCEPT ![c] = c]
    /\ UNCHANGED up

\* The request could not be written.
Raise(c) ==
    /\ status[c] \in {"idle", "pending"}
    /\ status' = [status EXCEPT ![c] = "raised"]
    /\ UNCHANGED <<up, answer>>

Lose ==
    /\ up
    /\ up' = FALSE
    /\ status' = [c \in Calls |-> IF status[c] = "pending" THEN "closed"
                                                           ELSE status[c]]
    /\ UNCHANGED answer

Next == Lose \/ \E c \in Calls : Issue(c) \/ Answer(c) \/ Raise(c)

Spec == Init /\ [][Next]_vars
=============================================================================
