-------------------------------- MODULE Peer --------------------------------
(***************************************************************************)
(* One connection's Peer and its SwiftConnectProtocol                      *)
(* (src/utmremote/swiftconnect.py): concurrent callers of sendWithReply,   *)
(* the table of futures, the write valve, one serviceReply task per frame  *)
(* from the server, requests made by the server, and the end of the        *)
(* connection.                                                             *)
(*                                                                         *)
(* asyncio runs a coroutine from one suspension to the next without        *)
(* interruption, so an action is the code between two suspensions.  A      *)
(* sender waiting for the valve is in "waiters"; when the valve opens its  *)
(* wait is over but it runs later, and is in "woken" in between.           *)
(***************************************************************************)
EXTENDS Naturals, Sequences

CONSTANTS Calls,       \* invocations of sendWithReply
          Notices,     \* requests the server makes of this side
          Handshakes,  \* the calls and notices whose message id is 0
          Repeated,    \* the calls that the server may answer again
          NoCall       \* "no answer yet"

ASSUME SendersDiffer == Calls \cap Notices = {}
ASSUME HandshakesAreSenders == Handshakes \subseteq Calls \cup Notices
ASSUME RepeatedAreCalls == Repeated \subseteq Calls
ASSUME NoCallDiffers == NoCall \notin Calls

VARIABLES
    conn,        \* the transport: "none", "open", "closing", "lost"
    is_trusted,  \* Peer.is_trusted
    valve,       \* SwiftConnectProtocol.valve
    waiters,     \* senders blocked in valve.wait()
    woken,       \* senders whose wait is over and that have not run yet
    token,       \* Peer.token, the next token
    futures,     \* Peer.futures, as the set of its <<token, call>> items
    tokenOf,     \* the token local to each sendWithReply (0: not called)
    future,      \* the state of each call's future
    answer,      \* the request that the data in the future answers
    atServer,    \* requests that the server may answer, <<token, call>>
    inbox,       \* frames from the server whose task has not started
    notice       \* how far each server request has come

vars == <<conn, is_trusted, valve, waiters, woken, token, futures, tokenOf,
          future, answer, atServer, inbox, notice>>

Senders == Calls \cup Notices

Tokens == Nat \ {0}

\* A frame concerns the call it answers, or it is a notice of its own.
Frames ==
    [kind : {"response", "error"}, of : Calls, token : Nat]
        \cup [kind : {"request"}, of : Notices]

FutureStates == {"idle", "pending", "result", "error", "closed", "raised"}

NoticeStates == {"idle", "incoming", "rejected", "handling", "replying",
                 "answered", "dropped"}

TypeOK ==
    /\ conn \in {"none", "open", "closing", "lost"}
    /\ is_trusted \in BOOLEAN
    /\ valve \in BOOLEAN
    /\ waiters \subseteq Senders
    /\ woken \subseteq Senders
    /\ token \in Tokens
    /\ futures \subseteq Tokens \X Calls
    /\ tokenOf \in [Calls -> Nat]
    /\ future \in [Calls -> FutureStates]
    /\ answer \in [Calls -> Calls \cup {NoCall}]
    /\ atServer \subseteq Nat \X Calls
    /\ inbox \in Seq(Frames)
    /\ notice \in [Notices -> NoticeStates]

Init ==
    /\ conn = "none"
    /\ is_trusted = FALSE
    /\ valve = FALSE
    /\ waiters = {}
    /\ woken = {}
    /\ token = 1
    /\ futures = {}
    /\ tokenOf = [c \in Calls |-> 0]
    /\ future = [c \in Calls |-> "idle"]
    /\ answer = [c \in Calls |-> NoCall]
    /\ atServer = {}
    /\ inbox = <<>>
    /\ notice = [n \in Notices |-> "idle"]

-----------------------------------------------------------------------------
(* The table of futures.                                                   *)

\* Mutant: the token is not advanced.
NextTokenReused == token

\* Mutant: the token goes down.
NextTokenDown == token - 1

NextToken == token + 1

\* Mutant: futures.get instead of futures.pop.
WithoutKept(t) == futures

\* futures.pop(t, None), the table that is left.
Without(t) == {f \in futures : f[1] # t}

\* Mutant: the outcome is set without asking the table.
SettledAnyway(t, c, outcome) ==
    IF tokenOf[c] = t THEN outcome ELSE future[c]

\* The state of c's future once token t was popped and its future given an
\* outcome; a token that is not in the table settles nothing.
Settled(t, c, outcome) ==
    IF <<t, c>> \in futures THEN outcome ELSE future[c]

Settle(t, outcome) ==
    /\ futures' = Without(t)
    /\ future' = [c \in Calls |-> Settled(t, c, outcome)]

\* Mutant: failAll empties the table without failing its futures.
FailedAllForgotten == future

\* What failAll leaves in the futures.
FailedAll ==
    [c \in Calls |-> IF \E f \in futures : f[2] = c THEN "closed"
                                                     ELSE future[c]]

-----------------------------------------------------------------------------
(* Writing a frame.  A transport that is closing or closed drops it.       *)

Delivered(c, t) ==
    IF conn = "open" THEN atServer \cup {<<t, c>>} ELSE atServer

ReplyOutcome == IF conn = "open" THEN "answered" ELSE "dropped"

ConnectionMade ==
    /\ conn = "none"
    /\ conn' = "open"
    /\ valve' = TRUE
    /\ UNCHANGED <<is_trusted, waiters, woken, token, futures, tokenOf,
                   future, answer, atServer, inbox, notice>>

\* Awaited by the client once the fingerprint is settled, which may be after
\* the connection went down.
Trusted ==
    /\ conn # "none"
    /\ ~is_trusted
    /\ is_trusted' = TRUE
    /\ UNCHANGED <<conn, valve, waiters, woken, token, futures, tokenOf,
                   future, answer, atServer, inbox, notice>>

\* sendWithReply up to its first suspension: enqueue, then write at once,
\* wait for the valve, or have the write raise and fail the new future.
\* The client only calls on a peer it has marked as trusted.
Call(c) ==
    /\ is_trusted
    /\ future[c] = "idle"
    /\ token' = NextToken
    /\ tokenOf' = [tokenOf EXCEPT ![c] = token]
    /\ \/ /\ valve
          /\ futures' = futures \cup {<<token, c>>}
          /\ future' = [future EXCEPT ![c] = "pending"]
          /\ atServer' = Delivered(c, token)
          /\ UNCHANGED waiters
       \/ /\ ~valve
          /\ futures' = futures \cup {<<token, c>>}
          /\ future' = [future EXCEPT ![c] = "pending"]
          /\ waiters' = waiters \cup {c}
          /\ UNCHANGED atServer
       \/ /\ valve
          /\ future' = [future EXCEPT ![c] = "raised"]
          /\ UNCHANGED <<futures, atServer, waiters>>
    /\ UNCHANGED <<conn, is_trusted, valve, woken, answer, inbox, notice>>

\* A woken caller writes its request, even if the valve has closed again.
WokenCall(c) ==
    /\ c \in woken
    /\ woken' = woken \ {c}
    /\ \/ /\ atServer' = Delivered(c, tokenOf[c])
          /\ UNCHANGED <<futures, future>>
       \/ /\ Settle(tokenOf[c], "raised")
          /\ UNCHANGED atServer
    /\ UNCHANGED <<conn, is_trusted, valve, waiters, token, tokenOf, answer,
                   inbox, notice>>

WokenReply(n) ==
    /\ n \in woken
    /\ woken' = woken \ {n}
    /\ notice' = [notice EXCEPT ![n] = ReplyOutcome]
    /\ UNCHANGED <<conn, is_trusted, valve, waiters, token, futures, tokenOf,
                   future, answer, atServer, inbox>>

\* The transport's buffer is over its high-water mark.
PauseWriting ==
    /\ conn = "open"
    /\ valve
    /\ valve' = FALSE
    /\ UNCHANGED <<conn, is_trusted, waiters, woken, token, futures, tokenOf,
                   future, answer, atServer, inbox, notice>>

\* The buffer has drained.
ResumeWriting ==
    /\ conn \in {"open", "closing"}
    /\ ~valve
    /\ valve' = TRUE
    /\ woken' = woken \cup waiters
    /\ waiters' = {}
    /\ UNCHANGED <<conn, is_trusted, token, futures, tokenOf, future, answer,
                   atServer, inbox, notice>>

-----------------------------------------------------------------------------
(* serviceReply: the task of the frame at the head of the inbox.           *)

Rejected(frame) == frame.of \notin Handshakes /\ ~is_trusted

Serve(kinds) ==
    /\ inbox # <<>>
    /\ Head(inbox).kind \in kinds
    /\ inbox' = Tail(inbox)

ServeRejected ==
    /\ Serve({"response", "error", "request"})
    /\ Rejected(Head(inbox))
    /\ notice' = [n \in Notices |-> IF n = Head(inbox).of THEN "rejected"
                                                          ELSE notice[n]]
    /\ UNCHANGED <<conn, is_trusted, valve, waiters, woken, token, futures,
                   tokenOf, future, answer, atServer>>

\* complete or fail, by the error flag; the waiting caller gets the data.
ServeResponse ==
    /\ Serve({"response", "error"})
    /\ ~Rejected(Head(inbox))
    /\ LET f == Head(inbox)
       IN  /\ Settle(f.token, IF f.kind = "error" THEN "error" ELSE "result")
           /\ answer' = [c \in Calls |-> IF <<f.token, c>> \in futures
                                         THEN f.of ELSE answer[c]]
    /\ UNCHANGED <<conn, is_trusted, valve, waiters, woken, token, tokenOf,
                   atServer, notice>>

ServeRequest ==
    /\ Serve({"request"})
    /\ ~Rejected(Head(inbox))
    /\ notice' = [notice EXCEPT ![Head(inbox).of] = "handling"]
    /\ UNCHANGED <<conn, is_trusted, valve, waiters, woken, token, futures,
                   tokenOf, future, answer, atServer>>

\* The handler returned or raised: the reply, a response or an error, is
\* written at once or waits for the valve.
HandlerEnds(n) ==
    /\ notice[n] = "handling"
    /\ \/ /\ valve
          /\ notice' = [notice EXCEPT ![n] = ReplyOutcome]
          /\ UNCHANGED waiters
       \/ /\ ~valve
          /\ notice' = [notice EXCEPT ![n] = "replying"]
          /\ waiters' = waiters \cup {n}
    /\ UNCHANGED <<conn, is_trusted, valve, woken, token, futures, tokenOf,
                   future, answer, atServer, inbox>>

-----------------------------------------------------------------------------
(* The server, which answers in any order.                                 *)

\* Some requests are answered again and again; as a bound, not while a frame
\* about the same call is in the inbox.
ServerAnswers(c) ==
    /\ conn = "open"
    /\ \E t \in {r[1] : r \in {q \in atServer : q[2] = c}},
          k \in {"response", "error"} :
          /\ \/ atServer' = atServer \ {<<t, c>>}
             \/ /\ c \in Repeated
                /\ \A i \in DOMAIN inbox : inbox[i].of # c
                /\ UNCHANGED atServer
          /\ inbox' = Append(inbox, [kind |-> k, of |-> c, token |-> t])
    /\ UNCHANGED <<conn, is_trusted, valve, waiters, woken, token, futures,
                   tokenOf, future, answer, notice>>

ServerRequests(n) ==
    /\ conn = "open"
    /\ notice[n] = "idle"
    /\ inbox' = Append(inbox, [kind |-> "request", of |-> n])
    /\ notice' = [notice EXCEPT ![n] = "incoming"]
    /\ UNCHANGED <<conn, is_trusted, valve, waiters, woken, token, futures,
                   tokenOf, future, answer, atServer>>

-----------------------------------------------------------------------------
(* The end of the connection.  Frames that have a task already are served  *)
(* afterwards; those still on the wire are not, and requests still on it   *)
(* are not answered.                                                       *)

\* transport.close(), by UTMRemoteClient._cleanup.
Close ==
    /\ conn = "open"
    /\ conn' = "closing"
    /\ \E k \in 0..Len(inbox) : inbox' = SubSeq(inbox, 1, k)
    /\ atServer' = {}
    /\ UNCHANGED <<is_trusted, valve, waiters, woken, token, futures, tokenOf,
                   future, answer, notice>>

\* Mutant: connection_lost does not open the valve.
SleepersLeft == waiters

\* The senders still asleep after connection_lost.
Sleepers == {}

ConnectionLost ==
    /\ conn \in {"open", "closing"}
    /\ conn' = "lost"
    /\ futures' = {}
    /\ future' = FailedAll
    /\ valve' = TRUE
    /\ waiters' = Sleepers
    /\ woken' = woken \cup (waiters \ Sleepers)
    /\ \E k \in 0..Len(inbox) : inbox' = SubSeq(inbox, 1, k)
    /\ atServer' = {}
    /\ UNCHANGED <<is_trusted, token, tokenOf, answer, notice>>

-----------------------------------------------------------------------------

Next ==
    \/ ConnectionMade
    \/ Trusted
    \/ PauseWriting
    \/ ResumeWriting
    \/ ServeRejected
    \/ ServeResponse
    \/ ServeRequest
    \/ Close
    \/ ConnectionLost
    \/ \E c \in Calls : Call(c) \/ WokenCall(c) \/ ServerAnswers(c)
    \/ \E n \in Notices : WokenReply(n) \/ HandlerEnds(n) \/ ServerRequests(n)

Spec == Init /\ [][Next]_vars

\* Every task that is ready runs, handlers end, the transport drains a full
\* buffer and finishes a close, and the server answers what it is asked.
\* Nobody has to make a call, close, or break the connection.
Fairness ==
    /\ WF_vars(ServeRejected \/ ServeResponse \/ ServeRequest)
    /\ \A c \in Calls : WF_vars(WokenCall(c)) /\ WF_vars(ServerAnswers(c))
    /\ \A n \in Notices : WF_vars(WokenReply(n)) /\ WF_vars(HandlerEnds(n))
    /\ WF_vars(ResumeWriting)
    /\ WF_vars(conn = "closing" /\ ConnectionLost)

FairSpec == Spec /\ Fairness

-----------------------------------------------------------------------------
(* Properties.                                                             *)

\* The table of futures holds exactly the calls that still wait, each under
\* its own token: nothing settled lingers in it and no waiting call has
\* dropped out of it (enqueue, complete, fail, failAll).
TableHoldsTheWaiting ==
    futures = {<<tokenOf[c], c>> : c \in {d \in Calls : future[d] = "pending"}}

\* However the server orders its answers and whoever overtakes whom at the
\* valve, a call holds data exactly when it was completed or failed by the
\* server, and then the data answers its own request.
AnswersMatch ==
    \A c \in Calls : answer[c] = IF future[c] \in {"result", "error"}
                                THEN c ELSE NoCall

\* No sender sleeps on the valve while it is open or after the connection is
\* gone: a resume or a loss wakes every one of them.
NobodySleepsInVain == waiters # {} => ~valve /\ conn # "lost"

\* A future gets one outcome: set_result or set_exception is never applied
\* to a future that is already done.
SettledOnce ==
    [][\A c \in Calls : future[c] \notin {"idle", "pending"}
                            => future'[c] = future[c]]_vars

\* A call made before the connection is lost comes back, with the server's
\* answer or because the connection is lost, whatever the valve does.
TimelyCallsReturn ==
    \A c \in Calls :
        (future[c] = "pending" /\ conn # "lost") ~> future[c] # "pending"

\* A server request that reached its handler is answered, unless the
\* connection went down first.
HandledNoticesEnd ==
    \A n \in Notices : notice[n] = "handling"
                           ~> notice[n] \in {"answered", "dropped"}

\* Every call comes back.
EveryCallReturns ==
    \A c \in Calls : future[c] = "pending" ~> future[c] # "pending"

\* What callers are promised, with everything but their futures hidden.
Promise == INSTANCE RemoteCalls WITH up <- conn # "lost", status <- future

\* The peer keeps the promise of RemoteCalls.
KeepsPromise == Promise!Spec
=============================================================================
