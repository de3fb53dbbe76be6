----------------------------- MODULE PeerProofs -----------------------------
(* What holds of Peer for every set of calls and of server requests.       *)
EXTENDS Peer, SequenceTheorems, TLAPS

(***************************************************************************)
(* The inductive invariant.  AnswersMatch is about callers; what makes it  *)
(* true is spread over four places a token lives in: the caller's local    *)
(* variable, the table, the server, and the frames on their way back.      *)
(***************************************************************************)
TokensAreFresh ==
    \A c \in Calls : /\ tokenOf[c] < token
                     /\ tokenOf[c] = 0 <=> future[c] = "idle"

TokensDiffer ==
    \A c, d \in Calls : tokenOf[c] = tokenOf[d] /\ tokenOf[c] # 0 => c = d

\* Nothing is under way for a call that was not made.
SleepersCalled == \A c \in Calls \cap (waiters \cup woken) : future[c] # "idle"

ServerKeepsTokens ==
    \A r \in atServer : r[1] = tokenOf[r[2]] /\ future[r[2]] # "idle"

FramesKeepTokens ==
    \A i \in 1..Len(inbox) :
        inbox[i].kind # "request" => /\ inbox[i].token = tokenOf[inbox[i].of]
                                     /\ future[inbox[i].of] # "idle"

\* Once the connection is lost no frame is left for a call that waits: the
\* only calls that wait are later than every frame.
NoAnswerAfterLoss ==
    conn = "lost" =>
        \A i \in 1..Len(inbox) :
            inbox[i].kind # "request" => future[inbox[i].of] # "pending"

CallInv ==
    /\ TypeOK
    /\ TableHoldsTheWaiting
    /\ AnswersMatch
    /\ TokensAreFresh
    /\ TokensDiffer
    /\ SleepersCalled
    /\ ServerKeepsTokens
    /\ FramesKeepTokens
    /\ NoAnswerAfterLoss

\* For the valve: before the connection is made nothing runs that could
\* wait, and a lost connection leaves the valve open.
QuietBefore ==
    conn = "none" => /\ ~is_trusted
                     /\ waiters = {} /\ woken = {}
                     /\ inbox = <<>>
                     /\ \A n \in Notices : notice[n] = "idle"

OpenAfterLoss == conn = "lost" => valve

ValveInv == TypeOK /\ NobodySleepsInVain /\ QuietBefore /\ OpenAfterLoss

-----------------------------------------------------------------------------
(* Types.                                                                  *)

LEMMA SettleTypes ==
    ASSUME TypeOK, NEW t, NEW outcome \in FutureStates, Settle(t, outcome)
    PROVE  /\ futures' \subseteq Tokens \X Calls
           /\ future' \in [Calls -> FutureStates]
BY DEF TypeOK, Settle, Without, Settled

\* What the end of the connection leaves of the inbox.
LEMMA CutInbox ==
    ASSUME NEW s \in Seq(Frames), NEW k \in 0..Len(s)
    PROVE  /\ SubSeq(s, 1, k) \in Seq(Frames)
           /\ Len(SubSeq(s, 1, k)) = k
           /\ \A i \in 1..k : SubSeq(s, 1, k)[i] = s[i]
BY SubSeqProperties

LEMMA ServedFrame ==
    ASSUME NEW kinds, inbox \in Seq(Frames), Serve(kinds)
    PROVE  /\ inbox' \in Seq(Frames)
           /\ Len(inbox') = Len(inbox) - 1
           /\ 1 \in 1..Len(inbox)
           /\ Head(inbox) = inbox[1]
           /\ Head(inbox) \in Frames
           /\ \A i \in 1..Len(inbox') : /\ i + 1 \in 1..Len(inbox)
                                        /\ inbox'[i] = inbox[i+1]
BY HeadTailProperties DEF Serve

LEMMA TypeInit == Init => TypeOK
<1> SUFFICES ASSUME Init PROVE TypeOK
  OBVIOUS
<1>1. inbox \in Seq(Frames)
  BY EmptySeq DEF Init
<1>2. /\ tokenOf \in [Calls -> Nat]
      /\ future \in [Calls -> FutureStates]
      /\ answer \in [Calls -> Calls \cup {NoCall}]
      /\ notice \in [Notices -> NoticeStates]
  BY DEF Init, FutureStates, NoticeStates
<1>3. /\ conn \in {"none", "open", "closing", "lost"}
      /\ token \in Tokens
      /\ futures \subseteq Tokens \X Calls
      /\ atServer \subseteq Nat \X Calls
      /\ waiters \subseteq Senders /\ woken \subseteq Senders
  BY DEF Init, Tokens
<1>4. is_trusted \in BOOLEAN /\ valve \in BOOLEAN
  BY DEF Init
<1> QED
  BY <1>1, <1>2, <1>3, <1>4 DEF TypeOK

LEMMA TypeStep == TypeOK /\ [Next]_vars => TypeOK'
<1> SUFFICES ASSUME TypeOK, [Next]_vars PROVE TypeOK'
  OBVIOUS
<1> USE DEF TypeOK, Senders, FutureStates, NoticeStates, Tokens
<1>1. CASE ConnectionMade
  BY <1>1 DEF ConnectionMade
<1>2. CASE Trusted
  BY <1>2 DEF Trusted
<1>3. CASE PauseWriting
  BY <1>3 DEF PauseWriting
<1>4. CASE ResumeWriting
  BY <1>4 DEF ResumeWriting
<1>5. CASE ServeRejected
  BY <1>5, ServedFrame DEF ServeRejected
<1>6. CASE ServeResponse
  <2> DEFINE f == Head(inbox)
  <2>1. inbox' \in Seq(Frames) /\ f \in Frames /\ f.kind \in {"response", "error"}
    BY <1>6, ServedFrame DEF ServeResponse, Serve
  <2>2. f.of \in Calls
    BY <2>1 DEF Frames
  <2>3. /\ futures' \subseteq Tokens \X Calls
        /\ future' \in [Calls -> FutureStates]
    BY <1>6, SettleTypes DEF ServeResponse
  <2> QED
    BY <1>6, <2>1, <2>2, <2>3 DEF ServeResponse
<1>7. CASE ServeRequest
  BY <1>7, ServedFrame DEF ServeRequest
<1>8. CASE Close
  BY <1>8, CutInbox DEF Close
<1>9. CASE ConnectionLost
  BY <1>9, CutInbox DEF ConnectionLost, FailedAll, Sleepers
<1>10. ASSUME NEW c \in Calls, Call(c) PROVE TypeOK'
  <2>1. /\ token' \in Tokens
        /\ tokenOf' \in [Calls -> Nat]
        /\ <<token, c>> \in Tokens \X Calls
    BY <1>10 DEF Call, NextToken
  <2>2. future' \in [Calls -> FutureStates]
    BY <1>10 DEF Call
  <2>3. futures' \subseteq Tokens \X Calls
    BY <1>10, <2>1 DEF Call
  <2>4. waiters' \subseteq Senders /\ atServer' \subseteq Nat \X Calls
    BY <1>10, <2>1 DEF Call, Delivered
  <2> QED
    BY <1>10, <2>1, <2>2, <2>3, <2>4 DEF Call
<1>11. ASSUME NEW c \in Calls, WokenCall(c) PROVE TypeOK'
  <2>1. CASE /\ atServer' = Delivered(c, tokenOf[c])
             /\ UNCHANGED <<futures, future>>
    BY <1>11, <2>1 DEF WokenCall, Delivered
  <2>2. CASE Settle(tokenOf[c], "raised") /\ UNCHANGED atServer
    BY <1>11, <2>2, SettleTypes DEF WokenCall
  <2> QED
    BY <1>11, <2>1, <2>2 DEF WokenCall
<1>12. ASSUME NEW c \in Calls, ServerAnswers(c) PROVE TypeOK'
  BY <1>12 DEF ServerAnswers, Frames
<1>13. ASSUME NEW n \in Notices, WokenReply(n) PROVE TypeOK'
  BY <1>13 DEF WokenReply, ReplyOutcome
<1>14. ASSUME NEW n \in Notices, HandlerEnds(n) PROVE TypeOK'
  BY <1>14 DEF HandlerEnds, ReplyOutcome
<1>15. ASSUME NEW n \in Notices, ServerRequests(n) PROVE TypeOK'
  BY <1>15 DEF ServerRequests, Frames
<1>16. CASE UNCHANGED vars
  BY <1>16 DEF vars
<1> QED
  BY <1>1, <1>2, <1>3, <1>4, <1>5, <1>6, <1>7, <1>8, <1>9, <1>10, <1>11,
     <1>12, <1>13, <1>14, <1>15, <1>16 DEF Next

\* Every variable of the peer keeps its type.
THEOREM TypeCorrect == Spec => []TypeOK
BY TypeInit, TypeStep, PTL DEF Spec

-----------------------------------------------------------------------------
(* Calls and their tokens.                                                 *)

LEMMA CallInit == Init => CallInv
<1> SUFFICES ASSUME Init PROVE CallInv
  OBVIOUS
<1>1. TypeOK
  BY TypeInit
<1>2. TableHoldsTheWaiting /\ AnswersMatch
  BY DEF Init, TableHoldsTheWaiting, AnswersMatch
<1>3. TokensAreFresh /\ TokensDiffer
  BY DEF Init, TokensAreFresh, TokensDiffer
<1>4. SleepersCalled /\ ServerKeepsTokens
  BY DEF Init, SleepersCalled, ServerKeepsTokens
<1>5. Len(inbox) = 0
  BY EmptySeq DEF Init
<1>6. FramesKeepTokens /\ NoAnswerAfterLoss
  BY <1>5 DEF FramesKeepTokens, NoAnswerAfterLoss
<1> QED
  BY <1>1, <1>2, <1>3, <1>4, <1>6 DEF CallInv

\* What the table says of a token: at most one call waits for it.
LEMMA TableEntry ==
    ASSUME TypeOK, TableHoldsTheWaiting, TokensAreFresh, TokensDiffer,
           NEW c \in Calls, NEW d \in Calls
    PROVE  <<tokenOf[c], d>> \in futures <=> c = d /\ future[d] = "pending"
BY DEF TypeOK, TableHoldsTheWaiting, TokensAreFresh, TokensDiffer

\* A step that only takes frames off the inbox, wakes or trusts.
LEMMA CallsUntouched ==
    ASSUME CallInv, TypeOK',
           UNCHANGED <<token, futures, tokenOf, future, answer>>,
           atServer' \subseteq atServer,
           waiters' \cup woken' \subseteq waiters \cup woken \cup Notices,
           \A i \in 1..Len(inbox') :
               \/ inbox'[i].kind = "request"
               \/ \E j \in 1..Len(inbox) : inbox'[i] = inbox[j],
           conn' = "lost" => conn = "lost"
    PROVE  CallInv'
<1>1. (TableHoldsTheWaiting /\ AnswersMatch /\ TokensAreFresh /\ TokensDiffer)'
  BY DEF CallInv, TableHoldsTheWaiting, AnswersMatch, TokensAreFresh,
         TokensDiffer
<1>2. SleepersCalled'
  BY SendersDiffer DEF CallInv, SleepersCalled
<1>3. ServerKeepsTokens'
  BY DEF CallInv, ServerKeepsTokens
<1>4. FramesKeepTokens'
  BY DEF CallInv, FramesKeepTokens
<1>5. NoAnswerAfterLoss'
  BY DEF CallInv, NoAnswerAfterLoss
<1> QED
  BY <1>1, <1>2, <1>3, <1>4, <1>5 DEF CallInv
\* The first suspension of sendWithReply: a token nobody has seen.
LEMMA CallKeeps ==
    ASSUME CallInv, TypeOK', NEW c \in Calls, Call(c)
    PROVE  CallInv'
<1> USE DEF CallInv
<1>1. /\ tokenOf' = [tokenOf EXCEPT ![c] = token]
      /\ token \in Nat /\ token # 0 /\ token' = token + 1
      /\ tokenOf[c] = 0 /\ future[c] = "idle"
      /\ future' \in {[future EXCEPT ![c] = "pending"],
                      [future EXCEPT ![c] = "raised"]}
  BY DEF Call, NextToken, TypeOK, Tokens, TokensAreFresh
<1>2. /\ tokenOf'[c] = token
      /\ future'[c] # "idle"
      /\ \A d \in Calls \ {c} : tokenOf'[d] = tokenOf[d] /\ future'[d] = future[d]
  BY <1>1 DEF TypeOK
<1>3. TokensAreFresh' /\ TokensDiffer'
  BY <1>1, <1>2 DEF TokensAreFresh, TokensDiffer, TypeOK
<1>4. TableHoldsTheWaiting'
  <2>1. \/ futures' = futures \cup {<<token, c>>} /\ future'[c] = "pending"
        \/ futures' = futures /\ future'[c] = "raised"
    BY DEF Call, TypeOK
  <2> QED
    BY <1>1, <1>2, <2>1 DEF TableHoldsTheWaiting
<1>5. AnswersMatch'
  BY <1>1, <1>2 DEF Call, AnswersMatch, TypeOK
<1>6. SleepersCalled'
  BY <1>2 DEF Call, SleepersCalled, TypeOK
<1>7. ServerKeepsTokens'
  <2>1. \A r \in atServer' : r \in atServer \/ r = <<token, c>>
    BY DEF Call, Delivered
  <2>2. \A r \in atServer : r[2] \in Calls /\ r[2] # c
    BY <1>1 DEF ServerKeepsTokens, TypeOK
  <2> QED
    BY <1>2, <2>1, <2>2 DEF ServerKeepsTokens
<1>8. \A i \in 1..Len(inbox) : inbox[i].kind # "request" =>
          inbox[i].of \in Calls /\ inbox[i].of # c
  BY <1>1, ElementOfSeq DEF FramesKeepTokens, TypeOK, Frames
<1>9. FramesKeepTokens' /\ NoAnswerAfterLoss'
  BY <1>2, <1>8 DEF Call, FramesKeepTokens, NoAnswerAfterLoss
<1> QED
  BY <1>3, <1>4, <1>5, <1>6, <1>7, <1>9

\* Popping c's own token can only settle c.
LEMMA SettleOwn ==
    ASSUME CallInv, NEW c \in Calls, NEW outcome \in FutureStates,
           Settle(tokenOf[c], outcome)
    PROVE  /\ \A d \in Calls : future'[d] =
                  IF d = c /\ future[c] = "pending" THEN outcome ELSE future[d]
           /\ futures' = {f \in futures : f # <<tokenOf[c], c>>}
<1>1. \A d \in Calls : <<tokenOf[c], d>> \in futures
                           <=> c = d /\ future[d] = "pending"
  BY TableEntry DEF CallInv
<1>2. \A d \in Calls : future'[d] = IF <<tokenOf[c], d>> \in futures
                                    THEN outcome ELSE future[d]
  BY DEF Settle, Settled
<1>3. \A f \in futures : f = <<f[1], f[2]>> /\ f[2] \in Calls
  BY DEF CallInv, TypeOK
<1>4. \A f \in futures : f[1] = tokenOf[c] <=> f = <<tokenOf[c], c>>
  BY <1>1, <1>3
<1> QED
  BY <1>1, <1>2, <1>4 DEF Settle, Without

\* What settling c keeps of the invariant, if c's answer is set to match.
LEMMA SettleKeeps ==
    ASSUME CallInv, NEW c \in Calls, NEW outcome \in FutureStates \ {"idle", "pending"},
           Settle(tokenOf[c], outcome), UNCHANGED <<token, tokenOf>>
    PROVE  /\ TableHoldsTheWaiting' /\ TokensAreFresh' /\ TokensDiffer'
           /\ \A d \in Calls : /\ future[d] # "idle" => future'[d] # "idle"
                               /\ future'[d] = "pending" => future[d] = "pending"
<1>1. \A d \in Calls : future'[d] =
          IF d = c /\ future[c] = "pending" THEN outcome ELSE future[d]
  BY SettleOwn
<1>2. futures' = {f \in futures : f # <<tokenOf[c], c>>}
  BY SettleOwn
<1>3. TokensAreFresh' /\ TokensDiffer'
  BY <1>1 DEF CallInv, TokensAreFresh, TokensDiffer
<1>4. TableHoldsTheWaiting'
  BY <1>1, <1>2 DEF CallInv, TableHoldsTheWaiting
<1> QED
  BY <1>1, <1>3, <1>4

LEMMA WokenCallKeeps ==
    ASSUME CallInv, TypeOK', NEW c \in Calls, WokenCall(c)
    PROVE  CallInv'
<1> USE DEF CallInv
<1>0. future[c] # "idle"
  BY DEF WokenCall, SleepersCalled
<1>1. CASE /\ atServer' = Delivered(c, tokenOf[c])
           /\ UNCHANGED <<futures, future>>
  <2>1. ServerKeepsTokens'
    <3>1. \A r \in atServer' : r \in atServer \/ r = <<tokenOf[c], c>>
      BY <1>1 DEF Delivered
    <3> QED
      BY <1>0, <1>1, <3>1 DEF WokenCall, ServerKeepsTokens
  <2>2. SleepersCalled'
    BY <1>1 DEF WokenCall, SleepersCalled
  <2> QED
    BY <1>1, <2>1, <2>2 DEF WokenCall, TableHoldsTheWaiting, AnswersMatch,
       TokensAreFresh, TokensDiffer, FramesKeepTokens, NoAnswerAfterLoss
<1>2. CASE Settle(tokenOf[c], "raised") /\ UNCHANGED atServer
  <2>1. /\ TableHoldsTheWaiting' /\ TokensAreFresh' /\ TokensDiffer'
        /\ \A d \in Calls : /\ future[d] # "idle" => future'[d] # "idle"
                            /\ future'[d] = "pending" => future[d] = "pending"
    BY <1>2, SettleKeeps DEF WokenCall, FutureStates
  <2>2. AnswersMatch'
    <3>1. \A d \in Calls : future'[d] =
              IF d = c /\ future[c] = "pending" THEN "raised" ELSE future[d]
      BY <1>2, SettleOwn DEF FutureStates
    <3> QED
      BY <3>1 DEF WokenCall, AnswersMatch
  <2>3. SleepersCalled'
    BY <2>1 DEF WokenCall, SleepersCalled
  <2>4. ServerKeepsTokens'
    BY <1>2, <2>1 DEF WokenCall, ServerKeepsTokens, TypeOK
  <2>5. \A i \in 1..Len(inbox) : inbox[i].kind # "request" => inbox[i].of \in Calls
    BY ElementOfSeq DEF TypeOK, Frames
  <2>6. FramesKeepTokens' /\ NoAnswerAfterLoss'
    BY <2>1, <2>5 DEF WokenCall, FramesKeepTokens, NoAnswerAfterLoss
  <2> QED
    BY <2>1, <2>2, <2>3, <2>4, <2>6
<1> QED
  BY <1>1, <1>2 DEF WokenCall
LEMMA ServeResponseKeeps ==
    ASSUME CallInv, TypeOK', ServeResponse
    PROVE  CallInv'
<1> USE DEF CallInv
<1> DEFINE f == Head(inbox)
           c == f.of
           outcome == IF f.kind = "error" THEN "error" ELSE "result"
<1>1. /\ f \in Frames /\ f = inbox[1] /\ 1 \in 1..Len(inbox)
      /\ f.kind \in {"response", "error"}
      /\ \A i \in 1..Len(inbox') : \E j \in 1..Len(inbox) : inbox'[i] = inbox[j]
  BY ServedFrame DEF ServeResponse, Serve, TypeOK
<1>2. c \in Calls
  BY <1>1 DEF Frames
<1>3. f.token = tokenOf[c] /\ future[c] # "idle"
  BY <1>1 DEF FramesKeepTokens
<1>4. /\ Settle(tokenOf[c], outcome)
      /\ outcome \in FutureStates \ {"idle", "pending"}
      /\ answer' = [d \in Calls |-> IF <<tokenOf[c], d>> \in futures
                                    THEN c ELSE answer[d]]
      /\ UNCHANGED <<conn, waiters, woken, token, tokenOf, atServer>>
  BY <1>3 DEF ServeResponse, FutureStates
<1> HIDE DEF f, c, outcome
<1>5. /\ TableHoldsTheWaiting' /\ TokensAreFresh' /\ TokensDiffer'
      /\ \A d \in Calls : /\ future[d] # "idle" => future'[d] # "idle"
                          /\ future'[d] = "pending" => future[d] = "pending"
  BY <1>2, <1>4, SettleKeeps
<1>6. AnswersMatch'
  <2>1. \A d \in Calls : future'[d] =
            IF d = c /\ future[c] = "pending" THEN outcome ELSE future[d]
    BY <1>2, <1>4, SettleOwn
  <2>2. \A d \in Calls : answer'[d] =
            IF d = c /\ future[c] = "pending" THEN c ELSE answer[d]
    BY <1>2, <1>4, TableEntry
  <2>3. outcome \in {"error", "result"}
    BY DEF outcome
  <2> QED
    BY <2>1, <2>2, <2>3 DEF AnswersMatch
<1>7. SleepersCalled' /\ ServerKeepsTokens'
  BY <1>4, <1>5 DEF SleepersCalled, ServerKeepsTokens, TypeOK
<1>8. \A i \in 1..Len(inbox) : inbox[i].kind # "request" => inbox[i].of \in Calls
  BY ElementOfSeq DEF TypeOK, Frames
<1>9. FramesKeepTokens' /\ NoAnswerAfterLoss'
  <2> SUFFICES ASSUME NEW i \in 1..Len(inbox'), inbox'[i].kind # "request"
               PROVE  /\ inbox'[i].token = tokenOf'[inbox'[i].of]
                      /\ future'[inbox'[i].of] # "idle"
                      /\ conn' = "lost" => future'[inbox'[i].of] # "pending"
    BY DEF FramesKeepTokens, NoAnswerAfterLoss
  <2>1. PICK j \in 1..Len(inbox) : inbox'[i] = inbox[j]
    BY <1>1
  <2>2. /\ inbox[j].of \in Calls
        /\ inbox[j].token = tokenOf[inbox[j].of]
        /\ future[inbox[j].of] # "idle"
        /\ conn = "lost" => future[inbox[j].of] # "pending"
    BY <1>8, <2>1 DEF FramesKeepTokens, NoAnswerAfterLoss
  <2> QED
    BY <1>4, <1>5, <2>1, <2>2
<1> QED
  BY <1>5, <1>6, <1>7, <1>9

LEMMA ServerAnswersKeeps ==
    ASSUME CallInv, TypeOK', NEW c \in Calls, ServerAnswers(c)
    PROVE  CallInv'
<1> USE DEF CallInv
<1>1. PICK t \in {r[1] : r \in {q \in atServer : q[2] = c}},
           k \in {"response", "error"} :
           /\ atServer' \in {atServer, atServer \ {<<t, c>>}}
           /\ inbox' = Append(inbox, [kind |-> k, of |-> c, token |-> t])
  BY DEF ServerAnswers
<1>2. t = tokenOf[c] /\ future[c] # "idle" /\ t \in Nat
  BY <1>1 DEF ServerKeepsTokens, TypeOK
<1> DEFINE g == [kind |-> k, of |-> c, token |-> t]
<1>3. g \in Frames
  BY <1>2 DEF Frames
<1>4. \A i \in 1..Len(inbox') : inbox'[i] = IF i \in 1..Len(inbox)
                                           THEN inbox[i] ELSE g
  BY <1>1, <1>3, AppendProperties DEF TypeOK
<1>5. FramesKeepTokens'
  BY <1>2, <1>4 DEF ServerAnswers, FramesKeepTokens
<1>6. conn' # "lost"
  BY DEF ServerAnswers
<1>7. (TableHoldsTheWaiting /\ AnswersMatch /\ TokensAreFresh /\ TokensDiffer)'
  BY DEF ServerAnswers, TableHoldsTheWaiting, AnswersMatch, TokensAreFresh,
         TokensDiffer
<1>8. (SleepersCalled /\ ServerKeepsTokens)'
  BY <1>1 DEF ServerAnswers, SleepersCalled, ServerKeepsTokens
<1> QED
  BY <1>5, <1>6, <1>7, <1>8 DEF NoAnswerAfterLoss

LEMMA WaitingIsListed ==
    ASSUME TableHoldsTheWaiting, NEW c \in Calls
    PROVE  (\E f \in futures : f[2] = c) <=> future[c] = "pending"
<1>1. ASSUME NEW f \in futures, f[2] = c PROVE future[c] = "pending"
  BY <1>1 DEF TableHoldsTheWaiting
<1>2. ASSUME future[c] = "pending" PROVE \E f \in futures : f[2] = c
  <2>1. <<tokenOf[c], c>> \in futures
    BY <1>2 DEF TableHoldsTheWaiting
  <2> QED
    BY <2>1
<1> QED
  BY <1>1, <1>2

\* failAll: the table is empty and no call waits any more.
LEMMA LossKeeps ==
    ASSUME CallInv, TypeOK', ConnectionLost
    PROVE  CallInv'
<1> USE DEF CallInv
<1>1. \A c \in Calls : future'[c] = IF future[c] = "pending" THEN "closed"
                                                             ELSE future[c]
  BY WaitingIsListed DEF ConnectionLost, FailedAll
<1>2. UNCHANGED <<token, tokenOf, answer>> /\ futures' = {} /\ atServer' = {}
  BY DEF ConnectionLost
<1>3. (TableHoldsTheWaiting /\ AnswersMatch /\ TokensAreFresh /\ TokensDiffer)'
  BY <1>1, <1>2 DEF TableHoldsTheWaiting, AnswersMatch, TokensAreFresh,
                    TokensDiffer
<1>4. SleepersCalled'
  BY <1>1 DEF ConnectionLost, Sleepers, SleepersCalled
<1>5. ServerKeepsTokens'
  BY <1>2 DEF ServerKeepsTokens
<1>6. \A i \in 1..Len(inbox') : /\ i \in 1..Len(inbox)
                                /\ inbox'[i] = inbox[i] /\ inbox[i] \in Frames
  BY CutInbox, ElementOfSeq DEF ConnectionLost, TypeOK
<1>7. \A i \in 1..Len(inbox') : inbox'[i].kind # "request" =>
                                    inbox'[i].of \in Calls
  BY <1>6 DEF Frames
<1>8. FramesKeepTokens' /\ NoAnswerAfterLoss'
  BY <1>1, <1>2, <1>6, <1>7 DEF FramesKeepTokens, NoAnswerAfterLoss
<1> QED
  BY <1>3, <1>4, <1>5, <1>8

LEMMA CallStep == CallInv /\ [Next]_vars => CallInv'
<1> SUFFICES ASSUME CallInv, [Next]_vars PROVE CallInv'
  OBVIOUS
<1>0. TypeOK /\ TypeOK'
  BY TypeStep DEF CallInv
<1>1. CASE \/ ConnectionMade \/ Trusted \/ PauseWriting \/ ResumeWriting
           \/ UNCHANGED vars
           \/ \E n \in Notices : WokenReply(n) \/ HandlerEnds(n)
  <2>1. /\ UNCHANGED <<token, futures, tokenOf, future, answer, atServer, inbox>>
        /\ conn' = "lost" => conn = "lost"
        /\ waiters' \cup woken' \subseteq waiters \cup woken \cup Notices
    BY <1>1 DEF ConnectionMade, Trusted, PauseWriting, ResumeWriting,
                WokenReply, HandlerEnds, vars
  <2> QED
    BY <1>0, <2>1, CallsUntouched
<1>2. CASE ServeRejected \/ ServeRequest
  <2>1. \A i \in 1..Len(inbox') : \E j \in 1..Len(inbox) : inbox'[i] = inbox[j]
    BY <1>0, <1>2, ServedFrame DEF ServeRejected, ServeRequest, TypeOK
  <2> QED
    BY <1>0, <1>2, <2>1, CallsUntouched DEF ServeRejected, ServeRequest
<1>3. CASE ServeResponse
  BY <1>0, <1>3, ServeResponseKeeps
<1>4. CASE Close
  <2>1. \A i \in 1..Len(inbox') : \E j \in 1..Len(inbox) : inbox'[i] = inbox[j]
    BY <1>0, <1>4, CutInbox DEF Close, TypeOK
  <2> QED
    BY <1>0, <1>4, <2>1, CallsUntouched DEF Close
<1>5. CASE ConnectionLost
  BY <1>0, <1>5, LossKeeps
<1>6. ASSUME NEW c \in Calls, Call(c) PROVE CallInv'
  BY <1>0, <1>6, CallKeeps
<1>7. ASSUME NEW c \in Calls, WokenCall(c) PROVE CallInv'
  BY <1>0, <1>7, WokenCallKeeps
<1>8. ASSUME NEW c \in Calls, ServerAnswers(c) PROVE CallInv'
  BY <1>0, <1>8, ServerAnswersKeeps
<1>9. ASSUME NEW n \in Notices, ServerRequests(n) PROVE CallInv'
  <2> DEFINE g == [kind |-> "request", of |-> n]
  <2>1. g \in Frames
    BY DEF Frames
  <2>2. \A i \in 1..Len(inbox') : \/ inbox'[i].kind = "request"
                                  \/ \E j \in 1..Len(inbox) : inbox'[i] = inbox[j]
    BY <1>0, <1>9, <2>1, AppendProperties DEF ServerRequests, TypeOK
  <2> QED
    BY <1>0, <1>9, <2>2, CallsUntouched DEF ServerRequests
<1> QED
  BY <1>1, <1>2, <1>3, <1>4, <1>5, <1>6, <1>7, <1>8, <1>9 DEF Next

LEMMA CallInvariant == Spec => []CallInv
BY CallInit, CallStep, PTL DEF Spec

\* Whatever the interleaving, the table of futures is exactly the waiting
\* calls, each under the token it was given.
THEOREM TableIsExact == Spec => []TableHoldsTheWaiting
<1>1. CallInv => TableHoldsTheWaiting
  BY DEF CallInv
<1> QED
  BY <1>1, CallInvariant, PTL

\* No caller is ever handed the answer to another caller's request.
THEOREM AnswersAreOwn == Spec => []AnswersMatch
<1>1. CallInv => AnswersMatch
  BY DEF CallInv
<1> QED
  BY <1>1, CallInvariant, PTL
-----------------------------------------------------------------------------
(* Futures.                                                                *)

\* What one step does to the futures and the answers.
Changed(c, outcome, from) ==
    /\ future[c] \in from
    /\ \A d \in Calls : future'[d] = IF d = c THEN outcome ELSE future[d]

LEMMA FutureSteps ==
    ASSUME CallInv, [Next]_vars
    PROVE  \/ UNCHANGED <<future, answer>> /\ (conn' = "lost" <=> conn = "lost")
           \/ /\ ConnectionLost
              /\ \A d \in Calls : future'[d] = IF future[d] = "pending"
                                               THEN "closed" ELSE future[d]
           \/ /\ UNCHANGED <<conn, answer>>
              /\ \E c \in Calls : \/ Changed(c, "pending", {"idle"})
                                  \/ Changed(c, "raised", {"idle", "pending"})
           \/ /\ conn # "lost"
              /\ UNCHANGED conn
              /\ \E c \in Calls :
                    /\ \E o \in {"result", "error"} : Changed(c, o, {"pending"})
                    /\ \A d \in Calls : answer'[d] = IF d = c THEN c ELSE answer[d]
<1> USE DEF CallInv
<1>1. CASE \/ ConnectionMade \/ Trusted \/ PauseWriting \/ ResumeWriting
           \/ UNCHANGED vars \/ ServeRejected \/ ServeRequest \/ Close
           \/ \E n \in Notices :
                  WokenReply(n) \/ HandlerEnds(n) \/ ServerRequests(n)
           \/ \E c \in Calls : ServerAnswers(c)
  BY <1>1 DEF ConnectionMade, Trusted, PauseWriting, ResumeWriting, vars,
     ServeRejected, ServeRequest, Close, WokenReply, HandlerEnds,
     ServerRequests, ServerAnswers
<1>2. CASE ServeResponse
  <2> DEFINE f == Head(inbox)
             c == f.of
             outcome == IF f.kind = "error" THEN "error" ELSE "result"
  <2>1. /\ f \in Frames /\ f = inbox[1] /\ 1 \in 1..Len(inbox)
        /\ f.kind \in {"response", "error"}
    BY <1>2, ServedFrame DEF ServeResponse, Serve, TypeOK
  <2>2. c \in Calls
    BY <2>1 DEF Frames
  <2>3. f.token = tokenOf[c] /\ (conn = "lost" => future[c] # "pending")
    BY <2>1 DEF FramesKeepTokens, NoAnswerAfterLoss
  <2>4. /\ Settle(tokenOf[c], outcome)
        /\ outcome \in FutureStates
        /\ outcome \in {"result", "error"}
        /\ answer' = [d \in Calls |-> IF <<tokenOf[c], d>> \in futures
                                      THEN c ELSE answer[d]]
        /\ UNCHANGED conn
    BY <1>2, <2>3 DEF ServeResponse, FutureStates
  <2> HIDE DEF f, c, outcome
  <2>5. \A d \in Calls :
            /\ future'[d] = IF d = c /\ future[c] = "pending" THEN outcome
                                                              ELSE future[d]
            /\ answer'[d] = IF d = c /\ future[c] = "pending" THEN c
                                                              ELSE answer[d]
    BY <2>2, <2>4, SettleOwn, TableEntry
  <2>6. CASE future[c] = "pending"
    <3>1. Changed(c, outcome, {"pending"})
      BY <2>5, <2>6 DEF Changed
    <3>2. \A d \in Calls : answer'[d] = IF d = c THEN c ELSE answer[d]
      BY <2>5, <2>6
    <3>3. conn # "lost" /\ UNCHANGED conn
      BY <2>3, <2>4, <2>6
    <3> HIDE DEF Changed
    <3> QED
      BY <2>2, <2>4, <3>1, <3>2, <3>3
  <2>7. CASE future[c] # "pending"
    <3>1. future' \in [Calls -> FutureStates] /\ answer' \in [Calls -> Calls \cup {NoCall}]
      BY TypeStep DEF TypeOK
    <3>2. \A d \in Calls : future'[d] = future[d] /\ answer'[d] = answer[d]
      BY <2>5, <2>7
    <3>3. future' = future /\ answer' = answer
      BY <3>1, <3>2 DEF TypeOK
    <3> QED
      BY <2>4, <3>3
  <2> QED
    BY <2>6, <2>7
<1>3. CASE ConnectionLost
  BY <1>3, WaitingIsListed DEF ConnectionLost, FailedAll
<1>4. ASSUME NEW c \in Calls, Call(c)
      PROVE  /\ UNCHANGED <<conn, answer>>
             /\ \/ Changed(c, "pending", {"idle"})
                \/ Changed(c, "raised", {"idle", "pending"})
  BY <1>4 DEF Call, Changed, TypeOK
<1>5. ASSUME NEW c \in Calls, WokenCall(c)
      PROVE  \/ UNCHANGED <<future, answer, conn>>
             \/ /\ UNCHANGED <<conn, answer>>
                /\ Changed(c, "raised", {"idle", "pending"})
  <2>1. CASE UNCHANGED future
    BY <1>5, <2>1 DEF WokenCall
  <2>2. CASE Settle(tokenOf[c], "raised")
    <3>1. \A d \in Calls : future'[d] =
              IF d = c /\ future[c] = "pending" THEN "raised" ELSE future[d]
      BY <2>2, SettleOwn DEF FutureStates
    <3>2. future' \in [Calls -> FutureStates] /\ future \in [Calls -> FutureStates]
      BY TypeStep DEF TypeOK
    <3> QED
      BY <1>5, <3>1, <3>2 DEF WokenCall, Changed
  <2> QED
    BY <1>5, <2>1, <2>2 DEF WokenCall
<1> QED
  BY <1>1, <1>2, <1>3, <1>4, <1>5 DEF Next

\* set_result and set_exception are only ever applied to a pending future.
THEOREM OutcomesAreFinal == Spec => SettledOnce
<1>1. CallInv /\ [Next]_vars =>
          [\A c \in Calls : future[c] \notin {"idle", "pending"}
                                => future'[c] = future[c]]_vars
  BY FutureSteps DEF Changed, CallInv, TypeOK, vars
<1> QED
  BY <1>1, CallInvariant, PTL DEF Spec, SettledOnce

-----------------------------------------------------------------------------
(* Peer implements RemoteCalls.                                            *)

LEMMA PromiseStep == CallInv /\ [Next]_vars => [Promise!Next]_(Promise!vars)
<1> SUFFICES ASSUME CallInv, [Next]_vars PROVE [Promise!Next]_(Promise!vars)
  OBVIOUS
<1> USE DEF Promise!Next, Promise!vars
<1>0. /\ future \in [Calls -> FutureStates] /\ future' \in [Calls -> FutureStates]
      /\ answer \in [Calls -> Calls \cup {NoCall}]
      /\ answer' \in [Calls -> Calls \cup {NoCall}]
  BY TypeStep DEF CallInv, TypeOK
<1>1. CASE UNCHANGED <<future, answer>> /\ (conn' = "lost" <=> conn = "lost")
  BY <1>1
<1>2. CASE /\ ConnectionLost
           /\ \A d \in Calls : future'[d] = IF future[d] = "pending"
                                            THEN "closed" ELSE future[d]
  <2>1. future' = [d \in Calls |-> IF future[d] = "pending"
                                   THEN "closed" ELSE future[d]]
    BY <1>0, <1>2
  <2> QED
    BY <1>2, <2>1 DEF ConnectionLost, Promise!Lose
<1>3. ASSUME NEW c \in Calls, UNCHANGED <<conn, answer>>,
             Changed(c, "pending", {"idle"})
      PROVE  Promise!Issue(c)
  <2>1. future' = [future EXCEPT ![c] = "pending"]
    BY <1>0, <1>3 DEF Changed
  <2> QED
    BY <1>3, <2>1 DEF Promise!Issue, Changed
<1>4. ASSUME NEW c \in Calls, UNCHANGED <<conn, answer>>,
             Changed(c, "raised", {"idle", "pending"})
      PROVE  Promise!Raise(c)
  <2>1. future' = [future EXCEPT ![c] = "raised"]
    BY <1>0, <1>4 DEF Changed
  <2> QED
    BY <1>4, <2>1 DEF Promise!Raise, Changed
<1>5. ASSUME NEW c \in Calls, NEW o \in {"result", "error"},
             conn # "lost", UNCHANGED conn, Changed(c, o, {"pending"}),
             \A d \in Calls : answer'[d] = IF d = c THEN c ELSE answer[d]
      PROVE  Promise!Answer(c)
  <2>1. future' = [future EXCEPT ![c] = o] /\ answer' = [answer EXCEPT ![c] = c]
    BY <1>0, <1>5 DEF Changed
  <2> QED
    BY <1>5, <2>1 DEF Promise!Answer, Changed
<1> QED
  BY <1>1, <1>2, <1>3, <1>4, <1>5, FutureSteps

\* Every behaviour of the peer is one RemoteCalls allows: at most one outcome
\* per call, only own answers, all outstanding calls failed with the
\* connection, and no answer delivered afterwards.
THEOREM PeerKeepsPromise == Spec => KeepsPromise
<1>1. Init => Promise!Init
  BY DEF Init, Promise!Init
<1> QED
  BY <1>1, PromiseStep, CallInvariant, PTL DEF Spec, KeepsPromise, Promise!Spec

-----------------------------------------------------------------------------
(* The valve.                                                              *)

LEMMA ValveStep == ValveInv /\ [Next]_vars => ValveInv'
<1> SUFFICES ASSUME ValveInv, [Next]_vars
             PROVE  (NobodySleepsInVain /\ QuietBefore /\ OpenAfterLoss)'
  BY TypeStep DEF ValveInv
<1> USE DEF ValveInv, NobodySleepsInVain, QuietBefore, OpenAfterLoss
<1>1. CASE ConnectionMade \/ Trusted \/ PauseWriting \/ ResumeWriting \/ Close
  BY <1>1 DEF ConnectionMade, Trusted, PauseWriting, ResumeWriting, Close
<1>2. CASE ServeRejected \/ ServeResponse \/ ServeRequest
  BY <1>2 DEF ServeRejected, ServeResponse, ServeRequest, Serve
<1>3. CASE ConnectionLost
  BY <1>3 DEF ConnectionLost, Sleepers
<1>4. ASSUME NEW c \in Calls, Call(c) \/ WokenCall(c) \/ ServerAnswers(c)
      PROVE  (NobodySleepsInVain /\ QuietBefore /\ OpenAfterLoss)'
  BY <1>4 DEF Call, WokenCall, ServerAnswers
<1>5. ASSUME NEW n \in Notices, WokenReply(n) \/ HandlerEnds(n) \/ ServerRequests(n)
      PROVE  (NobodySleepsInVain /\ QuietBefore /\ OpenAfterLoss)'
  BY <1>5 DEF WokenReply, HandlerEnds, ServerRequests
<1>6. CASE UNCHANGED vars
  BY <1>6 DEF vars
<1> QED
  BY <1>1, <1>2, <1>3, <1>4, <1>5, <1>6 DEF Next

\* No pause, resume, close or loss, in any order with the senders, leaves a
\* sender asleep behind an open valve or a dead connection.
THEOREM NobodyIsForgotten == Spec => []NobodySleepsInVain
<1>1. Init => ValveInv
  BY TypeInit DEF Init, ValveInv, NobodySleepsInVain, QuietBefore, OpenAfterLoss
<1>2. ValveInv => NobodySleepsInVain
  BY DEF ValveInv
<1> QED
  BY <1>1, <1>2, ValveStep, PTL DEF Spec
=============================================================================
