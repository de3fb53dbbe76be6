----------------------------- MODULE CliProofs -----------------------------
(***************************************************************************)
(* Safety of Cli for any number of commands.  The calls behind the one     *)
(* that is made have not been issued and those before it have returned a   *)
(* result; as the server answers only what it has carried out, there is    *)
(* nothing left at the server when the next call is issued, and what the   *)
(* server carries out is the plan from its start.                          *)
(***************************************************************************)
EXTENDS Cli, SequenceTheorems, TLAPS

\* Calls up to the one that is made, and what the server has of them.
InPlan ==
    /\ \A i \in DOMAIN executed : executed[i] = i - 1
    /\ \A c \in atServer : c = Len(executed)
    /\ Len(executed) <= pos + 1
    /\ atServer # {} => Len(executed) <= pos
    /\ status[0] = "idle" => pos = 0 /\ executed = <<>> /\ atServer = {}
    /\ \A c \in Places : c > pos => status[c] = "idle"
    /\ \A c \in Places : c < pos => status[c] = "result"
    /\ \A c \in Places : status[c] \in {"result", "error"} => c < Len(executed)

\* Where the program is.
Phases ==
    /\ at \in {"parsed", "connecting"} => status[0] = "idle"
    /\ at = "certifying" => status[pos] = "result"
    /\ exit # "none" => at = "ended"
    /\ exit = "ok" => pos = Len(Plan) /\ status[pos] = "result"
    /\ options.fingerprint = "wrong" => status[0] = "idle"

CliInv == TypeOK /\ InPlan /\ Phases /\ CertificateFitsUrl

-----------------------------------------------------------------------------

\* The commands given are a sequence.
LEMMA OrderedIsSeq ==
    ASSUME NEW given \in [Commands -> Nat]
    PROVE  Ordered(given) \in Seq(Commands)
<1> DEFINE Each(command) == [i \in 1..given[command] |-> command]
<1>1. \A command \in Commands : Each(command) \in Seq(Commands)
  BY IsASeq
<1>2. {"pause", "stop", "restart", "start", "resume"} = Commands
  BY DEF Commands
<1> HIDE DEF Each
<1>3. /\ Each("pause") \in Seq(Commands) /\ Each("stop") \in Seq(Commands)
      /\ Each("restart") \in Seq(Commands) /\ Each("start") \in Seq(Commands)
      /\ Each("resume") \in Seq(Commands)
  BY <1>1, <1>2
<1>4. Each("pause") \o Each("stop") \o Each("restart") \o Each("start")
          \o Each("resume") \in Seq(Commands)
  BY <1>3, ConcatProperties
<1> QED
  BY <1>4 DEF Ordered, Each

LEMMA PlanIsSeq ==
    ASSUME options \in Options
    PROVE  Len(Plan) \in Nat
<1>1. options.given \in [Commands -> Nat]
  BY DEF Options
<1>2. Ordered(options.given) \in Seq(Commands)
  BY <1>1, OrderedIsSeq
<1>3. Len(<<"list", "informations">>) = 2
  OBVIOUS
<1> QED
  BY <1>2, <1>3, LenProperties DEF Plan

\* The plan does not change with the state.
LEMMA PlanIsFixed == ASSUME options' = options PROVE Plan' = Plan
  BY DEF Plan

LEMMA InitCli == Init => CliInv
<1> SUFFICES ASSUME Init PROVE CliInv
  OBVIOUS
<1> USE TwoCallsList
<1>1. options \in Options /\ Len(Plan) <= MaxCommands
  <2>1. /\ options.given \in [Commands -> 0..MaxCommands]
        /\ Len(Ordered(options.given)) <= MaxCommands
        /\ options \in Options
    BY DEF Init, Options
  <2>2. Len(<<"list", "informations">>) = 2
    OBVIOUS
  <2> QED
    BY <2>1, <2>2 DEF Plan
<1>2. Len(Plan) \in Nat
  BY <1>1, PlanIsSeq
<1>3. 0 \in Places /\ 0 \in 0..Len(Plan)
  BY <1>2 DEF Places
<1>4. Peer!TypeOK
  BY DEF Init, Peer!Init, Peer!TypeOK, Peer!Statuses
<1>5. TypeOK
  <2>1. <<>> \in Seq(Places)
    BY EmptySeq
  <2> QED
    BY <1>1, <1>3, <1>4, <2>1, Zenon DEF Init, TypeOK
<1>6. InPlan
  BY <1>3 DEF Init, Peer!Init, InPlan, Places
<1>7. Phases /\ CertificateFitsUrl
  BY <1>3 DEF Init, Peer!Init, Phases, CertificateFitsUrl
<1> QED
  BY <1>5, <1>6, <1>7 DEF CliInv

-----------------------------------------------------------------------------
(* One call after the other.                                               *)

\* Ending the program leaves the calls as they are.
LEMMA ExitKeeps ==
    ASSUME CliInv, NEW how \in {"ok", "error", "interrupted"}, Exit(how),
           at # "ended", UNCHANGED options,
           how = "ok" => pos = Len(Plan) /\ status[pos] = "result"
    PROVE  /\ at' \in {"parsed", "connecting", "calling", "certifying", "ended"}
           /\ exit' \in {"none", "ok", "error", "interrupted"}
           /\ transport' \in {"none", "open", "closed"}
           /\ InPlan' /\ Phases' /\ Peer!TypeOK'
           /\ pos' = pos /\ executed' = executed /\ atServer' = atServer
<1>1. Plan' = Plan
  BY PlanIsFixed
<1>2. InPlan'
  BY DEF CliInv, InPlan, Exit, remote, server
<1>3. Phases'
  BY <1>1 DEF CliInv, Phases, Exit, remote, server
<1>4. Peer!TypeOK'
  BY DEF CliInv, TypeOK, Exit, remote, Peer!TypeOK
<1> QED
  BY <1>2, <1>3, <1>4 DEF CliInv, TypeOK, Exit, server

\* Issuing the call behind one that returned a result, or the handshake.
LEMMA CallsKeeps ==
    ASSUME CliInv, NEW c \in 0..Len(Plan), Calls(c), UNCHANGED options,
           options.fingerprint # "wrong", exit = "none",
           \/ c = pos + 1 /\ status[pos] = "result"
           \/ c = 0 /\ pos = 0 /\ status[0] = "idle"
    PROVE  /\ at' = "calling" /\ exit' = exit /\ pos' = c
           /\ executed' = executed /\ atServer' \subseteq Places
           /\ InPlan' /\ Phases' /\ Peer!TypeOK'
<1> USE TwoCallsList
<1>1. Plan' = Plan /\ Len(Plan) \in Nat /\ c \in Places /\ pos \in Places
  BY PlanIsFixed, PlanIsSeq DEF CliInv, TypeOK, Places
<1>2. /\ status \in [Places -> Peer!Statuses]
      /\ status[c] = "idle"
      /\ status' = [status EXCEPT ![c] = "pending"]
      /\ up' = up /\ answer' = answer
  BY DEF CliInv, TypeOK, Peer!TypeOK, Calls, Peer!Issue
<1>3. /\ pos' = c /\ at' = "calling" /\ exit' = exit /\ executed' = executed
      /\ atServer' = IF up THEN atServer \cup {c} ELSE atServer
  BY DEF Calls
<1>4. Len(executed) = c /\ atServer = {} /\ Len(executed) \in Nat
  BY <1>1 DEF CliInv, TypeOK, InPlan
<1>5. Peer!TypeOK'
  BY <1>1, <1>2 DEF CliInv, TypeOK, Peer!TypeOK, Peer!Statuses
<1>6. /\ \A d \in Places : d # c => status'[d] = status[d]
      /\ status'[c] = "pending"
  BY <1>1, <1>2
<1>7. InPlan'
  <2>1. \A d \in Places : /\ d > c => status'[d] = "idle"
                          /\ d < c => status'[d] = "result"
    BY <1>1, <1>6 DEF CliInv, InPlan, Places
  <2>2. \A d \in Places : status'[d] \in {"result", "error"} => d < Len(executed')
    BY <1>1, <1>3, <1>6 DEF CliInv, InPlan
  <2>3. status'[0] # "idle"
    <3>1. 0 \in Places /\ (c = 0 \/ 0 < c)
      BY <1>1 DEF Places
    <3> QED
      BY <3>1, <2>1, <1>6
  <2>4. /\ \A i \in DOMAIN executed' : executed'[i] = i - 1
        /\ \A d \in atServer' : d = Len(executed')
        /\ Len(executed') <= pos' + 1
        /\ atServer' # {} => Len(executed') <= pos'
    BY <1>1, <1>3, <1>4 DEF CliInv, InPlan, Places
  <2> QED
    BY <2>1, <2>2, <2>3, <2>4, <1>3 DEF InPlan
<1>8. Phases'
  BY <1>3 DEF Phases
<1> QED
  BY <1>1, <1>3, <1>4, <1>5, <1>7, <1>8

LEMMA BeginKeeps == ASSUME CliInv, Begin PROVE CliInv'
<1>1. /\ at = "parsed" /\ UNCHANGED options /\ UNCHANGED spiceVars
      /\ cert' \in {"absent", "empty", "whole"} /\ exit = "none"
  BY DEF Begin, CliInv, TypeOK, Phases
<1>2. CASE Exit("error")
  BY <1>1, <1>2, ExitKeeps, PlanIsFixed
     DEF CliInv, TypeOK, CertificateFitsUrl, spiceVars, Exit
<1>3. CASE at' = "connecting" /\ UNCHANGED <<exit, pos, transport, remote, server>>
  BY <1>1, <1>3, PlanIsFixed
     DEF CliInv, TypeOK, InPlan, Phases, CertificateFitsUrl, spiceVars, remote,
         server, Peer!TypeOK
<1> QED
  BY <1>2, <1>3 DEF Begin

LEMMA ConnectKeeps == ASSUME CliInv, Connect PROVE CliInv'
<1>1. /\ at = "connecting" /\ UNCHANGED <<options, cert, spiceVars>>
      /\ status[0] = "idle" /\ pos = 0 /\ exit = "none"
  BY DEF Connect, CliInv, TypeOK, Phases, InPlan
<1>2. CASE Exit("error")
  BY <1>1, <1>2, ExitKeeps, PlanIsFixed
     DEF CliInv, TypeOK, CertificateFitsUrl, spiceVars, Exit
<1>3. CASE options.fingerprint # "wrong" /\ transport' = "open" /\ Calls(0)
  <2>1. 0 \in 0..Len(Plan)
    BY PlanIsSeq DEF CliInv, TypeOK
  <2> QED
    BY <1>1, <1>3, <2>1, CallsKeeps, PlanIsFixed
       DEF CliInv, TypeOK, CertificateFitsUrl, spiceVars
<1>4. CASE /\ options.fingerprint = "wrong"
           /\ transport' = "closed"
           /\ at' = "ended" /\ exit' = "error"
           /\ UNCHANGED <<pos, remote, server>>
  BY <1>1, <1>4, PlanIsFixed
     DEF CliInv, TypeOK, InPlan, Phases, CertificateFitsUrl, spiceVars, remote,
         server, Peer!TypeOK
<1> QED
  BY <1>2, <1>3, <1>4 DEF Connect

LEMMA ExecuteKeeps == ASSUME CliInv, Execute PROVE CliInv'
<1>1. PICK c \in atServer : /\ executed' = Append(executed, c)
                           /\ atServer' = atServer \ {c}
  BY DEF Execute
<1>2. UNCHANGED <<options, cert, at, exit, pos, transport, remote, spiceVars>>
  BY DEF Execute
<1>3. /\ c \in Places /\ c = Len(executed) /\ c <= pos
      /\ \A d \in atServer : d = c
      /\ executed \in Seq(Places)
  BY DEF CliInv, TypeOK, InPlan
<1>4. /\ executed' \in Seq(Places) /\ Len(executed') = c + 1 /\ atServer' = {}
      /\ \A i \in DOMAIN executed' : executed'[i] = i - 1
  BY <1>1, <1>3 DEF CliInv, InPlan
<1>5. InPlan'
  <2>1. /\ c \in Nat /\ \A d \in Places : d < c => d < c + 1
        /\ status' = status /\ pos' = pos /\ pos \in Nat
    BY <1>2, <1>3, PlanIsSeq DEF CliInv, TypeOK, remote, Places
  <2>2. status[0] # "idle"
    BY <1>3 DEF CliInv, InPlan
  <2>3. \A d \in Places : /\ d > pos => status[d] = "idle"
                          /\ d < pos => status[d] = "result"
                          /\ status[d] \in {"result", "error"} => d < c
    BY <1>3 DEF CliInv, InPlan
  <2>4. Len(executed') <= pos + 1
    BY <1>3, <1>4, <2>1
  <2>5. \A d \in Places : status[d] \in {"result", "error"} => d < Len(executed')
    BY <1>4, <2>1, <2>3
  <2> QED
    BY <1>4, <2>1, <2>2, <2>3, <2>4, <2>5 DEF InPlan
<1> QED
  BY <1>2, <1>4, <1>5, PlanIsFixed
     DEF CliInv, TypeOK, Phases, CertificateFitsUrl, remote, spiceVars, Peer!TypeOK

\* An outcome changes only a call that is outstanding, the one that is made.
LEMMA AnsweredKeeps == ASSUME CliInv, Answered PROVE CliInv'
<1>1. PICK c \in Places : Contains(executed, c) /\ Peer!Answer(c)
  BY DEF Answered
<1>2. UNCHANGED <<options, cert, at, exit, pos, transport, server, spiceVars>>
  BY DEF Answered
<1>3. /\ status[c] = "pending" /\ up' = up
      /\ answer' = [answer EXCEPT ![c] = c]
  BY <1>1 DEF Peer!Answer
<1>4. PICK o \in {"result", "error"} : status' = [status EXCEPT ![c] = o]
  BY <1>1 DEF Peer!Answer
<1>5. c < Len(executed)
  <2>1. PICK i \in 1..Len(executed) : executed[i] = c
    BY <1>1 DEF Contains
  <2> QED
    BY <2>1 DEF CliInv, InPlan, TypeOK
<1>6. status \in [Places -> Peer!Statuses] /\ pos \in Places
  BY PlanIsSeq, TwoCallsList DEF CliInv, TypeOK, Peer!TypeOK, Places
<1>7. c = pos
  BY <1>3, <1>6 DEF CliInv, InPlan, Places
<1>8. Peer!TypeOK'
  BY <1>3, <1>4 DEF CliInv, TypeOK, Peer!TypeOK, Peer!Statuses
<1>9. InPlan'
  BY <1>2, <1>3, <1>4, <1>5, <1>6, <1>7 DEF CliInv, InPlan, server, Places
<1>10. Phases'
  BY <1>2, <1>3, <1>4, <1>6, <1>7, PlanIsFixed
     DEF CliInv, InPlan, TypeOK, Phases, Places
<1> QED
  BY <1>2, <1>8, <1>9, <1>10, PlanIsFixed
     DEF CliInv, TypeOK, CertificateFitsUrl, server, spiceVars

LEMMA LoseKeeps == ASSUME CliInv, Lose PROVE CliInv'
<1>1. UNCHANGED <<options, cert, at, exit, pos, transport, server, spiceVars>>
  BY DEF Lose
<1>2. /\ up' = FALSE /\ answer' = answer
      /\ status \in [Places -> Peer!Statuses] /\ pos \in Places /\ 0 \in Places
      /\ status' = [c \in Places |-> IF status[c] = "pending" THEN "closed"
                                                            ELSE status[c]]
  BY PlanIsSeq, TwoCallsList DEF Lose, Peer!Lose, CliInv, TypeOK, Peer!TypeOK, Places
<1>3. /\ \A c \in Places : /\ status[c] # "pending" => status'[c] = status[c]
                           /\ status[c] = "pending" => status'[c] = "closed"
      /\ Peer!TypeOK'
  BY <1>2 DEF CliInv, TypeOK, Peer!TypeOK, Peer!Statuses
<1>4. InPlan'
  BY <1>1, <1>2, <1>3 DEF CliInv, InPlan, server
<1>5. Phases'
  BY <1>1, <1>2, <1>3, PlanIsFixed DEF CliInv, Phases
<1> QED
  BY <1>1, <1>3, <1>4, <1>5, PlanIsFixed
     DEF CliInv, TypeOK, CertificateFitsUrl, server, spiceVars

\* After a call that returned a result there comes another one or the end.
LEMMA CallNextKeeps ==
    ASSUME CliInv, at \in {"calling", "certifying"}, status[pos] = "result",
           UNCHANGED options, CallNext
    PROVE  /\ at' \in {"parsed", "connecting", "calling", "certifying", "ended"}
           /\ exit' \in {"none", "ok", "error", "interrupted"}
           /\ transport' \in {"none", "open", "closed"}
           /\ pos' \in 0..Len(Plan)
           /\ executed' = executed /\ atServer' \subseteq Places
           /\ InPlan' /\ Phases' /\ Peer!TypeOK'
<1>1. Len(Plan) \in Nat /\ pos \in 0..Len(Plan) /\ exit = "none"
  BY PlanIsSeq DEF CliInv, TypeOK, Phases
<1>2. CASE GoesOnTo(pos + 1)
  <2>1. Calls(pos + 1) /\ UNCHANGED transport /\ pos + 1 \in 0..Len(Plan)
    BY <1>1, <1>2 DEF CallNext, GoesOnTo
  <2>2. options.fingerprint # "wrong"
    <3>1. pos \in Places /\ 0 \in Places /\ (pos = 0 \/ 0 < pos)
      BY <1>1, TwoCallsList DEF CliInv, TypeOK, Places
    <3>2. status[0] = "result"
      BY <3>1 DEF CliInv, InPlan
    <3> QED
      BY <3>2 DEF CliInv, Phases
  <2> QED
    BY <1>1, <2>1, <2>2, CallsKeeps DEF CliInv, TypeOK
<1>3. CASE ~GoesOnTo(pos + 1)
  <2>1. Exit("ok") /\ pos = Len(Plan)
    BY <1>1, <1>3 DEF CallNext, GoesOnTo
  <2> QED
    BY <1>1, <2>1, ExitKeeps DEF CliInv, TypeOK
<1> QED
  BY <1>2, <1>3

LEMMA ReturnKeeps == ASSUME CliInv, Return PROVE CliInv'
<1>1. /\ at = "calling" /\ UNCHANGED <<options, cert>> /\ exit = "none"
      /\ pos \in Places
  BY PlanIsSeq, TwoCallsList DEF Return, CliInv, TypeOK, Phases, Places
<1>2. CASE Exit("error") /\ UNCHANGED spiceVars
  BY <1>1, <1>2, ExitKeeps, PlanIsFixed
     DEF CliInv, TypeOK, CertificateFitsUrl, spiceVars, Exit
<1>3. CASE /\ Succeeded(pos) /\ CallNext
           /\ url' \in IF pos > 0 /\ Plan[pos] = "start" /\ ~options.spiceCert
                       THEN {url, pos} ELSE {url}
           /\ UNCHANGED <<spice, file, damaged, doubtful>>
  <2>1. /\ url' \in Places /\ options.spiceCert => url' = url
    BY <1>1, <1>3 DEF CliInv, TypeOK
  <2>2. CertificateFitsUrl'
    BY <1>1, <1>3, <2>1 DEF CliInv, CertificateFitsUrl
  <2> QED
    BY <1>1, <1>3, <2>1, <2>2, CallNextKeeps, PlanIsFixed
       DEF CliInv, TypeOK, Succeeded
<1>4. CASE /\ Succeeded(pos) /\ at' = "certifying"
           /\ UNCHANGED <<exit, pos, transport, remote, server, spiceVars>>
  BY <1>1, <1>4, PlanIsFixed
     DEF CliInv, TypeOK, InPlan, Phases, CertificateFitsUrl, spiceVars, remote,
         server, Peer!TypeOK, Succeeded
<1> QED
  BY <1>2, <1>3, <1>4 DEF Return

LEMMA CertifyKeeps == ASSUME CliInv, Certify PROVE CliInv'
<1>1. /\ at = "certifying" /\ UNCHANGED <<options, cert>> /\ exit = "none"
      /\ pos \in Places /\ status[pos] = "result"
  BY PlanIsSeq, TwoCallsList DEF Certify, CliInv, TypeOK, Phases, Places
<1>2. CASE Exit("error") /\ UNCHANGED spiceVars
  BY <1>1, <1>2, ExitKeeps, PlanIsFixed
     DEF CliInv, TypeOK, CertificateFitsUrl, spiceVars, Exit
<1>3. ASSUME NEW told \in BOOLEAN, NEW same \in BOOLEAN, ~Accepted(told, same),
             spice' = "open", Exit("error"),
             UNCHANGED <<file, damaged, url, doubtful>>
      PROVE  CliInv'
  BY <1>1, <1>3, ExitKeeps, PlanIsFixed
     DEF CliInv, TypeOK, CertificateFitsUrl, Exit
<1>4. ASSUME NEW told \in BOOLEAN, NEW same \in BOOLEAN, Accepted(told, same),
             spice' = "closed",
             doubtful' = IF told /\ ~same THEN doubtful \cup {pos} ELSE doubtful
      PROVE  doubtful' = {}
  BY <1>4 DEF Accepted, CliInv, CertificateFitsUrl
<1>5. CASE /\ spice' = "closed" /\ doubtful' = {}
           /\ file' = pos /\ url' = pos /\ CallNext /\ UNCHANGED damaged
  <2>1. CertificateFitsUrl'
    BY <1>1, <1>5 DEF CliInv, CertificateFitsUrl
  <2> QED
    BY <1>1, <1>5, <2>1, CallNextKeeps, PlanIsFixed DEF CliInv, TypeOK
<1>6. CASE /\ spice' = "closed" /\ doubtful' = {}
           /\ damaged' \in BOOLEAN /\ Exit("error") /\ UNCHANGED <<file, url>>
  BY <1>1, <1>6, ExitKeeps, PlanIsFixed
     DEF CliInv, TypeOK, CertificateFitsUrl, Exit
<1> QED
  BY <1>2, <1>3, <1>4, <1>5, <1>6 DEF Certify

LEMMA InterruptKeeps == ASSUME CliInv, Interrupt PROVE CliInv'
<1>1. /\ at # "ended" /\ exit = "none" /\ Exit("interrupted")
      /\ UNCHANGED <<options, cert, spiceVars>>
  BY DEF Interrupt, CliInv, Phases
<1> QED
  BY <1>1, ExitKeeps, PlanIsFixed
     DEF CliInv, TypeOK, CertificateFitsUrl, spiceVars, Exit

LEMMA NextCli == CliInv /\ [Next]_vars => CliInv'
<1>1. ASSUME CliInv, UNCHANGED vars PROVE CliInv'
  BY <1>1, PlanIsFixed
     DEF vars, CliInv, TypeOK, InPlan, Phases, CertificateFitsUrl, spiceVars,
         remote, server, Peer!TypeOK
<1> QED
  BY <1>1, BeginKeeps, ConnectKeeps, ReturnKeeps, CertifyKeeps, InterruptKeeps,
     ExecuteKeeps, AnsweredKeeps, LoseKeeps DEF Next

LEMMA CliInvHolds == Spec => []CliInv
  BY InitCli, NextCli, PTL DEF Spec

\* The variables of Cli have their types.
THEOREM CliTypes == Spec => []TypeOK
<1>1. CliInv => TypeOK
  BY DEF CliInv
<1> QED
  BY <1>1, CliInvHolds, PTL

\* The server carries out the plan from its start, a command only behind one
\* that succeeded, the whole of it if the program says so, and nothing if
\* the fingerprint is wrong.
THEOREM ExitStatusTells == Spec => []ExitTells
<1>1. CliInv => ExitTells
  <2> SUFFICES ASSUME CliInv PROVE ExitTells
    OBVIOUS
  <2>1. Len(Plan) \in Nat /\ Len(Plan) \in Places /\ pos \in Places
    BY PlanIsSeq, TwoCallsList DEF CliInv, TypeOK, Places
  <2>2. ASSUME NEW i \in DOMAIN executed, i > 1 PROVE status[i - 2] = "result"
    <3>1. i \in Nat /\ pos \in 0..MaxCommands /\ i <= pos + 1
      BY <2>1 DEF CliInv, TypeOK, InPlan, Places
    <3>2. i - 2 \in Places /\ i - 2 < pos
      BY <2>2, <3>1, TwoCallsList DEF Places
    <3> QED
      BY <3>2 DEF CliInv, InPlan
  <2>3. ASSUME NEW c \in atServer, c > 0 PROVE status[c - 1] = "result"
    <3>1. c \in Nat /\ pos \in 0..MaxCommands /\ c <= pos
      BY <2>1 DEF CliInv, TypeOK, InPlan, Places
    <3>2. c - 1 \in Places /\ c - 1 < pos
      BY <2>3, <3>1, TwoCallsList DEF Places
    <3> QED
      BY <3>2 DEF CliInv, InPlan
  <2>4. exit = "ok" =>
            Len(executed) = Len(Plan) + 1 /\ status[Len(Plan)] = "result"
    BY <2>1 DEF CliInv, TypeOK, InPlan, Phases
  <2>5. options.fingerprint = "wrong" => executed = <<>> /\ atServer = {}
    BY DEF CliInv, InPlan, Phases
  <2> QED
    BY <2>2, <2>3, <2>4, <2>5 DEF ExitTells, CliInv, InPlan
<1> QED
  BY <1>1, CliInvHolds, PTL

\* The file holds the certificate that fits the URL printed last.
THEOREM CertificateFits == Spec => []CertificateFitsUrl
<1>1. CliInv => CertificateFitsUrl
  BY DEF CliInv
<1> QED
  BY <1>1, CliInvHolds, PTL
=============================================================================
