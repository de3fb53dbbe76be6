-------------------------------- MODULE Cli --------------------------------
(***************************************************************************)
(* The command line (src/utmremote/cli.py): it connects to a server, has   *)
(* commands carried out one after another, or lists the virtual machines,  *)
(* and for each machine that it starts saves the certificate of its SPICE  *)
(* server and prints a URL (UTMRemoteClient.connect and get_spice_cert in  *)
(* src/utmremote/utmremoteclient.py).                                      *)
(*                                                                         *)
(* Remote calls behave as RemoteCalls promises, which Peer keeps: a call   *)
(* on a connection that is already lost gets no outcome.  A call is its    *)
(* place in the plan, and the handshake is call 0.                         *)
(***************************************************************************)
EXTENDS Naturals, Sequences, SequencesExt

CONSTANTS MaxCommands,  \* bound on the commands given
          NoCall        \* "no answer yet"

ASSUME TwoCallsList == MaxCommands \in Nat /\ MaxCommands >= 2
ASSUME NoCallIsNoPlace == NoCall \notin 0..MaxCommands

VARIABLES
    options,   \* the arguments
    cert,      \* the client certificate: "absent", "empty" or "whole"
    at,        \* "parsed", "connecting", "calling", "certifying", "ended"
    exit,      \* "none", "ok", "error" or "interrupted"
    pos,       \* the call that is made
    transport, \* client.transport: "none", "open" or "closed"
    up,        \* RemoteCalls: the connection
    status,    \* RemoteCalls: the outcome of each call
    answer,    \* RemoteCalls: which request it answers
    atServer,  \* calls that were written and not carried out
    executed,  \* calls that the server has carried out
    spice,     \* the connection of get_spice_cert: "none", "open", "closed"
    file,      \* the call whose SPICE certificate is in the file, or 0
    damaged,   \* writing the next one has cut it off
    url,       \* the call whose URL was printed last, or 0
    doubtful   \* calls that saved a certificate without the key they expect

remote == <<up, status, answer>>
server == <<atServer, executed>>
spiceVars == <<spice, file, damaged, url, doubtful>>
vars == <<options, cert, at, exit, pos, transport, remote, server, spiceVars>>

Places == 0..MaxCommands

Peer == INSTANCE RemoteCalls WITH Calls <- Places

Commands == {"pause", "stop", "restart", "start", "resume"}

\* For how many machines each command is given; "fingerprint" is the one
\* expected, "spiceCert" whether a file is named.
Options ==
    [given : [Commands -> Nat], generate : BOOLEAN,
     fingerprint : {"none", "right", "wrong"}, spiceCert : BOOLEAN]

\* The commands, in the order in which they are carried out.
Ordered(given) ==
    LET Each(command) == [i \in 1..given[command] |-> command]
    IN  Each("pause") \o Each("stop") \o Each("restart")
            \o Each("start") \o Each("resume")

\* Without a command the virtual machines are listed, in two calls.
Plan ==
    IF Ordered(options.given) = <<>> THEN <<"list", "informations">>
    ELSE Ordered(options.given)

TypeOK ==
    /\ options \in Options
    /\ Len(Plan) <= MaxCommands
    /\ cert \in {"absent", "empty", "whole"}
    /\ at \in {"parsed", "connecting", "calling", "certifying", "ended"}
    /\ exit \in {"none", "ok", "error", "interrupted"}
    /\ pos \in 0..Len(Plan)
    /\ transport \in {"none", "open", "closed"}
    /\ Peer!TypeOK
    /\ atServer \subseteq Places
    /\ executed \in Seq(Places)
    /\ spice \in {"none", "open", "closed"}
    /\ file \in Places
    /\ damaged \in BOOLEAN
    /\ url \in Places
    /\ doubtful \subseteq Places

Init ==
    /\ options \in [given : {g \in [Commands -> 0..MaxCommands] :
                                Len(Ordered(g)) <= MaxCommands},
                    generate : BOOLEAN, fingerprint : {"none", "right", "wrong"},
                    spiceCert : BOOLEAN]
    /\ cert \in {"absent", "whole"}
    /\ at = "parsed"
    /\ exit = "none"
    /\ pos = 0
    /\ transport = "none"
    /\ Peer!Init
    /\ atServer = {}
    /\ executed = <<>>
    /\ spice = "none"
    /\ file = 0
    /\ damaged = FALSE
    /\ url = 0
    /\ doubtful = {}

-----------------------------------------------------------------------------

\* async_main returns or raises, and the client closes its transport.
Exit(how) ==
    /\ at' = "ended"
    /\ exit' = how
    /\ transport' = IF transport = "open" THEN "closed" ELSE transport
    /\ UNCHANGED <<pos, remote, server>>

\* generate_certificate_file, which leaves a file alone that is there, and
\* UTMRemoteClient(args.cert), which loads it.
Begin ==
    /\ at = "parsed"
    /\ cert' \in IF options.generate /\ cert = "absent" THEN {"whole", "empty"}
                                                       ELSE {cert}
    /\ IF cert' = "whole" /\ (options.generate => cert = "absent")
       THEN /\ at' = "connecting"
            /\ UNCHANGED <<exit, pos, transport, remote, server>>
       ELSE Exit("error")
    /\ UNCHANGED <<options, spiceVars>>

\* A remote operation sends its request; it gets nowhere if the connection
\* is lost.
Calls(place) ==
    /\ pos' = place
    /\ Peer!Issue(place)
    /\ atServer' = IF up THEN atServer \cup {place} ELSE atServer
    /\ at' = "calling"
    /\ UNCHANGED <<exit, executed>>

\* create_connection, and the fingerprint of what is there.
Connect ==
    /\ at = "connecting"
    /\ \/ Exit("error")
       \/ /\ options.fingerprint # "wrong"
          /\ transport' = "open"
          /\ Calls(0)
       \/ /\ options.fingerprint = "wrong"
          /\ transport' = "closed"
          /\ at' = "ended" /\ exit' = "error"
          /\ UNCHANGED <<pos, remote, server>>
    /\ UNCHANGED <<options, cert, spiceVars>>

\* The server carries out what it has received; a connection that is lost
\* does not stop it.
Execute ==
    /\ \E c \in atServer : /\ executed' = Append(executed, c)
                           /\ atServer' = atServer \ {c}
    /\ UNCHANGED <<options, cert, at, exit, pos, transport, remote, spiceVars>>

\* A result or an error, in the order in which they are handled.
Answered ==
    /\ transport = "open"
    /\ \E c \in Places : Contains(executed, c) /\ Peer!Answer(c)
    /\ UNCHANGED <<options, cert, at, exit, pos, transport, server, spiceVars>>

\* The connection is lost, between any two steps of the program, the one in
\* which create_connection returns included.
Lose ==
    /\ at = "connecting" \/ transport = "open"
    /\ Peer!Lose
    /\ UNCHANGED <<options, cert, at, exit, pos, transport, server, spiceVars>>

\* Mutant: the program goes on after an error from the server.
SucceededOrNot(c) == status[c] \in {"result", "error"}

Succeeded(c) == status[c] = "result"

\* Mutant: only a result is noticed.
IsOverWithResult(c) == status[c] = "result"

IsOver(c) == status[c] \notin {"idle", "pending"}

\* Mutant: one call too many.
GoesOnPastTheEnd(place) == place <= Len(Plan) + 1

GoesOnTo(place) == place <= Len(Plan)

\* What comes after the call, or after its certificate.
CallNext ==
    IF GoesOnTo(pos + 1) THEN Calls(pos + 1) /\ UNCHANGED transport
                         ELSE Exit("ok")

\* The call returns or raises.  A handshake that is not authenticated or of
\* another version raises as well.  A machine may have no SPICE server.
Return ==
    /\ at = "calling"
    /\ IsOver(pos)
    /\ \/ /\ Succeeded(pos) => pos = 0
          /\ Exit("error")
          /\ UNCHANGED spiceVars
       \/ /\ Succeeded(pos)
          /\ CallNext
          /\ url' \in IF pos > 0 /\ Plan[pos] = "start" /\ ~options.spiceCert
                      THEN {url, pos} ELSE {url}
          /\ UNCHANGED <<spice, file, damaged, doubtful>>
       \/ /\ Succeeded(pos)
          /\ pos > 0 /\ Plan[pos] = "start" /\ options.spiceCert
          /\ at' = "certifying"
          /\ UNCHANGED <<exit, pos, transport, remote, server, spiceVars>>
    /\ UNCHANGED <<options, cert>>

\* Mutant: the key is not compared.
AcceptedAlways(told, same) == TRUE

\* check_cert_pubkey, if the server has told a key.
Accepted(told, same) == told => same

\* get_spice_cert from a server with or without the key that was told, and
\* the file that is written.  The connection is left open when the key is
\* not the one expected, and the file is cut off when writing fails.
Certify ==
    /\ at = "certifying"
    /\ \/ Exit("error") /\ UNCHANGED spiceVars
       \/ \E told, same \in BOOLEAN :
             \/ /\ ~Accepted(told, same)
                /\ spice' = "open"
                /\ Exit("error")
                /\ UNCHANGED <<file, damaged, url, doubtful>>
             \/ /\ Accepted(told, same)
                /\ spice' = "closed"
                /\ doubtful' = IF told /\ ~same THEN doubtful \cup {pos}
                                               ELSE doubtful
                /\ \/ file' = pos /\ url' = pos /\ CallNext /\ UNCHANGED damaged
                   \/ damaged' \in BOOLEAN /\ Exit("error") /\ UNCHANGED <<file, url>>
    /\ UNCHANGED <<options, cert>>

\* Ctrl-C cancels async_main where it waits.
Interrupt ==
    /\ at \in {"connecting", "calling", "certifying"}
    /\ Exit("interrupted")
    /\ UNCHANGED <<options, cert, spiceVars>>

Next ==
    \/ Begin \/ Connect \/ Return \/ Certify \/ Interrupt
    \/ Execute \/ Answered \/ Lose

Spec == Init /\ [][Next]_vars

\* The program runs, connecting ends, and a server that is connected carries
\* out what it is asked and answers.
FairSpec ==
    /\ Spec
    /\ WF_vars(Begin) /\ WF_vars(Connect) /\ WF_vars(Return) /\ WF_vars(Certify)
    /\ WF_vars(Execute) /\ WF_vars(Answered)

-----------------------------------------------------------------------------
(* Properties.                                                             *)

\* What the exit status tells: after success every command was carried out
\* once, one after the other, each after those of the kinds before it.
\* However the program ends, and however late the server gets to it, the
\* server carries out no command behind one that did not succeed, and
\* nothing at all, the handshake included, if its fingerprint is not the
\* one expected.
ExitTells ==
    /\ \A i \in DOMAIN executed : executed[i] = i - 1
    /\ \A c \in atServer : c = Len(executed)
    /\ \A i \in DOMAIN executed : i > 1 => status[i - 2] = "result"
    /\ \A c \in atServer : c > 0 => status[c - 1] = "result"
    /\ exit = "ok" =>
           Len(executed) = Len(Plan) + 1 /\ status[Len(Plan)] = "result"
    /\ options.fingerprint = "wrong" => executed = <<>> /\ atServer = {}

\* When URLs are printed and certificates saved, the file fits the URL that
\* was printed last, also when a later machine fails, unless a failure to
\* write the next certificate has damaged it; it is the certificate of the
\* key that the server told, and a SPICE connection is only left open when
\* the program ends with an error.
CertificateFitsUrl ==
    /\ options.spiceCert => file = url
    /\ damaged => exit = "error"
    /\ doubtful = {}
    /\ spice = "open" => exit = "error"

\* The program waits for a call that was made on a lost connection.
Hangs == at = "calling" /\ ~up /\ status[pos] = "pending"

\* The program ends, unless the connection is lost between the outcome of
\* one call and the next call, at the latest while it gets a certificate:
\* a loss at any other point is an error.
EndsUnlessItHangs ==
    /\ at # "ended" ~> at = "ended" \/ Hangs
    /\ [][Hangs' => Hangs \/ (~up /\ (IsOver(pos) \/ at = "connecting"))]_vars
=============================================================================
