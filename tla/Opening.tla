------------------------------ MODULE Opening ------------------------------
(***************************************************************************)
(* Opening a server in the GUI: ServerList._open_async with its two        *)
(* dialogs (src/utmremote/gui.py), and UTMRemoteClient.connect             *)
(* (src/utmremote/utmremoteclient.py), for several opens of one server at  *)
(* the same time.                                                          *)
(*                                                                         *)
(* An open runs in the asyncio thread up to a dialog, which the GTK thread *)
(* runs in a main loop of its own and modally: dialogs that are up at the  *)
(* same time form a stack, and only the last one can be answered.  The     *)
(* calls follow RemoteCalls: a handshake that is outstanding when the      *)
(* connection is lost fails, and one made after that never comes back.     *)
(***************************************************************************)
EXTENDS Naturals, Sequences, SequencesExt

CONSTANTS Opens,      \* opens that may be under way at a time
          Prints,     \* fingerprints the connection may have
          Passwords,  \* passwords the server may have
          None,       \* no fingerprint, no password
          MaxClicks   \* bound on the opens started

ASSUME NoneIsNothing == None \notin Prints \cup Passwords
ASSUME MaxClicksIsNat == MaxClicks \in Nat

VARIABLES
    server,      \* the fingerprint and the password of the server
    saved,       \* the entry in saved_servers: fingerprint and password
    remembered,  \* the info that its row opens
    accepted,    \* every fingerprint the user has ever trusted
    clicks,      \* opens started
    at,          \* how far each open has come
    transport,   \* the transport of each client
    seen,        \* the fingerprint of each connection
    known,       \* info['fingerprint'] of each open
    password,    \* "password" of _open_async: the one to be remembered
    offered,     \* the password of the latest handshake
    dialogs      \* the opens whose dialogs are up, the last one on top

vars == <<server, saved, remembered, accepted, clicks, at, transport, seen,
          known, password, offered, dialogs>>

\* Waiting for the connection, the fingerprint dialog, the handshake, the
\* password dialog, the second handshake, and the GTK thread.
Underway == {"dialing", "checking", "greeting", "asking", "retrying", "ready"}

Entry == [print : Prints \cup {None}, password : Passwords \cup {None}]

\* The server is not among the saved ones.
NoEntry == [print |-> None, password |-> None]

TypeOK ==
    /\ server \in Entry
    /\ saved \in Entry
    /\ remembered \in Entry
    /\ accepted \subseteq Prints
    /\ clicks \in 0..MaxClicks
    /\ at \in [Opens -> Underway \cup {"idle", "opened", "failed",
                                      "stuck", "stranded"}]
    /\ transport \in [Opens -> {"none", "open", "lost", "closed"}]
    /\ seen \in [Opens -> Prints \cup {None}]
    /\ known \in [Opens -> Prints \cup {None}]
    /\ password \in [Opens -> Passwords \cup {None}]
    /\ offered \in [Opens -> Passwords \cup {None}]
    /\ dialogs \in Seq(Opens)

Init ==
    /\ server \in [print : Prints, password : Passwords \cup {None}]
    /\ saved = NoEntry
    /\ remembered = NoEntry
    /\ accepted = {}
    /\ clicks = 0
    /\ at = [o \in Opens |-> "idle"]
    /\ transport = [o \in Opens |-> "none"]
    /\ seen = [o \in Opens |-> None]
    /\ known = [o \in Opens |-> None]
    /\ password = [o \in Opens |-> None]
    /\ offered = [o \in Opens |-> None]
    /\ dialogs = <<>>

-----------------------------------------------------------------------------
(* Steps of an open.                                                       *)

\* Mutant: a connection that fails is left open.
LeftOpen(o) == transport

\* _cleanup: the transport is closed and forgotten.
Closed(o) == [transport EXCEPT ![o] = IF @ = "open" THEN "closed" ELSE @]

\* connect raises, and run_async_task shows the error.
Fail(o) ==
    /\ at' = [at EXCEPT ![o] = "failed"]
    /\ transport' = Closed(o)

\* The handshake is written.  A transport that is lost drops it, and nothing
\* will complete or fail its future any more.
Sent(o, next) == [at EXCEPT ![o] = IF transport[o] = "open" THEN next
                                                            ELSE "stuck"]

\* Another open can be counted as o: nothing is left of the one before.
Unused(o) ==
    \/ at[o] \in {"idle", "failed"}
    \/ at[o] = "stranded" /\ transport[o] # "open"

\* _action_open: the open takes its own copy of what is remembered.
Click(o) ==
    /\ Unused(o)
    /\ clicks < MaxClicks
    /\ clicks' = clicks + 1
    /\ at' = [at EXCEPT ![o] = "dialing"]
    /\ transport' = [transport EXCEPT ![o] = "none"]
    /\ seen' = [seen EXCEPT ![o] = None]
    /\ known' = [known EXCEPT ![o] = remembered.print]
    /\ password' = [password EXCEPT ![o] = remembered.password]
    /\ offered' = [offered EXCEPT ![o] = None]
    /\ UNCHANGED <<server, saved, remembered, accepted, dialogs>>

DialFails(o) ==
    /\ at[o] = "dialing"
    /\ Fail(o)
    /\ UNCHANGED <<server, saved, remembered, accepted, clicks, seen, known,
                   password, offered, dialogs>>

\* Mutant: any remembered fingerprint will do.
TrustedUnseen(o, print) == known[o] # None

\* fingerprint_check returns at once.
TrustedAlready(o, print) == known[o] = print

\* The connection is there.  Its fingerprint is the remembered one, and the
\* handshake is sent with the remembered password; or the user is asked.
Connected(o) ==
    /\ at[o] = "dialing"
    /\ transport' = [transport EXCEPT ![o] = "open"]
    /\ seen' = [seen EXCEPT ![o] = server.print]
    /\ \/ /\ TrustedAlready(o, server.print)
          /\ at' = [at EXCEPT ![o] = "greeting"]
          /\ offered' = [offered EXCEPT ![o] = password[o]]
          /\ UNCHANGED dialogs
       \/ /\ ~TrustedAlready(o, server.print)
          /\ at' = [at EXCEPT ![o] = "checking"]
          /\ dialogs' = Append(dialogs, o)
          /\ UNCHANGED offered
    /\ UNCHANGED <<server, saved, remembered, accepted, clicks, known,
                   password>>

\* Only the dialog on top can be answered; run() of the others returns later.
Answers(o) ==
    /\ dialogs # <<>>
    /\ Last(dialogs) = o
    /\ dialogs' = Front(dialogs)

\* The handshake is sent, even if the connection was lost during the dialog.
Trust(o) ==
    /\ at[o] = "checking"
    /\ Answers(o)
    /\ accepted' = accepted \cup {seen[o]}
    /\ known' = [known EXCEPT ![o] = seen[o]]
    /\ offered' = [offered EXCEPT ![o] = password[o]]
    /\ at' = Sent(o, "greeting")
    /\ UNCHANGED <<server, saved, remembered, clicks, transport, seen,
                   password>>

DoNotTrust(o) ==
    /\ at[o] = "checking"
    /\ Answers(o)
    /\ Fail(o)
    /\ UNCHANGED <<server, saved, remembered, accepted, clicks, seen, known,
                   password, offered>>

Authenticates(o) == server.password \in {None, offered[o]}

\* The reply says that the client is authenticated.
Welcome(o) ==
    /\ at[o] \in {"greeting", "retrying"}
    /\ Authenticates(o)
    /\ at' = [at EXCEPT ![o] = "ready"]
    /\ UNCHANGED <<server, saved, remembered, accepted, clicks, transport,
                   seen, known, password, offered, dialogs>>

\* The first handshake was not enough: password_query.
AskPassword(o) ==
    /\ at[o] = "greeting"
    /\ ~Authenticates(o)
    /\ at' = [at EXCEPT ![o] = "asking"]
    /\ dialogs' = Append(dialogs, o)
    /\ UNCHANGED <<server, saved, remembered, accepted, clicks, transport,
                   seen, known, password, offered>>

\* The second handshake was not enough, the reply is an error or has another
\* version.
Refuse(o) ==
    /\ at[o] \in {"greeting", "retrying"}
    /\ Fail(o)
    /\ UNCHANGED <<server, saved, remembered, accepted, clicks, seen, known,
                   password, offered, dialogs>>

\* Mutant: the tick is remembered in place of the password.
TickRemembered(o, pw, save) == save

\* Mutant: a password that is not to be saved leaves the old one.
KeptUnlessSaved(o, pw, save) == IF save THEN pw ELSE password[o]

\* password = pw if save else None
ToRemember(o, pw, save) == IF save THEN pw ELSE None

EnterPassword(o) ==
    /\ at[o] = "asking"
    /\ Answers(o)
    /\ \E pw \in Passwords, save \in BOOLEAN :
          /\ password' = [password EXCEPT ![o] = ToRemember(o, pw, save)]
          /\ offered' = [offered EXCEPT ![o] = pw]
    /\ at' = Sent(o, "retrying")
    /\ UNCHANGED <<server, saved, remembered, accepted, clicks, transport,
                   seen, known>>

\* The dialog is closed, or the password entered is empty.
NoPassword(o) ==
    /\ at[o] = "asking"
    /\ Answers(o)
    /\ password' = [password EXCEPT ![o] = None]
    /\ Fail(o)
    /\ UNCHANGED <<server, saved, remembered, accepted, clicks, seen, known,
                   offered>>

\* What the open has learnt about its server.
Learnt(o) == [print |-> known[o], password |-> password[o]]

\* _open_complete in the GTK thread, maybe inside the loop of a dialog: the
\* entry is saved as this open knows it, unless it is there already, and the
\* window opens.
Complete(o) ==
    /\ at[o] = "ready"
    /\ at' = [at EXCEPT ![o] = "opened"]
    /\ saved' = Learnt(o)
    /\ remembered' = IF saved = Learnt(o) THEN remembered ELSE Learnt(o)
    /\ UNCHANGED <<server, accepted, clicks, transport, seen, known, password,
                   offered, dialogs>>

\* The save raises, and _open_complete with it: there is no window for the
\* client, and nothing will close its transport.  A new row is there already;
\* an old one is not told.
CompleteFails(o) ==
    /\ at[o] = "ready"
    /\ saved # Learnt(o)
    /\ at' = [at EXCEPT ![o] = "stranded"]
    /\ saved' = Learnt(o)
    /\ remembered' = IF saved = NoEntry THEN Learnt(o) ELSE remembered
    /\ UNCHANGED <<server, accepted, clicks, transport, seen, known, password,
                   offered, dialogs>>

-----------------------------------------------------------------------------
(* The surroundings.                                                       *)

\* Mutant: an outstanding handshake is not failed.
AfterLossNothing(o) == IF at[o] \in {"greeting", "retrying"} THEN "stuck"
                                                             ELSE at[o]

AfterLoss(o) == IF at[o] \in {"greeting", "retrying"} THEN "failed" ELSE at[o]

\* A handshake that is outstanding fails and so does the open.  A dialog
\* stays up, and a window stays open.
Lose(o) ==
    /\ transport[o] = "open"
    /\ transport' = [transport EXCEPT ![o] = "lost"]
    /\ at' = [at EXCEPT ![o] = AfterLoss(o)]
    /\ UNCHANGED <<server, saved, remembered, accepted, clicks, seen, known,
                   password, offered, dialogs>>

\* The window is closed, and the client with it.
CloseWindow(o) ==
    /\ at[o] = "opened"
    /\ at' = [at EXCEPT ![o] = "idle"]
    /\ transport' = Closed(o)
    /\ UNCHANGED <<server, saved, remembered, accepted, clicks, seen, known,
                   password, offered, dialogs>>

Forget ==
    /\ saved' = NoEntry
    /\ remembered' = NoEntry
    /\ UNCHANGED <<server, accepted, clicks, at, transport, seen, known,
                   password, offered, dialogs>>

\* The server gets another certificate or another password.
ServerChanges ==
    /\ server' \in [print : Prints, password : Passwords \cup {None}]
    /\ UNCHANGED <<saved, remembered, accepted, clicks, at, transport, seen,
                   known, password, offered, dialogs>>

Answer(o) == Trust(o) \/ DoNotTrust(o) \/ EnterPassword(o) \/ NoPassword(o)

Dialled(o) == DialFails(o) \/ Connected(o)

Replied(o) == Welcome(o) \/ AskPassword(o) \/ Refuse(o)

Completes(o) == Complete(o) \/ CompleteFails(o)

Next ==
    \/ \E o \in Opens : \/ Click(o) \/ Dialled(o) \/ Answer(o) \/ Replied(o)
                        \/ Completes(o) \/ Lose(o) \/ CloseWindow(o)
    \/ Forget
    \/ ServerChanges

Spec == Init /\ [][Next]_vars

\* Connecting comes to an end, the server replies on a connection that is
\* up, idle callbacks run, and the user deals with the dialog on top.
\* Nothing makes the user click, and nothing else happens by necessity.
Fairness ==
    /\ \A o \in Opens : /\ WF_vars(Dialled(o))
                        /\ WF_vars(Replied(o))
                        /\ WF_vars(Completes(o))
    /\ WF_vars(\E o \in Opens : Answer(o))

FairSpec == Spec /\ Fairness

-----------------------------------------------------------------------------
(* Properties.                                                             *)

\* No handshake, hence no password, goes to a server whose fingerprint the
\* user has not trusted: not with an entry that was remembered, forgotten or
\* overwritten by another open meanwhile, and not when the certificate
\* changes between two opens.  What is remembered was trusted, too.
OnlyTrustedServers ==
    /\ \A o \in Opens :
           at[o] \in {"greeting", "asking", "retrying", "stuck", "ready",
                     "opened", "stranded"}
               => seen[o] \in accepted /\ known[o] = seen[o]
    /\ {saved.print, remembered.print} \subseteq accepted \cup {None}

\* The password an open saves is the one its server let it in with; one the
\* user did not want saved replaces none.
SavesWhatWorked ==
    \A o \in Opens : at[o] \in {"ready", "opened", "stranded"}
                         => password[o] \in {None, offered[o]}

\* A dialog is up exactly for the opens that wait for one, each once, and a
\* transport that is up belongs to an open under way or to a window: the
\* failure of an open, at any point until it is ready, leaves neither behind.
\* The exception is a connected client whose entry cannot be saved: its
\* transport stays up without a window.
NothingLeftOver ==
    /\ \A o \in Opens :
           transport[o] = "open" => at[o] \in Underway \cup {"opened", "stranded"}
    /\ \A o \in Opens : o \in ToSet(dialogs) <=> at[o] \in {"checking", "asking"}
    /\ \A i, j \in DOMAIN dialogs : dialogs[i] = dialogs[j] => i = j

\* However opens overlap and their dialogs pile up, an open ends.  Losing the
\* connection makes it hang only if a dialog of its own was up: with a
\* handshake outstanding the open fails and says so.
OpensEnd ==
    /\ \A o \in Opens : at[o] \in Underway ~> at[o] \notin Underway
    /\ [][\A o \in Opens : at[o] # "stuck" /\ at'[o] = "stuck"
                                => at[o] \in {"checking", "asking"}]_vars
=============================================================================
