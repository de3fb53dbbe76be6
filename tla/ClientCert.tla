----------------------------- MODULE ClientCert -----------------------------
(***************************************************************************)
(* The client's certificate file: several GUIs of one user start, make it  *)
(* if it is not there, open servers with it and end                        *)
(* (src/utmremote/gencert.py, ServerListWindow in src/utmremote/gui.py,    *)
(* UTMRemoteClient.__init__ in src/utmremote/utmremoteclient.py).          *)
(*                                                                         *)
(* The file is opened before there is anything to write into it, and the   *)
(* generation of the key takes long or fails; it runs in an executor whose *)
(* threads the interpreter waits for when a GUI is closed.                 *)
(***************************************************************************)
EXTENDS Naturals

CONSTANTS Guis,      \* processes
          MaxStarts  \* bound on the GUIs started

ASSUME MaxStartsIsNat == MaxStarts \in Nat

VARIABLES
    file,    \* client.crt: "absent", "empty" or "whole"
    owner,   \* the GUI run that made the file that is there, 0 for none
    gui,     \* each process: "off", "up" or "closing"
    making,  \* its generate_certificate_file
    run,     \* which run of the program it is
    client,  \* the latest UTMRemoteClient(cert_path): "none", "made", "failed"
    starts,  \* GUIs started
    broken   \* history: the making of a file has failed or was killed

vars == <<file, owner, gui, making, run, client, starts, broken>>

\* "wanted" is submitted; "opened" has the file open and makes the key.
Makings == {"unneeded", "wanted", "opened", "made", "failed"}

TypeOK ==
    /\ file \in {"absent", "empty", "whole"}
    /\ owner \in 0..MaxStarts
    /\ gui \in [Guis -> {"off", "up", "closing"}]
    /\ making \in [Guis -> Makings]
    /\ run \in [Guis -> 0..MaxStarts]
    /\ client \in [Guis -> {"none", "made", "failed"}]
    /\ starts \in 0..MaxStarts
    /\ broken \in BOOLEAN

Init ==
    /\ file = "absent"
    /\ owner = 0
    /\ gui = [g \in Guis |-> "off"]
    /\ making = [g \in Guis |-> "unneeded"]
    /\ run = [g \in Guis |-> 0]
    /\ client = [g \in Guis |-> "none"]
    /\ starts = 0
    /\ broken = FALSE

-----------------------------------------------------------------------------

\* The window asks for a certificate if path.exists() is false.
Start(g) ==
    /\ gui[g] = "off"
    /\ starts < MaxStarts
    /\ starts' = starts + 1
    /\ gui' = [gui EXCEPT ![g] = "up"]
    /\ run' = [run EXCEPT ![g] = starts']
    /\ making' = [making EXCEPT ![g] = IF file = "absent" THEN "wanted"
                                                        ELSE "unneeded"]
    /\ client' = [client EXCEPT ![g] = "none"]
    /\ UNCHANGED <<file, owner, broken>>

\* Mutant: mode "wb".
MayCreateAlways == TRUE

\* Mode "xb": a file that is there since the test is not touched.
MayCreate == file = "absent"

OpenFile(g) ==
    /\ making[g] = "wanted"
    /\ \/ /\ MayCreate
          /\ file' = "empty"
          /\ owner' = run[g]
          /\ making' = [making EXCEPT ![g] = "opened"]
       \/ /\ ~MayCreate
          /\ making' = [making EXCEPT ![g] = "failed"]
          /\ UNCHANGED <<file, owner>>
    /\ UNCHANGED <<gui, run, client, starts, broken>>

\* Mutant: the key is written before the certificate is made.
WriteInParts(g) ==
    /\ making[g] = "opened"
    /\ file' = "key"
    /\ making' = [making EXCEPT ![g] = "failed"]
    /\ UNCHANGED <<owner, gui, run, client, starts, broken>>

\* The key is made and written, and the file closed.
Write(g) ==
    /\ making[g] = "opened"
    /\ file' = "whole"
    /\ making' = [making EXCEPT ![g] = "made"]
    /\ UNCHANGED <<owner, gui, run, client, starts, broken>>

\* generate_certificate raises, for instance without the cryptography
\* package; the status bar says so and the empty file stays.
NoKey(g) ==
    /\ making[g] = "opened"
    /\ making' = [making EXCEPT ![g] = "failed"]
    /\ broken' = TRUE
    /\ UNCHANGED <<file, owner, gui, run, client, starts>>

\* _open_async makes a client, which loads the certificate.
MakeClient(g) ==
    /\ gui[g] = "up"
    /\ client' = [client EXCEPT ![g] = IF file = "whole" THEN "made"
                                                         ELSE "failed"]
    /\ UNCHANGED <<file, owner, gui, making, run, starts, broken>>

\* The window is closed.  A generation that has not begun may be dropped.
Quit(g) ==
    /\ gui[g] = "up"
    /\ gui' = [gui EXCEPT ![g] = "closing"]
    /\ \/ UNCHANGED making
       \/ making[g] = "wanted" /\ making' = [making EXCEPT ![g] = "unneeded"]
    /\ UNCHANGED <<file, owner, run, client, starts, broken>>

Off(g) ==
    /\ gui' = [gui EXCEPT ![g] = "off"]
    /\ making' = [making EXCEPT ![g] = "unneeded"]
    /\ client' = [client EXCEPT ![g] = "none"]
    /\ UNCHANGED <<file, owner, run, starts>>

\* Mutant: the interpreter does not wait for the executor.
IsThroughAtOnce(g) == TRUE

IsThrough(g) == making[g] \notin {"wanted", "opened"}

Exit(g) ==
    /\ gui[g] = "closing"
    /\ IsThrough(g)
    /\ Off(g)
    /\ UNCHANGED broken

\* The process is killed.
Die(g) ==
    /\ gui[g] # "off"
    /\ Off(g)
    /\ broken' = (broken \/ making[g] = "opened")

Next ==
    \E g \in Guis : \/ Start(g) \/ OpenFile(g) \/ Write(g) \/ NoKey(g)
                    \/ MakeClient(g) \/ Quit(g) \/ Exit(g) \/ Die(g)

Spec == Init /\ [][Next]_vars

\* The threads of the executors run.
FairSpec ==
    Spec /\ \A g \in Guis : WF_vars(OpenFile(g)) /\ WF_vars(Write(g))

-----------------------------------------------------------------------------
(* Properties.                                                             *)

\* A certificate is never replaced or damaged: two GUIs that both found no
\* file do not end up with one overwriting the certificate of the other,
\* whose fingerprint the server may have been told to trust.
CertificateIsKept ==
    [][file # "absent" => owner' = owner /\ (file = "whole" => file' = "whole")]_vars

\* A file that is being made has one maker, the one that created it, and is
\* not taken for a certificate meanwhile: nobody has a client without a whole
\* certificate.
OneMaker ==
    /\ \A g \in Guis : making[g] = "opened" => owner = run[g] /\ file = "empty"
    /\ \A g \in Guis : client[g] = "made" => file = "whole"

\* Unless its making fails or is killed, the file that was created becomes
\* a whole certificate, also when the window is closed in the meantime and
\* other GUIs come and go or are killed.
FileIsCompleted == file = "empty" ~> file = "whole" \/ broken

\* The GUI makes a certificate the first time it is started: a GUI that sees
\* no need to make one has one, or another GUI is making it.
StartedOnceHasCertificate ==
    \A g \in Guis : gui[g] = "up" /\ making[g] = "unneeded"
        => file = "whole" \/ \E h \in Guis : making[h] = "opened"
=============================================================================
