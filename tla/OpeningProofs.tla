--------------------------- MODULE OpeningProofs ---------------------------
(***************************************************************************)
(* Safety of Opening for any number of opens, fingerprints and passwords.  *)
(* That a handshake goes to a trusted server needs that what an open knows *)
(* when it starts was trusted at some time, although the entry it has it   *)
(* from may be overwritten or forgotten since.                             *)
(***************************************************************************)
EXTENDS Opening, SequenceTheorems, TLAPS

\* The server has a fingerprint, and an open knows trusted ones only.
KnownWasTrusted ==
    /\ server.print \in Prints
    /\ \A o \in Opens : known[o] \in accepted \cup {None}
    /\ \A o \in Opens : at[o] = "checking" => seen[o] \in Prints

\* SavesWhatWorked, from the handshake on that offers the password.
OfferIsRemembered ==
    \A o \in Opens :
        at[o] \in {"greeting", "retrying", "ready", "opened", "stranded"}
            => password[o] \in {None, offered[o]}

\* The parts of NothingLeftOver.
NoTransportLeft ==
    \A o \in Opens :
        transport[o] = "open" => at[o] \in Underway \cup {"opened", "stranded"}

DialogsFit ==
    \A o \in Opens : o \in ToSet(dialogs) <=> at[o] \in {"checking", "asking"}

OneEach(queue) == \A i, j \in DOMAIN queue : queue[i] = queue[j] => i = j

OpeningInv ==
    /\ TypeOK /\ KnownWasTrusted /\ OnlyTrustedServers /\ OfferIsRemembered
    /\ NoTransportLeft /\ DialogsFit /\ OneEach(dialogs)

\* Another dialog opens.
LEMMA DialogOpens ==
    ASSUME NEW q \in Seq(Opens), NEW o \in Opens, o \notin ToSet(q), OneEach(q)
    PROVE  /\ Append(q, o) \in Seq(Opens)
           /\ ToSet(Append(q, o)) = ToSet(q) \cup {o}
           /\ OneEach(Append(q, o))
<1>1. /\ Append(q, o) \in Seq(Opens)
      /\ Len(q) \in Nat /\ DOMAIN q = 1..Len(q)
      /\ DOMAIN Append(q, o) = 1..(Len(q) + 1)
      /\ \A i \in 1..Len(q) : Append(q, o)[i] = q[i]
      /\ Append(q, o)[Len(q) + 1] = o
  BY AppendProperties
<1>2. ToSet(Append(q, o)) = ToSet(q) \cup {o}
  BY DEF ToSet
<1>3. \A i \in 1..Len(q) : q[i] # o
  BY DEF ToSet
<1>4. OneEach(Append(q, o))
  BY <1>3 DEF OneEach
<1> QED
  BY <1>2, <1>4

\* The dialog on top is answered.
LEMMA DialogCloses ==
    ASSUME NEW q \in Seq(Opens), q # <<>>, OneEach(q)
    PROVE  /\ Front(q) \in Seq(Opens)
           /\ ToSet(Front(q)) = ToSet(q) \ {Last(q)}
           /\ OneEach(Front(q))
<1>1. /\ Len(q) \in Nat \ {0} /\ DOMAIN q = 1..Len(q)
      /\ Front(q) \in Seq(Opens)
      /\ DOMAIN Front(q) = 1..(Len(q) - 1)
      /\ \A i \in 1..(Len(q) - 1) : Front(q)[i] = q[i]
  <2>1. Len(q) \in Nat \ {0} /\ DOMAIN q = 1..Len(q)
    BY LenProperties
  <2>2. \A i \in 1..(Len(q) - 1) : q[i] \in Opens
    BY <2>1
  <2> QED
    BY DEF Front
<1>2. ToSet(Front(q)) \subseteq ToSet(q) \ {Last(q)}
  BY <1>1 DEF ToSet, Last, OneEach
<1>3. ToSet(q) \ {Last(q)} \subseteq ToSet(Front(q))
  <2> SUFFICES ASSUME NEW i \in 1..Len(q), q[i] # q[Len(q)]
               PROVE  q[i] \in ToSet(Front(q))
    BY DEF ToSet, Last
  <2>1. i \in 1..(Len(q) - 1) /\ Front(q)[i] = q[i]
    BY <1>1
  <2> QED
    BY <1>1 DEF ToSet
<1>4. OneEach(Front(q))
  BY <1>1 DEF OneEach
<1> QED
  BY <1>1, <1>2, <1>3, <1>4

LEMMA InitOpening == Init => OpeningInv
<1> SUFFICES ASSUME Init PROVE OpeningInv
  OBVIOUS
<1>1. TypeOK
  BY MaxClicksIsNat DEF Init, TypeOK, Entry, NoEntry
<1>2. KnownWasTrusted /\ OnlyTrustedServers /\ OfferIsRemembered
  BY DEF Init, NoEntry, KnownWasTrusted, OnlyTrustedServers,
         OfferIsRemembered
<1>3. NoTransportLeft /\ DialogsFit /\ OneEach(dialogs)
  BY DEF Init, NoTransportLeft, DialogsFit, OneEach, ToSet
<1> QED
  BY <1>1, <1>2, <1>3 DEF OpeningInv

\* A new open knows what is remembered.
LEMMA ClickKeeps ==
    ASSUME OpeningInv, NEW o \in Opens, Click(o) PROVE OpeningInv'
<1>1. dialogs' = dialogs
  BY DEF Click
<1>2. TypeOK'
  BY MaxClicksIsNat DEF OpeningInv, TypeOK, Entry, Underway, Click
<1>3. KnownWasTrusted'
  BY DEF OpeningInv, KnownWasTrusted, OnlyTrustedServers, Click, Unused
<1>4. OnlyTrustedServers'
  <2>1. /\ \A u \in Opens : at'[u] = "dialing" \/ at'[u] = at[u]
        /\ \A u \in Opens : u # o => seen'[u] = seen[u] /\ known'[u] = known[u]
        /\ at'[o] = "dialing"
    BY DEF OpeningInv, TypeOK, Click
  <2> QED
    BY <2>1 DEF OpeningInv, OnlyTrustedServers, Click
<1>5. OfferIsRemembered'
  <2>1. /\ at'[o] = "dialing"
        /\ \A u \in Opens \ {o} : /\ at'[u] = at[u]
                                /\ password'[u] = password[u]
                                /\ offered'[u] = offered[u]
    BY DEF OpeningInv, TypeOK, Click
  <2> QED
    BY <2>1 DEF OfferIsRemembered, OpeningInv
<1>6. NoTransportLeft'
  BY DEF OpeningInv, TypeOK, NoTransportLeft, Click
<1>7. DialogsFit' /\ OneEach(dialogs)'
  BY DEF OpeningInv, DialogsFit, Click, Unused
<1> QED
  BY <1>2, <1>3, <1>4, <1>5, <1>6, <1>7 DEF OpeningInv

\* Nothing is there to be closed.
LEMMA DialFailsKeeps ==
    ASSUME OpeningInv, NEW o \in Opens, DialFails(o) PROVE OpeningInv'
<1>1. dialogs' = dialogs
  BY DEF DialFails
<1>2. TypeOK'
  BY DEF OpeningInv, TypeOK, DialFails, Fail, Closed
<1>3. KnownWasTrusted'
  BY DEF OpeningInv, KnownWasTrusted, DialFails, Fail
<1>4. OnlyTrustedServers'
  BY DEF OpeningInv, OnlyTrustedServers, DialFails, Fail
<1>5. OfferIsRemembered'
  BY DEF OpeningInv, OfferIsRemembered, DialFails, Fail
<1>6. NoTransportLeft'
  BY DEF OpeningInv, TypeOK, NoTransportLeft, DialFails, Fail, Closed
<1>7. DialogsFit' /\ OneEach(dialogs)'
  BY DEF OpeningInv, DialogsFit, DialFails, Fail
<1> QED
  BY <1>2, <1>3, <1>4, <1>5, <1>6, <1>7 DEF OpeningInv

\* The handshake is sent at once, or the dialog opens.
LEMMA ConnectedKeeps ==
    ASSUME OpeningInv, NEW o \in Opens, Connected(o) PROVE OpeningInv'
<1>1. dialogs' = Append(dialogs, o) =>
          /\ dialogs' \in Seq(Opens)
          /\ ToSet(dialogs)' = ToSet(dialogs) \cup {o}
          /\ OneEach(dialogs)'
  <2>1. dialogs \in Seq(Opens) /\ o \notin ToSet(dialogs) /\ OneEach(dialogs)
    BY DEF OpeningInv, TypeOK, DialogsFit, Connected
  <2> QED
    BY <2>1, DialogOpens
<1>2. TypeOK'
  BY <1>1 DEF OpeningInv, TypeOK, KnownWasTrusted, Underway, Connected
<1>3. KnownWasTrusted'
  BY DEF OpeningInv, TypeOK, KnownWasTrusted, Connected
<1>4. OnlyTrustedServers'
  BY NoneIsNothing
     DEF OpeningInv, TypeOK, KnownWasTrusted, OnlyTrustedServers, Connected,
         TrustedAlready
<1>5. OfferIsRemembered'
  BY DEF OpeningInv, TypeOK, OfferIsRemembered, Connected
<1>6. NoTransportLeft'
  BY DEF OpeningInv, TypeOK, NoTransportLeft, Underway, Connected
<1>7. DialogsFit' /\ OneEach(dialogs)'
  BY <1>1 DEF OpeningInv, TypeOK, DialogsFit, Connected
<1> QED
  BY <1>2, <1>3, <1>4, <1>5, <1>6, <1>7 DEF OpeningInv

\* What the user trusts in the dialog is the fingerprint of the connection.
LEMMA TrustKeeps ==
    ASSUME OpeningInv, NEW o \in Opens, Trust(o) PROVE OpeningInv'
<1>1. /\ dialogs' \in Seq(Opens)
      /\ ToSet(dialogs)' = ToSet(dialogs) \ {o}
      /\ OneEach(dialogs)'
  <2>1. dialogs \in Seq(Opens) /\ OneEach(dialogs)
    BY DEF OpeningInv, TypeOK
  <2> QED
    BY <2>1, DialogCloses DEF Trust, Answers
<1>2. TypeOK'
  BY <1>1 DEF OpeningInv, TypeOK, KnownWasTrusted, Underway, Trust, Sent
<1>3. KnownWasTrusted'
  BY DEF OpeningInv, KnownWasTrusted, Trust, Sent
<1>4. OnlyTrustedServers'
  BY DEF OpeningInv, TypeOK, OnlyTrustedServers, Trust, Sent
<1>5. OfferIsRemembered'
  BY DEF OpeningInv, TypeOK, OfferIsRemembered, Trust, Sent
<1>6. NoTransportLeft'
  BY DEF OpeningInv, NoTransportLeft, Underway, Trust, Sent
<1>7. DialogsFit' /\ OneEach(dialogs)'
  BY <1>1 DEF OpeningInv, TypeOK, DialogsFit, Trust, Sent
<1> QED
  BY <1>2, <1>3, <1>4, <1>5, <1>6, <1>7 DEF OpeningInv

\* The dialog is turned down.
LEMMA DoNotTrustKeeps ==
    ASSUME OpeningInv, NEW o \in Opens, DoNotTrust(o) PROVE OpeningInv'
<1>1. /\ dialogs' \in Seq(Opens)
      /\ ToSet(dialogs)' = ToSet(dialogs) \ {o}
      /\ OneEach(dialogs)'
  <2>1. dialogs \in Seq(Opens) /\ OneEach(dialogs)
    BY DEF OpeningInv, TypeOK
  <2> QED
    BY <2>1, DialogCloses DEF DoNotTrust, Answers
<1>2. TypeOK'
  BY <1>1 DEF OpeningInv, TypeOK, DoNotTrust, Fail, Closed
<1>3. KnownWasTrusted'
  BY DEF OpeningInv, KnownWasTrusted, DoNotTrust, Fail
<1>4. OnlyTrustedServers'
  BY DEF OpeningInv, OnlyTrustedServers, DoNotTrust, Fail
<1>5. OfferIsRemembered'
  BY DEF OpeningInv, OfferIsRemembered, DoNotTrust, Fail
<1>6. NoTransportLeft'
  BY DEF OpeningInv, TypeOK, NoTransportLeft, DoNotTrust, Fail, Closed
<1>7. DialogsFit' /\ OneEach(dialogs)'
  BY <1>1 DEF OpeningInv, TypeOK, DialogsFit, DoNotTrust, Fail
<1> QED
  BY <1>2, <1>3, <1>4, <1>5, <1>6, <1>7 DEF OpeningInv

\* The password that was offered is the right one.
LEMMA WelcomeKeeps ==
    ASSUME OpeningInv, NEW o \in Opens, Welcome(o) PROVE OpeningInv'
<1>1. dialogs' = dialogs
  BY DEF Welcome
<1>2. TypeOK'
  BY DEF OpeningInv, TypeOK, Underway, Welcome
<1>3. KnownWasTrusted'
  BY DEF OpeningInv, KnownWasTrusted, Welcome
<1>4. OnlyTrustedServers'
  BY DEF OpeningInv, OnlyTrustedServers, Welcome
<1>5. OfferIsRemembered'
  BY DEF OpeningInv, OfferIsRemembered, Welcome
<1>6. NoTransportLeft'
  BY DEF OpeningInv, NoTransportLeft, Underway, Welcome
<1>7. DialogsFit' /\ OneEach(dialogs)'
  BY DEF OpeningInv, DialogsFit, Welcome
<1> QED
  BY <1>2, <1>3, <1>4, <1>5, <1>6, <1>7 DEF OpeningInv

\* The second dialog opens when the first one is gone.
LEMMA AskPasswordKeeps ==
    ASSUME OpeningInv, NEW o \in Opens, AskPassword(o) PROVE OpeningInv'
<1>1. dialogs' = Append(dialogs, o) =>
          /\ dialogs' \in Seq(Opens)
          /\ ToSet(dialogs)' = ToSet(dialogs) \cup {o}
          /\ OneEach(dialogs)'
  <2>1. dialogs \in Seq(Opens) /\ o \notin ToSet(dialogs) /\ OneEach(dialogs)
    BY DEF OpeningInv, TypeOK, DialogsFit, AskPassword
  <2> QED
    BY <2>1, DialogOpens
<1>2. TypeOK'
  BY DEF OpeningInv, TypeOK, Underway, AskPassword
<1>3. KnownWasTrusted'
  BY DEF OpeningInv, KnownWasTrusted, AskPassword
<1>4. OnlyTrustedServers'
  BY DEF OpeningInv, OnlyTrustedServers, AskPassword
<1>5. OfferIsRemembered'
  BY DEF OpeningInv, OfferIsRemembered, AskPassword
<1>6. NoTransportLeft'
  BY DEF OpeningInv, NoTransportLeft, Underway, AskPassword
<1>7. DialogsFit' /\ OneEach(dialogs)'
  BY <1>1 DEF OpeningInv, TypeOK, DialogsFit, AskPassword
<1> QED
  BY <1>2, <1>3, <1>4, <1>5, <1>6, <1>7 DEF OpeningInv

\* The server does not let the client in.
LEMMA RefuseKeeps ==
    ASSUME OpeningInv, NEW o \in Opens, Refuse(o) PROVE OpeningInv'
<1>1. dialogs' = dialogs
  BY DEF Refuse
<1>2. TypeOK'
  BY DEF OpeningInv, TypeOK, Refuse, Fail, Closed
<1>3. KnownWasTrusted'
  BY DEF OpeningInv, KnownWasTrusted, Refuse, Fail
<1>4. OnlyTrustedServers'
  BY DEF OpeningInv, OnlyTrustedServers, Refuse, Fail
<1>5. OfferIsRemembered'
  BY DEF OpeningInv, OfferIsRemembered, Refuse, Fail
<1>6. NoTransportLeft'
  BY DEF OpeningInv, TypeOK, NoTransportLeft, Refuse, Fail, Closed
<1>7. DialogsFit' /\ OneEach(dialogs)'
  BY DEF OpeningInv, DialogsFit, Refuse, Fail
<1> QED
  BY <1>2, <1>3, <1>4, <1>5, <1>6, <1>7 DEF OpeningInv

\* The password is remembered only if it is the one offered.
LEMMA EnterPasswordKeeps ==
    ASSUME OpeningInv, NEW o \in Opens, EnterPassword(o) PROVE OpeningInv'
<1>1. /\ dialogs' \in Seq(Opens)
      /\ ToSet(dialogs)' = ToSet(dialogs) \ {o}
      /\ OneEach(dialogs)'
  <2>1. dialogs \in Seq(Opens) /\ OneEach(dialogs)
    BY DEF OpeningInv, TypeOK
  <2> QED
    BY <2>1, DialogCloses DEF EnterPassword, Answers
<1>2. TypeOK'
  BY <1>1 DEF OpeningInv, TypeOK, Underway, EnterPassword, ToRemember, Sent
<1>3. KnownWasTrusted'
  BY DEF OpeningInv, KnownWasTrusted, EnterPassword, Sent
<1>4. OnlyTrustedServers'
  BY DEF OpeningInv, OnlyTrustedServers, EnterPassword, Sent
<1>5. OfferIsRemembered'
  BY DEF OpeningInv, TypeOK, OfferIsRemembered, EnterPassword, ToRemember,
         Sent
<1>6. NoTransportLeft'
  BY DEF OpeningInv, NoTransportLeft, Underway, EnterPassword, Sent
<1>7. DialogsFit' /\ OneEach(dialogs)'
  BY <1>1 DEF OpeningInv, TypeOK, DialogsFit, EnterPassword, Sent
<1> QED
  BY <1>2, <1>3, <1>4, <1>5, <1>6, <1>7 DEF OpeningInv

\* The dialog is turned down.
LEMMA NoPasswordKeeps ==
    ASSUME OpeningInv, NEW o \in Opens, NoPassword(o) PROVE OpeningInv'
<1>1. /\ dialogs' \in Seq(Opens)
      /\ ToSet(dialogs)' = ToSet(dialogs) \ {o}
      /\ OneEach(dialogs)'
  <2>1. dialogs \in Seq(Opens) /\ OneEach(dialogs)
    BY DEF OpeningInv, TypeOK
  <2> QED
    BY <2>1, DialogCloses DEF NoPassword, Answers
<1>2. TypeOK'
  BY <1>1 DEF OpeningInv, TypeOK, NoPassword, Fail, Closed
<1>3. KnownWasTrusted'
  BY DEF OpeningInv, KnownWasTrusted, NoPassword, Fail
<1>4. OnlyTrustedServers'
  BY DEF OpeningInv, OnlyTrustedServers, NoPassword, Fail
<1>5. OfferIsRemembered'
  BY DEF OpeningInv, OfferIsRemembered, NoPassword, Fail
<1>6. NoTransportLeft'
  BY DEF OpeningInv, TypeOK, NoTransportLeft, NoPassword, Fail, Closed
<1>7. DialogsFit' /\ OneEach(dialogs)'
  BY <1>1 DEF OpeningInv, TypeOK, DialogsFit, NoPassword, Fail
<1> QED
  BY <1>2, <1>3, <1>4, <1>5, <1>6, <1>7 DEF OpeningInv

\* What is remembered was trusted.
LEMMA CompleteKeeps ==
    ASSUME OpeningInv, NEW o \in Opens, Complete(o) PROVE OpeningInv'
<1>1. dialogs' = dialogs
  BY DEF Complete
<1>2. TypeOK'
  BY <1>1, MaxClicksIsNat
     DEF OpeningInv, TypeOK, KnownWasTrusted, Entry, Underway, Complete,
         Learnt
<1>3. KnownWasTrusted'
  BY DEF OpeningInv, KnownWasTrusted, Complete
<1>4. OnlyTrustedServers'
  BY DEF OpeningInv, OnlyTrustedServers, Complete, Learnt
<1>5. OfferIsRemembered'
  BY DEF OpeningInv, OfferIsRemembered, Complete
<1>6. NoTransportLeft'
  BY DEF OpeningInv, NoTransportLeft, Complete
<1>7. DialogsFit' /\ OneEach(dialogs)'
  BY DEF OpeningInv, DialogsFit, Complete
<1> QED
  BY <1>2, <1>3, <1>4, <1>5, <1>6, <1>7 DEF OpeningInv

\* So it is if the save raises, and the client keeps its transport.
LEMMA CompleteFailsKeeps ==
    ASSUME OpeningInv, NEW o \in Opens, CompleteFails(o) PROVE OpeningInv'
<1>1. dialogs' = dialogs
  BY DEF CompleteFails
<1>2. TypeOK'
  BY <1>1, MaxClicksIsNat
     DEF OpeningInv, TypeOK, KnownWasTrusted, Entry, Underway, CompleteFails,
         Learnt
<1>3. KnownWasTrusted'
  BY DEF OpeningInv, KnownWasTrusted, CompleteFails
<1>4. OnlyTrustedServers'
  BY DEF OpeningInv, OnlyTrustedServers, CompleteFails, Learnt
<1>5. OfferIsRemembered'
  BY DEF OpeningInv, OfferIsRemembered, CompleteFails
<1>6. NoTransportLeft'
  BY DEF OpeningInv, NoTransportLeft, CompleteFails
<1>7. DialogsFit' /\ OneEach(dialogs)'
  BY DEF OpeningInv, DialogsFit, CompleteFails
<1> QED
  BY <1>2, <1>3, <1>4, <1>5, <1>6, <1>7 DEF OpeningInv

\* The connection is lost.
LEMMA LoseKeeps ==
    ASSUME OpeningInv, NEW o \in Opens, Lose(o) PROVE OpeningInv'
<1>1. dialogs' = dialogs
  BY DEF Lose
<1>2. TypeOK'
  BY DEF OpeningInv, TypeOK, Lose, AfterLoss
<1>3. KnownWasTrusted'
  BY DEF OpeningInv, KnownWasTrusted, Lose, AfterLoss
<1>4. OnlyTrustedServers'
  BY DEF OpeningInv, OnlyTrustedServers, Lose, AfterLoss
<1>5. OfferIsRemembered'
  BY DEF OpeningInv, OfferIsRemembered, Lose, AfterLoss
<1>6. NoTransportLeft'
  BY DEF OpeningInv, TypeOK, NoTransportLeft, Lose
<1>7. DialogsFit' /\ OneEach(dialogs)'
  BY DEF OpeningInv, DialogsFit, Lose, AfterLoss
<1> QED
  BY <1>2, <1>3, <1>4, <1>5, <1>6, <1>7 DEF OpeningInv

\* The transport goes with the window.
LEMMA CloseWindowKeeps ==
    ASSUME OpeningInv, NEW o \in Opens, CloseWindow(o) PROVE OpeningInv'
<1>1. dialogs' = dialogs
  BY DEF CloseWindow
<1>2. TypeOK'
  BY DEF OpeningInv, TypeOK, CloseWindow, Closed
<1>3. KnownWasTrusted'
  BY DEF OpeningInv, KnownWasTrusted, CloseWindow
<1>4. OnlyTrustedServers'
  BY DEF OpeningInv, OnlyTrustedServers, CloseWindow
<1>5. OfferIsRemembered'
  BY DEF OpeningInv, OfferIsRemembered, CloseWindow
<1>6. NoTransportLeft'
  BY DEF OpeningInv, TypeOK, NoTransportLeft, CloseWindow, Closed
<1>7. DialogsFit' /\ OneEach(dialogs)'
  BY DEF OpeningInv, DialogsFit, CloseWindow
<1> QED
  BY <1>2, <1>3, <1>4, <1>5, <1>6, <1>7 DEF OpeningInv

\* What open ones know is theirs.
LEMMA ForgetKeeps ==
    ASSUME OpeningInv, Forget PROVE OpeningInv'
<1>1. dialogs' = dialogs
  BY DEF Forget
<1>2. TypeOK'
  BY DEF OpeningInv, TypeOK, Entry, NoEntry, Forget
<1>3. KnownWasTrusted'
  BY DEF OpeningInv, KnownWasTrusted, Forget
<1>4. OnlyTrustedServers'
  BY DEF OpeningInv, OnlyTrustedServers, NoEntry, Forget
<1>5. OfferIsRemembered'
  BY DEF OpeningInv, OfferIsRemembered, Forget
<1>6. NoTransportLeft'
  BY DEF OpeningInv, NoTransportLeft, Forget
<1>7. DialogsFit' /\ OneEach(dialogs)'
  BY DEF OpeningInv, DialogsFit, Forget
<1> QED
  BY <1>2, <1>3, <1>4, <1>5, <1>6, <1>7 DEF OpeningInv

\* The fingerprints that were seen stay as they are.
LEMMA ServerChangesKeeps ==
    ASSUME OpeningInv, ServerChanges PROVE OpeningInv'
<1>1. dialogs' = dialogs
  BY DEF ServerChanges
<1>2. TypeOK'
  BY DEF OpeningInv, TypeOK, Entry, ServerChanges
<1>3. KnownWasTrusted'
  BY DEF OpeningInv, KnownWasTrusted, ServerChanges
<1>4. OnlyTrustedServers'
  BY DEF OpeningInv, OnlyTrustedServers, ServerChanges
<1>5. OfferIsRemembered'
  BY DEF OpeningInv, OfferIsRemembered, ServerChanges
<1>6. NoTransportLeft'
  BY DEF OpeningInv, NoTransportLeft, ServerChanges
<1>7. DialogsFit' /\ OneEach(dialogs)'
  BY DEF OpeningInv, DialogsFit, ServerChanges
<1> QED
  BY <1>2, <1>3, <1>4, <1>5, <1>6, <1>7 DEF OpeningInv

\* Every step keeps the invariant.
LEMMA NextKeeps == OpeningInv /\ [Next]_vars => OpeningInv'
<1> SUFFICES ASSUME OpeningInv, [Next]_vars PROVE OpeningInv'
  OBVIOUS
<1>1. CASE UNCHANGED vars
  BY <1>1
     DEF vars, OpeningInv, TypeOK, KnownWasTrusted, OnlyTrustedServers,
         OfferIsRemembered, NoTransportLeft, DialogsFit
<1>2. ASSUME NEW o \in Opens, Click(o) PROVE OpeningInv'
  BY <1>2, ClickKeeps
<1>3. ASSUME NEW o \in Opens, DialFails(o) PROVE OpeningInv'
  BY <1>3, DialFailsKeeps
<1>4. ASSUME NEW o \in Opens, Connected(o) PROVE OpeningInv'
  BY <1>4, ConnectedKeeps
<1>5. ASSUME NEW o \in Opens, Trust(o) PROVE OpeningInv'
  BY <1>5, TrustKeeps
<1>6. ASSUME NEW o \in Opens, DoNotTrust(o) PROVE OpeningInv'
  BY <1>6, DoNotTrustKeeps
<1>7. ASSUME NEW o \in Opens, Welcome(o) PROVE OpeningInv'
  BY <1>7, WelcomeKeeps
<1>8. ASSUME NEW o \in Opens, AskPassword(o) PROVE OpeningInv'
  BY <1>8, AskPasswordKeeps
<1>9. ASSUME NEW o \in Opens, Refuse(o) PROVE OpeningInv'
  BY <1>9, RefuseKeeps
<1>10. ASSUME NEW o \in Opens, EnterPassword(o) PROVE OpeningInv'
  BY <1>10, EnterPasswordKeeps
<1>11. ASSUME NEW o \in Opens, NoPassword(o) PROVE OpeningInv'
  BY <1>11, NoPasswordKeeps
<1>12. ASSUME NEW o \in Opens, Complete(o) PROVE OpeningInv'
  BY <1>12, CompleteKeeps
<1>13. ASSUME NEW o \in Opens, CompleteFails(o) PROVE OpeningInv'
  BY <1>13, CompleteFailsKeeps
<1>14. ASSUME NEW o \in Opens, Lose(o) PROVE OpeningInv'
  BY <1>14, LoseKeeps
<1>15. ASSUME NEW o \in Opens, CloseWindow(o) PROVE OpeningInv'
  BY <1>15, CloseWindowKeeps
<1>16. CASE Forget
  BY <1>16, ForgetKeeps
<1>17. CASE ServerChanges
  BY <1>17, ServerChangesKeeps
<1> QED
  BY <1>1, <1>2, <1>3, <1>4, <1>5, <1>6, <1>7, <1>8, <1>9, <1>10, <1>11,
     <1>12, <1>13, <1>14, <1>15, <1>16, <1>17
     DEF Next, Dialled, Answer, Replied, Completes

LEMMA InvariantHolds == Spec => []OpeningInv
  BY InitOpening, NextKeeps, PTL DEF Spec

\* The state of all opens keeps its types (_open_async and connect).
THEOREM OpeningTyped == Spec => []TypeOK
<1>1. OpeningInv => TypeOK
  BY DEF OpeningInv
<1> QED
  BY <1>1, InvariantHolds, PTL

\* No handshake is sent to a server whose fingerprint the user has never
\* trusted, however many opens overlap and whatever becomes of the entry.
THEOREM TrustedOnly == Spec => []OnlyTrustedServers
<1>1. OpeningInv => OnlyTrustedServers
  BY DEF OpeningInv
<1> QED
  BY <1>1, InvariantHolds, PTL

\* The password that an open remembers is one that worked, or none.
THEOREM SavedPasswordWorks == Spec => []SavesWhatWorked
<1>1. OpeningInv => SavesWhatWorked
  BY DEF OpeningInv, OfferIsRemembered, SavesWhatWorked
<1> QED
  BY <1>1, InvariantHolds, PTL

\* No open leaves its dialog behind when it ends, nor, unless its entry
\* cannot be saved, its transport.
THEOREM NothingIsLeft == Spec => []NothingLeftOver
<1>1. OpeningInv => NothingLeftOver
  BY DEF OpeningInv, NoTransportLeft, DialogsFit, OneEach, NothingLeftOver
<1> QED
  BY <1>1, InvariantHolds, PTL
=============================================================================
