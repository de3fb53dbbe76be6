-------------------------- MODULE ClientCertProofs --------------------------
(***************************************************************************)
(* Safety of ClientCert for any number of processes and of starts.  That   *)
(* the owner of the file is the run that makes it needs that runs have     *)
(* numbers of their own; that nobody replaces a certificate then follows   *)
(* from the mode the file is opened with.                                  *)
(***************************************************************************)
EXTENDS ClientCert, TLAPS

\* A process that is up has the number of its start, which no other has.
RunsDiffer ==
    /\ \A g \in Guis : gui[g] # "off" => run[g] <= starts
    /\ \A g, h \in Guis : gui[g] # "off" /\ gui[h] # "off" /\ run[g] = run[h]
                              => g = h
    /\ \A g \in Guis : gui[g] = "off" => making[g] = "unneeded" /\ client[g] = "none"

CertInv == TypeOK /\ RunsDiffer /\ OneMaker

LEMMA InitCert == Init => CertInv
<1> SUFFICES ASSUME Init PROVE CertInv
  OBVIOUS
<1>1. TypeOK
  <2>1. 0 \in 0..MaxStarts
    BY MaxStartsIsNat
  <2> QED
    BY <2>1, Zenon DEF Init, TypeOK, Makings
<1>2. RunsDiffer
  BY DEF Init, RunsDiffer
<1>3. OneMaker
  BY DEF Init, OneMaker
<1> QED
  BY <1>1, <1>2, <1>3 DEF CertInv

LEMMA StartKeeps == ASSUME CertInv, NEW g \in Guis, Start(g) PROVE CertInv'
<1> USE MaxStartsIsNat
<1>1. TypeOK'
  BY DEF CertInv, TypeOK, Makings, Start
<1>2. RunsDiffer'
  BY DEF CertInv, TypeOK, RunsDiffer, Start
<1>3. OneMaker'
  BY DEF CertInv, TypeOK, OneMaker, Start
<1> QED
  BY <1>1, <1>2, <1>3 DEF CertInv

LEMMA OpenFileKeeps == ASSUME CertInv, NEW g \in Guis, OpenFile(g) PROVE CertInv'
<1> USE MaxStartsIsNat
<1>1. TypeOK'
  BY DEF CertInv, TypeOK, Makings, OpenFile
<1>2. RunsDiffer'
  BY DEF CertInv, TypeOK, RunsDiffer, OpenFile
<1>3. OneMaker'
  BY DEF CertInv, TypeOK, OneMaker, OpenFile, MayCreate
<1> QED
  BY <1>1, <1>2, <1>3 DEF CertInv

LEMMA WriteKeeps == ASSUME CertInv, NEW g \in Guis, Write(g) PROVE CertInv'
<1>1. TypeOK'
  BY DEF CertInv, TypeOK, Makings, Write
<1>2. RunsDiffer'
  BY DEF CertInv, TypeOK, RunsDiffer, Write
<1>3. OneMaker'
  <2>1. ASSUME NEW h \in Guis, h # g PROVE making[h] # "opened"
    BY <2>1 DEF CertInv, TypeOK, RunsDiffer, OneMaker, Write
  <2> QED
    BY <2>1 DEF CertInv, TypeOK, OneMaker, Write
<1> QED
  BY <1>1, <1>2, <1>3 DEF CertInv

LEMMA NoKeyKeeps == ASSUME CertInv, NEW g \in Guis, NoKey(g) PROVE CertInv'
<1>1. TypeOK'
  BY DEF CertInv, TypeOK, Makings, NoKey
<1>2. RunsDiffer'
  BY DEF CertInv, TypeOK, RunsDiffer, NoKey
<1>3. OneMaker'
  BY DEF CertInv, TypeOK, OneMaker, NoKey
<1> QED
  BY <1>1, <1>2, <1>3 DEF CertInv

LEMMA MakeClientKeeps ==
    ASSUME CertInv, NEW g \in Guis, MakeClient(g) PROVE CertInv'
<1>1. TypeOK'
  BY DEF CertInv, TypeOK, MakeClient
<1>2. RunsDiffer'
  BY DEF CertInv, TypeOK, RunsDiffer, MakeClient
<1>3. OneMaker'
  BY DEF CertInv, TypeOK, OneMaker, MakeClient
<1> QED
  BY <1>1, <1>2, <1>3 DEF CertInv

LEMMA QuitKeeps == ASSUME CertInv, NEW g \in Guis, Quit(g) PROVE CertInv'
<1>1. TypeOK'
  BY DEF CertInv, TypeOK, Makings, Quit
<1>2. RunsDiffer'
  BY DEF CertInv, TypeOK, RunsDiffer, Quit
<1>3. OneMaker'
  BY DEF CertInv, TypeOK, OneMaker, Quit
<1> QED
  BY <1>1, <1>2, <1>3 DEF CertInv

\* A process that ends, of itself or not.
LEMMA OffKeeps ==
    ASSUME CertInv, NEW g \in Guis, Off(g), broken' \in BOOLEAN PROVE CertInv'
<1>1. TypeOK'
  BY DEF CertInv, TypeOK, Makings, Off
<1>2. RunsDiffer'
  BY DEF CertInv, TypeOK, RunsDiffer, Off
<1>3. OneMaker'
  BY DEF CertInv, TypeOK, OneMaker, Off
<1> QED
  BY <1>1, <1>2, <1>3 DEF CertInv

LEMMA NextCert == CertInv /\ [Next]_vars => CertInv'
<1> SUFFICES ASSUME CertInv, [Next]_vars PROVE CertInv'
  OBVIOUS
<1>1. CASE UNCHANGED vars
  BY <1>1 DEF vars, CertInv, TypeOK, RunsDiffer, OneMaker
<1>2. ASSUME NEW g \in Guis, Start(g) PROVE CertInv'
  BY <1>2, StartKeeps
<1>3. ASSUME NEW g \in Guis, OpenFile(g) PROVE CertInv'
  BY <1>3, OpenFileKeeps
<1>4. ASSUME NEW g \in Guis, Write(g) PROVE CertInv'
  BY <1>4, WriteKeeps
<1>5. ASSUME NEW g \in Guis, NoKey(g) PROVE CertInv'
  BY <1>5, NoKeyKeeps
<1>6. ASSUME NEW g \in Guis, MakeClient(g) PROVE CertInv'
  BY <1>6, MakeClientKeeps
<1>7. ASSUME NEW g \in Guis, Quit(g) PROVE CertInv'
  BY <1>7, QuitKeeps
<1>8. ASSUME NEW g \in Guis, Exit(g) PROVE CertInv'
  BY <1>8, OffKeeps DEF Exit, CertInv, TypeOK
<1>9. ASSUME NEW g \in Guis, Die(g) PROVE CertInv'
  <2>1. broken' \in BOOLEAN
    BY <1>9 DEF Die, CertInv, TypeOK
  <2> QED
    BY <1>9, <2>1, OffKeeps DEF Die
<1> QED
  BY <1>1, <1>2, <1>3, <1>4, <1>5, <1>6, <1>7, <1>8, <1>9 DEF Next

LEMMA CertInvHolds == Spec => []CertInv
  BY InitCert, NextCert, PTL DEF Spec

\* The variables of ClientCert have their types.
THEOREM CertTypes == Spec => []TypeOK
<1>1. CertInv => TypeOK
  BY DEF CertInv
<1> QED
  BY <1>1, CertInvHolds, PTL

\* A file that is being made is made by the run that created it and is not
\* taken for a certificate.
THEOREM OneMakes == Spec => []OneMaker
<1>1. CertInv => OneMaker
  BY DEF CertInv
<1> QED
  BY <1>1, CertInvHolds, PTL

\* No step replaces a file that is there or damages a certificate.
THEOREM CertificateStays == Spec => CertificateIsKept
<1> DEFINE Kept ==
        file # "absent" => owner' = owner /\ (file = "whole" => file' = "whole")
<1>1. CertInv /\ [Next]_vars => [Kept]_vars
  <2> SUFFICES ASSUME CertInv, Next PROVE Kept
    OBVIOUS
  <2>1. PICK g \in Guis : \/ Start(g) \/ OpenFile(g) \/ Write(g) \/ NoKey(g)
                          \/ MakeClient(g) \/ Quit(g) \/ Exit(g) \/ Die(g)
    BY DEF Next
  <2>2. CASE OpenFile(g)
    BY <2>2 DEF OpenFile, MayCreate
  <2>3. CASE Write(g)
    BY <2>3 DEF Write
  <2>4. CASE Start(g) \/ NoKey(g) \/ MakeClient(g) \/ Quit(g)
    BY <2>4 DEF Start, NoKey, MakeClient, Quit
  <2>5. CASE Exit(g) \/ Die(g)
    BY <2>5 DEF Exit, Die, Off
  <2> QED
    BY <2>1, <2>2, <2>3, <2>4, <2>5
<1> QED
  BY <1>1, CertInvHolds, PTL DEF Spec, CertificateIsKept
=============================================================================
