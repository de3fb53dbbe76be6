-------------------------- MODULE ServerListProofs --------------------------
(***************************************************************************)
(* Safety of ServerList for any number of servers, services and opens.     *)
(* The properties of the run are inductive together, with what is in the   *)
(* file (a restart makes it the list) and with a process that is down      *)
(* having nothing else.  First what the operators on sequences return:     *)
(* where a saved server is found, what is left when one is forgotten, and  *)
(* what is listed when services are offered.                               *)
(***************************************************************************)
EXTENDS ServerList, SequenceTheorems, FiniteSetTheorems, TLAPS

\* A set of natural numbers has a least element.
LEMMA MinIsMember == ASSUME NEW S \in SUBSET Nat, S # {} PROVE Min(S) \in S
<1>1. PICK x \in S : \A y \in S : ~(<<y, x>> \in OpToRel(<, Nat))
  BY NatLessThanWellFounded, WFMin
<1>2. \A y \in S : ~(y < x)
  BY <1>1, Zenon DEF OpToRel
<1>3. \A y \in S : x <= y
  BY <1>2
<1> QED
  BY <1>3 DEF Min

\* What SavedIndex finds, if it finds anything.
LEMMA SavedIndexFinds ==
    ASSUME saved \in Seq(Infos), NEW info
    PROVE  /\ SavedIndex(info) \in 0..Len(saved)
           /\ SavedIndex(info) # 0 =>
                  saved[SavedIndex(info)].server = info.server
           /\ SavedIndex(info) = 0 =>
                  \A i \in DOMAIN saved : saved[i].server # info.server
<1> DEFINE I == {i \in 1..Len(saved) : saved[i].server = info.server}
<1>1. Len(saved) \in Nat /\ DOMAIN saved = 1..Len(saved)
  BY LenProperties
<1>2. SavedIndex(info) = IF I # {} THEN Min(I) ELSE 0
  BY DEF SavedIndex, SelectInSeq
<1>3. I # {} => Min(I) \in I
  <2>1. I \in SUBSET Nat
    BY <1>1
  <2> HIDE DEF I
  <2> QED
    BY <2>1, MinIsMember
<1> QED
  BY <1>1, <1>2, <1>3

\* What RemoveAt leaves.
LEMMA RemoveAtLeaves ==
    ASSUME NEW S, NEW q \in Seq(S), NEW k \in 1..Len(q)
    PROVE  /\ RemoveAt(q, k) \in Seq(S)
           /\ Len(RemoveAt(q, k)) = Len(q) - 1
           /\ \A i \in 1..(Len(q) - 1) :
                  RemoveAt(q, k)[i] = IF i < k THEN q[i] ELSE q[i + 1]
<1> DEFINE front == SubSeq(q, 1, k - 1)
           back == SubSeq(q, k + 1, Len(q))
<1>1. Len(q) \in Nat /\ \A i \in 1..Len(q) : q[i] \in S
  BY LenProperties, ElementOfSeq
<1>2. /\ front \in Seq(S) /\ Len(front) = k - 1
      /\ \A i \in 1..(k - 1) : front[i] = q[i]
  <2>1. \A i \in 1..(k - 1) : q[i] \in S
    BY <1>1
  <2>2. k - 1 \in Int /\ 1 \in Int
    BY <1>1
  <2> QED
    BY <1>1, <2>1, <2>2, SubSeqProperties
<1>3. /\ back \in Seq(S) /\ Len(back) = Len(q) - k
      /\ \A i \in 1..(Len(q) - k) : back[i] = q[k + i]
  <2>1. \A i \in (k + 1)..Len(q) : q[i] \in S
    BY <1>1
  <2>2. k + 1 \in Int /\ Len(q) \in Int
    BY <1>1
  <2> QED
    BY <1>1, <2>1, <2>2, SubSeqProperties
<1>4. RemoveAt(q, k) = front \o back
  BY DEF RemoveAt
<1>5. /\ front \o back \in Seq(S)
      /\ Len(front \o back) = Len(q) - 1
      /\ \A i \in 1..(Len(q) - 1) :
             (front \o back)[i] = IF i < k THEN front[i] ELSE back[i - (k - 1)]
  <2> HIDE DEF front, back
  <2> QED
    BY <1>1, <1>2, <1>3, ConcatProperties
<1>6. \A i \in 1..(Len(q) - 1) : i >= k => back[i - (k - 1)] = q[i + 1]
  <2> HIDE DEF front, back
  <2> SUFFICES ASSUME NEW i \in 1..(Len(q) - 1), i >= k
               PROVE  back[i - (k - 1)] = q[i + 1]
    OBVIOUS
  <2>1. i - (k - 1) \in 1..(Len(q) - k) /\ k + (i - (k - 1)) = i + 1
    BY <1>1
  <2> QED
    BY <1>3, <2>1
<1> HIDE DEF front, back
<1> QED
  BY <1>1, <1>2, <1>4, <1>5, <1>6

\* A discovered entry that goes is one of the site.
LEMMA WithoutSiteLeaves ==
    ASSUME NEW q \in Seq(Announced), NEW site
    PROVE  /\ WithoutSite(q, site) \in Seq(Announced)
           /\ \A s \in ToSet(q) :
                  s.site # site => s \in ToSet(WithoutSite(q, site))
           /\ q = <<>> => WithoutSite(q, site) = <<>>
<1> DEFINE I == {i \in 1..Len(q) : q[i].site = site}
<1>1. Len(q) \in Nat /\ DOMAIN q = 1..Len(q)
  BY LenProperties
<1>2. WithoutSite(q, site) = IF I # {} THEN RemoveAt(q, Min(I)) ELSE q
  BY DEF WithoutSite, RemoveFirstMatch, SelectInSeq
<1>3. CASE I = {}
  <2>1. WithoutSite(q, site) = q
    BY <1>2, <1>3
  <2> QED
    BY <2>1
<1>4. CASE I # {}
  <2> DEFINE k == Min(I)
             r == RemoveAt(q, k)
  <2>1. k \in 1..Len(q) /\ q[k].site = site
    <3>1. I \in SUBSET Nat
      BY <1>1
    <3>2. k \in I
      <4> HIDE DEF I
      <4> QED
        BY <1>4, <3>1, MinIsMember
    <3> QED
      BY <3>2
  <2> HIDE DEF k
  <2>2. /\ r \in Seq(Announced) /\ Len(r) = Len(q) - 1
        /\ \A i \in 1..(Len(q) - 1) : r[i] = IF i < k THEN q[i] ELSE q[i + 1]
    BY <2>1, RemoveAtLeaves
  <2> HIDE DEF r
  <2>3. DOMAIN r = 1..(Len(q) - 1)
    BY <2>2, LenProperties
  <2>4. ASSUME NEW i \in 1..Len(q), q[i].site # site PROVE q[i] \in ToSet(r)
    <3>1. CASE i < k
      <4>1. i \in DOMAIN r /\ r[i] = q[i]
        BY <1>1, <2>1, <2>2, <2>3, <3>1
      <4> QED
        BY <4>1 DEF ToSet
    <3>2. CASE i > k
      <4>1. i - 1 \in DOMAIN r /\ r[i - 1] = q[i]
        BY <1>1, <2>1, <2>2, <2>3, <3>2
      <4> QED
        BY <4>1 DEF ToSet
    <3> QED
      BY <1>1, <2>1, <2>4, <3>1, <3>2
  <2>5. WithoutSite(q, site) = r
    BY <1>2, <1>4 DEF k, r
  <2> QED
    BY <1>1, <2>1, <2>2, <2>4, <2>5 DEF ToSet
<1> QED
  BY <1>3, <1>4

\* A finite set as a sequence.
LEMMA SetToSeqHasAll ==
    ASSUME NEW S, IsFiniteSet(S)
    PROVE  SetToSeq(S) \in Seq(S) /\ ToSet(SetToSeq(S)) = S
<1> DEFINE n == Cardinality(S)
           f == SetToSeq(S)
<1>1. n \in Nat /\ ExistsBijection(1..n, S)
  BY FS_CardinalityType
<1>2. \E g \in [1..n -> S] : IsInjective(g)
  BY <1>1 DEF ExistsBijection, Bijection, Injection
<1>3. f \in [1..n -> S] /\ IsInjective(f)
  BY <1>2 DEF SetToSeq
<1> HIDE DEF f
<1>4. f \in Injection(1..n, S)
  BY <1>3 DEF Injection
<1>5. IsFiniteSet(1..n) /\ Cardinality(1..n) = n
  BY <1>1, FS_Interval
<1>6. f \in Surjection(1..n, S)
  BY <1>4, <1>5, FS_Injection
<1>7. f \in Seq(S)
  BY <1>1, <1>3, SeqDef
<1>8. DOMAIN f = 1..n
  BY <1>3
<1>9. \A s \in S : \E i \in 1..n : f[i] = s
  BY <1>6 DEF Surjection
<1>10. ToSet(f) = S
  BY <1>3, <1>8, <1>9 DEF ToSet
<1> QED
  BY <1>7, <1>10 DEF f

\* What WithDiscovered lists.
LEMMA WithDiscoveredLists ==
    ASSUME NEW list, NEW found \in Seq(Announced),
           NEW servers \in SUBSET Announced, IsFiniteSet(servers)
    PROVE  LET all == WithDiscovered(list, found, servers)
           IN  /\ all \in Seq(Announced)
               /\ ToSet(found) \subseteq ToSet(all)
               /\ \A s \in servers :
                      ~SiteSaved(list, s.site) => s \in ToSet(all)
               /\ all = <<>> => found = <<>>
<1> DEFINE new == {s \in servers : ~SiteSaved(list, s.site)}
           t == SetToSeq(new)
           all == found \o t
<1>1. IsFiniteSet(new)
  BY FS_Subset
<1>2. t \in Seq(new) /\ ToSet(t) = new
  BY <1>1, SetToSeqHasAll
<1>3. t \in Seq(Announced)
  <2>1. new \subseteq Announced
    OBVIOUS
  <2> HIDE DEF new, t
  <2> QED
    BY <1>2, <2>1
<1> HIDE DEF new, t
<1>4. /\ all \in Seq(Announced)
      /\ Len(all) = Len(found) + Len(t)
      /\ \A i \in 1..(Len(found) + Len(t)) :
             all[i] = IF i <= Len(found) THEN found[i] ELSE t[i - Len(found)]
  BY <1>3, ConcatProperties
<1>5. /\ Len(found) \in Nat /\ Len(t) \in Nat
      /\ DOMAIN found = 1..Len(found) /\ DOMAIN t = 1..Len(t)
      /\ DOMAIN all = 1..(Len(found) + Len(t))
  BY <1>3, <1>4, LenProperties
<1> HIDE DEF all
<1>6. ToSet(found) \subseteq ToSet(all)
  BY <1>4, <1>5 DEF ToSet
<1>7. ToSet(t) \subseteq ToSet(all)
  <2> SUFFICES ASSUME NEW i \in 1..Len(t) PROVE t[i] \in ToSet(all)
    BY <1>5 DEF ToSet
  <2>1. Len(found) + i \in DOMAIN all /\ all[Len(found) + i] = t[i]
    BY <1>4, <1>5
  <2> QED
    BY <2>1 DEF ToSet
<1>8. all = <<>> => found = <<>>
  BY <1>3, <1>4, ConcatEqualIffEmpty DEF all
<1>9. WithDiscovered(list, found, servers) = all
  BY DEF WithDiscovered, all, t, new
<1> QED
  BY <1>2, <1>4, <1>6, <1>7, <1>8, <1>9 DEF new
-----------------------------------------------------------------------------
(* The invariant.                                                          *)

\* A process that is down has nothing but the file, and the browser has found
\* finitely many services.
DownIsEmpty ==
    ~running => /\ saved = <<>> /\ services = {} /\ discovered = <<>>
                /\ ~separator /\ menu = 0
                /\ opening = [o \in Opens |-> Idle]

OncePerServer(list) ==
    \A i, j \in DOMAIN list : list[i].server = list[j].server => i = j

ListInv ==
    /\ TypeOK /\ DownIsEmpty /\ IsFiniteSet(services)
    /\ OncePerServer(saved) /\ OncePerServer(Loaded)
    /\ RowsStayAligned /\ EveryServiceListed /\ FileIsCurrent

\* A sequence is no other state of the file.
LEMMA FileStates ==
    ASSUME NEW list \in Seq(Infos) PROVE list \notin {Absent, Broken}
  BY FileStatesDiffer DEF Infos

\* What is left of a process that is down.
LEMMA EmptyStates ==
    /\ <<>> \in Seq(Infos) /\ <<>> \in Seq(Announced)
    /\ [o \in Opens |-> Idle] \in [Opens -> Infos \cup {Idle}]
  OBVIOUS

LEMMA LoadedIsList == TypeOK => Loaded \in Seq(Infos)
  BY DEF TypeOK, Loaded

LEMMA InitList == Init => ListInv
<1> SUFFICES ASSUME Init PROVE ListInv
  OBVIOUS
<1>1. (CHOOSE s \in Servers : TRUE) \in Servers
  BY ServersAreThere
<1>2. TypeOK
  <2>1. 0 \in Nat /\ 0 \in 0..MaxFailures
    BY BoundsAreNats
  <2> QED
    BY <1>1, <2>1, EmptyStates, Zenon DEF Init, TypeOK
<1>3. DownIsEmpty /\ IsFiniteSet(services)
  BY FS_EmptySet DEF Init, DownIsEmpty
<1>4. OncePerServer(saved) /\ OncePerServer(Loaded)
  BY DEF Init, OncePerServer, Loaded
<1>5. RowsStayAligned /\ EveryServiceListed /\ FileIsCurrent
  BY DEF Init, RowsStayAligned, EveryServiceListed, FileIsCurrent
<1> QED
  BY <1>2, <1>3, <1>4, <1>5 DEF ListInv

\* A save that succeeds, and one that does not, leave a file that fits.
LEMMA SavedFits ==
    ASSUME ListInv, saved' \in Seq(Infos), OncePerServer(saved'),
           Save(saved') \/ SaveRaises
    PROVE  /\ disk' \in Seq(Infos) \cup {Absent, Broken}
           /\ unsaved' \in BOOLEAN /\ failures' \in 0..MaxFailures
           /\ OncePerServer(Loaded)'
           /\ FileIsCurrent'
<1>1. disk \in Seq(Infos) \cup {Absent, Broken} /\ failures \in 0..MaxFailures
  BY DEF ListInv, TypeOK
<1>2. CASE Save(saved')
  <2>1. disk' = saved' /\ unsaved' = FALSE /\ failures' = failures
    BY <1>2 DEF Save, FileOf
  <2>2. Loaded' = saved'
    BY <2>1, FileStates DEF Loaded
  <2> QED
    BY <1>1, <2>1, <2>2 DEF FileIsCurrent
<1>3. CASE SaveRaises
  <2>1. /\ disk' \in {disk, Broken} /\ unsaved' = TRUE
        /\ failures < MaxFailures /\ failures' = failures + 1
    BY <1>3 DEF SaveRaises
  <2>2. Loaded' \in {Loaded, <<>>}
    BY <2>1 DEF Loaded
  <2>3. OncePerServer(<<>>)
    BY DEF OncePerServer
  <2>4. OncePerServer(Loaded')
    BY <2>2, <2>3 DEF ListInv
  <2> QED
    BY <1>1, <2>1, <2>4, BoundsAreNats DEF FileIsCurrent, OncePerServer
<1> QED
  BY <1>2, <1>3

\* The process goes down, with whatever file it leaves.
LEMMA DownKeeps ==
    ASSUME ListInv, Down, disk' \in Seq(Infos) \cup {Absent, Broken},
           OncePerServer(Loaded)', failures' \in 0..MaxFailures
    PROVE  ListInv'
<1>1. TypeOK'
  BY EmptyStates DEF ListInv, TypeOK, Down
<1>2. DownIsEmpty' /\ IsFiniteSet(services)'
  BY FS_EmptySet DEF Down, DownIsEmpty
<1>3. OncePerServer(saved)'
  BY DEF Down, OncePerServer
<1>4. RowsStayAligned' /\ EveryServiceListed' /\ FileIsCurrent'
  BY DEF Down, RowsStayAligned, EveryServiceListed, FileIsCurrent
<1> QED
  BY <1>1, <1>2, <1>3, <1>4 DEF ListInv

LEMMA StopKeeps == ASSUME ListInv, Stop PROVE ListInv'
<1>1. Loaded' = Loaded
  BY DEF Stop, Loaded
<1>2. OncePerServer(Loaded)'
  BY <1>1 DEF ListInv, OncePerServer
<1> QED
  BY <1>2, DownKeeps DEF ListInv, TypeOK, Stop

LEMMA DieInSaveKeeps == ASSUME ListInv, DieInSave PROVE ListInv'
<1>1. Loaded' = <<>>
  BY DEF DieInSave, Loaded
<1>2. OncePerServer(Loaded)'
  BY <1>1 DEF OncePerServer
<1>3. failures' \in 0..MaxFailures
  BY BoundsAreNats DEF ListInv, TypeOK, DieInSave
<1> QED
  BY <1>2, <1>3, DownKeeps DEF DieInSave

LEMMA StartKeeps == ASSUME ListInv, Start PROVE ListInv'
<1>1. Loaded \in Seq(Infos) /\ Loaded' = Loaded
  BY LoadedIsList DEF ListInv, Start, Loaded
<1>2. TypeOK'
  BY <1>1 DEF ListInv, TypeOK, Start, theMenu
<1>3. DownIsEmpty' /\ IsFiniteSet(services)'
  BY DEF ListInv, DownIsEmpty, Start, theMenu
<1>4. OncePerServer(saved)' /\ OncePerServer(Loaded)'
  BY <1>1 DEF ListInv, OncePerServer, Start
<1>5. RowsStayAligned'
  BY DEF ListInv, RowsStayAligned, DownIsEmpty, Start, theMenu
<1>6. EveryServiceListed'
  BY DEF ListInv, EveryServiceListed, DownIsEmpty, Start
<1>7. FileIsCurrent'
  BY <1>1 DEF FileIsCurrent, Start
<1> QED
  BY <1>2, <1>3, <1>4, <1>5, <1>6, <1>7 DEF ListInv

\* Steps that leave the saved servers and the file alone.
LEMMA SameFile ==
    ASSUME ListInv, UNCHANGED <<running, saved, disk, unsaved, failures>>
    PROVE  OncePerServer(saved)' /\ OncePerServer(Loaded)' /\ FileIsCurrent'
<1>1. Loaded' = Loaded
  BY DEF Loaded
<1> QED
  BY <1>1 DEF ListInv, OncePerServer, FileIsCurrent

LEMMA NewServiceKeeps ==
    ASSUME ListInv, NEW s \in Announced, NewService(s) PROVE ListInv'
<1>1. /\ discovered \in Seq(Announced)
      /\ IsFiniteSet({s}) /\ {s} \in SUBSET Announced
  BY FS_Singleton DEF ListInv, TypeOK
<1>2. /\ discovered' \in Seq(Announced)
      /\ ToSet(discovered) \subseteq ToSet(discovered')
      /\ ~SiteSaved(saved, s.site) => s \in ToSet(discovered')
      /\ discovered' = <<>> => discovered = <<>>
  BY <1>1, WithDiscoveredLists DEF NewService
<1>3. TypeOK'
  BY <1>2 DEF ListInv, TypeOK, NewService, theMenu
<1>4. DownIsEmpty' /\ IsFiniteSet(services)'
  BY FS_AddElement DEF ListInv, DownIsEmpty, NewService
<1>5. RowsStayAligned'
  BY DEF ListInv, RowsStayAligned, NewService, theMenu
<1>6. EveryServiceListed'
  BY <1>2 DEF ListInv, EveryServiceListed, SiteSaved, ToSet, NewService
<1> QED
  BY <1>3, <1>4, <1>5, <1>6, SameFile DEF ListInv, NewService

LEMMA OpenKeeps == ASSUME ListInv, NEW o \in Opens, Open(o) PROVE ListInv'
<1>1. Clickable \subseteq Infos
  <2>1. ToSet(rows) \subseteq Infos /\ ToSet(discovered) \subseteq Servers
    BY ElementOfSeq, LenProperties, AnnouncedAreServers
       DEF ListInv, TypeOK, ToSet
  <2> QED
    BY <2>1, NoKeyIsAKey DEF Clickable, Infos
<1>2. TypeOK'
  BY <1>1 DEF ListInv, TypeOK, Open, theMenu
<1>3. DownIsEmpty' /\ IsFiniteSet(services)'
  BY DEF ListInv, DownIsEmpty, Open, theMenu
<1>4. RowsStayAligned' /\ EveryServiceListed'
  BY DEF ListInv, RowsStayAligned, EveryServiceListed, Open, theMenu
<1> QED
  BY <1>2, <1>3, <1>4, SameFile DEF ListInv, Open

LEMMA OpenFailsKeeps ==
    ASSUME ListInv, NEW o \in Opens, OpenFails(o) PROVE ListInv'
<1>1. TypeOK'
  BY DEF ListInv, TypeOK, OpenFails, theMenu
<1>2. DownIsEmpty' /\ IsFiniteSet(services)'
  BY DEF ListInv, DownIsEmpty, OpenFails, theMenu
<1>3. RowsStayAligned' /\ EveryServiceListed'
  BY DEF ListInv, RowsStayAligned, EveryServiceListed, OpenFails, theMenu
<1> QED
  BY <1>1, <1>2, <1>3, SameFile DEF ListInv, OpenFails

LEMMA MenuKeeps ==
    ASSUME ListInv, (\E i \in DOMAIN rows : PopUp(i)) \/ PopDown PROVE ListInv'
<1>1. DOMAIN rows = 1..Len(rows) /\ DOMAIN saved = 1..Len(saved)
  BY LenProperties DEF ListInv, TypeOK
<1>2. \A i \in DOMAIN rows : i \in Nat /\ rows[i].server \in Servers
  <2>1. \A i \in DOMAIN rows : rows[i] \in Infos
    BY <1>1, ElementOfSeq DEF ListInv, TypeOK
  <2> QED
    BY <1>1, <2>1, LenProperties DEF ListInv, TypeOK, Infos
<1>3. TypeOK'
  BY <1>2 DEF ListInv, TypeOK, PopUp, PopDown
<1>4. DownIsEmpty' /\ IsFiniteSet(services)'
  BY DEF ListInv, DownIsEmpty, PopUp, PopDown
<1>5. RowsStayAligned'
  BY <1>1 DEF ListInv, RowsStayAligned, PopUp, PopDown
<1>6. EveryServiceListed'
  BY DEF ListInv, EveryServiceListed, PopUp, PopDown
<1>7. UNCHANGED <<running, saved, disk, unsaved, failures>>
  BY DEF PopUp, PopDown
<1> QED
  BY <1>3, <1>4, <1>5, <1>6, <1>7, SameFile DEF ListInv
-----------------------------------------------------------------------------
(* The steps that save.                                                    *)

\* An open completes in a process that is up, and what it saves is about the
\* server it opened.
LEMMA CompletesUp ==
    ASSUME ListInv, NEW o \in Opens, opening[o] # Idle, NEW k \in Keys
    PROVE  running /\ [opening[o] EXCEPT !.key = k] \in Infos
<1>1. opening[o] \in Infos
  BY DEF ListInv, TypeOK
<1>2. running
  BY DEF ListInv, DownIsEmpty
<1> QED
  BY <1>1, <1>2 DEF Infos

LEMMA AlreadySavedKeeps ==
    ASSUME ListInv, running, opening' \in [Opens -> Infos \cup {Idle}],
           UNCHANGED <<running, services, theMenu>>,
           NEW info \in Infos, AlreadySaved(info)
    PROVE  ListInv'
<1>1. UNCHANGED <<saved, rows, discovered, separator, disk, unsaved, failures>>
  BY DEF AlreadySaved
<1>2. TypeOK'
  BY <1>1 DEF ListInv, TypeOK, theMenu
<1>3. DownIsEmpty' /\ IsFiniteSet(services)'
  BY DEF ListInv, DownIsEmpty
<1>4. RowsStayAligned' /\ EveryServiceListed'
  BY <1>1 DEF ListInv, RowsStayAligned, EveryServiceListed, theMenu
<1> QED
  BY <1>1, <1>2, <1>3, <1>4, SameFile DEF ListInv

LEMMA UpdateSavedKeeps ==
    ASSUME ListInv, running, opening' \in [Opens -> Infos \cup {Idle}],
           UNCHANGED <<running, services, theMenu>>,
           NEW info \in Infos, UpdateSaved(info)
    PROVE  ListInv'
<1> DEFINE n == SavedIndex(info)
<1>1. /\ Len(saved) \in Nat /\ DOMAIN saved = 1..Len(saved)
      /\ DOMAIN rows = 1..Len(rows) /\ Len(rows) = Len(saved)
      /\ saved \in Seq(Infos) /\ rows \in Seq(Infos)
  BY LenProperties DEF ListInv, TypeOK, RowsStayAligned
<1>2. n \in 1..Len(saved) /\ saved[n].server = info.server
  BY <1>1, SavedIndexFinds DEF UpdateSaved
<1>3. /\ saved' = [saved EXCEPT ![n] = info]
      /\ UNCHANGED <<discovered, separator>>
  BY DEF UpdateSaved
<1>4. Save(saved') \/ SaveRaises
  BY DEF UpdateSaved, SaveThen
<1>5. rows' \in {rows, [rows EXCEPT ![n] = info]}
  BY DEF UpdateSaved, SaveThen, RowsUpdated
<1> HIDE DEF n
<1>6. /\ saved' \in Seq(Infos) /\ Len(saved') = Len(saved)
      /\ DOMAIN saved' = 1..Len(saved)
      /\ \A i \in 1..Len(saved) : saved'[i].server = saved[i].server
  BY <1>1, <1>2, <1>3, ExceptSeq, LenProperties
<1>7. /\ rows' \in Seq(Infos) /\ Len(rows') = Len(saved)
      /\ DOMAIN rows' = 1..Len(saved)
      /\ \A i \in 1..Len(saved) : rows'[i].server = rows[i].server
  <2>1. \A i \in 1..Len(saved) : rows[i].server = saved[i].server
    BY <1>1 DEF ListInv, RowsStayAligned
  <2>2. CASE rows' = rows
    BY <1>1, <2>2
  <2>3. CASE rows' = [rows EXCEPT ![n] = info]
    <3>1. n \in 1..Len(rows)
      BY <1>1, <1>2
    <3>2. rows' \in Seq(Infos) /\ Len(rows') = Len(rows)
      BY <1>1, <2>3, <3>1, ExceptSeq
    <3> QED
      BY <1>1, <1>2, <2>1, <2>3, <3>1, <3>2
  <2> QED
    BY <1>5, <2>2, <2>3
<1>8. OncePerServer(saved')
  BY <1>1, <1>6 DEF ListInv, OncePerServer
<1>9. /\ disk' \in Seq(Infos) \cup {Absent, Broken}
      /\ unsaved' \in BOOLEAN /\ failures' \in 0..MaxFailures
      /\ OncePerServer(Loaded)' /\ FileIsCurrent'
  BY <1>4, <1>6, <1>8, SavedFits
<1>10. TypeOK'
  BY <1>3, <1>6, <1>7, <1>9 DEF ListInv, TypeOK, theMenu
<1>11. DownIsEmpty' /\ IsFiniteSet(services)'
  BY DEF ListInv, DownIsEmpty
<1>12. RowsStayAligned'
  BY <1>1, <1>6, <1>7 DEF ListInv, RowsStayAligned, theMenu
<1>13. EveryServiceListed'
  BY <1>1, <1>3, <1>6 DEF ListInv, EveryServiceListed, SiteSaved
<1> QED
  BY <1>8, <1>9, <1>10, <1>11, <1>12, <1>13 DEF ListInv, OncePerServer

LEMMA AppendSavedKeeps ==
    ASSUME ListInv, running, opening' \in [Opens -> Infos \cup {Idle}],
           UNCHANGED <<running, services, theMenu>>,
           NEW info \in Infos, AppendSaved(info)
    PROVE  ListInv'
<1>1. /\ Len(saved) \in Nat /\ DOMAIN saved = 1..Len(saved)
      /\ DOMAIN rows = 1..Len(rows) /\ Len(rows) = Len(saved)
      /\ saved \in Seq(Infos) /\ rows \in Seq(Infos)
      /\ discovered \in Seq(Announced)
  BY LenProperties DEF ListInv, TypeOK, RowsStayAligned
<1>2. \A i \in DOMAIN saved : saved[i].server # info.server
  BY <1>1, SavedIndexFinds DEF AppendSaved
<1>3. /\ saved' \in Seq(Infos) /\ DOMAIN saved' = 1..(Len(saved) + 1)
      /\ Len(saved') = Len(saved) + 1
      /\ \A i \in 1..Len(saved) : saved'[i] = saved[i]
      /\ saved'[Len(saved) + 1] = info
  BY <1>1, AppendProperties DEF AppendSaved
<1>4. /\ rows' \in Seq(Infos) /\ DOMAIN rows' = 1..(Len(saved) + 1)
      /\ Len(rows') = Len(saved) + 1
      /\ \A i \in 1..Len(saved) : rows'[i] = rows[i]
      /\ rows'[Len(saved) + 1] = info
  BY <1>1, AppendProperties DEF AppendSaved
<1>5. /\ discovered' \in Seq(Announced)
      /\ \A s \in ToSet(discovered) :
             s.site # info.server.site => s \in ToSet(discovered')
      /\ discovered = <<>> => discovered' = <<>>
  BY <1>1, WithoutSiteLeaves DEF AppendSaved
<1>6. OncePerServer(saved')
  BY <1>1, <1>2, <1>3 DEF ListInv, OncePerServer
<1>7. /\ disk' \in Seq(Infos) \cup {Absent, Broken}
      /\ unsaved' \in BOOLEAN /\ failures' \in 0..MaxFailures
      /\ OncePerServer(Loaded)' /\ FileIsCurrent'
  BY <1>3, <1>6, SavedFits DEF AppendSaved
<1>8. separator' \in BOOLEAN /\ (separator' <=> discovered' # <<>>)
  BY <1>5 DEF ListInv, TypeOK, EveryServiceListed, AppendSaved, SeparatorAfter
<1>9. TypeOK'
  BY <1>3, <1>4, <1>5, <1>7, <1>8 DEF ListInv, TypeOK, theMenu
<1>10. DownIsEmpty' /\ IsFiniteSet(services)'
  BY DEF ListInv, DownIsEmpty
<1>11. RowsStayAligned'
  <2>1. \A i \in 1..Len(saved) : rows[i].server = saved[i].server
    BY <1>1 DEF ListInv, RowsStayAligned
  <2>2. \A i \in 1..(Len(saved) + 1) : rows'[i].server = saved'[i].server
    <3> SUFFICES ASSUME NEW i \in 1..(Len(saved) + 1)
                 PROVE  rows'[i].server = saved'[i].server
      OBVIOUS
    <3>1. CASE i \in 1..Len(saved)
      <4>1. rows'[i] = rows[i] /\ saved'[i] = saved[i]
        BY <1>3, <1>4, <3>1
      <4> QED
        BY <2>1, <3>1, <4>1
    <3>2. CASE i = Len(saved) + 1
      BY <1>3, <1>4, <3>2
    <3> QED
      BY <1>1, <3>1, <3>2
  <2>3. menu # 0 => menu \in 1..Len(saved) /\ saved[menu].server = pointed
    BY <1>1 DEF ListInv, RowsStayAligned
  <2>4. menu # 0 =>
            menu \in 1..(Len(saved) + 1) /\ saved'[menu].server = pointed
    <3> SUFFICES ASSUME menu # 0
                 PROVE  /\ menu \in 1..(Len(saved) + 1)
                        /\ saved'[menu].server = pointed
      OBVIOUS
    <3>1. menu \in 1..Len(saved) /\ saved[menu].server = pointed
      BY <2>3
    <3>2. saved'[menu] = saved[menu]
      BY <1>3, <3>1
    <3>3. menu \in 1..(Len(saved) + 1)
      BY <1>1, <3>1
    <3> QED
      BY <3>1, <3>2, <3>3
  <2>5. menu' = menu /\ pointed' = pointed
    BY DEF theMenu
  <2> QED
    BY <1>3, <1>4, <2>2, <2>4, <2>5 DEF RowsStayAligned
<1>12. EveryServiceListed'
  <2> SUFFICES ASSUME NEW s \in services
               PROVE  s \in ToSet(discovered') \/ SiteSaved(saved', s.site)
    BY <1>8 DEF EveryServiceListed
  <2>1. ASSUME NEW i \in DOMAIN saved', saved'[i].server.site = s.site
        PROVE  SiteSaved(saved', s.site)
    BY <2>1 DEF SiteSaved
  <2>2. CASE SiteSaved(saved, s.site)
    <3>1. PICK i \in 1..Len(saved) : saved[i].server.site = s.site
      BY <1>1, <2>2 DEF SiteSaved
    <3>2. saved'[i] = saved[i]
      BY <1>3
    <3>3. i \in DOMAIN saved'
      BY <1>1, <1>3
    <3> QED
      BY <2>1, <3>1, <3>2, <3>3
  <2>3. CASE s.site = info.server.site
    <3>1. Len(saved) + 1 \in DOMAIN saved'
      BY <1>1, <1>3
    <3> QED
      BY <1>3, <2>1, <2>3, <3>1
  <2>4. CASE ~SiteSaved(saved, s.site) /\ s.site # info.server.site
    <3>1. s \in ToSet(discovered)
      BY <2>4 DEF ListInv, EveryServiceListed
    <3> QED
      BY <1>5, <2>4, <3>1
  <2> QED
    BY <2>2, <2>3, <2>4
<1> QED
  BY <1>6, <1>7, <1>9, <1>10, <1>11, <1>12 DEF ListInv, OncePerServer

LEMMA OpenCompletesKeeps ==
    ASSUME ListInv, NEW o \in Opens, OpenCompletes(o) PROVE ListInv'
<1>1. CASE DieInSave
  BY <1>1, DieInSaveKeeps
<1>2. ASSUME NEW k \in Keys, NEW info, info = [opening[o] EXCEPT !.key = k],
             AlreadySaved(info) \/ UpdateSaved(info) \/ AppendSaved(info),
             opening' = [opening EXCEPT ![o] = Idle],
             UNCHANGED <<running, services, theMenu>>
      PROVE  ListInv'
  <2>1. running /\ info \in Infos
    BY <1>2, CompletesUp DEF OpenCompletes
  <2>2. opening' \in [Opens -> Infos \cup {Idle}]
    BY <1>2 DEF ListInv, TypeOK
  <2> QED
    BY <1>2, <2>1, <2>2, AlreadySavedKeeps, UpdateSavedKeeps, AppendSavedKeeps
<1> QED
  BY <1>1, <1>2 DEF OpenCompletes

LEMMA ForgetKeeps == ASSUME ListInv, Forget PROVE ListInv'
<1>1. CASE DieInSave
  BY <1>1, DieInSaveKeeps
<1>2. CASE ~DieInSave
  <2>1. /\ Len(saved) \in Nat /\ DOMAIN saved = 1..Len(saved)
        /\ DOMAIN rows = 1..Len(rows) /\ Len(rows) = Len(saved)
        /\ saved \in Seq(Infos) /\ rows \in Seq(Infos)
        /\ menu \in 1..Len(saved)
        /\ discovered \in Seq(Announced) /\ services \in SUBSET Announced
    BY LenProperties DEF ListInv, TypeOK, RowsStayAligned, Forget
  <2>2. /\ saved' \in Seq(Infos) /\ Len(saved') = Len(saved) - 1
        /\ \A i \in 1..(Len(saved) - 1) :
               saved'[i] = IF i < menu THEN saved[i] ELSE saved[i + 1]
    BY <1>2, <2>1, RemoveAtLeaves DEF Forget
  <2>3. /\ rows' \in Seq(Infos) /\ Len(rows') = Len(saved) - 1
        /\ \A i \in 1..(Len(saved) - 1) :
               rows'[i] = IF i < menu THEN rows[i] ELSE rows[i + 1]
    <3>1. menu \in 1..Len(rows) /\ rows' = RemoveAt(rows, menu)
      BY <1>2, <2>1 DEF Forget
    <3>2. /\ RemoveAt(rows, menu) \in Seq(Infos)
          /\ Len(RemoveAt(rows, menu)) = Len(rows) - 1
          /\ \A i \in 1..(Len(rows) - 1) : RemoveAt(rows, menu)[i] =
                 IF i < menu THEN rows[i] ELSE rows[i + 1]
      BY <2>1, <3>1, RemoveAtLeaves
    <3> QED
      BY <2>1, <3>1, <3>2
  <2>4. /\ DOMAIN saved' = 1..(Len(saved) - 1)
        /\ DOMAIN rows' = 1..(Len(saved) - 1)
    BY <2>2, <2>3, LenProperties
  <2>5. /\ discovered' \in Seq(Announced)
        /\ ToSet(discovered) \subseteq ToSet(discovered')
        /\ \A s \in services :
               ~SiteSaved(saved', s.site) => s \in ToSet(discovered')
        /\ discovered' = <<>> => discovered = <<>>
    <3>1. discovered' = WithDiscovered(saved', discovered, services)
      BY <1>2 DEF Forget, FoundAgain
    <3> QED
      BY <2>1, <3>1, WithDiscoveredLists DEF ListInv
  <2>6. OncePerServer(saved')
    <3> SUFFICES ASSUME NEW i \in 1..(Len(saved) - 1),
                        NEW j \in 1..(Len(saved) - 1),
                        saved'[i].server = saved'[j].server
                 PROVE  i = j
      BY <2>4 DEF OncePerServer
    <3> DEFINE Old(m) == IF m < menu THEN m ELSE m + 1
    <3>1. /\ Old(i) \in DOMAIN saved /\ Old(j) \in DOMAIN saved
          /\ saved'[i] = saved[Old(i)] /\ saved'[j] = saved[Old(j)]
      BY <2>1, <2>2
    <3>2. Old(i) = Old(j)
      BY <3>1 DEF ListInv, OncePerServer
    <3> QED
      BY <2>1, <3>2
  <2>7. /\ UNCHANGED <<running, services, opening, pointed>> /\ menu' = 0
        /\ separator' = (separator \/ discovered' # discovered)
        /\ Save(saved') \/ SaveRaises
    BY <1>2 DEF Forget
  <2>8. /\ disk' \in Seq(Infos) \cup {Absent, Broken}
        /\ unsaved' \in BOOLEAN /\ failures' \in 0..MaxFailures
        /\ OncePerServer(Loaded)' /\ FileIsCurrent'
    BY <2>2, <2>6, <2>7, SavedFits
  <2>9. TypeOK'
    BY <2>2, <2>3, <2>5, <2>7, <2>8 DEF ListInv, TypeOK
  <2>10. DownIsEmpty' /\ IsFiniteSet(services)'
    BY <2>7 DEF ListInv, DownIsEmpty, Forget
  <2>11. RowsStayAligned'
    <3>1. \A i \in 1..(Len(saved) - 1) : rows'[i].server = saved'[i].server
      <4> SUFFICES ASSUME NEW i \in 1..(Len(saved) - 1)
                   PROVE  rows'[i].server = saved'[i].server
        OBVIOUS
      <4>1. \A m \in DOMAIN rows : rows[m].server = saved[m].server
        BY DEF ListInv, RowsStayAligned
      <4>2. i \in DOMAIN rows /\ i + 1 \in DOMAIN rows
        BY <2>1
      <4> QED
        BY <2>2, <2>3, <4>1, <4>2
    <3> QED
      BY <2>2, <2>3, <2>4, <2>7, <3>1 DEF RowsStayAligned
  <2>12. EveryServiceListed'
    BY <2>5, <2>7 DEF ListInv, EveryServiceListed
  <2> QED
    BY <2>6, <2>8, <2>9, <2>10, <2>11, <2>12 DEF ListInv, OncePerServer
<1> QED
  BY <1>1, <1>2

-----------------------------------------------------------------------------
(* The theorems.                                                           *)

LEMMA NextKeeps == ListInv /\ [Next]_vars => ListInv'
<1> SUFFICES ASSUME ListInv, [Next]_vars PROVE ListInv'
  OBVIOUS
<1>1. CASE Start
  BY <1>1, StartKeeps
<1>2. CASE Stop
  BY <1>2, StopKeeps
<1>3. CASE \E s \in Announced : NewService(s)
  BY <1>3, NewServiceKeeps
<1>4. CASE \E o \in Opens : Open(o) \/ OpenFails(o) \/ OpenCompletes(o)
  BY <1>4, OpenKeeps, OpenFailsKeeps, OpenCompletesKeeps
<1>5. CASE (\E i \in DOMAIN rows : PopUp(i)) \/ PopDown
  BY <1>5, MenuKeeps
<1>6. CASE Forget
  BY <1>6, ForgetKeeps
<1>7. CASE UNCHANGED vars
  <2>1. UNCHANGED <<running, services, saved, rows, discovered, separator,
                    opening, menu, pointed, disk, unsaved, failures>>
    BY <1>7 DEF vars
  <2> QED
    BY <2>1, SameFile DEF ListInv, TypeOK, DownIsEmpty, RowsStayAligned,
                          EveryServiceListed
<1> QED
  BY <1>1, <1>2, <1>3, <1>4, <1>5, <1>6, <1>7 DEF Next

LEMMA ListInvHolds == Spec => []ListInv
  BY InitList, NextKeeps, PTL DEF Spec

\* Lists, rows, menu and file keep their types (ServerList).
THEOREM ListTyped == Spec => []TypeOK
<1>1. ListInv => TypeOK
  BY DEF ListInv
<1> QED
  BY <1>1, ListInvHolds, PTL

\* No server is saved twice, for any number of servers and of opens that
\* overlap (_open_complete).
THEOREM NoServerTwice == Spec => []SavedOnce
<1>1. ListInv => SavedOnce
  BY DEF ListInv, OncePerServer, SavedOnce
<1> QED
  BY <1>1, ListInvHolds, PTL

\* A row, and the menu that is up for it, are about the server they were made
\* for, whatever is saved or fails to be saved meanwhile.
THEOREM RowsAreAligned == Spec => []RowsStayAligned
<1>1. ListInv => RowsStayAligned
  BY DEF ListInv
<1> QED
  BY <1>1, ListInvHolds, PTL

\* Every service that was found can be clicked (_add_server and
\* _forget_saved_server).
THEOREM ServicesAreListed == Spec => []EveryServiceListed
<1>1. ListInv => EveryServiceListed
  BY DEF ListInv
<1> QED
  BY <1>1, ListInvHolds, PTL

\* The file holds what is remembered, unless saving it failed.
THEOREM FileHoldsList == Spec => []FileIsCurrent
<1>1. ListInv => FileIsCurrent
  BY DEF ListInv
<1> QED
  BY <1>1, ListInvHolds, PTL

\* A saved server leaves the list only by being forgotten (_open_complete,
\* _save_servers and _forget_saved_server).
THEOREM ForgettingOnly == Spec => OnlyForgetForgets
<1> DEFINE Kept == \A i \in DOMAIN saved : \E j \in DOMAIN saved' :
                       saved[i].server = saved'[j].server
<1>1. ASSUME ListInv, [Next]_vars, running', ~Forget PROVE Kept
  <2>1. CASE UNCHANGED saved
    BY <2>1
  <2>2. CASE Start
    BY <1>1, <2>2 DEF ListInv, DownIsEmpty, Start
  <2>3. ASSUME NEW info, UpdateSaved(info) PROVE Kept
    <3>1. /\ SavedIndex(info) # 0
          /\ saved' = [saved EXCEPT ![SavedIndex(info)] = info]
      BY <2>3 DEF UpdateSaved
    <3>2. saved[SavedIndex(info)].server = info.server
      BY <1>1, <3>1, SavedIndexFinds DEF ListInv, TypeOK
    <3> QED
      BY <3>1, <3>2
  <2>4. ASSUME NEW info, AppendSaved(info) PROVE Kept
    <3>1. saved \in Seq(Infos) /\ saved' = Append(saved, info)
      BY <1>1, <2>4 DEF ListInv, TypeOK, AppendSaved
    <3>2. Len(saved) \in Nat /\ DOMAIN saved = 1..Len(saved)
      BY <3>1, LenProperties
    <3>3. /\ DOMAIN saved' = 1..(Len(saved) + 1)
          /\ \A i \in 1..Len(saved) : saved'[i] = saved[i]
      BY <3>1, <3>2
    <3> QED
      BY <3>2, <3>3
  <2>5. ASSUME NEW o \in Opens, OpenCompletes(o) PROVE Kept
    <3>1. ~DieInSave
      BY <1>1 DEF DieInSave, Down
    <3> QED
      BY <2>1, <2>3, <2>4, <2>5, <3>1 DEF OpenCompletes, AlreadySaved
  <2>6. ~Stop
    BY <1>1 DEF Stop, Down
  <2> QED
    BY <1>1, <2>1, <2>2, <2>5, <2>6
       DEF Next, NewService, Open, OpenFails, PopUp, PopDown, vars
<1>2. ListInv /\ [Next]_vars => [running' /\ ~Forget => Kept]_vars
  BY <1>1
<1> HIDE DEF Kept
<1>3. Spec => [][running' /\ ~Forget => Kept]_vars
  BY <1>2, ListInvHolds, PTL DEF Spec
<1> QED
  BY <1>3 DEF OnlyForgetForgets, Kept

\* A row falls behind what is remembered about its server only when saving it
\* fails (_open_complete).
THEOREM RowsFallBehind == Spec => RowsFallBehindByFailure
<1> DEFINE Fits == rows = saved =>
                       rows' = saved' \/ (saved' # saved /\ unsaved')
<1>1. ASSUME ListInv, [Next]_vars PROVE Fits
  <2>1. CASE UNCHANGED <<saved, rows>>
    BY <2>1
  <2>2. CASE Start \/ Stop \/ DieInSave
    BY <2>2 DEF Start, Stop, DieInSave, Down
  <2>3. ASSUME NEW info, UpdateSaved(info) PROVE Fits
    <3>1. /\ SavedIndex(info) # 0 /\ saved[SavedIndex(info)] # info
          /\ saved' = [saved EXCEPT ![SavedIndex(info)] = info]
          /\ \/ rows' = [rows EXCEPT ![SavedIndex(info)] = info]
             \/ unsaved'
      BY <2>3 DEF UpdateSaved, SaveThen, SaveRaises, RowsUpdated
    <3>2. SavedIndex(info) \in DOMAIN saved
      BY <1>1, <3>1, SavedIndexFinds, LenProperties DEF ListInv, TypeOK
    <3> QED
      BY <1>1, <3>1, <3>2 DEF ListInv, TypeOK
  <2>4. ASSUME NEW info, AppendSaved(info) PROVE Fits
    BY <2>4 DEF AppendSaved
  <2>5. ASSUME NEW o \in Opens, OpenCompletes(o) PROVE Fits
    BY <2>1, <2>2, <2>3, <2>4, <2>5 DEF OpenCompletes, AlreadySaved
  <2>6. CASE Forget
    BY <2>2, <2>6 DEF Forget
  <2> QED
    BY <1>1, <2>1, <2>2, <2>5, <2>6
       DEF Next, NewService, Open, OpenFails, PopUp, PopDown, vars
<1>2. ListInv /\ [Next]_vars => [Fits]_vars
  BY <1>1
<1> HIDE DEF Fits
<1>3. Spec => [][Fits]_vars
  BY <1>2, ListInvHolds, PTL DEF Spec
<1> QED
  BY <1>3 DEF RowsFallBehindByFailure, Fits
=============================================================================
