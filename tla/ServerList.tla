----------------------------- MODULE ServerList -----------------------------
(***************************************************************************)
(* The list of servers of the GUI (ServerList in src/utmremote/gui.py):    *)
(* the saved servers, their rows and their file, the servers the zeroconf  *)
(* browser discovered, and the opens under way, of which several may be.   *)
(*                                                                         *)
(* GTK runs one handler at a time, so a handler is one action, except that *)
(* the process may die in the middle of a save.  A server is known by its  *)
(* name and its site (address and port); "key" stands for the fingerprint  *)
(* and the password remembered with it.                                    *)
(***************************************************************************)
EXTENDS Naturals, Sequences, FiniteSets, SequencesExt

CONSTANTS Servers,     \* the [name, site] of servers
          Announced,   \* the servers zeroconf may announce
          Keys,        \* what may be remembered about a server
          NoKey,       \* nothing is remembered
          Idle,        \* an open that is not under way
          Absent,      \* there is no servers.json
          Broken,      \* servers.json holds no list
          Opens,       \* opens that may be under way at a time
          MaxFailures, \* bound on the saves that fail or are cut off
          MaxListed    \* bound on the discovered entries when one is forgotten

ASSUME ServersAreThere == Servers # {}
ASSUME AnnouncedAreServers == Announced \subseteq Servers
ASSUME NoKeyIsAKey == NoKey \in Keys
ASSUME IdleIsNoInfo == Idle \notin [server : Servers, key : Keys]
ASSUME FileStatesDiffer == /\ Absent # Broken
                           /\ {Absent, Broken}
                                  \cap Seq([server : Servers, key : Keys]) = {}
ASSUME BoundsAreNats == MaxFailures \in Nat /\ MaxListed \in Nat

Infos == [server : Servers, key : Keys]

VARIABLES
    running,     \* the GUI is up
    services,    \* ServiceBrowser.services
    saved,       \* saved_servers
    rows,        \* the info each of _saved_servers_entries opens
    discovered,  \* discovered_servers, with _discovered_servers_entries
    separator,   \* the "Discovered" row is there
    opening,     \* the info each open under way was started with
    menu,        \* the "Forget" menu: the index it was made with, or 0
    pointed,     \* history: the server whose row was clicked for the menu
    disk,        \* servers.json
    unsaved,     \* history: the latest save of this run of the GUI failed
    failures     \* saves that failed or were cut off

vars ==
    <<running, services, saved, rows, discovered, separator, opening, menu,
      pointed, disk, unsaved, failures>>

theMenu == <<menu, pointed>>

TypeOK ==
    /\ running \in BOOLEAN
    /\ services \subseteq Announced
    /\ saved \in Seq(Infos)
    /\ rows \in Seq(Infos)
    /\ discovered \in Seq(Announced)
    /\ separator \in BOOLEAN
    /\ opening \in [Opens -> Infos \cup {Idle}]
    /\ menu \in Nat
    /\ pointed \in Servers
    /\ disk \in Seq(Infos) \cup {Absent, Broken}
    /\ unsaved \in BOOLEAN
    /\ failures \in 0..MaxFailures

Init ==
    /\ running = FALSE
    /\ services = {}
    /\ saved = <<>>
    /\ rows = <<>>
    /\ discovered = <<>>
    /\ separator = FALSE
    /\ opening = [o \in Opens |-> Idle]
    /\ menu = 0
    /\ pointed = CHOOSE s \in Servers : TRUE
    /\ disk = Absent
    /\ unsaved = FALSE
    /\ failures = 0

-----------------------------------------------------------------------------
(* Starting and stopping.                                                  *)

\* Mutant: what cannot be read is taken for the list.
LoadedAnyway == disk

\* A file that cannot be read counts as no file.
Loaded == IF disk \in {Absent, Broken} THEN <<>> ELSE disk

\* The list is loaded before the browser has found anything.
Start ==
    /\ ~running
    /\ running' = TRUE
    /\ saved' = Loaded
    /\ rows' = Loaded
    /\ UNCHANGED <<services, discovered, separator, opening, theMenu, disk, unsaved,
                   failures>>

\* The process is gone, with all that is not in the file.
Down ==
    /\ running' = FALSE
    /\ services' = {}
    /\ saved' = <<>>
    /\ rows' = <<>>
    /\ discovered' = <<>>
    /\ separator' = FALSE
    /\ opening' = [o \in Opens |-> Idle]
    /\ menu' = 0
    /\ unsaved' = FALSE
    /\ UNCHANGED pointed

Stop ==
    /\ running
    /\ Down
    /\ UNCHANGED <<disk, failures>>

\* Death between truncating the file and writing it.
DieInSave ==
    /\ failures < MaxFailures
    /\ failures' = failures + 1
    /\ Down
    /\ disk' = Broken

-----------------------------------------------------------------------------
(* The two lists.                                                          *)

SiteSaved(list, site) == \E i \in DOMAIN list : list[i].server.site = site

\* _add_server(True, ...) for each of the servers, in some order.
WithDiscovered(list, found, servers) ==
    found \o SetToSeq({s \in servers : ~SiteSaved(list, s.site)})

\* _add_server(False, ...): the first discovered entry of the site goes.
WithoutSite(found, site) == RemoveFirstMatch(found, LAMBDA s : s.site = site)

\* ... and with the last of them the separator.
SeparatorAfter(found) == separator /\ (found # discovered => found # <<>>)

\* The browser resolved a service it had not seen: new_service.
NewService(s) ==
    /\ running
    /\ s \notin services
    /\ services' = services \cup {s}
    /\ discovered' = WithDiscovered(saved, discovered, {s})
    /\ separator' = (separator \/ discovered' # discovered)
    /\ UNCHANGED <<running, saved, rows, opening, theMenu, disk, unsaved, failures>>

-----------------------------------------------------------------------------
(* Saving.                                                                 *)

\* Mutant: the file keeps what it held.
FileOfNothing(list) == disk

\* What a save of the list leaves in the file.
FileOf(list) == list

Save(list) ==
    /\ disk' = FileOf(list)
    /\ unsaved' = FALSE
    /\ UNCHANGED failures

\* The file cannot be opened, or no longer be written once it is truncated.
SaveRaises ==
    /\ failures < MaxFailures
    /\ failures' = failures + 1
    /\ disk' \in {disk, Broken}
    /\ unsaved' = TRUE

\* The save succeeds, and what the handler does next is done; or it raises
\* and that is not done.
SaveThen(rowsAfter) ==
    \/ Save(saved') /\ rows' = rowsAfter
    \/ SaveRaises /\ UNCHANGED rows

\* Mutant: a saved server is recognised by its site only.
SavedAtSite(info) ==
    SelectInSeq(saved, LAMBDA ss : ss.server.site = info.server.site)

\* Mutant: a saved server is recognised by all that is remembered.
SavedExactly(info) == SelectInSeq(saved, LAMBDA ss : ss = info)

\* The index of the saved server that info is about, or 0.
SavedIndex(info) == SelectInSeq(saved, LAMBDA ss : ss.server = info.server)

\* Mutant: the row is not told what it opens now.
RowsNotUpdated(i, info) == rows

RowsUpdated(i, info) == [rows EXCEPT ![i] = info]

AlreadySaved(info) ==
    /\ SavedIndex(info) # 0
    /\ saved[SavedIndex(info)] = info
    /\ UNCHANGED <<saved, rows, discovered, separator, disk, unsaved, failures>>

UpdateSaved(info) ==
    /\ SavedIndex(info) # 0
    /\ saved[SavedIndex(info)] # info
    /\ saved' = [saved EXCEPT ![SavedIndex(info)] = info]
    /\ SaveThen(RowsUpdated(SavedIndex(info), info))
    /\ UNCHANGED <<discovered, separator>>

\* Mutant: the row is made after the save, if that does not raise.
AppendSavedLate(info) ==
    /\ SavedIndex(info) = 0
    /\ saved' = Append(saved, info)
    /\ SaveThen(Append(rows, info))
    /\ discovered' = WithoutSite(discovered, info.server.site)
    /\ separator' = SeparatorAfter(discovered')

\* The row is there before the file is written.
AppendSaved(info) ==
    /\ SavedIndex(info) = 0
    /\ saved' = Append(saved, info)
    /\ rows' = Append(rows, info)
    /\ discovered' = WithoutSite(discovered, info.server.site)
    /\ separator' = SeparatorAfter(discovered')
    /\ Save(saved') \/ SaveRaises

-----------------------------------------------------------------------------
(* What the user does.                                                     *)

\* What a click may open: a row, a discovered entry, a server typed in.
Clickable ==
    ToSet(rows) \cup [server : ToSet(discovered), key : {NoKey}]
                \cup [server : Servers, key : {NoKey}]

Open(o) ==
    /\ running
    /\ menu = 0
    /\ opening[o] = Idle
    /\ \E info \in Clickable : opening' = [opening EXCEPT ![o] = info]
    /\ UNCHANGED <<running, services, saved, rows, discovered, separator, theMenu,
                   disk, unsaved, failures>>

\* The open ends with an error, or the user turns a dialog down.
OpenFails(o) ==
    /\ opening[o] # Idle
    /\ opening' = [opening EXCEPT ![o] = Idle]
    /\ UNCHANGED <<running, services, saved, rows, discovered, separator, theMenu,
                   disk, unsaved, failures>>

\* _open_complete, with whatever was accepted in the dialogs; the row that
\* was clicked may have changed or gone in the meantime.
OpenCompletes(o) ==
    /\ opening[o] # Idle
    /\ \/ /\ \E k \in Keys :
                LET info == [opening[o] EXCEPT !.key = k]
                IN  AlreadySaved(info) \/ UpdateSaved(info) \/ AppendSaved(info)
          /\ opening' = [opening EXCEPT ![o] = Idle]
          /\ UNCHANGED <<running, services, theMenu>>
       \/ DieInSave

\* Mutant: forgetting a server does not look for it among the services.
FoundAgainNot(list) == discovered

\* All services are offered to the list again, those it shows included.
FoundAgain(list) == WithDiscovered(list, discovered, services)

\* _saved_server_menu, for the row that is under the pointer.  The menu has
\* the grab, but what is queued for the GTK thread goes on.
PopUp(i) ==
    /\ running
    /\ menu = 0
    /\ i \in DOMAIN rows
    /\ menu' = i
    /\ pointed' = rows[i].server
    /\ UNCHANGED <<running, services, saved, rows, discovered, separator, opening,
                   disk, unsaved, failures>>

PopDown ==
    /\ menu # 0
    /\ menu' = 0
    /\ UNCHANGED <<running, services, saved, rows, discovered, separator, opening,
                   pointed, disk, unsaved, failures>>

Forget ==
    /\ menu # 0
    /\ Len(discovered) <= MaxListed
    /\ \/ /\ saved' = RemoveAt(saved, menu)
          /\ rows' = RemoveAt(rows, menu)
          /\ discovered' = FoundAgain(saved')
          /\ separator' = (separator \/ discovered' # discovered)
          /\ Save(saved') \/ SaveRaises
          /\ menu' = 0
          /\ UNCHANGED <<running, services, opening, pointed>>
       \/ DieInSave

Next ==
    \/ Start
    \/ Stop
    \/ \E s \in Announced : NewService(s)
    \/ \E o \in Opens : Open(o) \/ OpenFails(o) \/ OpenCompletes(o)
    \/ \E i \in DOMAIN rows : PopUp(i)
    \/ PopDown
    \/ Forget

Spec == Init /\ [][Next]_vars

-----------------------------------------------------------------------------
(* Properties.                                                             *)

\* No server is saved twice, however opens of the same row, of a discovered
\* entry and of a server typed in overlap.
SavedOnce ==
    \A i, j \in DOMAIN saved : saved[i].server = saved[j].server => i = j

\* A row of a saved server opens that very server, also after a failed save,
\* and what its menu forgets is the server whose row was clicked, whatever
\* opens have completed while the menu was up.
RowsStayAligned ==
    /\ Len(rows) = Len(saved)
    /\ \A i \in DOMAIN rows : rows[i].server = saved[i].server
    /\ menu # 0 => menu \in DOMAIN saved /\ saved[menu].server = pointed

\* A row opens with what is remembered about its server; it falls behind
\* only when the save of a change fails, for then it is not told.
RowsFallBehindByFailure ==
    [][rows = saved => rows' = saved' \/ (saved' # saved /\ unsaved')]_vars

\* Every announced server can be clicked: it is listed as discovered unless
\* a saved server has its address; and there is a heading above them if, and
\* only if, one is.
EveryServiceListed ==
    /\ \A s \in services : s \in ToSet(discovered) \/ SiteSaved(saved, s.site)
    /\ separator <=> discovered # <<>>

\* What a restart would load is what is remembered, unless a save failed and
\* none has succeeded since.
FileIsCurrent ==
    running => unsaved \/ saved = Loaded

\* A saved server leaves the list only by being forgotten, not by an open
\* of another server with the same address, nor by a save that fails.
OnlyForgetForgets ==
    [][running' /\ ~Forget =>
           \A i \in DOMAIN saved : \E j \in DOMAIN saved' :
               saved[i].server = saved'[j].server]_vars
=============================================================================
