---------------------------- MODULE MCServerList ----------------------------
(* Model-checking instances of ServerList: an address that is known under  *)
(* two names, one of them announced, and an announced server elsewhere.    *)
EXTENDS ServerList, TLC

CONSTANTS none, k, o1, o2

Desk == [name |-> "desk", site |-> 1]
Alias == [name |-> "alias", site |-> 1]
Attic == [name |-> "attic", site |-> 2]

AnnouncedServers == {Desk, Attic}
ThreeServers == {Desk, Alias, Attic}
TwoOpens == {o1, o2}
OpensAlike == Permutations(TwoOpens)
OneKey == {none, k}
=============================================================================
