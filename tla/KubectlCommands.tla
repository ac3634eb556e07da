--------------------------- MODULE KubectlCommands --------------------------
(***************************************************************************)
(* The 30 snapshots of the kubectl course, as KubectlSnapshots has them: the*)
(* commands, what they call and what they show.                            *)
(***************************************************************************)
EXTENDS KubectlSnapshots

\* get, with age: the formats it writes, its columns, and the order of its rows.
Get4 == [header |-> TRUE, age |-> "short", formats |-> {}, namespaces |-> FALSE, sorted |-> FALSE]
Get5 == [Get4 EXCEPT !.header = FALSE, !.age = "none"]
Get6 == [Get5 EXCEPT !.header = TRUE, !.age = "timestamp"]
Get7 == [Get6 EXCEPT !.age = "short"]
Get8 == [Get7 EXCEPT !.formats = @ \cup {"json"}]
Get9 == [Get8 EXCEPT !.formats = @ \cup {"yaml"}]
Get10 == [Get9 EXCEPT !.namespaces = TRUE]
Get11 == Get10
Get12 == Get11
Get13 == Get12
Get14 == Get13
Get15 == [Get14 EXCEPT !.formats = @ \cup {"wide"}]
Get16 == Get15
Get17 == Get16
Get18 == [Get17 EXCEPT !.sorted = TRUE]
Get19 == Get18
Get20 == Get19
Get21 == Get20
Get22 == Get21
Get23 == Get22
Get24 == Get23
Get25 == Get24
Get26 == Get25
Get27 == Get26
Get28 == Get27
Get29 == Get28
Get30 == Get29

Get == Before(3, [header |-> FALSE, age |-> "none", formats |-> {}, namespaces |-> FALSE, sorted |-> FALSE]) \o
    <<Get4, Get5, Get6, Get7, Get8, Get9, Get10, Get11, Get12, Get13,
      Get14, Get15, Get16, Get17, Get18, Get19, Get20, Get21, Get22,
      Get23, Get24, Get25, Get26, Get27, Get28, Get29, Get30>>

\* apiResources.
ApiResources12 == <<"DISCOVER">>
ApiResources13 == ApiResources12
ApiResources14 == ApiResources13
ApiResources15 == ApiResources14
ApiResources16 == ApiResources15
ApiResources17 == ApiResources16
ApiResources18 == ApiResources17
ApiResources19 == ApiResources18
ApiResources20 == ApiResources19
ApiResources21 == ApiResources20
ApiResources22 == ApiResources21
ApiResources23 == ApiResources22
ApiResources24 == ApiResources23
ApiResources25 == ApiResources24
ApiResources26 == ApiResources25
ApiResources27 == ApiResources26
ApiResources28 == ApiResources27
ApiResources29 == ApiResources28
ApiResources30 == ApiResources29

ApiResources == Before(11, <<>>) \o
    <<ApiResources12, ApiResources13, ApiResources14, ApiResources15,
      ApiResources16, ApiResources17, ApiResources18, ApiResources19,
      ApiResources20, ApiResources21, ApiResources22, ApiResources23,
      ApiResources24, ApiResources25, ApiResources26, ApiResources27,
      ApiResources28, ApiResources29, ApiResources30>>

\* wideHeaders, wideValues and orNone: the columns of -o wide.
Wide15 == <<"NODE", "IP">>
Wide16 == Wide15
Wide17 == Wide16
Wide18 == Wide17
Wide19 == Wide18
Wide20 == Wide19
Wide21 == Wide20
Wide22 == Wide21
Wide23 == Wide22
Wide24 == Wide23
Wide25 == Wide24
Wide26 == Wide25
Wide27 == Wide26
Wide28 == Wide27
Wide29 == Wide28
Wide30 == Wide29

Wide == Before(14, <<>>) \o
    <<Wide15, Wide16, Wide17, Wide18, Wide19, Wide20, Wide21, Wide22,
      Wide23, Wide24, Wide25, Wide26, Wide27, Wide28, Wide29, Wide30>>

\* streamChanges: after the list, each change.
Stream19 == <<"WATCH">>
Stream20 == Stream19
Stream21 == Stream20
Stream22 == Stream21
Stream23 == Stream22
Stream24 == Stream23
Stream25 == Stream24
Stream26 == Stream25
Stream27 == Stream26
Stream28 == Stream27
Stream29 == Stream28
Stream30 == Stream29

Stream == Before(18, <<>>) \o
    <<Stream19, Stream20, Stream21, Stream22, Stream23, Stream24,
      Stream25, Stream26, Stream27, Stream28, Stream29, Stream30>>

\* deleteObject: the calls of delete.
Delete20 == <<"MAP", "DELETE">>
Delete21 == Delete20
Delete22 == Delete21
Delete23 == Delete22
Delete24 == Delete23
Delete25 == Delete24
Delete26 == Delete25
Delete27 == Delete26
Delete28 == Delete27
Delete29 == Delete28
Delete30 == Delete29

Delete == Before(19, <<>>) \o
    <<Delete20, Delete21, Delete22, Delete23, Delete24, Delete25,
      Delete26, Delete27, Delete28, Delete29, Delete30>>

\* create: the calls of it.
Create21 == <<"POST">>
Create22 == Create21
Create23 == Create22
Create24 == Create23
Create25 == Create24
Create26 == Create25
Create27 == Create26
Create28 == Create27
Create29 == Create28
Create30 == Create29

Create == Before(20, <<>>) \o
    <<Create21, Create22, Create23, Create24, Create25, Create26,
      Create27, Create28, Create29, Create30>>

\* apply: the calls of it, and whether it may be told to take what others own.
Apply22 == [calls |-> <<"APPLY">>, forces |-> FALSE]
Apply23 == [Apply22 EXCEPT !.forces = TRUE]
Apply24 == Apply23
Apply25 == Apply24
Apply26 == Apply25
Apply27 == Apply26
Apply28 == Apply27
Apply29 == Apply28
Apply30 == Apply29

Apply == Before(21, [calls |-> <<>>, forces |-> FALSE]) \o
    <<Apply22, Apply23, Apply24, Apply25, Apply26, Apply27, Apply28,
      Apply29, Apply30>>

\* patch.
Patch24 == <<"MAP", "MERGE">>
Patch25 == Patch24
Patch26 == Patch25
Patch27 == Patch26
Patch28 == Patch27
Patch29 == Patch28
Patch30 == Patch29

Patch == Before(23, <<>>) \o
    <<Patch24, Patch25, Patch26, Patch27, Patch28, Patch29, Patch30>>

\* scale.
Scale25 == <<"MAP", "SCALE">>
Scale26 == Scale25
Scale27 == Scale26
Scale28 == Scale27
Scale29 == Scale28
Scale30 == Scale29

Scale == Before(24, <<>>) \o
    <<Scale25, Scale26, Scale27, Scale28, Scale29, Scale30>>

\* printEvents: the events of describe.
Events27 == <<"EVENTS">>
Events28 == Events27
Events29 == Events28
Events30 == Events29

Events == Before(26, <<>>) \o
    <<Events27, Events28, Events29, Events30>>

\* describe, with joinMap.
Describe26 == <<"MAP", "DESCRIBE">>
Describe27 == Describe26 \o Events27
Describe28 == Describe27
Describe29 == Describe28
Describe30 == Describe29

Describe == Before(25, <<>>) \o
    <<Describe26, Describe27, Describe28, Describe29, Describe30>>

\* logs.
Logs28 == <<"LOG">>
Logs29 == Logs28
Logs30 == Logs29

Logs == Before(27, <<>>) \o
    <<Logs28, Logs29, Logs30>>

\* execute and afterDoubleDash.
Exec29 == <<"EXEC">>
Exec30 == Exec29

Exec == Before(28, <<>>) \o
    <<Exec29, Exec30>>

\* portForward.
PortForward30 == <<"FORWARD">>

PortForward == Before(29, <<>>) \o
    <<PortForward30>>

=============================================================================
