----------------------------- MODULE MCHelpers -----------------------------
(* The arguments: one of every kind the functions tell apart.              *)
EXTENDS Helpers

Hosts ==
  {NoHost, Address(TRUE, FALSE), Address(FALSE, TRUE), Address(FALSE, FALSE)}
  \cup {Name(labels) : labels \in
          {<<"localhost">>, <<"auth">>, <<"2130706433">>, <<"auth", "example">>,
           <<"localhost", "">>, <<"auth", "cluster", "local">>,
           <<"cluster", "local">>, <<"auth", "local">>}}

SomeUrls == [scheme : {"http", "https", "ftp"}, host : Hosts]

Listed(items) == [type |-> "list", value |-> items]
Wrapped(fields) == [type |-> "dict", value |-> fields]
Mixed == Listed(<<"dict", "str", "dict">>)

Data ==
  {Absent, [type |-> "str", value |-> <<>>], Listed(<<>>), Mixed,
   Wrapped([k \in {"tasks"} |-> Mixed]),
   Wrapped([k \in {"items", "task"} |-> IF k = "items" THEN Mixed ELSE Listed(<<>>)]),
   Wrapped([k \in {"items"} |-> Absent]),
   Wrapped([k \in {"items"} |-> Wrapped([j \in {"task"} |-> Mixed])]),
   Wrapped([k \in {"page"} |-> Mixed])}

SomeResponses ==
  [success : BOOLEAN, error : {None, "", "backend down"}, data : Data]

Plurals == [c \in {"task"} |-> "tasks"]

SomeSetups ==
  [method : {"none", "bearer"} \cup Both, id : {Nil, "id"},
   secret : {Nil, "secret"}, cacheMaxSize : {0, 1}]

URL(hosts, paths, slashes) == [host : hosts, path : paths, slashes : slashes]

SomeDeployments ==
  [serverUrl : URL({"here", "there"}, {<<>>, <<"mcp">>, <<"mcp", "v1">>}, 0..2),
   authUrl : URL({"auth"}, {<<>>}, 0..1), scopes : {Nil, <<>>}, cors : BOOLEAN]

SomePaths ==
  [path : ProtectedResourcePaths \cup AuthorizationServerPaths
          \cup {<<>>, <<"mcp">>}, slashes : 0..2]

ReadOnly == <<"read">>
============================================================================
