----------------------------- MODULE Discovery -----------------------------
(* What the server publishes about itself (oauth_discovery.py), behind the  *)
(* path normalisation of middleware.py.  A deployment is the arguments of   *)
(* register_oauth_discovery_endpoints; routing and the answers to methods a *)
(* route does not list are Starlette's.  A path is [path, slashes] as in a  *)
(* URL; the root is the one whose single slash stays.                       *)
EXTENDS VerifierSetup

CONSTANTS
  DefaultScopes     \* DEFAULT_SCOPES

WellKnown == ".well-known"

ProtectedResourcePaths ==
  {<<WellKnown, "oauth-protected-resource">>,
   <<"mcp", WellKnown, "oauth-protected-resource">>}

\* The one route whose document names the resource.
ScopedPath == <<WellKnown, "oauth-authorization-server", "mcp">>

AuthorizationServerPaths ==
  {<<WellKnown, "oauth-authorization-server">>,
   <<WellKnown, "openid-configuration">>, ScopedPath}

Root == [path |-> <<>>, slashes |-> 1]

NormalizePath(p) == IF p = Root THEN p ELSE [p EXCEPT !.slashes = 0]

\* Mutant: the URL is published as it was given.
Unstripped(url) == url

Stripped(url) == [url EXCEPT !.slashes = 0]

Scopes(d) == IF d.scopes = Nil THEN DefaultScopes ELSE d.scopes

ProtectedResourceMetadata(d) ==
  [resource |-> Stripped(d.serverUrl),
   authorizationServers |-> <<Stripped(d.authUrl)>>,
   scopes |-> Scopes(d)]

\* An endpoint is the base and the name that follows its slash.  One path is
\* given the resource as an extra field.
OAuthMetadata(d, path) ==
  LET base == Stripped(d.authUrl)
      extended == [issuer |-> base, scopes |-> Scopes(d),
                   endpoints |-> {base} \X {"authorize", "token", "introspect",
                                            "register", "revoke"},
                   resource |-> Stripped(d.serverUrl)]
  IN  IF path = ScopedPath THEN extended
      ELSE Restrict(extended, DOMAIN extended \ {"resource"})

\* Mutant: preflights are left to the framework.
MetadataMethodsGet(d) == {"GET"}

MetadataMethods(d) == IF d.cors THEN {"GET", "OPTIONS"} ELSE {"GET"}

NoDocument == <<>>

\* The answer of the application to a request for p.
Answer(d, method, p) ==
  LET inner == NormalizePath(p)
      route == IF inner.slashes = 0 THEN inner.path ELSE <<>>
      Error(status) == [status |-> status, cors |-> FALSE, document |-> NoDocument]
  IN  CASE route \in ProtectedResourcePaths ->
             IF method # "GET" THEN Error(405)
             ELSE [status |-> 200, cors |-> FALSE,
                   document |-> ProtectedResourceMetadata(d)]
        [] route \in AuthorizationServerPaths ->
             IF method \notin MetadataMethods(d) THEN Error(405)
             ELSE [status |-> 200, cors |-> d.cors,
                   document |-> IF method = "OPTIONS" THEN NoDocument
                                ELSE OAuthMetadata(d, route)]
        [] OTHER -> Error(404)
============================================================================
