------------------------------ MODULE Helpers ------------------------------
(***************************************************************************)
(* The functions of the library that keep no state, called with every      *)
(* combination of arguments out of given sets: the rules for the           *)
(* introspection URL, the validation of backend responses, the set-up of   *)
(* the verifier, and the discovery documents.  A step is a call; the       *)
(* invariants compare its result with what is promised of it, or with that *)
(* of a related call.                                                      *)
(***************************************************************************)
EXTENDS UrlSafety, ResponseValidation, Discovery

CONSTANTS Urls, Responses, Keys, Setups, Deployments, Paths

\* What the arguments are made of: of a verifier's, that its method is one of
\* those that are documented and that its secret is not its name.
ASSUME HelpersAssumption ==
  /\ Urls \subseteq [scheme : STRING, host : AnyHost]
  /\ \A s \in Setups : /\ s.method \in {"none", "bearer"} \cup Both
                       /\ s.secret # Nil => s.id # s.secret
  /\ \A d \in Deployments : /\ d.serverUrl \in ParsedUrl /\ d.serverUrl # Nil
                            /\ d.authUrl \in ParsedUrl /\ d.cors \in BOOLEAN
  /\ Paths \subseteq [path : Seq(STRING), slashes : Nat]

VARIABLE call       \* the last call: fn, its arguments, its result

NoCall == [fn |-> "none"]

Init == call = NoCall

CallIsSafeUrl ==
  \E url \in Urls, allowed \in BOOLEAN :
    call' = [fn |-> "is_safe_url", url |-> url, allowed |-> allowed,
             result |-> IsSafeUrl(url, allowed)]

CallRequireList ==
  \E response \in Responses, key \in Keys :
    call' = [fn |-> "require_list", response |-> response, key |-> key,
             result |-> RequireList(response, key, "task")]

CallRequireDict ==
  \E response \in Responses :
    call' = [fn |-> "require_dict", response |-> response,
             result |-> RequireDict(response)]

\* A verifier that could be constructed prepares a request.
CallVerifier ==
  \E setup \in Setups :
    /\ Constructs(setup)
    /\ call' = [fn |-> "_apply_client_auth", setup |-> setup,
                result |-> ApplyClientAuth(setup)]

CallValidateResource ==
  \E d \in Deployments, other \in Deployments :
    call' = [fn |-> "_validate_resource", server |-> d.serverUrl,
             audience |-> other.serverUrl,
             result |-> ValidateResource(d.serverUrl, {other.serverUrl})]

CallDiscovery ==
  \E d \in Deployments, method \in {"GET", "OPTIONS", "POST"}, p \in Paths :
    call' = [fn |-> "discovery", deployment |-> d, method |-> method, path |-> p,
             result |-> Answer(d, method, p)]

Call ==
  \/ CallIsSafeUrl \/ CallRequireList \/ CallRequireDict
  \/ CallVerifier \/ CallValidateResource \/ CallDiscovery

Next == IF call = NoCall THEN Call ELSE call' = NoCall

Spec == Init /\ [][Next]_call

Called(fn) == call.fn = fn

----------------------------------------------------------------------------
\* "Use HTTP only for localhost/loopback IPs", for single-label service names
\* and for names in .cluster.local: a secret sent in clear stays inside.
ClearTextStaysInside ==
  Called("is_safe_url") /\ call.url.scheme = "http" /\ call.result =>
    \/ call.allowed /\ call.url.host.kind = "ip" /\ Loopback(call.url.host)
    \/ call.allowed /\ call.url.host = Localhost
    \/ /\ call.url.host # Localhost /\ call.url.host.kind = "name"
       /\ LET labels == call.url.host.labels
              name == SubSeq(labels, 1, Len(labels) - 2)
          IN  \/ Len(labels) = 1 /\ labels[1] \in ServiceLabels
              \/ name # <<>> /\ labels = name \o <<"cluster", "local">>

\* The order of the tests in is_safe_url makes no URL safer by giving up leave
\* for localhost or encryption: what is safe without that leave is safe with it,
\* and what is safe over HTTP is safe over HTTPS.
SafetyMonotone ==
  Called("is_safe_url") /\ call.result =>
    /\ IsSafeUrl(call.url, TRUE)
    /\ IsSafeUrl([call.url EXCEPT !.scheme = "https"], call.allowed)

\* A response that reports a failure is never taken for an empty result,
\* whatever its error text is.
FailureIsReported ==
  (Called("require_list") \/ Called("require_dict")) /\ ~call.response.success =>
    DOMAIN call.result = {"error"}

\* "Try the provided key first": where it leads to a list, its dicts are the
\* result, in order; nothing at all is an empty result only at the top.
ListIsTheOneAskedFor ==
  Called("require_list") /\ call.response.success =>
    LET data == call.response.data
        asked == IF data.type = "dict" /\ Truthy(call.key)
                   /\ call.key \in DOMAIN data.value
                 THEN data.value[call.key] ELSE data
    IN  /\ asked.type = "list" => call.result = [value |-> Dicts(asked.value)]
        /\ asked.type \notin {"list", "dict"} =>
             call.result = IF data = Absent THEN [value |-> <<>>]
                           ELSE [error |-> "expected list"]

\* "__init__ guarantees the required credentials are present for every
\* authenticating method": a constructed verifier never fails to apply them.
\* It sends its secret in one place if its method calls for one, and nowhere
\* else; without one it sends no part of its credentials.
CredentialsPresent ==
  Called("_apply_client_auth") =>
    /\ DOMAIN call.result = {"header", "body"}
    /\ LET sent == call.result.header \o call.result.body
           used == ResolvedMethod(call.setup) # "none"
       IN  /\ Cardinality({i \in DOMAIN sent : sent[i] = call.setup.secret})
                = IF used THEN 1 ELSE 0
           /\ ~used => sent = <<>>

\* The resource that clients are told to ask tokens for is one the verifier
\* of the same server accepts as an audience, however its URL is written.
AdvertisedResourceAccepted ==
  Called("discovery") /\ "resource" \in DOMAIN call.result.document =>
    ValidateResource(call.deployment.serverUrl, {call.result.document.resource})

\* A browser that may read a document may also ask for it: what is answered
\* with CORS headers has its preflight answered with them, and with no field of
\* the document.  With cors that is every path of the authorization server's
\* metadata, with any number of slashes after it; no other path, and no path
\* without cors, is answered so or takes a preflight.
PreflightAnswered ==
  Called("discovery") =>
    LET d == call.deployment
        preflight == Answer(d, "OPTIONS", call.path)
        shared == /\ d.cors
                  /\ NormalizePath(call.path).path \in AuthorizationServerPaths
    IN  /\ call.result.cors =>
             preflight = [status |-> 200, cors |-> TRUE, document |-> NoDocument]
        /\ shared /\ call.method \in {"GET", "OPTIONS"} =>
             call.result.cors /\ call.result.status = 200
        /\ ~shared => ~call.result.cors /\ preflight.status \in {404, 405}

\* A client that follows one document to the next ends up where the others
\* would have sent it: the issuer is the authorization server the resource
\* names, base of its endpoints, and resources and scopes are the same.
DocumentsAgree ==
  Called("discovery") /\ "issuer" \in DOMAIN call.result.document =>
    LET oauth == call.result.document
        resource == ProtectedResourceMetadata(call.deployment)
    IN  /\ resource.authorizationServers = <<oauth.issuer>>
        /\ oauth.issuer.slashes = 0
        /\ \A e \in oauth.endpoints : e[1] = oauth.issuer
        /\ oauth.scopes = resource.scopes
        /\ "resource" \in DOMAIN oauth => oauth.resource = resource.resource
============================================================================
