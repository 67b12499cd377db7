--------------------------- MODULE Helpers_proofs ---------------------------
(* Proofs about the functions without state, for every URL, response,      *)
(* set-up and deployment that they can be called with.                     *)
EXTENDS Helpers, SequenceTheorems, FiniteSetTheorems, TLAPS

\* What the last call was made of: its arguments, and the result that its
\* function has for them.
CallOK ==
  /\ Called("is_safe_url") =>
       \E url \in Urls, allowed \in BOOLEAN :
         call = [fn |-> "is_safe_url", url |-> url, allowed |-> allowed,
                 result |-> IsSafeUrl(url, allowed)]
  /\ Called("require_list") =>
       \E response \in Responses, key \in Keys :
         call = [fn |-> "require_list", response |-> response, key |-> key,
                 result |-> RequireList(response, key, "task")]
  /\ Called("require_dict") =>
       \E response \in Responses :
         call = [fn |-> "require_dict", response |-> response,
                 result |-> RequireDict(response)]
  /\ Called("_apply_client_auth") =>
       \E setup \in Setups :
         /\ Constructs(setup)
         /\ call = [fn |-> "_apply_client_auth", setup |-> setup,
                    result |-> ApplyClientAuth(setup)]
  /\ Called("discovery") =>
       \E d \in Deployments, method \in {"GET", "OPTIONS", "POST"}, p \in Paths :
         call = [fn |-> "discovery", deployment |-> d, method |-> method,
                 path |-> p, result |-> Answer(d, method, p)]

\* A call is one of those, whatever was called before.
LEMMA Calls == Spec => []CallOK
<1>1. Init => CallOK
  BY DEF Init, CallOK, Called, NoCall
<1>2. ASSUME CallOK, [Next]_call PROVE CallOK'
  <2>1. CASE UNCHANGED call
    BY <1>2, <2>1 DEF CallOK, Called
  <2>2. CASE call' = NoCall
    BY <2>2 DEF CallOK, Called, NoCall
  <2>3. CASE CallIsSafeUrl
    BY <2>3 DEF CallIsSafeUrl, CallOK, Called
  <2>4. CASE CallRequireList
    BY <2>4 DEF CallRequireList, CallOK, Called
  <2>5. CASE CallRequireDict
    BY <2>5 DEF CallRequireDict, CallOK, Called
  <2>6. CASE CallVerifier
    BY <2>6 DEF CallVerifier, CallOK, Called
  <2>7. CASE CallValidateResource
    BY <2>7 DEF CallValidateResource, CallOK, Called
  <2>8. CASE CallDiscovery
    BY <2>8 DEF CallDiscovery, CallOK, Called
  <2> QED BY <1>2, <2>1, <2>2, <2>3, <2>4, <2>5, <2>6, <2>7, <2>8 DEF Next, Call
<1> QED BY <1>1, <1>2, PTL DEF Spec

----------------------------------------------------------------------------
(* The introspection URL. *)

\* A sequence with a given end of length two is that end and what precedes it.
LEMMA SuffixOfTwo ==
  ASSUME NEW S, NEW s \in Seq(S), NEW a \in S, NEW b \in S,
         Len(s) > 2, IsSuffix(<<a, b>>, s)
  PROVE  /\ SubSeq(s, 1, Len(s) - 2) # <<>>
         /\ s = SubSeq(s, 1, Len(s) - 2) \o <<a, b>>
<1> DEFINE n == Len(s)
           p == SubSeq(s, 1, n - 2)
           e == <<a, b>>
           re == Reverse(e)
           rs == Reverse(s)
<1>1. n \in Nat /\ n > 2 /\ \A i \in 1..n : s[i] \in S
  BY LenProperties, ElementOfSeq
<1>2. e \in Seq(S) /\ Len(e) = 2 /\ e[1] = a /\ e[2] = b
  OBVIOUS
<1>3. SubSeq(re, 1, 2) = SubSeq(rs, 1, 2)
  <2>1. Len(re) = 2
    BY <1>2 DEF Reverse
  <2> QED BY <2>1 DEF IsSuffix, IsPrefix
<1> HIDE DEF e
<1>4. re[1] = b /\ re[2] = a
  <2>1. re = [i \in 1..2 |-> e[(2 - i) + 1]]
    BY <1>2 DEF Reverse
  <2> HIDE DEF re
  <2> QED BY <1>2, <2>1
<1>5. rs[1] = s[n] /\ rs[2] = s[n - 1]
  <2>1. rs = [i \in 1..n |-> s[(n - i) + 1]]
    BY DEF Reverse
  <2> HIDE DEF rs
  <2> QED BY <1>1, <2>1
<1> HIDE DEF re, rs
<1>6. SubSeq(re, 1, 2)[1] = re[1] /\ SubSeq(re, 1, 2)[2] = re[2]
  <2>1. \A i \in 1..2 : re[i] \in {re[1], re[2]}
    OBVIOUS
  <2>2. \A i \in 1..(2 - 1 + 1) : SubSeq(re, 1, 2)[i] = re[1 + i - 1]
    BY <2>1, SubSeqProperties
  <2> QED BY <2>2
<1>7. SubSeq(rs, 1, 2)[1] = rs[1] /\ SubSeq(rs, 1, 2)[2] = rs[2]
  <2>1. \A i \in 1..2 : rs[i] \in {rs[1], rs[2]}
    OBVIOUS
  <2>2. \A i \in 1..(2 - 1 + 1) : SubSeq(rs, 1, 2)[i] = rs[1 + i - 1]
    BY <2>1, SubSeqProperties
  <2> QED BY <2>2
<1>8. s[n - 1] = a /\ s[n] = b
  BY <1>3, <1>4, <1>5, <1>6, <1>7
<1>9. p \in Seq(S) /\ Len(p) = n - 2 /\ \A i \in 1..(n - 2) : p[i] = s[i]
  <2>1. \A i \in 1..(n - 2) : s[i] \in S
    BY <1>1
  <2>2. /\ p \in Seq(S) /\ Len(p) = IF 1 <= n - 2 THEN n - 2 - 1 + 1 ELSE 0
        /\ \A i \in 1..(n - 2 - 1 + 1) : p[i] = s[1 + i - 1]
    BY <1>1, <2>1, SubSeqProperties
  <2> HIDE DEF p
  <2> QED BY <1>1, <2>2
<1> HIDE DEF p
<1>10. /\ p \o e \in Seq(S) /\ Len(p \o e) = Len(p) + Len(e)
       /\ \A i \in 1..(Len(p) + Len(e)) :
            (p \o e)[i] = IF i <= Len(p) THEN p[i] ELSE e[i - Len(p)]
  BY <1>2, <1>9, ConcatProperties
<1>11. Len(p \o e) = n /\ \A i \in 1..n : (p \o e)[i] = s[i]
  <2> DEFINE q == p \o e
  <2>1. /\ Len(q) = Len(p) + Len(e)
        /\ \A i \in 1..(Len(p) + Len(e)) :
             q[i] = IF i <= Len(p) THEN p[i] ELSE e[i - Len(p)]
    BY <1>10
  <2> HIDE DEF q
  <2>2. Len(q) = n /\ Len(p) = n - 2
    BY <1>1, <1>2, <1>9, <2>1
  <2>3. ASSUME NEW i \in 1..n PROVE q[i] = s[i]
    <3>1. CASE i <= n - 2
      BY <1>1, <1>2, <1>9, <2>1, <2>2, <3>1
    <3>2. CASE i = n - 1
      <4>1. q[i] = e[i - (n - 2)] /\ i - (n - 2) = 1
        BY <1>1, <1>2, <2>1, <2>2, <3>2
      <4> QED BY <1>2, <1>8, <3>2, <4>1
    <3>3. CASE i = n
      <4>1. q[i] = e[i - (n - 2)] /\ i - (n - 2) = 2
        BY <1>1, <1>2, <2>1, <2>2, <3>3
      <4> QED BY <1>2, <1>8, <3>3, <4>1
    <3> QED BY <1>1, <3>1, <3>2, <3>3
  <2> QED BY <2>2, <2>3 DEF q
<1>12. p \o e = s
  BY <1>1, <1>10, <1>11, SeqEqual
<1>13. p # <<>>
  BY <1>1, <1>9, EmptySeq
<1> QED BY <1>12, <1>13 DEF p, e

\* What a call of is_safe_url is made of.
LEMMA UrlCall ==
  ASSUME CallOK, Called("is_safe_url")
  PROVE  /\ call.url \in [scheme : STRING, host : AnyHost]
         /\ call.allowed \in BOOLEAN
         /\ call.result = IsSafeUrl(call.url, call.allowed)
<1>1. PICK url \in Urls, allowed \in BOOLEAN :
        call = [fn |-> "is_safe_url", url |-> url, allowed |-> allowed,
                result |-> IsSafeUrl(url, allowed)]
  BY DEF CallOK
<1> QED BY <1>1, HelpersAssumption

\* A secret sent in clear stays inside, for every URL: the tests on addresses,
\* on localhost, on single labels and on .cluster.local leave no other name.
THEOREM ClearText == Spec => []ClearTextStaysInside
<1>1. ASSUME CallOK PROVE ClearTextStaysInside
  <2> DEFINE host == call.url.host
             labels == host.labels
             name == SubSeq(labels, 1, Len(labels) - 2)
  <2> SUFFICES ASSUME Called("is_safe_url"), call.url.scheme = "http", call.result
               PROVE  \/ call.allowed /\ host.kind = "ip" /\ Loopback(host)
                      \/ call.allowed /\ host = Localhost
                      \/ /\ host # Localhost /\ host.kind = "name"
                         /\ \/ Len(labels) = 1 /\ labels[1] \in ServiceLabels
                            \/ name # <<>> /\ labels = name \o <<"cluster", "local">>
    BY DEF ClearTextStaysInside
  <2>1. host \in AnyHost /\ IsSafeUrl(call.url, call.allowed)
    BY <1>1, UrlCall
  <2>2. CASE host.kind = "ip"
    BY <2>1, <2>2 DEF IsSafeUrl
  <2>3. CASE host = Localhost
    BY <2>1, <2>3 DEF IsSafeUrl, Localhost, Name
  <2>4. CASE host.kind # "ip" /\ host # Localhost
    <3>1. host.kind # "none" /\ Internal(labels)
      BY <2>1, <2>4 DEF IsSafeUrl
    <3>2. host.kind = "name" /\ labels \in Seq(STRING)
      BY <2>1, <2>4, <3>1 DEF AnyHost, NoHost
    <3>3. CASE Len(labels) = 1
      BY <2>4, <3>1, <3>2, <3>3 DEF Internal
    <3>4. CASE Len(labels) # 1
      <4>1. Len(labels) > 2 /\ IsSuffix(<<"cluster", "local">>, labels)
        BY <3>1, <3>4 DEF Internal, InCluster
      <4> DEFINE L == STRING \cup {"cluster", "local"}
      <4>2. labels \in Seq(L) /\ "cluster" \in L /\ "local" \in L
        BY <3>2, SeqMonotonic
      <4> HIDE DEF L, labels
      <4>3. name # <<>> /\ labels = name \o <<"cluster", "local">>
        BY ONLY <4>1, <4>2, SuffixOfTwo
      <4> USE DEF labels
      <4> HIDE DEF name
      <4> QED BY <2>4, <3>2, <4>3
    <3> QED BY <3>3, <3>4
  <2> QED BY <2>2, <2>3, <2>4
<1> QED BY <1>1, Calls, PTL

\* No URL is made safe by giving something up: leave for localhost never turns
\* a safe URL into an unsafe one, and neither does HTTPS.
THEOREM SafeStaysSafe == Spec => []SafetyMonotone
<1>1. ASSUME CallOK PROVE SafetyMonotone
  <2> DEFINE host == call.url.host
             secure == [call.url EXCEPT !.scheme = "https"]
  <2> SUFFICES ASSUME Called("is_safe_url"), call.result
               PROVE  /\ IsSafeUrl(call.url, TRUE)
                      /\ IsSafeUrl(secure, call.allowed)
    BY DEF SafetyMonotone
  <2>1. /\ call.url \in [scheme : STRING, host : AnyHost]
        /\ call.allowed \in BOOLEAN /\ IsSafeUrl(call.url, call.allowed)
    BY <1>1, UrlCall
  <2>2. secure.scheme = "https" /\ secure.host = host
    BY <2>1
  <2>3. IsSafeUrl(call.url, TRUE)
    BY <2>1 DEF IsSafeUrl, Localhost, Name
  <2> HIDE DEF secure
  <2>4. IsSafeUrl(secure, call.allowed)
    BY <2>1, <2>2 DEF IsSafeUrl, Localhost, Name
  <2> QED BY <2>3, <2>4
<1> QED BY <1>1, Calls, PTL

----------------------------------------------------------------------------
(* The validation of responses. *)

\* The text of a failure is never an empty one, whatever the backend says.
LEMMA FailureTruthy == \A error : Truthy(Failure(error))
BY ValidationAssumption DEF Truthy, Failure

\* A response that reports a failure becomes an error for the tool, from
\* require_list as from require_dict, even if its error text is empty.
THEOREM FailuresReported == Spec => []FailureIsReported
<1>1. ASSUME CallOK PROVE FailureIsReported
  <2>1. ASSUME NEW response, NEW key, ~response.success
        PROVE  DOMAIN RequireList(response, key, "task") = {"error"}
    BY <2>1, FailureTruthy DEF RequireList, ValidateListResponse
  <2>2. ASSUME NEW response, ~response.success
        PROVE  DOMAIN RequireDict(response) = {"error"}
    BY <2>2, FailureTruthy DEF RequireDict, ValidateDictResponse
  <2>3. CASE Called("require_list")
    <3>1. PICK response \in Responses, key \in Keys :
            call = [fn |-> "require_list", response |-> response, key |-> key,
                    result |-> RequireList(response, key, "task")]
      BY <1>1, <2>3 DEF CallOK
    <3> QED BY <2>1, <3>1 DEF FailureIsReported
  <2>4. CASE Called("require_dict")
    <3>1. PICK response \in Responses :
            call = [fn |-> "require_dict", response |-> response,
                    result |-> RequireDict(response)]
      BY <1>1, <2>4 DEF CallOK
    <3> QED BY <2>2, <3>1 DEF FailureIsReported
  <2> QED BY <2>3, <2>4 DEF FailureIsReported
<1> QED BY <1>1, Calls, PTL

\* The key that was asked for comes first.
LEMMA KeyFirst ==
  ASSUME NEW data, NEW key, NEW context, Truthy(key), key \in DOMAIN data.value
  PROVE  KeyIn(data, key, context) = key
<1> DEFINE keys == Candidates(key, context)
           found == {i \in DOMAIN keys : Truthy(keys[i]) /\ keys[i] \in DOMAIN data.value}
<1>1. DOMAIN keys = 1..3 /\ keys[1] = key
  BY DEF Candidates
<1> HIDE DEF keys
<1>2. 1 \in found /\ found \subseteq 1..3
  BY <1>1
<1> HIDE DEF found
<1>3. Min(found) = 1
  <2>1. \A i \in found : i \in Int /\ 1 <= i
    BY <1>2
  <2>2. \E i \in found : \A j \in found : i <= j
    BY <1>2, <2>1
  <2>3. Min(found) \in found /\ \A j \in found : Min(found) <= j
    BY <2>2 DEF Min
  <2>4. Min(found) \in 1..3 /\ Min(found) <= 1
    BY <1>2, <2>3
  <2> QED BY <2>4
<1> QED BY <1>1, <1>2, <1>3 DEF KeyIn, keys, found

\* What a tool gets is the list under the key it asked for, whatever other
\* candidates the wrapper has, and an empty one only for an absent response.
THEOREM RightList == Spec => []ListIsTheOneAskedFor
<1>1. ASSUME CallOK PROVE ListIsTheOneAskedFor
  <2> SUFFICES ASSUME Called("require_list"), call.response.success
               PROVE  ListIsTheOneAskedFor
    BY DEF ListIsTheOneAskedFor
  <2>1. PICK response \in Responses, key \in Keys :
          call = [fn |-> "require_list", response |-> response, key |-> key,
                  result |-> RequireList(response, key, "task")]
    BY <1>1 DEF CallOK
  <2> DEFINE data == response.data
             usable == data.type = "dict" /\ Truthy(key) /\ key \in DOMAIN data.value
             asked == IF usable THEN data.value[key] ELSE data
             result == RequireList(response, key, "task")
  <2>2. response.success
    BY <2>1
  <2>3. data.type = "dict" => data # Absent
    BY DEF Absent
  <2>4. ~Truthy(None) /\ Truthy("expected list")
    BY ValidationAssumption DEF Truthy
  <2>5. usable \/ data.type # "dict" => result =
          IF data = Absent THEN [value |-> <<>>]
          ELSE IF asked.type = "list" THEN [value |-> Dicts(asked.value)]
          ELSE [error |-> "expected list"]
    <3>1. CASE data.type # "dict"
      BY <2>2, <2>4, <3>1 DEF RequireList, ValidateListResponse, ItemsOf
    <3>2. CASE usable
      <4>1. KeyIn(data, key, "task") = key /\ key # None
        BY <3>2, KeyFirst DEF Truthy
      <4>2. ValidateListResponse(response, key, "task") = ItemsOf(data.value[key])
        BY <2>2, <2>3, <3>2, <4>1 DEF ValidateListResponse
      <4>3. asked = data.value[key]
        BY <3>2
      <4>4. ItemsOf(asked) = IF asked.type = "list" THEN <<Dicts(asked.value), None>>
                             ELSE <<<<>>, "expected list">>
        BY DEF ItemsOf
      <4> HIDE DEF asked
      <4>5. result = IF asked.type = "list" THEN [value |-> Dicts(asked.value)]
                     ELSE [error |-> "expected list"]
        <5> DEFINE pair == ValidateListResponse(response, key, "task")
        <5>1. result = IF Truthy(pair[2]) THEN [error |-> pair[2]]
                       ELSE [value |-> pair[1]]
          BY DEF RequireList
        <5>2. pair = IF asked.type = "list" THEN <<Dicts(asked.value), None>>
                     ELSE <<<<>>, "expected list">>
          BY <4>2, <4>3, <4>4
        <5> HIDE DEF pair, result
        <5>3. CASE asked.type = "list"
          <6>1. pair[1] = Dicts(asked.value) /\ pair[2] = None
            BY <5>2, <5>3
          <6> QED BY <2>4, <5>1, <5>3, <6>1
        <5>4. CASE asked.type # "list"
          <6>1. pair[2] = "expected list"
            BY <5>2, <5>4
          <6> QED BY <2>4, <5>1, <5>4, <6>1
        <5> QED BY <5>3, <5>4
      <4> HIDE DEF result
      <4> QED BY <2>3, <3>2, <4>5
    <3> QED BY <3>1, <3>2
  <2>6. Absent.type # "list"
    BY DEF Absent
  <2>7. asked.type = "list" => result = [value |-> Dicts(asked.value)]
    BY <2>3, <2>5, <2>6
  <2>8. asked.type \notin {"list", "dict"} =>
          result = IF data = Absent THEN [value |-> <<>>]
                   ELSE [error |-> "expected list"]
    BY <2>5
  <2>9. call.response.data = data /\ call.key = key /\ call.result = result
    BY <2>1
  <2> HIDE DEF result
  <2> QED BY <2>7, <2>8, <2>9 DEF ListIsTheOneAskedFor
<1> QED BY <1>1, Calls, PTL

----------------------------------------------------------------------------
(* The set-up of the verifier. *)

\* Of two different things in a sequence each occurs once.
LEMMA OneOfTwo ==
  ASSUME NEW a, NEW b, a # b, NEW s, s \in {<<b>>, <<a, b>>}
  PROVE  Cardinality({i \in DOMAIN s : s[i] = b}) = 1
<1> DEFINE P == {i \in DOMAIN s : s[i] = b}
<1>1. CASE s = <<b>>
  <2>1. DOMAIN s = {1} /\ s[1] = b
    BY <1>1
  <2>2. P = {1}
    BY <2>1
  <2> QED BY <2>2, FS_Singleton
<1>2. CASE s = <<a, b>>
  <2>1. DOMAIN s = {1, 2} /\ s[1] = a /\ s[2] = b
    BY <1>2
  <2>2. P = {2}
    BY <2>1
  <2> QED BY <2>2, FS_Singleton
<1> QED BY <1>1, <1>2

\* A verifier that could be constructed finds its credentials when it uses
\* them, and sends its secret once or, without a method, nothing.
THEOREM CredentialsFound == Spec => []CredentialsPresent
<1>1. ASSUME CallOK PROVE CredentialsPresent
  <2> SUFFICES ASSUME Called("_apply_client_auth") PROVE CredentialsPresent
    BY DEF CredentialsPresent
  <2>1. PICK setup \in Setups :
          /\ Constructs(setup)
          /\ call = [fn |-> "_apply_client_auth", setup |-> setup,
                     result |-> ApplyClientAuth(setup)]
    BY <1>1 DEF CallOK
  <2> DEFINE method == ResolvedMethod(setup)
             result == ApplyClientAuth(setup)
             sent == result.header \o result.body
             places == {i \in DOMAIN sent : sent[i] = setup.secret}
  <2>2. /\ method \in {"none", "bearer", "client_secret_basic", "client_secret_post"}
        /\ setup.secret # Nil => setup.id # setup.secret
        /\ method # "none" => setup.secret # Nil
        /\ method \in Both => setup.id # Nil
    <3>1. /\ setup.method \in {"none", "bearer"} \cup Both
          /\ setup.secret # Nil => setup.id # setup.secret
      <4>1. \A x \in Setups : /\ x.method \in {"none", "bearer"} \cup Both
                              /\ x.secret # Nil => x.id # x.secret
        BY HelpersAssumption
      <4> QED BY <4>1
    <3>2. method = IF setup.secret = Nil /\ setup.method # "bearer" THEN "none"
                   ELSE setup.method
      BY DEF ResolvedMethod
    <3>3. /\ method \in Both => setup.id # Nil /\ setup.secret # Nil
          /\ method = "bearer" => setup.secret # Nil
      BY <2>1 DEF Constructs
    <3> HIDE DEF method
    <3> QED BY <3>1, <3>2, <3>3 DEF Both
  <2>3. CASE method = "none"
    <3>1. result = [header |-> <<>>, body |-> <<>>]
      BY <2>3 DEF ApplyClientAuth
    <3> HIDE DEF result
    <3>2. DOMAIN result = {"header", "body"} /\ sent = <<>>
      BY <3>1
    <3>3. places = {}
      BY <3>2
    <3>4. Cardinality(places) = 0
      BY <3>3, FS_EmptySet
    <3> QED BY <2>1, <2>3, <3>2, <3>4 DEF CredentialsPresent, result
  <2>4. CASE method # "none"
    <3>1. result = [header |-> CASE method = "bearer" -> <<setup.secret>>
                                 [] method = "client_secret_basic" ->
                                      <<setup.id, setup.secret>>
                                 [] OTHER -> <<>>,
                    body |-> IF method = "client_secret_post"
                               THEN <<setup.id, setup.secret>> ELSE <<>>]
      BY <2>2, <2>4 DEF ApplyClientAuth, Both
    <3> HIDE DEF result
    <3>2. DOMAIN result = {"header", "body"}
      BY <3>1
    <3> HIDE DEF method
    <3>3. sent \in {<<setup.secret>>, <<setup.id, setup.secret>>}
      <4>1. /\ <<>> \o <<setup.id, setup.secret>> = <<setup.id, setup.secret>>
            /\ <<setup.id, setup.secret>> \o <<>> = <<setup.id, setup.secret>>
            /\ <<setup.secret>> \o <<>> = <<setup.secret>>
        OBVIOUS
      <4>2. /\ result.header = CASE method = "bearer" -> <<setup.secret>>
                                 [] method = "client_secret_basic" ->
                                      <<setup.id, setup.secret>>
                                 [] OTHER -> <<>>
            /\ result.body = IF method = "client_secret_post"
                               THEN <<setup.id, setup.secret>> ELSE <<>>
        BY <3>1
      <4>3. CASE method = "bearer"
        BY <4>1, <4>2, <4>3
      <4>4. CASE method = "client_secret_basic"
        BY <4>1, <4>2, <4>4
      <4>5. CASE method = "client_secret_post"
        BY <4>1, <4>2, <4>5
      <4> QED BY <2>2, <2>4, <4>3, <4>4, <4>5
    <3> HIDE DEF sent
    <3>4. Cardinality(places) = 1
      BY <2>2, <2>4, <3>3, OneOfTwo
    <3> QED BY <2>1, <2>4, <3>2, <3>4 DEF CredentialsPresent, result, method, sent
  <2> QED BY <2>3, <2>4
<1> QED BY <1>1, Calls, PTL

----------------------------------------------------------------------------
(* The discovery documents. *)

\* What a call of the application is made of.
LEMMA DiscoveryCall ==
  ASSUME CallOK, Called("discovery")
  PROVE  /\ call.deployment.serverUrl \in ParsedUrl
         /\ call.deployment.serverUrl # Nil
         /\ call.deployment.authUrl \in ParsedUrl /\ call.deployment.cors \in BOOLEAN
         /\ call.method \in {"GET", "OPTIONS", "POST"}
         /\ call.path \in [path : Seq(STRING), slashes : Nat]
         /\ call.result = Answer(call.deployment, call.method, call.path)
<1>1. PICK d \in Deployments, method \in {"GET", "OPTIONS", "POST"}, p \in Paths :
        call = [fn |-> "discovery", deployment |-> d, method |-> method,
                path |-> p, result |-> Answer(d, method, p)]
  BY DEF CallOK
<1> QED BY <1>1, HelpersAssumption

\* The answer is one of the two kinds of document, or none.
LEMMA Documents ==
  ASSUME NEW d, NEW method, NEW p
  PROVE  LET document == Answer(d, method, p).document
         IN  \/ document = NoDocument
             \/ document = ProtectedResourceMetadata(d)
             \/ \E path : document = OAuthMetadata(d, path)
<1> DEFINE inner == NormalizePath(p)
           route == IF inner.slashes = 0 THEN inner.path ELSE <<>>
<1>1. CASE route \in ProtectedResourcePaths
  BY <1>1 DEF Answer
<1>2. CASE route \notin ProtectedResourcePaths /\ route \in AuthorizationServerPaths
  BY <1>2 DEF Answer
<1>3. CASE route \notin ProtectedResourcePaths /\ route \notin AuthorizationServerPaths
  BY <1>3 DEF Answer
<1> QED BY <1>1, <1>2, <1>3

\* The fields of the authorization server's document, with and without the
\* resource.
LEMMA OAuthFields ==
  ASSUME NEW d, NEW path
  PROVE  LET m == OAuthMetadata(d, path)
         IN  /\ {"issuer", "scopes", "endpoints"} \subseteq DOMAIN m
             /\ m.issuer = Stripped(d.authUrl) /\ m.scopes = Scopes(d)
             /\ \A e \in m.endpoints : e[1] = Stripped(d.authUrl)
             /\ "resource" \in DOMAIN m => m.resource = Stripped(d.serverUrl)
<1> DEFINE base == Stripped(d.authUrl)
           names == {"authorize", "token", "introspect", "register", "revoke"}
           x == [issuer |-> base, scopes |-> Scopes(d),
                 endpoints |-> {base} \X names,
                 resource |-> Stripped(d.serverUrl)]
           m == OAuthMetadata(d, path)
<1>1. \A e \in {base} \X names : e[1] = base
  OBVIOUS
<1>2. m = x \/ m = Restrict(x, DOMAIN x \ {"resource"})
  BY DEF OAuthMetadata
<1>3. /\ DOMAIN x = {"issuer", "scopes", "endpoints", "resource"}
      /\ x.issuer = base /\ x.scopes = Scopes(d)
      /\ x.endpoints = {base} \X names /\ x.resource = Stripped(d.serverUrl)
  OBVIOUS
<1> HIDE DEF x, m
<1>4. /\ {"issuer", "scopes", "endpoints"} \subseteq DOMAIN m
      /\ m.issuer = x.issuer /\ m.scopes = x.scopes /\ m.endpoints = x.endpoints
      /\ "resource" \in DOMAIN m => m.resource = x.resource
  BY <1>2, <1>3 DEF Restrict
<1> QED BY <1>1, <1>3, <1>4 DEF m

\* Stripping drops the slashes after a URL and nothing else.
LEMMA StrippedFields ==
  ASSUME NEW url \in ParsedUrl
  PROVE  /\ Stripped(url).host = url.host /\ Stripped(url).path = url.path
         /\ Stripped(url).slashes = 0
BY DEF Stripped, ParsedUrl

\* A server's own stripped URL is an audience that its verifier accepts.
LEMMA OwnAudience ==
  ASSUME NEW url \in ParsedUrl, url # Nil
  PROVE  ValidateResource(url, {Stripped(url)})
<1> DEFINE u == Stripped(url)
<1>1. u.host = url.host /\ u.path = url.path /\ u.slashes = 0
  BY StrippedFields
<1>2. url.path \in Seq(STRING) /\ url.slashes \in Nat
  BY DEF ParsedUrl
<1> HIDE DEF u
<1>3. IsPrefix(u.path, url.path)
  BY <1>1, <1>2 DEF IsPrefix
<1>4. CheckResourceAllowed(url, u)
  BY <1>1, <1>2, <1>3 DEF CheckResourceAllowed
<1> QED BY <1>4 DEF ValidateResource, IsValidResource, u

\* A token asked for with the resource that a server advertises is for that
\* server, with whatever path and slashes its URL is configured.
THEOREM ResourceAccepted == Spec => []AdvertisedResourceAccepted
<1>1. ASSUME CallOK PROVE AdvertisedResourceAccepted
  <2> DEFINE d == call.deployment
             document == call.result.document
  <2> SUFFICES ASSUME Called("discovery"), "resource" \in DOMAIN document
               PROVE  ValidateResource(d.serverUrl, {document.resource})
    BY DEF AdvertisedResourceAccepted
  <2>1. /\ d.serverUrl \in ParsedUrl /\ d.serverUrl # Nil
        /\ call.result = Answer(d, call.method, call.path)
    BY <1>1, DiscoveryCall
  <2>2. document # NoDocument
    BY DEF NoDocument
  <2>3. document.resource = Stripped(d.serverUrl)
    <3>1. CASE document = ProtectedResourceMetadata(d)
      BY <3>1 DEF ProtectedResourceMetadata
    <3>2. CASE \E path : document = OAuthMetadata(d, path)
      BY <3>2, OAuthFields
    <3> QED BY <2>1, <2>2, <3>1, <3>2, Documents
  <2> QED BY <2>1, <2>3, OwnAudience
<1> QED BY <1>1, Calls, PTL

\* The documents lead a client to one issuer, one resource and one list of
\* scopes, whichever of them it reads first.
THEOREM SameDocuments == Spec => []DocumentsAgree
<1>1. ASSUME CallOK PROVE DocumentsAgree
  <2> DEFINE d == call.deployment
             oauth == call.result.document
             resource == ProtectedResourceMetadata(d)
  <2> SUFFICES ASSUME Called("discovery"), "issuer" \in DOMAIN oauth
               PROVE  /\ resource.authorizationServers = <<oauth.issuer>>
                      /\ oauth.issuer.slashes = 0
                      /\ \A e \in oauth.endpoints : e[1] = oauth.issuer
                      /\ oauth.scopes = resource.scopes
                      /\ "resource" \in DOMAIN oauth =>
                           oauth.resource = resource.resource
    BY DEF DocumentsAgree
  <2>1. /\ d.authUrl \in ParsedUrl
        /\ call.result = Answer(d, call.method, call.path)
    BY <1>1, DiscoveryCall
  <2>2. oauth # NoDocument /\ oauth # resource
    BY DEF NoDocument, ProtectedResourceMetadata
  <2>3. PICK path : oauth = OAuthMetadata(d, path)
    BY <2>1, <2>2, Documents
  <2>4. /\ oauth.issuer = Stripped(d.authUrl) /\ oauth.scopes = Scopes(d)
        /\ \A e \in oauth.endpoints : e[1] = Stripped(d.authUrl)
        /\ "resource" \in DOMAIN oauth => oauth.resource = Stripped(d.serverUrl)
    BY <2>3, OAuthFields
  <2>5. /\ resource.authorizationServers = <<Stripped(d.authUrl)>>
        /\ resource.scopes = Scopes(d) /\ resource.resource = Stripped(d.serverUrl)
    BY DEF ProtectedResourceMetadata
  <2>6. Stripped(d.authUrl).slashes = 0
    BY <2>1, StrippedFields
  <2> HIDE DEF oauth, resource
  <2> QED BY <2>4, <2>5, <2>6
<1> QED BY <1>1, Calls, PTL

\* What is answered with CORS headers has its preflight answered so.  With
\* cors these are the paths of the authorization server's metadata, after any
\* number of slashes, and no other path takes a preflight.
THEOREM PreflightsAnswered == Spec => []PreflightAnswered
<1>1. ASSUME CallOK, Called("discovery") PROVE PreflightAnswered
  <2> DEFINE d == call.deployment
             inner == NormalizePath(call.path)
             route == IF inner.slashes = 0 THEN inner.path ELSE <<>>
             Ans(m) == Answer(d, m, call.path)
             Missed(status) ==
               [status |-> status, cors |-> FALSE, document |-> NoDocument]
             shared == d.cors /\ inner.path \in AuthorizationServerPaths
  <2>1. /\ call.path \in [path : Seq(STRING), slashes : Nat] /\ d.cors \in BOOLEAN
        /\ call.result = Ans(call.method) /\ call.method \in {"GET", "OPTIONS", "POST"}
    BY <1>1, DiscoveryCall
  <2>2. ASSUME inner.path \in AuthorizationServerPaths PROVE route = inner.path
    <3>1. \A p \in AuthorizationServerPaths : 1 \in DOMAIN p
      BY DEF AuthorizationServerPaths, ScopedPath
    <3>2. 1 \notin DOMAIN <<>>
      OBVIOUS
    <3>3. inner.path # <<>>
      BY <2>2, <3>1, <3>2
    <3>4. inner.slashes = 0
      BY <2>1, <3>3 DEF NormalizePath, Root
    <3> QED BY <3>4
  <2>3. \A p \in AuthorizationServerPaths : p \notin ProtectedResourcePaths /\ p # <<>>
    BY DEF AuthorizationServerPaths, ProtectedResourcePaths, ScopedPath, WellKnown
  <2>4. route \in AuthorizationServerPaths <=> inner.path \in AuthorizationServerPaths
    BY <2>2, <2>3
  <2>5. ASSUME NEW m \in {"GET", "OPTIONS", "POST"}
        PROVE  Ans(m) = CASE route \in ProtectedResourcePaths ->
                               IF m # "GET" THEN Missed(405)
                               ELSE [status |-> 200, cors |-> FALSE,
                                     document |-> ProtectedResourceMetadata(d)]
                          [] route \in AuthorizationServerPaths ->
                               IF m \notin MetadataMethods(d) THEN Missed(405)
                               ELSE [status |-> 200, cors |-> d.cors,
                                     document |-> IF m = "OPTIONS" THEN NoDocument
                                                  ELSE OAuthMetadata(d, route)]
                          [] OTHER -> Missed(404)
    BY DEF Answer
  <2> HIDE DEF inner, route, Ans
  <2>6. ASSUME NEW m \in {"GET", "OPTIONS"}, shared
        PROVE  /\ Ans(m).status = 200 /\ Ans(m).cors
               /\ m = "OPTIONS" =>
                    Ans(m) = [status |-> 200, cors |-> TRUE, document |-> NoDocument]
    <3>1. /\ route \in AuthorizationServerPaths
          /\ route \notin ProtectedResourcePaths /\ d.cors = TRUE
      BY <2>1, <2>3, <2>4, <2>6
    <3> DEFINE document == IF m = "OPTIONS" THEN NoDocument ELSE OAuthMetadata(d, route)
    <3>2. m \in MetadataMethods(d)
      <4>1. m = "GET" \/ m = "OPTIONS"
        OBVIOUS
      <4> QED BY <3>1, <4>1 DEF MetadataMethods
    <3>3. Ans(m) = IF m \notin MetadataMethods(d) THEN Missed(405)
                   ELSE [status |-> 200, cors |-> d.cors, document |-> document]
      BY <2>5, <3>1
    <3>4. m = "OPTIONS" => document = NoDocument
      OBVIOUS
    <3> HIDE DEF document
    <3>5. Ans(m) = [status |-> 200, cors |-> TRUE, document |-> document]
      <4> HIDE DEF Missed
      <4> QED BY <3>1, <3>2, <3>3
    <3>6. m = "OPTIONS" =>
            Ans(m) = [status |-> 200, cors |-> TRUE, document |-> NoDocument]
      BY <3>4, <3>5
    <3>7. Ans(m).status = 200 /\ Ans(m).cors
      BY <3>5
    <3> QED BY <3>6, <3>7
  <2>7. ASSUME NEW m \in {"GET", "OPTIONS", "POST"}, m = "POST" \/ ~shared
        PROVE  ~Ans(m).cors /\ (m = "OPTIONS" => Ans(m).status \in {404, 405})
    <3>1. CASE route \in ProtectedResourcePaths
      <4> DEFINE document == ProtectedResourceMetadata(d)
      <4>1. Ans(m) = IF m # "GET" THEN Missed(405)
                     ELSE [status |-> 200, cors |-> FALSE, document |-> document]
        BY <2>5, <2>3, <3>1
      <4> HIDE DEF document
      <4> QED BY <4>1
    <3>2. CASE route \in AuthorizationServerPaths /\ route \notin ProtectedResourcePaths
      <4>1. m = "POST" \/ d.cors = FALSE
        BY <2>1, <2>4, <2>7, <3>2
      <4>2. m = "POST" \/ m = "OPTIONS" => m \notin MetadataMethods(d)
        BY <4>1 DEF MetadataMethods
      <4>3. Ans(m) = IF m \notin MetadataMethods(d) THEN Missed(405)
                     ELSE [status |-> 200, cors |-> d.cors,
                           document |-> IF m = "OPTIONS" THEN NoDocument
                                        ELSE OAuthMetadata(d, route)]
        BY <2>5, <3>2
      <4> QED BY <4>1, <4>2, <4>3
    <3>3. CASE route \notin ProtectedResourcePaths \cup AuthorizationServerPaths
      BY <2>5, <3>3
    <3> QED BY <3>1, <3>2, <3>3
  <2>8. call.result.cors =>
          Ans("OPTIONS") = [status |-> 200, cors |-> TRUE, document |-> NoDocument]
    BY <2>1, <2>6, <2>7
  <2>9. shared /\ call.method \in {"GET", "OPTIONS"} =>
          call.result.cors /\ call.result.status = 200
    BY <2>1, <2>6
  <2>10. ~shared => ~call.result.cors /\ Ans("OPTIONS").status \in {404, 405}
    BY <2>1, <2>7
  <2> HIDE DEF shared
  <2> QED BY <2>8, <2>9, <2>10 DEF PreflightAnswered, Ans, shared, inner
<1> QED BY <1>1, Calls, PTL DEF PreflightAnswered
=============================================================================
