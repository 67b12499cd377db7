------------------------ MODULE VerboseLogging_proofs ------------------------
(* Proofs about the logging middleware, for every number of requests, every *)
(* body and response, in chunks of every size, and every interleaving.      *)
EXTENDS VerboseLogging, SequenceTheorems, FiniteSetTheorems, TLAPS

----------------------------------------------------------------------------
(* Part 1.  What is logged of a response that is a 400. *)

Message == [type : {"start", "body"}, value : Nat]

\* Where the response has a body that is not empty.
Shown(out) == {i \in DOMAIN out : out[i].type = "body" /\ out[i].value > 0}

\* Those up to i.
UpTo(out, i) == {j \in Shown(out) : j <= i}

\* The log has these bodies, in their order.
Matches(logged, out) ==
  /\ Len(logged) = Cardinality(Shown(out))
  /\ \A i \in Shown(out) : logged[Cardinality(UpTo(out, i))] = out[i].value

\* There are finitely many, and each has its place among them.
LEMMA ShownFinite ==
  ASSUME NEW out \in Seq(Message)
  PROVE  /\ IsFiniteSet(Shown(out)) /\ Shown(out) \subseteq 1..Len(out)
         /\ Cardinality(Shown(out)) \in Nat
         /\ \A i \in Shown(out) :
              Cardinality(UpTo(out, i)) \in 1..Cardinality(Shown(out))
<1>1. Len(out) \in Nat /\ DOMAIN out = 1..Len(out)
  BY LenProperties
<1>2. IsFiniteSet(1..Len(out))
  BY <1>1, FS_Interval
<1>3. Shown(out) \subseteq 1..Len(out)
  BY <1>1 DEF Shown
<1>4. IsFiniteSet(Shown(out)) /\ Cardinality(Shown(out)) \in Nat
  BY <1>2, <1>3, FS_Subset, FS_CardinalityType
<1>5. ASSUME NEW i \in Shown(out)
      PROVE  Cardinality(UpTo(out, i)) \in 1..Cardinality(Shown(out))
  <2>1. UpTo(out, i) \in SUBSET Shown(out) /\ i \in UpTo(out, i)
    BY <1>3 DEF UpTo
  <2>2. /\ IsFiniteSet(UpTo(out, i))
        /\ Cardinality(UpTo(out, i)) <= Cardinality(Shown(out))
    BY <1>4, <2>1, FS_Subset
  <2>3. Cardinality(UpTo(out, i)) \in Nat /\ Cardinality(UpTo(out, i)) # 0
    BY <2>1, <2>2, FS_CardinalityType, FS_EmptySet
  <2> QED BY <1>4, <2>2, <2>3
<1> QED BY <1>3, <1>4, <1>5

\* A message is appended: the earlier ones keep their places.
LEMMA ShownAppend ==
  ASSUME NEW out \in Seq(Message), NEW m \in Message
  PROVE  LET more == Append(out, m)
             n == Len(out) + 1
         IN  /\ Shown(more) = Shown(out) \cup
                  (IF m.type = "body" /\ m.value > 0 THEN {n} ELSE {})
             /\ n \notin Shown(out)
             /\ \A i \in Shown(out) :
                  more[i] = out[i] /\ UpTo(more, i) = UpTo(out, i)
<1> DEFINE more == Append(out, m)
           n == Len(out) + 1
<1>1. /\ n \in Nat \ {0} /\ Len(out) \in Nat
      /\ DOMAIN out = 1..Len(out) /\ DOMAIN more = 1..n
      /\ (\A i \in 1..Len(out) : more[i] = out[i]) /\ more[n] = m
  BY AppendProperties, LenProperties
<1>2. Shown(out) \subseteq 1..Len(out)
  BY ShownFinite
<1> HIDE DEF more
<1>3. n \notin Shown(out)
  BY <1>1, <1>2
<1>4. Shown(more) = Shown(out) \cup
        (IF m.type = "body" /\ m.value > 0 THEN {n} ELSE {})
  BY <1>1 DEF Shown
<1>5. ASSUME NEW i \in Shown(out)
      PROVE  more[i] = out[i] /\ UpTo(more, i) = UpTo(out, i)
  <2>1. i \in 1..Len(out) /\ \A j \in Shown(out) : j \in 1..Len(out)
    BY <1>2
  <2>2. ~(n <= i)
    BY <1>1, <2>1
  <2> QED BY <1>1, <1>4, <2>1, <2>2 DEF UpTo
<1> QED BY <1>3, <1>4, <1>5 DEF more

\* A body that is not empty is sent and logged.
LEMMA MatchesAppend ==
  ASSUME NEW out \in Seq(Message), NEW logged \in Seq(Nat),
         NEW m \in Message, m.type = "body", m.value > 0, Matches(logged, out)
  PROVE  Matches(Append(logged, m.value), Append(out, m))
<1> DEFINE more == Append(out, m)
           longer == Append(logged, m.value)
           n == Len(out) + 1
           k == Cardinality(Shown(out))
<1>1. /\ Shown(more) = Shown(out) \cup {n} /\ n \notin Shown(out)
      /\ \A i \in Shown(out) : more[i] = out[i] /\ UpTo(more, i) = UpTo(out, i)
  BY ShownAppend
<1>2. /\ IsFiniteSet(Shown(out)) /\ Shown(out) \subseteq 1..Len(out) /\ k \in Nat
      /\ \A i \in Shown(out) : Cardinality(UpTo(out, i)) \in 1..k
  BY ShownFinite
<1>3. Len(out) \in Nat /\ more[n] = m /\ Len(logged) = k /\ m.value \in Nat
  BY AppendProperties, LenProperties DEF Matches, Message
<1>4. /\ Len(longer) = k + 1 /\ longer[k + 1] = m.value
      /\ \A i \in 1..k : longer[i] = logged[i]
  BY <1>3, AppendProperties
<1>5. Cardinality(Shown(more)) = k + 1
  BY <1>1, <1>2, FS_AddElement
<1>6. UpTo(more, n) = Shown(more)
  <2>1. \A i \in Shown(more) : i <= n
    BY <1>1, <1>2, <1>3
  <2> QED BY <2>1 DEF UpTo
<1> HIDE DEF more, longer
<1>7. ASSUME NEW i \in Shown(more)
      PROVE  longer[Cardinality(UpTo(more, i))] = more[i].value
  <2>1. CASE i \in Shown(out)
    BY <1>1, <1>2, <1>4, <2>1 DEF Matches
  <2>2. CASE i = n
    BY <1>3, <1>4, <1>5, <1>6, <2>2
  <2> QED BY <1>1, <2>1, <2>2
<1>8. Matches(longer, more)
  BY <1>4, <1>5, <1>7 DEF Matches
<1> QED BY <1>8 DEF longer, more

\* Any other message is sent and not logged.
LEMMA MatchesSkip ==
  ASSUME NEW out \in Seq(Message), NEW logged, NEW m \in Message,
         ~(m.type = "body" /\ m.value > 0), Matches(logged, out)
  PROVE  Matches(logged, Append(out, m))
<1>1. /\ Shown(Append(out, m)) = Shown(out)
      /\ \A i \in Shown(out) : /\ Append(out, m)[i] = out[i]
                               /\ UpTo(Append(out, m), i) = UpTo(out, i)
  BY ShownAppend
<1> HIDE DEF Shown
<1> QED BY <1>1 DEF Matches

----------------------------------------------------------------------------
(* Part 2.  Each request is logged by its own messages. *)

Chunk == [size : Nat, more : BOOLEAN]

\* What the middleware can see of one request.
Exchanged ==
  [pc : {"new", "open", "failed"}, post : BOOLEAN, body : Seq(Chunk),
   got : Seq(Chunk), sent : Seq(Message), responseStatus : {None, 200, 400},
   bodyLogged : BOOLEAN]

Previews == [shown : Nat, truncated : BOOLEAN]

Logged == [previews : Seq(Previews), errors : Seq(Nat)]

\* Of the body as much has been received as the application asked for, and
\* only its last chunk says that no more is to come.
Reads(c) ==
  /\ Len(c.got) <= Len(c.body)
  /\ \A i \in 1..Len(c.got) : c.got[i] = c.body[i]
  /\ \A i \in 1..Len(c.body) : c.body[i].more <=> i < Len(c.body)

\* A request that has not been opened has left no trace, one that has failed
\* sends nothing, and the first message that is sent is the start.
Begins(c, l) ==
  /\ c.pc = "new" => c = New /\ l = Nothing
  /\ c.sent # <<>> => c.pc = "open" /\ c.sent[1].type = "start"

\* The closure variables tell what they are for: whether the first chunk has
\* been logged, and the status of this response.
Remembers(on, c) ==
  /\ c.bodyLogged = (on /\ c.post /\ c.got # <<>>)
  /\ on /\ c.sent # <<>> => c.responseStatus = c.sent[1].value

\* The log has the preview of the first chunk, and the bodies of a 400.
Tells(on, c, l) ==
  /\ l.previews = IF on /\ c.post /\ c.got # <<>> /\ c.got[1].size > 0
                  THEN <<Preview(c.got[1])>> ELSE <<>>
  /\ IF on /\ c.sent # <<>> /\ c.sent[1].value = 400
     THEN Matches(l.errors, c.sent) ELSE l.errors = <<>>

Own(on, c, l) ==
  Reads(c) /\ Begins(c, l) /\ Remembers(on, c) /\ Tells(on, c, l)

Typed ==
  /\ enabled \in BOOLEAN
  /\ conns \in [Requests -> Exchanged]
  /\ log \in [Requests -> Logged]

IInv == Typed /\ \A r \in Requests : Own(enabled, conns[r], log[r])

\* A slot in which no request has been opened is in order.
LEMMA NewOwn ==
  ASSUME NEW on
  PROVE  New \in Exchanged /\ Nothing \in Logged /\ Own(on, New, Nothing)
<1>1. New \in Exchanged /\ Nothing \in Logged
  BY DEF New, Nothing, Exchanged, Logged
<1>2. /\ New.pc = "new" /\ New.post = FALSE /\ New.bodyLogged = FALSE
      /\ New.got = <<>> /\ New.body = <<>> /\ New.sent = <<>>
      /\ Nothing.previews = <<>> /\ Nothing.errors = <<>> /\ Len(<<>>) = 0
  BY DEF New, Nothing
<1>3. Reads(New)
  BY <1>2 DEF Reads
<1>4. Begins(New, Nothing)
  BY <1>2 DEF Begins
<1>5. Remembers(on, New) /\ Tells(on, New, Nothing)
  BY <1>2 DEF Remembers, Tells
<1> QED BY <1>1, <1>3, <1>4, <1>5 DEF Own

\* Initially no request has been opened.
LEMMA InitIInv == Init => IInv
<1> SUFFICES ASSUME Init PROVE IInv
  OBVIOUS
<1>1. \A r \in Requests : conns[r] = New /\ log[r] = Nothing
  BY DEF Init
<1>2. New \in Exchanged /\ Nothing \in Logged /\ Own(enabled, New, Nothing)
  BY NewOwn
<1> QED BY <1>1, <1>2 DEF Init, IInv, Typed

\* A step of one request is judged by that request: the middleware keeps
\* nothing for all of them.
LEMMA OneRequest ==
  ASSUME IInv, NEW r \in Requests, UNCHANGED enabled,
         conns' \in [Requests -> Exchanged], log' \in [Requests -> Logged],
         \A q \in Requests \ {r} : conns'[q] = conns[q] /\ log'[q] = log[q],
         Own(enabled, conns'[r], log'[r])
  PROVE  IInv'
<1>1. Typed'
  BY DEF IInv, Typed
<1>2. ASSUME NEW q \in Requests PROVE Own(enabled, conns'[q], log'[q])
  <2>1. CASE q = r
    BY <2>1
  <2>2. CASE q # r
    BY <2>2 DEF IInv
  <2> QED BY <2>1, <2>2
<1> QED BY <1>1, <1>2 DEF IInv

\* What the invariant says of one request.
LEMMA OfRequest ==
  ASSUME IInv, NEW r \in Requests
  PROVE  /\ conns[r] \in Exchanged /\ log[r] \in Logged /\ enabled \in BOOLEAN
         /\ Reads(conns[r]) /\ Begins(conns[r], log[r])
         /\ Remembers(enabled, conns[r]) /\ Tells(enabled, conns[r], log[r])
BY DEF IInv, Typed, Own

\* A request arrives.
LEMMA OpenStep ==
  ASSUME IInv, NEW r \in Requests, NEW method, NEW body \in Bodies,
         Open(r, method, body)
  PROVE  IInv'
<1> DEFINE c == conns[r]
           d == conns'[r]
<1>1. /\ c \in Exchanged /\ log[r] \in Logged /\ enabled \in BOOLEAN
      /\ Begins(c, log[r])
  BY OfRequest
<1>2. c = New /\ log[r] = Nothing
  BY <1>1 DEF Open, Begins
<1>3. /\ body \in Seq(Chunk)
      /\ \A i \in 1..Len(body) : body[i].more <=> i < Len(body)
  BY LoggingAssumption, LenProperties DEF Chunk
<1>4. /\ conns' \in [Requests -> Exchanged]
      /\ d = [c EXCEPT !.pc = "open", !.body = body, !.post = (method = "POST")]
      /\ \A q \in Requests \ {r} : conns'[q] = conns[q]
  <2>1. conns \in [Requests -> Exchanged]
    BY DEF IInv, Typed
  <2>2. \A q \in Requests \ {r} : conns'[q] = conns[q]
    BY <2>1 DEF Open
  <2>3. d = [c EXCEPT !.pc = "open", !.body = body, !.post = (method = "POST")]
    BY <2>1 DEF Open
  <2>4. d \in Exchanged
    <3> DEFINE posts == method = "POST"
    <3>1. posts \in BOOLEAN /\ d = [c EXCEPT !.pc = "open", !.body = body, !.post = posts]
      BY <2>3
    <3> HIDE DEF posts, c, d
    <3> QED BY <1>1, <1>3, <3>1 DEF Exchanged
  <2>5. conns' = [conns EXCEPT ![r] = d]
    BY <2>1 DEF Open
  <2> HIDE DEF d
  <2> QED BY <2>1, <2>2, <2>3, <2>4, <2>5
<1>5. log' = log /\ enabled' = enabled
  BY DEF Open
<1>6. /\ c.got = <<>> /\ c.sent = <<>> /\ c.bodyLogged = FALSE
      /\ log[r].previews = <<>> /\ log[r].errors = <<>>
  BY <1>2 DEF New, Nothing
<1>7. /\ d.pc = "open" /\ d.body = body /\ d.got = <<>> /\ d.sent = <<>>
      /\ d.bodyLogged = FALSE
  BY <1>1, <1>4, <1>6 DEF Exchanged
<1>8. Len(<<>>) = 0 /\ Len(body) \in Nat
  BY <1>3, LenProperties
<1> HIDE DEF d
<1>9. Reads(d) /\ Begins(d, log[r])
  BY <1>3, <1>7, <1>8 DEF Reads, Begins
<1>10. Remembers(enabled, d) /\ Tells(enabled, d, log[r])
  BY <1>6, <1>7 DEF Remembers, Tells
<1> QED BY <1>4, <1>5, <1>9, <1>10, OneRequest DEF IInv, Typed, Own, d

\* What the two failures leave behind: no message and no log of one.
LEMMA FailStep ==
  ASSUME IInv, NEW r \in Requests, FailOpen(r) \/ FailResponse(r)
  PROVE  IInv'
<1> DEFINE c == conns[r]
           d == conns'[r]
<1>1. /\ c \in Exchanged /\ enabled \in BOOLEAN /\ Reads(c) /\ Begins(c, log[r])
      /\ Remembers(enabled, c) /\ Tells(enabled, c, log[r])
      /\ conns \in [Requests -> Exchanged]
  BY OfRequest DEF IInv, Typed
<1>2. c.sent = <<>>
  BY <1>1 DEF FailOpen, FailResponse, Begins, New
<1>3. /\ \A q \in Requests \ {r} : conns'[q] = conns[q]
      /\ conns' = [conns EXCEPT ![r] = d]
      /\ \/ d = [c EXCEPT !.pc = "failed"]
         \/ d = [c EXCEPT !.pc = "failed", !.responseStatus = 400]
      /\ log' = log /\ enabled' = enabled
  BY <1>1 DEF FailOpen, FailResponse
<1> HIDE DEF c, d
<1>4. d \in Exchanged /\ d.pc = "failed" /\ d.post = c.post /\ d.body = c.body
      /\ d.got = c.got /\ d.sent = c.sent /\ d.bodyLogged = c.bodyLogged
  <2>1. CASE d = [c EXCEPT !.pc = "failed"]
    BY <1>1, <2>1 DEF Exchanged
  <2>2. CASE d = [c EXCEPT !.pc = "failed", !.responseStatus = 400]
    <3>1. c \in Exchanged
      BY <1>1
    <3>2. /\ c.post \in BOOLEAN /\ c.body \in Seq(Chunk) /\ c.got \in Seq(Chunk)
          /\ c.sent \in Seq(Message) /\ c.bodyLogged \in BOOLEAN
      BY <3>1 DEF Exchanged
    <3>3. d = [pc |-> "failed", post |-> c.post, body |-> c.body, got |-> c.got,
               sent |-> c.sent, responseStatus |-> 400, bodyLogged |-> c.bodyLogged]
      BY <2>2, <3>1 DEF Exchanged
    <3> QED BY <3>2, <3>3 DEF Exchanged
  <2> QED BY <1>3, <2>1, <2>2
<1>5. conns' \in [Requests -> Exchanged]
  BY <1>1, <1>3, <1>4
<1>6. Own(enabled, d, log[r])
  BY <1>1, <1>2, <1>4 DEF Own, Reads, Begins, Remembers, Tells
<1> QED BY <1>3, <1>5, <1>6, OneRequest DEF IInv, Typed, d

\* A chunk is received; the first is previewed, the others are not.
LEMMA ReceiveStep ==
  ASSUME IInv, NEW r \in Requests, Receive(r)
  PROVE  IInv'
<1> DEFINE c == conns[r]
           d == conns'[r]
           l == log[r]
           m == log'[r]
           n == Len(c.got)
           chunk == c.body[n + 1]
           first == enabled /\ c.post /\ ~c.bodyLogged
<1>1. /\ c \in Exchanged /\ l \in Logged /\ enabled \in BOOLEAN
      /\ Reads(c) /\ Begins(c, l) /\ Remembers(enabled, c) /\ Tells(enabled, c, l)
      /\ conns \in [Requests -> Exchanged] /\ log \in [Requests -> Logged]
  BY OfRequest DEF IInv, Typed
<1>2. /\ c.pc = "open" /\ n < Len(c.body)
      /\ \A q \in Requests \ {r} : conns'[q] = conns[q] /\ log'[q] = log[q]
      /\ conns' = [conns EXCEPT ![r] = d] /\ log' = [log EXCEPT ![r] = m]
      /\ d = [c EXCEPT !.got = Append(c.got, chunk),
                       !.bodyLogged = c.bodyLogged \/ first]
      /\ m = IF first /\ chunk.size > 0
               THEN [l EXCEPT !.previews = Append(l.previews, Preview(chunk))]
             ELSE l
      /\ enabled' = enabled
  BY <1>1 DEF Receive, Pending, BodyLogged
<1>3. /\ c.got \in Seq(Chunk) /\ c.body \in Seq(Chunk) /\ n \in Nat
      /\ chunk \in Chunk
  <2>1. c.got \in Seq(Chunk) /\ c.body \in Seq(Chunk)
    BY <1>1 DEF Exchanged
  <2>2. n \in Nat /\ Len(c.body) \in Nat
    BY <2>1, LenProperties
  <2>3. n + 1 \in 1..Len(c.body)
    BY <1>2, <2>2
  <2> QED BY <2>1, <2>2, <2>3, ElementOfSeq
<1> DEFINE more == Append(c.got, chunk)
<1>4. /\ more \in Seq(Chunk) /\ Len(more) = n + 1 /\ more # <<>>
      /\ more[n + 1] = chunk /\ \A i \in 1..n : more[i] = c.got[i]
  BY <1>3, AppendProperties
<1>5. Preview(chunk) \in Previews
  BY <1>3, LoggingAssumption DEF Preview, Previews, Chunk
<1> HIDE DEF c, d, l, m, chunk, more
<1>6. /\ d \in Exchanged /\ d.pc = c.pc /\ d.post = c.post /\ d.body = c.body
      /\ d.got = more /\ d.sent = c.sent /\ d.responseStatus = c.responseStatus
  <2> DEFINE flag == c.bodyLogged \/ first
  <2>1. c.bodyLogged \in BOOLEAN
    BY <1>1 DEF Exchanged
  <2>2. flag \in BOOLEAN
    BY <2>1
  <2>3. d = [c EXCEPT !.got = more, !.bodyLogged = flag]
    BY <1>2 DEF more
  <2> HIDE DEF flag
  <2> QED BY <1>1, <1>4, <2>2, <2>3 DEF Exchanged
<1>7. m \in Logged /\ m.errors = l.errors
  BY <1>1, <1>2, <1>5, AppendProperties DEF Logged
<1>8. d.bodyLogged = (c.bodyLogged \/ first)
  BY <1>1, <1>2 DEF Exchanged
<1>9. Reads(d)
  BY <1>1, <1>2, <1>3, <1>4, <1>6 DEF Reads, chunk
<1>10. Begins(d, m)
  BY <1>1, <1>2, <1>6 DEF Begins
<1>11. Remembers(enabled, d)
  BY <1>1, <1>4, <1>6, <1>8 DEF Remembers
<1>12. Tells(enabled, d, m)
  <2>1. CASE c.got = <<>>
    <3>1. n = 0
      BY <2>1
    <3>2. more[1] = chunk
      BY <1>4, <3>1
    <3>3. l.previews = <<>>
      BY <1>1, <2>1 DEF Tells
    <3>4. c.bodyLogged = FALSE
      BY <1>1, <2>1 DEF Remembers
    <3>5. m.previews = IF enabled /\ c.post /\ chunk.size > 0
                       THEN <<Preview(chunk)>> ELSE <<>>
      <4>1. CASE enabled /\ c.post /\ chunk.size > 0
        <5>1. m = [l EXCEPT !.previews = Append(<<>>, Preview(chunk))]
          BY <1>2, <3>3, <3>4, <4>1
        <5>2. m.previews = Append(<<>>, Preview(chunk))
          BY <1>1, <5>1 DEF Logged
        <5> QED BY <4>1, <5>2
      <4>2. CASE ~(enabled /\ c.post /\ chunk.size > 0)
        BY <1>2, <3>3, <4>2
      <4> QED BY <4>1, <4>2
    <3> QED BY <1>1, <1>4, <1>6, <1>7, <3>2, <3>5 DEF Tells
  <2>2. CASE c.got # <<>>
    <3>1. n > 0 /\ more[1] = c.got[1] /\ ~first
      BY <1>1, <1>3, <1>4, <2>2 DEF Remembers
    <3> QED BY <1>1, <1>2, <1>4, <1>6, <1>7, <2>2, <3>1 DEF Tells
  <2> QED BY <2>1, <2>2
<1>13. /\ conns' \in [Requests -> Exchanged] /\ log' \in [Requests -> Logged]
       /\ Own(enabled, d, m)
  BY <1>1, <1>2, <1>6, <1>7, <1>9, <1>10, <1>11, <1>12 DEF Own
<1> QED BY <1>2, <1>13, OneRequest DEF d, m

\* What send does to a request's own closure and messages.
LEMMA SendFields ==
  ASSUME IInv, NEW r \in Requests, NEW m \in Message,
         m.type = "start" => m.value \in {200, 400}, Send(r, m)
  PROVE  LET c == conns[r]
             d == conns'[r]
         IN  /\ conns' = [conns EXCEPT ![r] = d]
             /\ \A q \in Requests \ {r} : conns'[q] = conns[q]
             /\ conns' \in [Requests -> Exchanged]
             /\ d.pc = c.pc /\ d.post = c.post /\ d.body = c.body
             /\ d.got = c.got /\ d.bodyLogged = c.bodyLogged
             /\ d.sent = Append(c.sent, m)
             /\ d.responseStatus = IF enabled /\ m.type = "start" THEN m.value
                                   ELSE c.responseStatus
<1> DEFINE c == conns[r]
           d == conns'[r]
           status == IF enabled /\ m.type = "start" THEN m.value ELSE c.responseStatus
           more == Append(c.sent, m)
<1>1. c \in Exchanged /\ conns \in [Requests -> Exchanged]
  BY OfRequest DEF IInv, Typed
<1>2. /\ conns' = [conns EXCEPT ![r] = d]
      /\ \A q \in Requests \ {r} : conns'[q] = conns[q]
      /\ d = [c EXCEPT !.sent = more, !.responseStatus = status]
  <2>1. conns' = [conns EXCEPT ![r].sent = more, ![r].responseStatus = status]
    BY DEF Send
  <2> HIDE DEF more, status
  <2>2. \A q \in Requests \ {r} : conns'[q] = conns[q]
    BY <1>1, <2>1
  <2>3. d = [c EXCEPT !.sent = more, !.responseStatus = status]
    BY <1>1, <2>1
  <2>4. conns' = [conns EXCEPT ![r] = d]
    <3> DEFINE once == [conns EXCEPT ![r] = [c EXCEPT !.sent = more]]
               n == [once[r] EXCEPT !.responseStatus = status]
    <3>1. conns' = [once EXCEPT ![r].responseStatus = status]
      BY <2>1
    <3>2. DOMAIN once = Requests /\ \A q \in Requests \ {r} : once[q] = conns[q]
      BY <1>1
    <3>3. once = [q \in Requests |-> once[q]]
      BY <1>1
    <3> HIDE DEF once
    <3>4. conns' = [once EXCEPT ![r] = n]
      BY <3>1
    <3>5. conns' = [q \in Requests |-> IF q = r THEN n ELSE once[q]]
      BY <3>2, <3>3, <3>4
    <3>6. conns' = [q \in Requests |-> IF q = r THEN n ELSE conns[q]]
      BY <3>2, <3>5
    <3>7. d = n
      BY <3>6
    <3> HIDE DEF d, n
    <3> QED BY <1>1, <3>6, <3>7
  <2> QED BY <2>2, <2>3, <2>4
<1>3. status \in {None, 200, 400} /\ more \in Seq(Message)
  BY <1>1, AppendProperties DEF Exchanged
<1> HIDE DEF c, d, status, more
<1>4. d \in Exchanged
  BY <1>1, <1>2, <1>3 DEF Exchanged
<1>5. /\ d.pc = c.pc /\ d.post = c.post /\ d.body = c.body
      /\ d.got = c.got /\ d.bodyLogged = c.bodyLogged
      /\ d.sent = more /\ d.responseStatus = status
  BY <1>1, <1>2, <1>3 DEF Exchanged
<1>6. conns' \in [Requests -> Exchanged]
  BY <1>1, <1>2, <1>4
<1> QED BY <1>2, <1>5, <1>6 DEF c, d, status, more

\* The status of the response is remembered for its own bodies.
LEMMA StartStep ==
  ASSUME IInv, NEW r \in Requests, NEW status \in {200, 400},
         StartResponse(r, status)
  PROVE  IInv'
<1> DEFINE c == conns[r]
           d == conns'[r]
           m == [type |-> "start", value |-> status]
<1>1. /\ c \in Exchanged /\ Reads(c) /\ Begins(c, log[r])
      /\ Remembers(enabled, c) /\ Tells(enabled, c, log[r])
  BY OfRequest
<1>2. /\ c.pc = "open" /\ c.sent = <<>> /\ Send(r, m)
      /\ log' = log /\ enabled' = enabled
  BY DEF StartResponse
<1>3. m \in Message /\ m.type = "start" /\ m.value = status
  BY DEF Message
<1> HIDE DEF m
<1>4. /\ conns' = [conns EXCEPT ![r] = d]
      /\ \A q \in Requests \ {r} : conns'[q] = conns[q]
      /\ conns' \in [Requests -> Exchanged]
      /\ d.pc = c.pc /\ d.post = c.post /\ d.body = c.body
      /\ d.got = c.got /\ d.bodyLogged = c.bodyLogged
      /\ d.sent = Append(c.sent, m)
      /\ d.responseStatus = IF enabled THEN status ELSE c.responseStatus
  BY <1>2, <1>3, SendFields
<1> HIDE DEF d
<1>5. d.sent = <<m>> /\ d.sent[1] = m /\ d.sent # <<>>
  <2>1. Append(<<>>, m) = <<m>>
    OBVIOUS
  <2> QED BY <1>2, <1>4, <2>1
<1>6. Reads(d) /\ Begins(d, log[r]) /\ Remembers(enabled, d)
  BY <1>1, <1>2, <1>3, <1>4, <1>5 DEF Reads, Begins, Remembers
<1>7. Matches(<<>>, d.sent)
  <2>1. <<>> \in Seq(Message) /\ Shown(<<>>) = {} /\ Len(<<>>) = 0
    BY DEF Shown
  <2>2. Matches(<<>>, <<>>)
    BY <2>1, FS_EmptySet DEF Matches
  <2>3. ~(m.type = "body" /\ m.value > 0)
    BY <1>3
  <2>4. Matches(<<>>, Append(<<>>, m))
    BY <1>3, <2>1, <2>2, <2>3, MatchesSkip
  <2> QED BY <1>2, <1>4, <2>4
<1>8. Tells(enabled, d, log[r])
  BY <1>1, <1>2, <1>4, <1>7 DEF Tells
<1>9. Own(enabled, d, log[r]) /\ log \in [Requests -> Logged]
  BY <1>6, <1>8 DEF Own, IInv, Typed
<1> QED BY <1>2, <1>4, <1>9, OneRequest DEF d

\* A body is sent, and logged exactly if its own response is a 400.
LEMMA BodyStep ==
  ASSUME IInv, NEW r \in Requests, NEW size \in 0..MaxSize, SendBody(r, size)
  PROVE  IInv'
<1> DEFINE c == conns[r]
           d == conns'[r]
           l == log[r]
           k == log'[r]
           m == [type |-> "body", value |-> size]
<1>1. /\ c \in Exchanged /\ l \in Logged /\ enabled \in BOOLEAN
      /\ Reads(c) /\ Begins(c, l) /\ Remembers(enabled, c) /\ Tells(enabled, c, l)
      /\ log \in [Requests -> Logged]
  BY OfRequest DEF IInv, Typed
<1>2. size \in Nat
  BY LoggingAssumption
<1>3. m \in Message /\ m.type = "body" /\ m.value = size
  BY <1>2 DEF Message
<1>4. /\ c.pc = "open" /\ Len(c.sent) \in 1..MaxChunks /\ Send(r, m)
      /\ log' = IF enabled /\ size > 0 /\ c.responseStatus = 400
                  THEN [log EXCEPT ![r].errors = Append(l.errors, size)] ELSE log
      /\ enabled' = enabled
  BY <1>1 DEF SendBody, ResponseStatus
<1> HIDE DEF m
<1>5. /\ conns' = [conns EXCEPT ![r] = d]
      /\ \A q \in Requests \ {r} : conns'[q] = conns[q]
      /\ conns' \in [Requests -> Exchanged]
      /\ d.pc = c.pc /\ d.post = c.post /\ d.body = c.body
      /\ d.got = c.got /\ d.bodyLogged = c.bodyLogged
      /\ d.sent = Append(c.sent, m) /\ d.responseStatus = c.responseStatus
  BY <1>3, <1>4, SendFields
<1>6. /\ log' = [log EXCEPT ![r] = k]
      /\ \A q \in Requests \ {r} : log'[q] = log[q]
      /\ k = IF enabled /\ size > 0 /\ c.responseStatus = 400
               THEN [l EXCEPT !.errors = Append(l.errors, size)] ELSE l
  <2>1. CASE enabled /\ size > 0 /\ c.responseStatus = 400
    <3> DEFINE longer == Append(l.errors, size)
    <3>1. log' = [log EXCEPT ![r].errors = longer]
      BY <1>4, <2>1
    <3> HIDE DEF longer, c
    <3>2. /\ log' = [log EXCEPT ![r] = k] /\ k = [l EXCEPT !.errors = longer]
          /\ \A q \in Requests \ {r} : log'[q] = log[q]
      BY <1>1, <3>1
    <3> QED BY <2>1, <3>2 DEF longer
  <2>2. CASE ~(enabled /\ size > 0 /\ c.responseStatus = 400)
    <3>1. log' = log
      BY <1>4, <2>2
    <3> QED BY <1>1, <2>2, <3>1
  <2> QED BY <2>1, <2>2
<1> HIDE DEF c, d, l, k
<1>7. /\ c.sent \in Seq(Message) /\ l.errors \in Seq(Nat) /\ c.sent # <<>>
      /\ d.sent \in Seq(Message) /\ d.sent # <<>> /\ d.sent[1] = c.sent[1]
  <2>1. c.sent \in Seq(Message) /\ l.errors \in Seq(Nat)
    BY <1>1 DEF Exchanged, Logged
  <2>2. c.sent # <<>> /\ 1 \in 1..Len(c.sent)
    BY <1>4, LoggingAssumption
  <2>3. /\ d.sent \in Seq(Message) /\ d.sent # <<>>
        /\ \A i \in 1..Len(c.sent) : d.sent[i] = c.sent[i]
    BY <1>3, <1>5, <2>1, AppendProperties
  <2> QED BY <2>1, <2>2, <2>3
<1>8. /\ k \in Logged /\ k.previews = l.previews
      /\ k.errors = IF enabled /\ size > 0 /\ c.responseStatus = 400
                    THEN Append(l.errors, size) ELSE l.errors
  <2> DEFINE longer == Append(l.errors, size)
  <2>1. longer \in Seq(Nat)
    BY <1>2, <1>7, AppendProperties
  <2> HIDE DEF longer
  <2>2. CASE enabled /\ size > 0 /\ c.responseStatus = 400
    <3>1. k = [l EXCEPT !.errors = longer]
      BY <1>6, <2>2 DEF longer
    <3>2. k \in Logged /\ k.previews = l.previews /\ k.errors = longer
      BY <1>1, <2>1, <3>1 DEF Logged
    <3> QED BY <2>2, <3>2 DEF longer
  <2>3. CASE ~(enabled /\ size > 0 /\ c.responseStatus = 400)
    BY <1>1, <1>6, <2>3
  <2> QED BY <2>2, <2>3
<1>9. Reads(d) /\ Begins(d, k) /\ Remembers(enabled, d)
  BY <1>1, <1>4, <1>5, <1>7 DEF Reads, Begins, Remembers
<1>10. Tells(enabled, d, k)
  <2>1. CASE enabled /\ c.sent[1].value = 400
    <3>1. c.responseStatus = 400 /\ Matches(l.errors, c.sent)
      BY <1>1, <1>7, <2>1 DEF Remembers, Tells
    <3>2. CASE size > 0
      <4>1. k.errors = Append(l.errors, size)
        BY <1>8, <2>1, <3>1, <3>2
      <4>2. Matches(k.errors, d.sent)
        <5>1. Matches(Append(l.errors, m.value), Append(c.sent, m))
          BY <1>3, <1>7, <3>1, <3>2, MatchesAppend
        <5> QED BY <1>3, <1>5, <4>1, <5>1
      <4> QED BY <1>1, <1>5, <1>7, <1>8, <2>1, <4>2 DEF Tells
    <3>3. CASE ~(size > 0)
      <4>1. k.errors = l.errors
        BY <1>8, <3>3
      <4>2. Matches(k.errors, d.sent)
        BY <1>3, <1>5, <1>7, <3>1, <3>3, <4>1, MatchesSkip
      <4> QED BY <1>1, <1>5, <1>7, <1>8, <2>1, <4>2 DEF Tells
    <3> QED BY <3>2, <3>3
  <2>2. CASE ~(enabled /\ c.sent[1].value = 400)
    <3>1. ~(enabled /\ c.responseStatus = 400)
      BY <1>1, <1>7, <2>2 DEF Remembers
    <3>2. k.errors = l.errors /\ l.errors = <<>>
      BY <1>1, <1>7, <1>8, <2>2, <3>1 DEF Tells
    <3>3. k.previews = IF enabled /\ d.post /\ d.got # <<>> /\ d.got[1].size > 0
                       THEN <<Preview(d.got[1])>> ELSE <<>>
      BY <1>1, <1>5, <1>8 DEF Tells
    <3>4. ~(enabled /\ d.sent # <<>> /\ d.sent[1].value = 400)
      BY <1>7, <2>2
    <3>5. k.errors = <<>>
      BY <3>2
    <3> QED BY <3>3, <3>4, <3>5 DEF Tells
  <2> QED BY <2>1, <2>2
<1>11. log' \in [Requests -> Logged] /\ Own(enabled, d, k)
  BY <1>1, <1>6, <1>8, <1>9, <1>10 DEF Own
<1> QED BY <1>4, <1>5, <1>6, <1>11, OneRequest DEF d, k

\* The slot is as new, and so is its log.
LEMMA CloseStep ==
  ASSUME IInv, NEW r \in Requests, Close(r)
  PROVE  IInv'
<1>1. /\ enabled \in BOOLEAN /\ conns \in [Requests -> Exchanged]
      /\ log \in [Requests -> Logged]
  BY DEF IInv, Typed
<1>2. /\ conns'[r] = New /\ log'[r] = Nothing /\ enabled' = enabled
      /\ conns' = [conns EXCEPT ![r] = New] /\ log' = [log EXCEPT ![r] = Nothing]
      /\ \A q \in Requests \ {r} : conns'[q] = conns[q] /\ log'[q] = log[q]
  BY <1>1 DEF Close
<1>3. /\ New \in Exchanged /\ Nothing \in Logged /\ Own(enabled, New, Nothing)
  BY <1>1, NewOwn
<1>4. conns' \in [Requests -> Exchanged] /\ log' \in [Requests -> Logged]
  BY <1>1, <1>2, <1>3
<1> QED BY <1>2, <1>3, <1>4, OneRequest

----------------------------------------------------------------------------
(* Part 3.  The theorems. *)

\* IInv is inductive.
LEMMA AlwaysIInv == Spec => []IInv
<1>1. ASSUME IInv, [Next]_vars PROVE IInv'
  <2>1. CASE UNCHANGED vars
    BY <1>1, <2>1 DEF vars, IInv, Typed
  <2>2. ASSUME NEW r \in Requests, Exchange(r) PROVE IInv'
    <3>1. ASSUME NEW method \in Methods, NEW body \in Bodies, Open(r, method, body)
          PROVE  IInv'
      BY <1>1, <3>1, OpenStep
    <3>2. CASE FailOpen(r) \/ FailResponse(r)
      BY <1>1, <3>2, FailStep
    <3>3. CASE Receive(r)
      BY <1>1, <3>3, ReceiveStep
    <3>4. ASSUME NEW status \in {200, 400}, StartResponse(r, status) PROVE IInv'
      BY <1>1, <3>4, StartStep
    <3>5. ASSUME NEW size \in 0..MaxSize, SendBody(r, size) PROVE IInv'
      BY <1>1, <3>5, BodyStep
    <3>6. CASE Close(r)
      BY <1>1, <3>6, CloseStep
    <3> QED BY <2>2, <3>1, <3>2, <3>3, <3>4, <3>5, <3>6 DEF Exchange
  <2> QED BY <1>1, <2>1, <2>2 DEF Next
<1> QED BY <1>1, InitIInv, PTL DEF Spec

\* Overlapping requests do not mix their statuses and bodies in the log: what
\* is logged as the body of a 400 is that of a response that is one.
THEOREM OwnErrors == Spec => []ErrorBodiesLogged
<1>1. ASSUME IInv PROVE ErrorBodiesLogged
  <2> SUFFICES ASSUME NEW r \in Requests
               PROVE  IF enabled /\ conns[r].sent # <<>> /\ Head(conns[r].sent).value = 400
                      THEN Matches(log[r].errors, conns[r].sent)
                      ELSE log[r].errors = <<>>
    BY DEF ErrorBodiesLogged, Matches, Shown, UpTo
  <2>1. conns[r] \in Exchanged /\ Tells(enabled, conns[r], log[r])
    BY <1>1, OfRequest
  <2>2. conns[r].sent \in Seq(Message)
    BY <2>1 DEF Exchanged
  <2>3. conns[r].sent # <<>> => Head(conns[r].sent) = conns[r].sent[1]
    BY <2>2
  <2> QED BY <2>1, <2>3 DEF Tells
<1> QED BY <1>1, AlwaysIInv, PTL

\* A preview is of the request's own first chunk, and one that does not say
\* that there is more shows the whole body.
THEOREM OwnPreview == Spec => []PreviewOfFirst
<1>1. ASSUME IInv PROVE PreviewOfFirst
  <2> SUFFICES ASSUME NEW r \in Requests
               PROVE  LET got == conns[r].got
                          due == enabled /\ conns[r].post /\ got # <<>>
                                 /\ Head(got).size > 0
                      IN  /\ log[r].previews = IF due THEN <<Preview(Head(got))>>
                                               ELSE <<>>
                          /\ \A i \in DOMAIN log[r].previews :
                               LET p == log[r].previews[i]
                               IN  ~p.truncated =>
                                     conns[r].body = <<[size |-> p.shown, more |-> FALSE]>>
    BY DEF PreviewOfFirst
  <2> DEFINE c == conns[r]
             chunk == c.got[1]
             seen == log[r].previews
             due == enabled /\ c.post /\ c.got # <<>> /\ chunk.size > 0
  <2>1. c \in Exchanged /\ Reads(c) /\ Tells(enabled, c, log[r])
    BY <1>1, OfRequest
  <2>2. c.got \in Seq(Chunk) /\ c.body \in Seq(Chunk)
    BY <2>1 DEF Exchanged
  <2>3. c.got # <<>> => Head(c.got) = chunk
    BY <2>2
  <2>4. seen = IF due THEN <<Preview(chunk)>> ELSE <<>>
    BY <2>1 DEF Tells
  <2>5. ASSUME due, ~Preview(chunk).truncated
        PROVE  c.body = <<[size |-> Preview(chunk).shown, more |-> FALSE]>>
    <3>1. /\ Len(c.got) \in Nat /\ Len(c.body) \in Nat /\ Len(c.got) # 0
          /\ Len(c.got) <= Len(c.body)
      BY <2>1, <2>2, <2>5, EmptySeq, LenProperties DEF Reads
    <3>2. c.body[1] = chunk /\ (chunk.more <=> 1 < Len(c.body)) /\ chunk \in Chunk
      BY <2>1, <2>2, <3>1, ElementOfSeq DEF Reads
    <3>3. ~(chunk.size > Limit) /\ ~chunk.more
      BY <2>5 DEF Preview
    <3>4. Preview(chunk).shown = chunk.size
      BY <3>3 DEF Preview
    <3>5. chunk = [size |-> chunk.size, more |-> FALSE]
      BY <3>2, <3>3 DEF Chunk
    <3>6. ~(1 < Len(c.body))
      BY <3>2, <3>3
    <3>7. Len(c.body) = 1
      <4> DEFINE n == Len(c.body)
                 j == Len(c.got)
      <4>1. n \in Nat /\ j \in Nat /\ j # 0 /\ j <= n /\ ~(1 < n)
        BY <3>1, <3>6
      <4> HIDE DEF n, j
      <4>2. n = 1
        BY <4>1
      <4> QED BY <4>2 DEF n
    <3> HIDE DEF c, chunk
    <3>8. c.body = <<chunk>>
      BY <2>2, <3>2, <3>7
    <3> QED BY <3>4, <3>5, <3>8
  <2>6. ASSUME NEW i \in DOMAIN seen PROVE due /\ seen[i] = Preview(chunk)
    BY <2>4
  <2> HIDE DEF c, chunk, seen, due
  <2>7. \A i \in DOMAIN seen : ~seen[i].truncated =>
          c.body = <<[size |-> seen[i].shown, more |-> FALSE]>>
    BY <2>5, <2>6
  <2> QED BY <2>3, <2>4, <2>7 DEF c, chunk, seen, due
<1> QED BY <1>1, AlwaysIInv, PTL
=============================================================================
