--------------------------- MODULE VerboseLogging ---------------------------
(***************************************************************************)
(* VerboseLoggingMiddleware (middleware.py): requests that are under way   *)
(* at once pass through one instance, which logs what it sees of them.     *)
(* All it remembers of a request is in the closures of its wrappers of     *)
(* receive and send.  The application and the server on its two sides are  *)
(* not part of the repository; both may suspend at every message, and then *)
(* other requests go on.                                                   *)
(*                                                                         *)
(* A body chunk is its size, and whether more are to come; of the request  *)
(* line and the headers only that they do or do not decode is kept.        *)
(***************************************************************************)
EXTENDS Integers, Sequences, SequencesExt

CONSTANTS
  Requests,
  Bodies,           \* request bodies: sequences of [size, more]
  Limit,            \* _BODY_PREVIEW_LIMIT
  MaxSize,          \* bound on the chunks of a response
  MaxChunks,        \* bound on their number
  None

\* More chunks are to come after each but the last.
ASSUME LoggingAssumption ==
  /\ \A body \in Bodies :
       /\ body \in Seq([size : Nat, more : BOOLEAN])
       /\ \A i \in DOMAIN body : body[i].more <=> i < Len(body)
  /\ Limit \in Nat /\ MaxSize \in Nat /\ MaxChunks \in Nat

Methods == {"GET", "POST"}

VARIABLES
  enabled,          \* the middleware is in use: its constructor has not refused
  conns,            \* [Requests -> an exchange, see New]
  log               \* [Requests -> what was logged of it]

vars == <<enabled, conns, log>>

\* The client's side (body, got by the application so far) and its answer
\* (as far as the application sent it), and the closures' state.
New ==
  [pc |-> "new", post |-> FALSE, body |-> <<>>, got |-> <<>>,
   sent |-> <<>>, responseStatus |-> None, bodyLogged |-> FALSE]

\* previews of the request's body, and bodies logged as those of a 400.
Nothing == [previews |-> <<>>, errors |-> <<>>]

Init ==
  /\ enabled \in BOOLEAN
  /\ conns = [r \in Requests |-> New]
  /\ log = [r \in Requests |-> Nothing]

----------------------------------------------------------------------------
(* The request. *)

Open(r, method, body) ==
  /\ conns[r].pc = "new"
  /\ conns' = [conns EXCEPT ![r].pc = "open", ![r].body = body,
                            ![r].post = method = "POST"]
  /\ UNCHANGED <<enabled, log>>

\* A header that is not UTF-8 makes _log_request raise: the application does
\* not see the request.
FailOpen(r) ==
  /\ enabled /\ conns[r].pc = "new"
  /\ conns' = [conns EXCEPT ![r].pc = "failed"]
  /\ UNCHANGED <<enabled, log>>

\* Mutant: the flag is an attribute of the middleware.
BodyLoggedByAny(r) == \E q \in Requests : conns[q].bodyLogged

BodyLogged(r) == conns[r].bodyLogged

Preview(chunk) ==
  [shown |-> IF chunk.size > Limit THEN Limit ELSE chunk.size,
   truncated |-> chunk.size > Limit \/ chunk.more]

Pending(r) == Len(conns[r].got) < Len(conns[r].body)

\* receive, wrapped for a POST: the first chunk is logged unless it is empty.
Receive(r) ==
  LET chunk == conns[r].body[Len(conns[r].got) + 1]
      first == enabled /\ conns[r].post /\ ~BodyLogged(r)
  IN  /\ conns[r].pc = "open" /\ Pending(r)
      /\ conns' = [conns EXCEPT ![r].got = Append(@, chunk),
                                ![r].bodyLogged = @ \/ first]
      /\ log' = IF first /\ chunk.size > 0
                  THEN [log EXCEPT ![r].previews = Append(@, Preview(chunk))]
                  ELSE log
      /\ UNCHANGED enabled

----------------------------------------------------------------------------
(* The response. *)

\* send, once the wrapper has logged the message.
Send(r, message) ==
  conns' = [conns EXCEPT ![r].sent = Append(@, message),
                         ![r].responseStatus =
                           IF enabled /\ message.type = "start"
                             THEN message.value ELSE @]

StartResponse(r, status) ==
  /\ conns[r].pc = "open" /\ conns[r].sent = <<>>
  /\ Send(r, [type |-> "start", value |-> status])
  /\ UNCHANGED <<enabled, log>>

\* A header of a 400 that is not UTF-8 makes the wrapper raise.
FailResponse(r) ==
  /\ enabled /\ conns[r].pc = "open" /\ conns[r].sent = <<>>
  /\ conns' = [conns EXCEPT ![r].pc = "failed", ![r].responseStatus = 400]
  /\ UNCHANGED <<enabled, log>>

\* Mutant: the status is an attribute of the middleware.
ResponseStatusOfAny(r) ==
  IF \E q \in Requests : conns[q].responseStatus = 400 THEN 400
  ELSE conns[r].responseStatus

ResponseStatus(r) == conns[r].responseStatus

SendBody(r, size) ==
  /\ conns[r].pc = "open" /\ Len(conns[r].sent) \in 1..MaxChunks
  /\ Send(r, [type |-> "body", value |-> size])
  /\ log' = IF enabled /\ size > 0 /\ ResponseStatus(r) = 400
              THEN [log EXCEPT ![r].errors = Append(@, size)] ELSE log
  /\ UNCHANGED enabled

\* The application returns or raises, and the slot is used again.
Close(r) ==
  /\ conns[r].pc \in {"open", "failed"}
  /\ conns' = [conns EXCEPT ![r] = New]
  /\ log' = [log EXCEPT ![r] = Nothing]
  /\ UNCHANGED enabled

Exchange(r) ==
  \/ \E method \in Methods, body \in Bodies : Open(r, method, body)
  \/ FailOpen(r) \/ Receive(r)
  \/ \E status \in {200, 400} : StartResponse(r, status)
  \/ FailResponse(r)
  \/ \E size \in 0..MaxSize : SendBody(r, size)
  \/ Close(r)

Next == \E r \in Requests : Exchange(r)

Spec == Init /\ [][Next]_vars

----------------------------------------------------------------------------
\* The bodies logged as those of a 400 are, in order, those of the responses
\* that are one, but for the empty ones, whatever is being answered to other
\* requests at the same time.
ErrorBodiesLogged ==
  \A r \in Requests :
    LET out == conns[r].sent
        bad == enabled /\ out # <<>> /\ Head(out).value = 400
        bodies == {i \in DOMAIN out : out[i].type = "body" /\ out[i].value > 0}
        logged == log[r].errors
    IN  IF bad THEN /\ Len(logged) = Cardinality(bodies)
                    /\ \A i \in bodies :
                         logged[Cardinality({j \in bodies : j <= i})] = out[i].value
        ELSE logged = <<>>

\* "A preview of the first request body chunk": one per POST, and of its own
\* first chunk, however the chunks of several requests come in; one that is
\* not marked "truncated/more coming" is the whole body.
PreviewOfFirst ==
  \A r \in Requests :
    LET got == conns[r].got
        due == enabled /\ conns[r].post /\ got # <<>> /\ Head(got).size > 0
    IN  /\ log[r].previews = IF due THEN <<Preview(Head(got))>> ELSE <<>>
        /\ \A i \in DOMAIN log[r].previews :
             LET p == log[r].previews[i]
             IN  ~p.truncated =>
                   conns[r].body = <<[size |-> p.shown, more |-> FALSE]>>
=============================================================================
