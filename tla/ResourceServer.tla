--------------------------- MODULE ResourceServer ---------------------------
(***************************************************************************)
(* The tools of a resource server as the library guards them: a request    *)
(* brings a bearer token, the verifier decides on it, and the decorators   *)
(* (friction/decorator.py) take the client from the verified token, ask or *)
(* inform the registry, and run the tool or refuse to.                     *)
(*                                                                         *)
(* The registry is FrictionRegistry, whose actions are steps of a request  *)
(* here.  The verifier is VerifierPromise, which TokenVerifier implements. *)
(* The framework between them (routing, the authentication middleware that *)
(* sets the context variable, dispatch of the tool) is not part of the     *)
(* repository: between its steps other requests run.  From the wrapper's   *)
(* first line to that of the tool nothing suspends, so that is one step.   *)
(***************************************************************************)
EXTENDS FrictionRegistry

CONSTANTS
  Requests,         \* slots for requests that are under way at once
  Tokens, None, Bound, Exp, Lag,   \* see VerifierPromise
  ClientClaim,      \* [Tokens -> its client_id claim, or None]
  Unknown,          \* "unknown", the client of a token without the claim
  Controlled        \* tools under friction_controlled; others record_tool_call

ASSUME ServerAssumption ==
  /\ None \notin Clients \cup Tokens /\ Unknown \in Clients
  /\ ClientClaim \in [Tokens -> Clients \cup {None}]
  /\ Bound \subseteq Tokens /\ Controlled \subseteq Tools
  /\ Lag \in Nat

VARIABLES
  installed,        \* _default_registry is set
  calls,            \* [Requests -> [pc, token, tool]]
  asked, verdict, revokedAt,       \* see VerifierPromise
  ran,              \* history: [live clients -> what ran, see Empty]
  spenders          \* history: the claims under which a priced tool has run

Verifier == INSTANCE VerifierPromise WITH Tasks <- Requests

server == <<installed, calls, ran, spenders>>
allVars == <<server, controllers, order, penalties, reply, evicted,
             asked, verdict, revokedAt, now>>

\* The registry is not called.
NoCall == reply' = NoReply /\ UNCHANGED <<controllers, order, penalties, evicted>>

Idle == [pc |-> "idle", token |-> None, tool |-> None]

Priced == Controlled \cap DOMAIN ToolConfig

\* Since a controller was created: the last tools that ran through the
\* decorators, and how many of them all had a price.
Empty == [recent |-> <<>>, paid |-> 0]

Ledger(c) == IF c \in DOMAIN ran THEN ran[c] ELSE Empty

ServerInit ==
  /\ Init
  /\ Verifier!Init
  /\ installed = FALSE
  /\ calls = [k \in Requests |-> Idle]
  /\ ran = <<>> /\ spenders = {}

----------------------------------------------------------------------------
InitFriction ==
  /\ ~installed
  /\ installed' = TRUE
  /\ Verifier!Deliver
  /\ NoCall /\ UNCHANGED <<calls, ran, spenders>>

(* A request on its way to its tool. *)

Move(k, pc) == calls' = [calls EXCEPT ![k].pc = pc]

End(k) == calls' = [calls EXCEPT ![k] = Idle]

\* Nothing more depends on what a running tool was called with.
Run(k) == calls' = [calls EXCEPT ![k] = [Idle EXCEPT !.pc = "running"]]

Arrive(k, token, tool) ==
  /\ calls[k].pc = "idle"
  /\ calls' = [calls EXCEPT ![k] = [pc |-> "verifying", token |-> token,
                                    tool |-> tool]]
  /\ Verifier!Ask(k, token)
  /\ NoCall /\ UNCHANGED <<installed, ran, spenders>>

\* On an endpoint without authentication.
ArriveAnonymous(k, tool) ==
  /\ calls[k].pc = "idle"
  /\ calls' = [calls EXCEPT ![k] = [Idle EXCEPT !.pc = "granted",
                                               !.tool = tool]]
  /\ Verifier!Deliver
  /\ NoCall /\ UNCHANGED <<installed, ran, spenders>>

\* None from verify_token ends the request with 401; so does a disconnect.
Authenticate(k) ==
  /\ calls[k].pc = "verifying"
  /\ \/ Verifier!Accept(k, calls[k].token) /\ Move(k, "granted")
     \/ Verifier!Refuse(k, calls[k].token) /\ End(k)
     \/ Verifier!Abandon(k) /\ End(k)
  /\ NoCall /\ UNCHANGED <<installed, ran, spenders>>

----------------------------------------------------------------------------
(* The decorators. *)

\* Mutant: the client is not taken from the token.
ClientOfAll(token) == Unknown

ClientOf(token) ==
  IF ClientClaim[token] = None THEN Unknown ELSE ClientClaim[token]

\* The tool of request k starts to run, on behalf of the given client.
Start(k, client) ==
  LET tool == calls[k].tool
      paying == tool \in Priced
      Later(l) == [recent |-> Append(IF Len(l.recent) = WindowSize
                                     THEN Tail(l.recent) ELSE l.recent, tool),
                   paid |-> l.paid + (IF paying THEN 1 ELSE 0)]
  IN  /\ Run(k)
      /\ ran' = [c \in DOMAIN controllers' |->
                   IF c = client THEN Later(Ledger(c)) ELSE Ledger(c)]
      /\ spenders' = IF paying THEN spenders \cup {ClientClaim[calls[k].token]}
                     ELSE spenders

\* The call is answered with the refusal; the tool does not run.
Decline(k) ==
  /\ End(k)
  /\ ran' = [c \in DOMAIN controllers' |-> Ledger(c)]
  /\ UNCHANGED spenders

Granted(k) == calls[k].pc = "granted" /\ Verifier!Deliver /\ UNCHANGED installed

\* Without a registry or a client the tool just runs.
RunUnguarded(k) ==
  /\ Granted(k)
  /\ ~installed \/ calls[k].token = None
  /\ Run(k)
  /\ NoCall /\ UNCHANGED <<ran, spenders>>

Guarded(k) == Granted(k) /\ installed /\ calls[k].token # None

\* Mutant: the wrapper does not look at the result.
FrictionControlledRuns(k) ==
  LET client == ClientOf(calls[k].token) IN
  /\ Guarded(k) /\ calls[k].tool \in Controlled
  /\ CheckAndRecord(client, calls[k].tool)
  /\ Start(k, client)

FrictionControlled(k) ==
  LET client == ClientOf(calls[k].token) IN
  /\ Guarded(k) /\ calls[k].tool \in Controlled
  /\ CheckAndRecord(client, calls[k].tool)
  /\ IF reply'.reason \in {"budget", "blocked"} THEN Decline(k)
     ELSE Start(k, client)

\* Mutant: the call is not recorded.
RecordToolCallNot(k) ==
  LET client == ClientOf(calls[k].token) IN
  /\ Guarded(k) /\ calls[k].tool \notin Controlled
  /\ client \in Live
  /\ NoCall
  /\ Start(k, client)

RecordToolCall(k) ==
  LET client == ClientOf(calls[k].token) IN
  /\ Guarded(k) /\ calls[k].tool \notin Controlled
  /\ RecordUncontrolled(client, calls[k].tool)
  /\ Start(k, client)

\* The tool returns or raises.
Finish(k) ==
  /\ calls[k].pc = "running"
  /\ End(k)
  /\ Verifier!Deliver
  /\ NoCall /\ UNCHANGED <<installed, ran, spenders>>

----------------------------------------------------------------------------
(* The environment. *)

Revoke(token) == Verifier!Revoke(token) /\ NoCall /\ UNCHANGED server

TimePasses == Tick /\ Verifier!Tick /\ UNCHANGED server

Request(k) ==
  \/ \E token \in Tokens, tool \in Tools : Arrive(k, token, tool)
  \/ \E tool \in Tools : ArriveAnonymous(k, tool)
  \/ Authenticate(k)
  \/ RunUnguarded(k) \/ FrictionControlled(k) \/ RecordToolCall(k)
  \/ Finish(k)

ServerNext ==
  \/ InitFriction
  \/ \E k \in Requests : Request(k)
  \/ \E token \in Tokens : Revoke(token)
  \/ TimePasses

ServerSpec == ServerInit /\ [][ServerNext]_allVars

----------------------------------------------------------------------------
\* Every variable keeps its type, and the registry is not used before it is
\* installed.
ServerTypeOK ==
  /\ TypeOK
  /\ installed \in BOOLEAN
  /\ Live # {} => installed
  /\ calls \in [Requests -> [pc : {"idle", "verifying", "granted", "running"},
                             token : Tokens \cup {None},
                             tool : Tools \cup {None}]]
  /\ DOMAIN ran = Live /\ spenders \subseteq Clients \cup {None}

\* record_tool_call exists "so the sliding window denominator is accurate":
\* whatever the requests do side by side and whoever is evicted in between,
\* a client's window holds the tools that ran for it, and no refused call.
WindowIsWhatRan ==
  \A c \in Live : controllers[c].window.records = ran[c].recent

\* A client's budget pays for every priced tool that ran for it and for
\* nothing else.
BudgetPaysForRuns ==
  \A c \in Live : DefaultBudget # Unlimited =>
    LET spent == DefaultBudget - controllers[c].budget
    IN  IF ran[c].paid = 0 THEN spent = 0
        ELSE /\ \E t \in Priced : ran[c].paid * ToolConfig[t].minCost <= spent
             /\ \E t \in Priced : spent <= ran[c].paid * ToolConfig[t].maxCost

\* "So that one client's usage patterns don't affect another's friction
\* levels": a request is refused as blocked only if priced tools have run for
\* the client its token names, or for tokens that, like it, name none.
IndependentClients ==
  [][\A k \in Requests :
       calls[k].pc = "granted" /\ calls'[k].pc = "idle" /\ reply'.reason = "blocked"
         => ClientClaim[calls[k].token] \in spenders]_allVars

\* The deployments for which that is proved, beyond those the runs check.  No
\* token claims to be of the client that tokens without a claim share, targets
\* are in the documented range, no priced tool is blocked from the start, and
\* a group that presses on a priced tool is made of no others.
Separable ==
  /\ \A token \in Tokens : ClientClaim[token] # Unknown
  /\ \A t \in DOMAIN ToolConfig : ToolConfig[t].target \in 0..Unit
  /\ \A t \in Priced : ToolConfig[t].block \in Nat \ {0}
  /\ \A g \in Groups :
       /\ GroupConfig[g].tools \subseteq Tools
       /\ GroupConfig[g].tools \cap DOMAIN ToolConfig \subseteq Controlled
       /\ GroupConfig[g].target \in Nat /\ GroupConfig[g].weight \in Nat
============================================================================
