-------------------------- MODULE RequestPipeline --------------------------
(***************************************************************************)
(* A request from the router to its reply: the generated server binds      *)
(* parameters and body (external), Authorize runs the chain its policy     *)
(* gives the operation, RequireJWT and RequireModPermission pass it on or  *)
(* refuse it, the handler replies.  Each request is a call slot of         *)
(* AuthorityCache, whose actions are the steps of HasPermission; the two   *)
(* modules share the clock and the ranks.                                  *)
(***************************************************************************)
EXTENDS AuthorityCache, Sequences

CONSTANTS
    Operations,     \* operationIds, in a rule or in none
    Tokens,         \* Authorization headers the clients send
    Forms,          \* "good", and what the generated server cannot bind
    HandlerCodes,   \* error codes the handlers answer with
    NoToken,        \* no header, another scheme, or nothing after "Bearer "
    Nobody          \* no player uuid in the request's context

(* The codes of errors.go. *)
Codes == {"INVALID_UUID", "INVALID_TYPE", "INVALID_PARAMETER", "NOT_FOUND",
          "SERVICE_UNAVAILABLE", "UNAUTHORIZED", "FORBIDDEN"}

(* What else a response may carry: writeError's word for an error that is    *)
(* none of these, and the plain http.Error of the generated server and of    *)
(* denyAll.                                                                  *)
Untyped == {"INTERNAL_ERROR", "PLAIN_400", "PLAIN_401"}

(* A header with no nbf has 0 there, one with no exp an instant the clock    *)
(* does not reach.                                                           *)
ASSUME PipelineAssumption ==
    /\ Nobody \notin Uuids
    /\ Forms \subseteq {"good", "badParam", "badBody"}
    /\ HandlerCodes \subseteq Codes \ {"UNAUTHORIZED", "FORBIDDEN"}
    /\ Tokens \subseteq {NoToken} \cup
           [genuine : BOOLEAN, sub : Uuids \cup {Nobody}, nbf : Nat, exp : Nat]

VARIABLES
    policy,     \* the AuthPolicy compiled at startup
    op,         \* operationId of each request
    token,      \* its Authorization header
    form,       \* whether its parameters and body parse
    stage,      \* where the request is
    step,       \* its place in the chain
    caller,     \* the player uuid in its context
    reply       \* error code of the response, "OK", or "none" yet

request  == <<op, token, form>>
pipeVars == <<policy, request, stage, step, caller, reply>>
allVars  == <<vars, pipeVars>>

-----------------------------------------------------------------------------
(* The router's policy and its lookup.                                       *)
PublicOperations ==
    {"GetPublicPunishments", "GetPublicPunishmentsStats", "GetPublicLookup",
     "PostPublicLookupBatch", "GetPublicPunishmentByID"}

OwnLists ==
    {"GetPlayerPunishmentsMe", "GetPlayerPunishmentsMeBan", "GetPlayerPunishmentsMeMute",
     "GetPlayerPunishmentsMeWarning", "GetPlayerPunishmentsMeKick"}

PlayerOperations == OwnLists \cup {"GetPlayerPunishmentByID"}

ModOperations ==
    {"GetModPunishments", "GetModPunishmentsBan", "GetModPunishmentsMute",
     "GetModPunishmentsWarning", "GetModPunishmentsKick", "GetModPunishmentByID"}

RouterRules ==
    << [operations |-> PublicOperations, chain |-> <<"anonymous">>],
       [operations |-> PlayerOperations, chain |-> <<"jwt">>],
       [operations |-> ModOperations,    chain |-> <<"jwt", "mod">>] >>

(* NewRouter's policy, and one nobody gave a default. *)
Policies == {[default |-> d, rules |-> RouterRules] : d \in {<<"jwt">>, << >>}}

RulesFor(p, o) == {i \in DOMAIN p.rules : o \in p.rules[i].operations}

(* Mutant of Chain: an empty default lets everybody through. *)
ChainFailsOpen(p, o) ==
    IF RulesFor(p, o) # {}
    THEN p.rules[CHOOSE i \in RulesFor(p, o) : \A j \in RulesFor(p, o) : j <= i].chain
    ELSE IF p.default = << >> THEN <<"anonymous">> ELSE p.default

(* Authorize: the last rule that lists the operation, else the default; an   *)
(* empty default is denyAll.                                                 *)
Chain(p, o) ==
    IF RulesFor(p, o) # {}
    THEN p.rules[CHOOSE i \in RulesFor(p, o) : \A j \in RulesFor(p, o) : j <= i].chain
    ELSE IF p.default = << >> THEN <<"deny">> ELSE p.default

(* Validator.Subject: "genuine" stands for syntax, RS256, signature and      *)
(* issuer; a token is good from the instant of its nbf to before that of its *)
(* exp, both of which the library compares with the clock.                   *)
Subject(t, at) ==
    IF t # NoToken /\ t.genuine /\ t.nbf <= at /\ at < t.exp THEN t.sub ELSE Nobody

-----------------------------------------------------------------------------
PipeInit ==
    /\ Init
    /\ policy \in Policies
    /\ op = [c \in Calls |-> "none"]
    /\ token = [c \in Calls |-> NoToken]
    /\ form = [c \in Calls |-> "good"]
    /\ stage = [c \in Calls |-> "new"]
    /\ step = [c \in Calls |-> 0]
    /\ caller = [c \in Calls |-> Nobody]
    /\ reply = [c \in Calls |-> "none"]

MyStep(c) == Chain(policy, op[c])[step[c]]

(* The next step of the chain, or the handler when there is none. *)
PassOn(c) ==
    /\ step' = [step EXCEPT ![c] = @ + 1]
    /\ stage' = [stage EXCEPT ![c] = IF step[c] < Len(Chain(policy, op[c]))
                                     THEN "chain" ELSE "handler"]
    /\ UNCHANGED <<policy, request, reply>>

(* The response is all that is left of the request. *)
Respond(c, code) ==
    /\ stage' = [stage EXCEPT ![c] = "done"]
    /\ reply' = [reply EXCEPT ![c] = code]
    /\ op' = [op EXCEPT ![c] = "none"]
    /\ token' = [token EXCEPT ![c] = NoToken]
    /\ form' = [form EXCEPT ![c] = "good"]
    /\ step' = [step EXCEPT ![c] = 0]
    /\ caller' = [caller EXCEPT ![c] = Nobody]
    /\ UNCHANGED policy

Receive(c, o, t, f) ==
    /\ stage[c] = "new"
    /\ f = "badBody" => o = "PostPublicLookupBatch"
    /\ op' = [op EXCEPT ![c] = o]
    /\ token' = [token EXCEPT ![c] = t]
    /\ form' = [form EXCEPT ![c] = f]
    /\ stage' = [stage EXCEPT ![c] = "bind"]
    /\ UNCHANGED <<policy, step, caller, reply>> /\ UNCHANGED vars

(* Before any middleware.  NewRouter sets no handler for parameters that do  *)
(* not parse; a body that does not goes to writeError as an error like any.  *)
Bind(c) ==
    /\ stage[c] = "bind"
    /\ \/ form[c] = "good" /\ PassOn(c) /\ UNCHANGED caller
       \/ form[c] = "badParam" /\ Respond(c, "PLAIN_400")
       \/ form[c] = "badBody" /\ Respond(c, "INTERNAL_ERROR")
    /\ UNCHANGED vars

StepAnonymous(c) ==
    /\ stage[c] = "chain" /\ MyStep(c) = "anonymous"
    /\ PassOn(c)
    /\ UNCHANGED caller /\ UNCHANGED vars

StepDeny(c) ==
    /\ stage[c] = "chain" /\ MyStep(c) = "deny"
    /\ Respond(c, "PLAIN_401")
    /\ UNCHANGED vars

(* Mutant of StepJWT: every caller's rank is looked up at once. *)
StepJWTAsks(c) ==
    /\ stage[c] = "chain" /\ MyStep(c) = "jwt"
    /\ LET u == Subject(token[c], now)
       IN  IF u = Nobody
           THEN Respond(c, "UNAUTHORIZED") /\ UNCHANGED vars
           ELSE /\ caller' = [caller EXCEPT ![c] = u]
                /\ stage' = [stage EXCEPT ![c] = "asking"]
                /\ Begin(c, u)
                /\ UNCHANGED <<policy, request, step, reply>>

StepJWT(c) ==
    /\ stage[c] = "chain" /\ MyStep(c) = "jwt"
    /\ LET u == Subject(token[c], now)
       IN  IF u = Nobody
           THEN Respond(c, "UNAUTHORIZED")
           ELSE PassOn(c) /\ caller' = [caller EXCEPT ![c] = u]
    /\ UNCHANGED vars

(* RequireModPermission calls HasPermission for the player in the context.   *)
StepMod(c) ==
    /\ stage[c] = "chain" /\ MyStep(c) = "mod"
    /\ IF caller[c] = Nobody
       THEN Respond(c, "UNAUTHORIZED") /\ UNCHANGED vars
       ELSE /\ Begin(c, caller[c])
            /\ stage' = [stage EXCEPT ![c] = "asking"]
            /\ UNCHANGED <<policy, request, step, caller, reply>>

(* Mutant of Decided: without an answer the request passes. *)
DecidedFailOpen(c, answered) ==
    CASE answered = "denied" -> Respond(c, "FORBIDDEN")
      [] OTHER               -> PassOn(c) /\ UNCHANGED caller

(* Mutant of Decided: no answer is a denial. *)
DecidedErrorForbidden(c, answered) ==
    CASE answered = "granted" -> PassOn(c) /\ UNCHANGED caller
      [] OTHER                -> Respond(c, "FORBIDDEN")

(* What the middleware makes of HasPermission's return.                      *)
Decided(c, answered) ==
    CASE answered = "granted" -> PassOn(c) /\ UNCHANGED caller
      [] answered = "denied"  -> Respond(c, "FORBIDDEN")
      [] OTHER                -> Respond(c, "SERVICE_UNAVAILABLE")

(* A step of HasPermission after which it returns, and one after which not.  *)
Returns(c)  == Hit(c) \/ StoreAndReturn(c) \/ Fail(c)
GoesOn(c)   == Miss(c) \/ Answer(c)

AskReturns(c) ==
    /\ stage[c] = "asking"
    /\ Returns(c)
    /\ Decided(c, outcome'[c])

AskGoesOn(c) == GoesOn(c) /\ UNCHANGED pipeVars

(* The handlers: the lists of one's own want a caller, then each may refuse  *)
(* parameters, find nothing or fail at the database.                         *)
HandlerReplies(o, u) ==
    IF o \in OwnLists /\ u = Nobody THEN {"UNAUTHORIZED"}
    ELSE {"OK"} \cup HandlerCodes

Handle(c) ==
    /\ stage[c] = "handler"
    /\ \E code \in HandlerReplies(op[c], caller[c]) : Respond(c, code)
    /\ UNCHANGED vars

Environment ==
    /\ Tick \/ \E u \in Uuids, S \in PermSets : ChangeRank(u, S)
    /\ UNCHANGED pipeVars

Serve(c) ==
    Bind(c) \/ StepAnonymous(c) \/ StepDeny(c) \/ StepJWT(c) \/ StepMod(c) \/ Handle(c)

PipeNext ==
    \/ \E c \in Calls, o \in Operations, t \in Tokens, f \in Forms :
          Receive(c, o, t, f)
    \/ \E c \in Calls : Serve(c) \/ AskReturns(c) \/ AskGoesOn(c)
    \/ Environment

PipeSpec == PipeInit /\ [][PipeNext]_allVars

-----------------------------------------------------------------------------
Entered(c)  == stage[c] # "handler" /\ stage'[c] = "handler"
Answered(c) == stage[c] # "done" /\ stage'[c] = "done"

RecentRank(u, S) ==
    lastHeld[u][S] >= 0 /\ lastHeld[u][S] >= now - (TTL + MaxLatency)

Held(u)   == \E S \in PermSets : ModPermission \in S /\ RecentRank(u, S)
Lacked(u) == \E S \in PermSets : ModPermission \notin S /\ RecentRank(u, S)

Genuine(t) == t # NoToken /\ t.genuine /\ t.sub # Nobody

(* router.go:43-46, "mod" of the API: whatever other requests do to the      *)
(* cache meanwhile, a moderator handler runs only for the subject of the     *)
(* request's own token, and one who held the permission at most              *)
(* TTL + MaxLatency ago.                                                     *)
OnlyModerators ==
    [][\A c \in Calls : Entered(c) /\ op[c] \in ModOperations =>
          Genuine(token[c]) /\ Held(token[c].sub)]_allVars

(* openapi.yaml:871-872: FORBIDDEN only for a player who lacked the          *)
(* permission at most TTL + MaxLatency ago, never because Authority failed   *)
(* or somebody else was refused; the typed UNAUTHORIZED only while the token *)
(* is no good.  denyAll's plain 401 is about the policy, not the token.      *)
RefusalsTruthful ==
    [][\A c \in Calls : Answered(c) =>
          /\ reply'[c] = "FORBIDDEN" => Genuine(token[c]) /\ Lacked(token[c].sub)
          /\ reply'[c] = "UNAUTHORIZED" => Subject(token[c], now) = Nobody]_allVars

(* authpolicy.go:30-34, "fails closed": under any default, also none, only a *)
(* listed public operation runs its handler for an unidentified caller, and  *)
(* every other one for the subject of its own token.                         *)
IdentifiedOrPublic ==
    \A c \in Calls : stage[c] = "handler" /\ op[c] \notin PublicOperations =>
        Genuine(token[c]) /\ caller[c] = token[c].sub

(* The inductive invariant behind the three: only a request at its "mod"     *)
(* step has a call of HasPermission running, for its own caller, and whoever *)
(* has passed a "jwt" step is the subject of the token he came with.         *)
PipeTypeOK ==
    /\ policy \in Policies
    /\ op \in [Calls -> Operations \cup {"none"}]
    /\ token \in [Calls -> Tokens \cup {NoToken}]
    /\ form \in [Calls -> Forms \cup {"good"}]
    /\ stage \in [Calls -> {"new", "bind", "chain", "asking", "handler", "done"}]
    /\ step \in [Calls -> 0 .. 3]
    /\ caller \in [Calls -> Uuids \cup {Nobody}]
    /\ reply \in [Calls -> Codes \cup Untyped \cup {"none", "OK"}]

CallerIsSubject ==
    \A c \in Calls :
        /\ stage[c] = "new" => caller[c] = Nobody
        /\ caller[c] # Nobody => Genuine(token[c]) /\ caller[c] = token[c].sub

AsksForCaller ==
    \A c \in Calls :
        /\ pc[c] # "idle" => stage[c] = "asking"
        /\ stage[c] = "asking" => who[c] = caller[c] /\ caller[c] # Nobody /\ MyStep(c) = "mod"

PlaceInChain ==
    \A c \in Calls :
        /\ stage[c] \in {"new", "bind"} => step[c] = 0
        /\ stage[c] \in {"chain", "asking"} => step[c] \in 1 .. Len(Chain(policy, op[c]))

IdentifiedOnceChecked ==
    \A c \in Calls :
        /\ stage[c] \notin {"new", "done"} => op[c] \in Operations
        /\ step[c] > 1 /\ Chain(policy, op[c])[1] = "jwt" => caller[c] # Nobody
        /\ stage[c] = "handler" =>
              step[c] > 1 /\ Chain(policy, op[c])[1] \in {"anonymous", "jwt"}

PipeIInv ==
    /\ PipeTypeOK
    /\ IInv
    /\ CallerIsSubject
    /\ AsksForCaller
    /\ PlaceInChain
    /\ IdentifiedOnceChecked
=============================================================================
