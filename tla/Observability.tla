--------------------------- MODULE Observability ---------------------------
(***************************************************************************)
(* The middleware around every API request: the method, route and status   *)
(* it counts a request under, against the status line the client was sent. *)
(* Requests run at once and share the two metrics; a client may hang up at *)
(* any time.                                                               *)
(***************************************************************************)
EXTENDS Integers, FiniteSets

CONSTANTS
    Conns,      \* connections, one request at a time on each
    Methods,    \* HTTP methods
    Paths,      \* paths clients ask for
    Routes,     \* patterns of the generated router, without their method
    Route,      \* the pattern a method and path match, or NoPattern
    NoPattern,
    Errors,     \* statuses a handler's error is mapped to
    MaxServed   \* bound on the number of requests

Statuses == {200, 404, 405, 500} \cup Errors
Targets  == Methods \X Paths
Labels   == Methods \X (Paths \cup Routes) \X Statuses

ASSUME ObservedAssumption ==
    /\ Route \in [Targets -> Routes \cup {NoPattern}]
    /\ NoPattern \notin Routes /\ IsFiniteSet(Conns)
    /\ Errors \subseteq 400 .. 599 /\ MaxServed \in Nat

VARIABLES
    phase,      \* "idle", "serving", "writing", "ended" or "counted"
    target,     \* method and path of the latest request on a connection
    recorded,   \* statusRecorder.status
    sent,       \* status line on the wire, 0 before there is one
    gone,       \* the client has hung up
    total,      \* litebans_api_http_requests_total
    observed,   \* count of litebans_api_http_request_duration_seconds
    served      \* requests so far

requestVars == <<phase, target, recorded, sent, gone, served>>
vars == <<requestVars, total, observed>>

Init ==
    /\ phase = [c \in Conns |-> "idle"]
    /\ target \in [Conns -> Targets]
    /\ recorded = [c \in Conns |-> 200] /\ sent = [c \in Conns |-> 0]
    /\ gone = [c \in Conns |-> FALSE]
    /\ total = [l \in Labels |-> 0] /\ observed = [l \in Labels |-> 0]
    /\ served = 0

Goes(c, from, to) == phase[c] = from /\ phase' = [phase EXCEPT ![c] = to]

Arrive(c, t) ==
    /\ served < MaxServed /\ served' = served + 1
    /\ Goes(c, "idle", "serving")
    /\ target' = [target EXCEPT ![c] = t]
    /\ recorded' = [recorded EXCEPT ![c] = 200] /\ sent' = [sent EXCEPT ![c] = 0]
    /\ gone' = [gone EXCEPT ![c] = FALSE]
    /\ UNCHANGED <<total, observed>>

HangUp(c) ==
    /\ phase[c] \in {"serving", "writing"} /\ ~ gone[c]
    /\ gone' = [gone EXCEPT ![c] = TRUE]
    /\ UNCHANGED <<phase, target, recorded, sent, served, total, observed>>

(* Mutant of WriteHeader: the recorder passes the status on, unrecorded. *)
WriteHeaderUnrecorded(c, code) ==
    /\ sent' = [sent EXCEPT ![c] = IF @ = 0 THEN code ELSE @]
    /\ UNCHANGED <<recorded, target, gone, served, total, observed>>

(* The recorder keeps every status; net/http sends the first, and ignores    *)
(* the others.                                                               *)
WriteHeader(c, code) ==
    /\ recorded' = [recorded EXCEPT ![c] = code]
    /\ sent' = [sent EXCEPT ![c] = IF @ = 0 THEN code ELSE @]
    /\ UNCHANGED <<target, gone, served, total, observed>>

(* No pattern, or none for the method. *)
NotRouted(c, code) ==
    /\ Route[target[c]] = NoPattern
    /\ Goes(c, "serving", "ended") /\ WriteHeader(c, code)

(* The handler returned an error: writeError. *)
Fails(c, code) ==
    /\ Route[target[c]] # NoPattern
    /\ Goes(c, "serving", "ended") /\ WriteHeader(c, code)

(* The handler returned a response: the status line, then the body. *)
Succeeds(c) ==
    /\ Route[target[c]] # NoPattern
    /\ Goes(c, "serving", "writing") /\ WriteHeader(c, 200)

Encoded(c) ==
    /\ Goes(c, "writing", "ended")
    /\ UNCHANGED <<target, recorded, sent, gone, served, total, observed>>

(* The body cannot be written: the generated server hands that error to      *)
(* writeError too.                                                           *)
EncodeFails(c) ==
    /\ gone[c]
    /\ Goes(c, "writing", "ended") /\ WriteHeader(c, 500)

(* The pattern, or the raw path when there is none. *)
RouteLabel(t) == IF Route[t] = NoPattern THEN t[2] ELSE Route[t]

Label(c) == <<target[c][1], RouteLabel(target[c]), recorded[c]>>

Increment(metric, l) == [metric EXCEPT ![l] = @ + 1]

CountRequest(c) ==
    /\ Goes(c, "ended", "counted")
    /\ total' = Increment(total, Label(c))
    /\ UNCHANGED <<target, recorded, sent, gone, served, observed>>

(* Mutant of ObserveDuration: the duration is labelled with the path. *)
ObserveDurationByPath(c) ==
    /\ Goes(c, "counted", "idle")
    /\ observed' = Increment(observed, <<target[c][1], target[c][2], recorded[c]>>)
    /\ UNCHANGED <<target, recorded, sent, gone, served, total>>

ObserveDuration(c) ==
    /\ Goes(c, "counted", "idle")
    /\ observed' = Increment(observed, Label(c))
    /\ UNCHANGED <<target, recorded, sent, gone, served, total>>

Next ==
    \E c \in Conns :
        \/ \E t \in Targets : Arrive(c, t)
        \/ HangUp(c) \/ Succeeds(c) \/ Encoded(c) \/ EncodeFails(c)
        \/ \E code \in Errors : Fails(c, code)
        \/ \E code \in {404, 405} : NotRouted(c, code)
        \/ CountRequest(c) \/ ObserveDuration(c)

Spec == Init /\ [][Next]_vars

-----------------------------------------------------------------------------
(* observability.go:77: no failure hides behind a success.  A request whose  *)
(* client was sent an error is counted as that error, and one that is        *)
(* counted as a success was sent as one.                                     *)
NoFailureHidden ==
    \A c \in Conns : phase[c] \in {"ended", "counted"} =>
        /\ sent[c] # 200 => recorded[c] = sent[c]
        /\ recorded[c] = 200 => sent[c] = 200

(* observability.go:39: the counter and the histogram are two updates.  A    *)
(* scrape between them may see the counter ahead, under every label by just  *)
(* the requests that are between the two.                                    *)
ScrapesAgree ==
    \A l \in Labels :
        total[l] - observed[l] = Cardinality({c \in Conns : phase[c] = "counted" /\ l = Label(c)})
=============================================================================
