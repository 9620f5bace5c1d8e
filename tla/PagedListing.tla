---------------------------- MODULE PagedListing ----------------------------
(***************************************************************************)
(* A client (external) walks the pages of a list, ?page=1, 2, ..., until a *)
(* page comes back short of the pageSize it reports, while the plugin adds *)
(* punishments.  Each page is a request of its own: a list query, newest   *)
(* first, with nothing to order punishments of the same instant.  The      *)
(* filter asks for neither active nor silent, so a row once listed always  *)
(* is, and only its column time matters.                                   *)
(***************************************************************************)
EXTENDS Punishments, SequencesExt

CONSTANTS
    PageSizes,  \* values of ?pageSize= the client may send
    MaxTime,    \* bound on the clock
    MaxRows     \* bound on the rows of the table

ASSUME WalkAssumption == {MaxTime, MaxRows} \subseteq Nat /\ PageSizes \subseteq Nat \ {0}

VARIABLES
    now,        \* wall clock
    time,       \* column time of each row, in the order of their ids
    walk,       \* "idle", "asking" for a page or "done"
    size,       \* the client's pageSize
    page,       \* the page it asks for
    shown,      \* history: the rows it has been shown, in order
    atStart     \* history: the rows there when it began

vars == <<now, time, walk, size, page, shown, atStart>>

Init ==
    /\ now = 0 /\ time = << >>
    /\ walk = "idle" /\ size \in PageSizes /\ page = 1 /\ shown = << >> /\ atStart = {}

Tick ==
    /\ now < MaxTime
    /\ now' = now + 1
    /\ UNCHANGED <<time, walk, size, page, shown, atStart>>

Insert ==
    /\ Len(time) < MaxRows
    /\ time' = Append(time, now)
    /\ UNCHANGED <<now, walk, size, page, shown, atStart>>

Begin ==
    /\ walk = "idle"
    /\ walk' = "asking"
    /\ atStart' = DOMAIN time
    /\ UNCHANGED <<now, time, size, page, shown>>

NewestFirst(S) ==
    {s \in SetToSeqs(S) : \A i, j \in DOMAIN s : i < j => time[s[i]] >= time[s[j]]}

(* LIMIT ? OFFSET ? *)
Slice(s, offset, limit) ==
    SubSeq(s, offset + 1, IF offset + limit < Len(s) THEN offset + limit ELSE Len(s))

(* Mutant of PageOf: the limit is the clamped size, the offset is not. *)
PageOfUnclamped(s) == Slice(s, Offset(page, size), ResolvedPageSize(size))

(* Mutant of PageOf: the offset is clamped, the limit is not. *)
PageOfUnlimited(s) == Slice(s, Offset(page, ResolvedPageSize(size)), size)

PageOf(s) == Slice(s, Offset(page, ResolvedPageSize(size)), ResolvedPageSize(size))

(* One response; a short page is the last. *)
NextPage ==
    /\ walk = "asking"
    /\ \E s \in NewestFirst(DOMAIN time) :
          /\ shown' = shown \o PageOf(s)
          /\ walk' = IF Len(PageOf(s)) < ResolvedPageSize(size) THEN "done" ELSE "asking"
    /\ page' = page + 1
    /\ UNCHANGED <<now, time, size, atStart>>

Next == Tick \/ Insert \/ Begin \/ NextPage

Spec == Init /\ [][Next]_vars

-----------------------------------------------------------------------------
(* The code orders by time alone: what follows holds only of tables where no *)
(* two punishments have the same instant.                                    *)
DistinctInstants == IsInjective(time)

Added == Cardinality(DOMAIN time \ atStart)

Repeats == Len(shown) - Cardinality(ToSet(shown))

(* pagination.go:7-24, punishment_repo.go:239-243: a client that walks to    *)
(* the first short page has been shown every punishment that was there when  *)
(* it began, whatever was added between its requests, also when it asks for  *)
(* more than MaxPageSize rows a page.                                        *)
NothingMissed ==
    walk = "done" /\ DistinctInstants => atStart \subseteq ToSet(shown)

(* Each punishment added pushes at most one row onto the next page: a client *)
(* sees no more rows twice than were added, and none in a quiet table.       *)
RepeatsBounded == DistinctInstants => Repeats <= Added
=============================================================================
