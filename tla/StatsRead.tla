----------------------------- MODULE StatsRead -----------------------------
(***************************************************************************)
(* The statistics endpoint: four counts, one query each and in no          *)
(* transaction, all given the instant the clock showed before the first,   *)
(* while the plugin writes and time passes.                                *)
(***************************************************************************)
EXTENDS PunishmentReads

(* The table of kicks has no removal columns. *)
ASSUME KicksAssumption == \A t \in Templates : t.type = "kick" => t.removedBy = Null

VARIABLES
    stage,      \* "idle", "counting" or "done"
    at,         \* "now := time.Now()" of the service call
    counts,     \* the counters assigned so far, in CountOrder
    reply,      \* HTTP status of the response
    began,      \* history: writes when the request began
    steady,     \* history: per counter, the rows it selects since then
    seen        \* history: per counter, the rows it selected at some time since

statsVars == <<stage, at, counts, reply, began, steady, seen>>
allVars   == <<vars, statsVars>>

CountOrder == <<"ban", "mute", "warning", "kick">>

(* No parameter is set. *)
NoParams == [active |-> "any", silent |-> "any", player |-> Null, moderator |-> Null,
             before |-> Null, after |-> Null]

(* Mutant of StatsFilter: the deployment's defaults are forgotten. *)
StatsFilterUnresolved == NoParams

StatsFilter == ResolveFilter(NoParams)

(* Mutant of Counted: every count reads the clock for itself. *)
CountedNow(kind, t) ==
    {i \in DOMAIN db : Reads(kind, db[i]) /\ Selected(db[i], StatsFilter, now, HasRemoved(kind))}

(* countPunishment: the rows of one table under the visibility condition. *)
Counted(kind, t) ==
    {i \in DOMAIN db : Reads(kind, db[i]) /\ Selected(db[i], StatsFilter, t, HasRemoved(kind))}

(* What the counters would select, were all of them asked at this moment. *)
Visible(t) ==
    [k \in Kinds |->
        {i \in DOMAIN db : db[i].type = k /\ Selected(db[i], StatsFilter, t, HasRemoved(k))}]

StatsInit ==
    /\ Init
    /\ stage = "idle" /\ at = 0 /\ counts = << >> /\ reply = "none" /\ began = 0
    /\ steady = [k \in Kinds |-> {}] /\ seen = [k \in Kinds |-> {}]

StartStats ==
    /\ stage = "idle" /\ stage' = "counting"
    /\ at' = now
    /\ began' = writes
    /\ steady' = Visible(now) /\ seen' = Visible(now)
    /\ UNCHANGED <<counts, reply>> /\ UNCHANGED vars

CountNext ==
    /\ stage = "counting" /\ Len(counts) < 4
    /\ counts' = Append(counts, Cardinality(Counted(CountOrder[Len(counts) + 1], at)))
    /\ UNCHANGED <<stage, at, reply, began, steady, seen>> /\ UNCHANGED vars

(* Mutant of CountFails: the error is dropped, the counter stays as it was. *)
CountFailsKeeps ==
    /\ stage = "counting" /\ Len(counts) < 4
    /\ counts' = Append(counts, 0)
    /\ UNCHANGED <<stage, at, reply, began, steady, seen>> /\ UNCHANGED vars

(* A count that fails takes the counters before it with it. *)
CountFails ==
    /\ stage = "counting" /\ Len(counts) < 4
    /\ stage' = "done" /\ reply' = "503" /\ counts' = << >>
    /\ UNCHANGED <<at, began, steady, seen>> /\ UNCHANGED vars

Reply ==
    /\ stage = "counting" /\ Len(counts) = 4
    /\ stage' = "done" /\ reply' = "200"
    /\ UNCHANGED <<at, counts, began, steady, seen>> /\ UNCHANGED vars

Reset ==
    /\ stage = "done" /\ stage' = "idle"
    /\ at' = 0 /\ counts' = << >> /\ reply' = "none" /\ began' = 0
    /\ steady' = [k \in Kinds |-> {}] /\ seen' = [k \in Kinds |-> {}]
    /\ UNCHANGED vars

(* What the plugin writes between two counts is watched, no more. *)
Watch ==
    /\ UNCHANGED <<stage, at, counts, reply, began>>
    /\ IF stage = "counting"
       THEN /\ steady' = [k \in Kinds |-> steady[k] \cap Visible(at)'[k]]
            /\ seen' = [k \in Kinds |-> seen[k] \cup Visible(at)'[k]]
       ELSE UNCHANGED <<steady, seen>>

Plugin ==
    \/ \E i \in Ids, t \in Templates : Insert(i, t)
    \/ \E i \in Ids, by \in Uuids, bit \in Bits : Lift(i, by, bit)

StatsNext ==
    \/ (Plugin \/ Tick) /\ Watch
    \/ StartStats \/ CountNext \/ CountFails \/ Reply \/ Reset

StatsSpec == StatsInit /\ [][StatsNext]_allVars

-----------------------------------------------------------------------------
(* punishment_service.go:289: the four counts are no snapshot, but none is   *)
(* wrong: each lies between the rows that were visible throughout the        *)
(* request and the rows visible at some time during it, at its one instant.  *)
CountsBracketed ==
    \A j \in DOMAIN counts :
        /\ Cardinality(steady[CountOrder[j]]) <= counts[j]
        /\ counts[j] <= Cardinality(seen[CountOrder[j]])

(* punishment_repo.go:514 and 369: when nothing was written meanwhile, the   *)
(* four counters add up to the total of the moderator's unfiltered list at   *)
(* that instant, though that list reads one UNION with padded columns.       *)
Unfiltered ==
    [tier |-> "mod", kind |-> "all", player |-> Null, moderator |-> Null,
     active |-> "any", silent |-> "any", before |-> Null, after |-> Null]

StatsMatchList ==
    reply = "200" /\ writes = began =>
        counts[1] + counts[2] + counts[3] + counts[4] = Cardinality(Chosen(Unfiltered, at))

-----------------------------------------------------------------------------
(* The inductive invariant behind both.                                      *)
StatsTypeOK ==
    /\ stage \in {"idle", "counting", "done"}
    /\ at \in Nat /\ began \in Nat
    /\ counts \in Seq(Nat) /\ Len(counts) <= 4
    /\ reply \in {"none", "200", "503"}
    /\ steady \in [Kinds -> SUBSET Ids] /\ seen \in [Kinds -> SUBSET Ids]
    /\ \A k \in Kinds : IsFiniteSet(seen[k])

(* What is steady is visible now, and what is visible now has been seen. *)
Watched ==
    stage = "counting" => \A k \in Kinds : /\ steady[k] \subseteq Visible(at)[k]
                                           /\ Visible(at)[k] \subseteq seen[k]

(* Without a write, the counters are those of the tables as they are. *)
Undisturbed ==
    /\ stage # "idle" => began <= writes
    /\ stage # "idle" /\ writes = began =>
        \A j \in DOMAIN counts : counts[j] = Cardinality(Visible(at)[CountOrder[j]])
    /\ reply = "200" => stage = "done" /\ Len(counts) = 4
    /\ stage = "idle" => counts = << >>

(* The plugin lifts no kick, and records none as lifted. *)
KicksStand == \A i \in DOMAIN db : db[i].type = "kick" => db[i].removedBy = Null

StatsIInv ==
    IInv /\ StatsTypeOK /\ Watched /\ Undisturbed /\ KicksStand /\ CountsBracketed
=============================================================================
