-------------------------- MODULE EvaluateDispatch --------------------------
(***************************************************************************)
(* POST /rides/request: one call of EvaluateDispatchUseCase.execute, from  *)
(* its first line to its answer.  Calls share no state but the pool and    *)
(* the distance cache, so one call is the whole component.                 *)
(*                                                                         *)
(* Three activities interleave on the event loop: execute (`main`), the    *)
(* runPipeline coroutine it awaits (`pipe`), and the abort timer.  One     *)
(* action is what runs between two awaits, so a guard on signal.aborted    *)
(* and the code after it are one action.  What the filter passes and what  *)
(* the decision maker picks are nondeterministic here.                     *)
(***************************************************************************)
EXTENDS Naturals, Sequences, FiniteSets

CONSTANTS Vehicles, Points, NoPoint, NoVehicle, NoRow

ASSUME EvaluateAssumption ==
    /\ NoPoint \notin Points
    /\ NoVehicle \notin Vehicles

Reasons == {"none", "timeout", "no_candidates"}

(* The columns of dispatch_decisions that differ between two saves.        *)
Rows == [vehicle : Vehicles, point : Points \cup {NoPoint}, reason : Reasons]

ASSUME NoRowAssumption == NoRow \notin Rows

Combos == Vehicles \X (Points \cup {NoPoint})

(* The stages of one score(): awaiting redis.get, awaiting redis.setEx.    *)
ScoreStages == {"get", "set", "done", "failed"}

VARIABLES
    main,      \* execute: "start", "pipeline", "fallback", "save", "answered"
    pipe,      \* runPipeline: "generate", "score", "save", "done", "failed"
    timer,     \* the abort timer: "off", "armed", "fired", "cleared"
    scores,    \* stage of every score() started, a function on combos
    error,     \* what runPipeline threw: "none", "empty", "abort", "io"
    offered,   \* the row the pipeline decided on, or NoRow
    fallback,  \* the vehicle the fallback found, or NoVehicle
    row,       \* the row of dispatch_decisions for this request, or NoRow
    inDoubt,   \* a row whose save rejected while its COMMIT was under way
    swallowed, \* a save met 23505 and returned as if it had succeeded
    reply,     \* the answer: [kind, row]
    events,    \* the events emitted, in order
    counted    \* the outcome counters incremented, in order

vars == <<main, pipe, timer, scores, error, offered, fallback, row, inDoubt,
          swallowed, reply, events, counted>>
control == <<main, pipe, timer>>
found == <<offered, fallback>>
store == <<row, inDoubt, swallowed>>
output == <<reply, events, counted>>

NoReply == [kind |-> "none", row |-> NoRow]

Init ==
    /\ main = "start" /\ pipe = "generate" /\ timer = "off"
    /\ scores = << >> /\ error = "none"
    /\ offered = NoRow /\ fallback = NoVehicle
    /\ row = NoRow /\ inDoubt = NoRow /\ swallowed = FALSE
    /\ reply = NoReply /\ events = << >> /\ counted = << >>

Aborted == timer = "fired"
ClearTimeout == timer' = IF timer = "armed" THEN "cleared" ELSE timer
Emitted(S) == events' = events \o S
Counted(outcome) == counted' = Append(counted, outcome)

----------------------------------------------------------------------------
(* execute up to its first await. *)
Start ==
    /\ main = "start"
    /\ main' = "pipeline"
    /\ timer' = "armed"
    /\ Emitted(<<"RequestCreated">>)
    /\ UNCHANGED <<pipe, scores, error, found, store, reply, counted>>

(* The timer only sets signal.aborted: nobody races it against the         *)
(* pipeline.  The mutant is the Promise.race this code replaced, where the *)
(* fallback started while the pipeline went on.                            *)
MutantTimerFires ==
    /\ timer = "armed"
    /\ timer' = "fired"
    /\ main' = "fallback"
    /\ UNCHANGED <<pipe, scores, error, found, store, output>>
TimerFires ==
    /\ timer = "armed"
    /\ timer' = "fired"
    /\ UNCHANGED <<main, pipe, scores, error, found, store, output>>

(* runPipeline throws; execute, if it still waits, enters its catch block  *)
(* and calls the fallback in the same turn.                                *)
Reject(cause) ==
    /\ pipe' = "failed"
    /\ error' = cause
    /\ main' = IF main = "pipeline" THEN "fallback" ELSE main
    /\ ClearTimeout
    /\ UNCHANGED <<found, store, output>>

----------------------------------------------------------------------------
(* Phases 1 and 2, and the start of phase 3: V is what the filter passes   *)
(* and P the active safe points around the origin.                         *)
GenerateResolves(V, P) ==
    /\ main # "start" /\ pipe = "generate"
    /\ \/ Aborted /\ Reject("abort") /\ UNCHANGED scores
       \/ ~Aborted /\ V = {} /\ Reject("empty") /\ UNCHANGED scores
       \/ /\ ~Aborted /\ V # {}
          /\ pipe' = "score"
          /\ scores' = [k \in V \X (P \cup {NoPoint}) |-> "get"]
          /\ UNCHANGED <<main, timer, error, found, store, output>>

(* The fleet read or the safe-point query of phase 1 rejects. *)
GenerateRejects ==
    /\ main # "start" /\ pipe = "generate"
    /\ Reject("io")
    /\ UNCHANGED scores

----------------------------------------------------------------------------
(* Phase 3.  Promise.all rejects with the first score() that rejects, and  *)
(* the others run on behind it; the last one to resolve resolves it.       *)
MutantScoreRejects(k, cause) ==
    /\ scores' = [scores EXCEPT ![k] = "failed"]
    /\ UNCHANGED <<control, error, found, store, output>>
ScoreRejects(k, cause) ==
    /\ scores' = [scores EXCEPT ![k] = "failed"]
    /\ \/ pipe = "score" /\ Reject(cause)
       \/ /\ pipe # "score"
          /\ UNCHANGED <<control, error, found, store, output>>

(* Phase 4 and the start of phase 5, behind the guards of lines 281 and    *)
(* 311: a vehicle scored, and perhaps one of its safe points, are saved.   *)
MutantDecision(k) == [vehicle |-> k[2], point |-> k[1], reason |-> "none"]
Decision(k) == [vehicle |-> k[1], point |-> k[2], reason |-> "none"]

DecideAndSave ==
    /\ \E k \in DOMAIN scores : offered' = Decision(k)
    /\ pipe' = "save"
    /\ UNCHANGED <<main, timer, error, fallback, store, reply, counted>>

(* Two mutants: no guard, and a suggestion reported before it is stored.   *)
MutantUnguardedDecide == DecideAndSave /\ UNCHANGED events
MutantReportedDecide ==
    \/ Aborted /\ Reject("abort")
    \/ /\ ~Aborted /\ DecideAndSave
       /\ Emitted(IF offered'.point = NoPoint THEN << >> ELSE <<"SuggestionShown">>)
Decide ==
    \/ Aborted /\ Reject("abort")
    \/ ~Aborted /\ DecideAndSave /\ UNCHANGED events

(* The mutant is a Promise.any: the first score to resolve decides.        *)
MutantScoreResolves(k) ==
    /\ scores' = [scores EXCEPT ![k] = "done"]
    /\ \/ pipe = "score" /\ Decide
       \/ pipe # "score" /\ UNCHANGED <<control, error, found, store, output>>
ScoreResolves(k) ==
    /\ scores' = [scores EXCEPT ![k] = "done"]
    /\ \/ /\ pipe = "score"
          /\ \A j \in DOMAIN scores \ {k} : scores[j] = "done"
          /\ Decide
       \/ /\ pipe # "score" \/ \E j \in DOMAIN scores \ {k} : scores[j] # "done"
          /\ UNCHANGED <<control, error, found, store, output>>

(* redis.get answers: the signal is read again, then a hit is the result   *)
(* and a miss is computed and written back.                                *)
CacheAnswers(k) ==
    /\ scores[k] = "get"
    /\ \/ Aborted /\ ScoreRejects(k, "abort")
       \/ ~Aborted /\ ScoreResolves(k)
       \/ /\ ~Aborted
          /\ scores' = [scores EXCEPT ![k] = "set"]
          /\ UNCHANGED <<control, error, found, store, output>>

(* redis.setEx answers; the signal is not read again. *)
CacheStored(k) == scores[k] = "set" /\ ScoreResolves(k)

(* Redis rejects, or distance.injectTimeout is set. *)
DistanceFails(k) == scores[k] \in {"get", "set"} /\ ScoreRejects(k, "io")

----------------------------------------------------------------------------
(* DecisionRepository.savePreliminary: repo.save reads the row by its key, *)
(* then updates it or inserts it.  An insert waits for another uncommitted *)
(* insert of the key: if that one commits, this one meets 23505, which is  *)
(* swallowed.                                                              *)
MutantSaved(new) ==
    /\ row' = IF row = NoRow THEN new ELSE row
    /\ UNCHANGED <<inDoubt, swallowed>>
Saved(new) ==
    \/ row' = new /\ inDoubt' = NoRow /\ UNCHANGED swallowed
    \/ /\ row = NoRow /\ inDoubt # NoRow
       /\ row' = inDoubt /\ inDoubt' = NoRow /\ swallowed' = TRUE

(* repo.save rejects: rolled back, or with its COMMIT under way.           *)
SaveRejects(new) ==
    /\ inDoubt' \in {inDoubt, new}
    /\ UNCHANGED <<row, swallowed>>

(* The database finishes, or drops, the commit nobody waits for any more.  *)
CommitLands == inDoubt # NoRow /\ row' = inDoubt /\ inDoubt' = NoRow
CommitDropped == inDoubt # NoRow /\ inDoubt' = NoRow /\ UNCHANGED row
InDoubtResolves ==
    /\ CommitLands \/ CommitDropped
    /\ UNCHANGED <<control, scores, error, found, swallowed, output>>

----------------------------------------------------------------------------
(* Phase 5 resolves: runPipeline reports the suggestion and returns, and   *)
(* execute, if it still waits, answers.  The signal is not read again.     *)
Waits == main = "pipeline"

PipelineSaved ==
    /\ pipe = "save"
    /\ Saved(offered)
    /\ pipe' = "done"
    /\ Emitted(IF offered.point = NoPoint THEN << >> ELSE <<"SuggestionShown">>)
    /\ main' = IF Waits THEN "answered" ELSE main
    /\ reply' = IF Waits THEN [kind |-> "offer", row |-> offered] ELSE reply
    /\ counted' = IF Waits THEN Append(counted, "success") ELSE counted
    /\ ClearTimeout
    /\ UNCHANGED <<scores, error, found>>

PipelineSaveRejects ==
    /\ pipe = "save"
    /\ pipe' = "failed"
    /\ error' = "io"
    /\ SaveRejects(offered)
    /\ main' = IF Waits THEN "fallback" ELSE main
    /\ ClearTimeout
    /\ UNCHANGED <<scores, found, output>>

----------------------------------------------------------------------------
(* The catch block.  The reason is computed before the first await, when   *)
(* the signal can no longer change.                                        *)
FallbackReason == IF Aborted THEN "timeout" ELSE "no_candidates"

FallbackRow == [vehicle |-> fallback, point |-> NoPoint, reason |-> FallbackReason]

(* Any failure of the catch block ends in a 422. *)
Refuse ==
    /\ main' = "answered"
    /\ reply' = [kind |-> "refused", row |-> NoRow]
    /\ Emitted(<<"NoAvailability">>)
    /\ Counted("no_availability")

(* The fallback reads the fleet again and finds v, or nothing. *)
FallbackFinds(v) ==
    /\ main = "fallback"
    /\ fallback' = v
    /\ main' = "save"
    /\ Emitted(<<"FallbackActivated">>)
    /\ UNCHANGED <<pipe, timer, scores, error, offered, store, reply, counted>>

FallbackFails ==
    /\ main = "fallback"
    /\ Refuse
    /\ UNCHANGED <<pipe, timer, scores, error, found, store>>

MutantFallbackSaved ==
    /\ main = "save"
    /\ Saved(FallbackRow)
    /\ main' = "answered"
    /\ reply' = [kind |-> "fallback", row |-> FallbackRow]
    /\ counted' = counted \o <<"success", "fallback">>
    /\ UNCHANGED <<pipe, timer, scores, error, found, events>>
FallbackSaved ==
    /\ main = "save"
    /\ Saved(FallbackRow)
    /\ main' = "answered"
    /\ reply' = [kind |-> "fallback", row |-> FallbackRow]
    /\ Counted("fallback")
    /\ UNCHANGED <<pipe, timer, scores, error, found, events>>

FallbackSaveRejects ==
    /\ main = "save"
    /\ SaveRejects(FallbackRow)
    /\ Refuse
    /\ UNCHANGED <<pipe, timer, scores, error, found, swallowed, row>>

Scoring(k) == CacheAnswers(k) \/ CacheStored(k) \/ DistanceFails(k)

Next ==
    \/ Start \/ TimerFires
    \/ \E V \in SUBSET Vehicles, P \in SUBSET Points : GenerateResolves(V, P)
    \/ GenerateRejects
    \/ \E k \in DOMAIN scores : Scoring(k)
    \/ PipelineSaved \/ PipelineSaveRejects
    \/ \E v \in Vehicles : FallbackFinds(v)
    \/ FallbackFails \/ FallbackSaved \/ FallbackSaveRejects
    \/ InDoubtResolves

Spec == Init /\ [][Next]_vars

(* Every await settles one way or the other.  The timer fires if it is not *)
(* cleared, and nothing else about it is assumed.                          *)
Generate ==
    \/ \E V \in SUBSET Vehicles, P \in SUBSET Points : GenerateResolves(V, P)
    \/ GenerateRejects

Fairness ==
    /\ WF_vars(Start) /\ WF_vars(TimerFires) /\ WF_vars(Generate)
    /\ \A k \in Combos : WF_vars(k \in DOMAIN scores /\ Scoring(k))
    /\ WF_vars(PipelineSaved \/ PipelineSaveRejects)
    /\ WF_vars(FallbackFails \/ \E v \in Vehicles : FallbackFinds(v))
    /\ WF_vars(FallbackSaved \/ FallbackSaveRejects)

FairSpec == Spec /\ Fairness

----------------------------------------------------------------------------
TypeOK ==
    /\ main \in {"start", "pipeline", "fallback", "save", "answered"}
    /\ pipe \in {"generate", "score", "save", "done", "failed"}
    /\ timer \in {"off", "armed", "fired", "cleared"}
    /\ DOMAIN scores \subseteq Combos
    /\ scores \in [DOMAIN scores -> ScoreStages]
    /\ error \in {"none", "empty", "abort", "io"}
    /\ offered \in Rows \cup {NoRow}
    /\ fallback \in Vehicles \cup {NoVehicle}
    /\ row \in Rows \cup {NoRow}
    /\ inDoubt \in Rows \cup {NoRow}
    /\ swallowed \in BOOLEAN
    /\ reply \in [kind : {"none", "offer", "fallback", "refused"}, row : Rows \cup {NoRow}]
    /\ events \in Seq({"RequestCreated", "SuggestionShown", "FallbackActivated",
                       "NoAvailability"})
    /\ counted \in Seq({"success", "fallback", "no_availability"})

(* One writer: the fallback looks for a vehicle and saves its row only     *)
(* when the pipeline can save no more, though scores it started may still  *)
(* be running.                                                             *)
FallbackAfterPipeline == main \in {"fallback", "save"} => pipe = "failed"

(* An offer compares everything that passed the filter: whichever of the   *)
(* scores in flight fails or is late, no decision is made without it.  A   *)
(* distance that cannot be had is never replaced by an estimate.           *)
OffersAreFullyScored ==
    reply.kind = "offer" \/ pipe = "save" =>
        \A k \in DOMAIN scores : scores[k] = "done"

(* What the caller was told is what a confirmation will find stored: the   *)
(* vehicle, the suggested point and the fallback reason.  The exception is *)
(* a save that met 23505 and was swallowed.                                *)
ReplyIsStored ==
    reply.kind \in {"offer", "fallback"} => row = reply.row \/ swallowed

(* A save is swallowed only where the pipeline's own commit was in doubt:  *)
(* without a failed save, the 23505 branch is dead.                        *)
SwallowedOnlyInDoubt ==
    swallowed => /\ error = "io"
                 /\ row = offered
                 /\ reply.kind = "fallback"

(* The listeners' account agrees with the answer: a request is either      *)
(* answered by the pipeline or went to the fallback, and a suggestion is   *)
(* reported exactly when it was offered to the rider and stored.           *)
Occurs(e) == \E i \in 1..Len(events) : events[i] = e

EventsAgree ==
    main = "answered" =>
        /\ reply.kind = "offer" => ~Occurs("FallbackActivated")
        /\ reply.kind = "fallback" => Occurs("FallbackActivated")
        /\ reply.kind = "refused" <=> Occurs("NoAvailability")
        /\ Occurs("SuggestionShown") <=>
               reply.kind = "offer" /\ reply.row.point # NoPoint

(* Each answer is counted once, under its own outcome. *)
CountedOnce ==
    main = "answered" =>
        counted = << CASE reply.kind = "offer" -> "success"
                       [] reply.kind = "fallback" -> "fallback"
                       [] OTHER -> "no_availability" >>

(* Once the signal is aborted the pipeline starts no save. *)
NoSaveAfterAbort == [][Aborted /\ pipe # "save" => pipe' # "save"]_vars

(* A row that can be confirmed, for its requestId has been answered, is    *)
(* never written again: neither a late pipeline nor a commit in doubt      *)
(* changes what a confirmation reads twice.                                *)
ConfirmableRowIsFinal ==
    [][main = "answered" /\ reply.kind # "refused" => row' = row]_vars

(* Every request is answered: neither the timer, nor an error, nor scores  *)
(* left running keep execute waiting.                                      *)
EveryRequestAnswered == main = "pipeline" ~> main = "answered"
=============================================================================
