----------------------- MODULE EvaluateDispatchProofs -----------------------
(***************************************************************************)
(* Theorems about EvaluateDispatch, for any fleet and any safe points: any *)
(* number of scores in flight, and the timer, the errors and the commits   *)
(* in doubt wherever they may fall.                                        *)
(***************************************************************************)
EXTENDS EvaluateDispatch, TLAPS

(* What execute, the pipeline and the timer know of each other: execute    *)
(* waits exactly while the pipeline runs, and the timer is armed only      *)
(* while it waits.                                                         *)
Control ==
    /\ main = "start" => pipe = "generate" /\ timer = "off"
    /\ main = "pipeline" => pipe \in {"generate", "score", "save"}
    /\ main \in {"fallback", "save"} => pipe = "failed"
    /\ main = "answered" => pipe \in {"done", "failed"}
    /\ timer = "armed" => main = "pipeline"

(* Scores start with phase 3, and all are done when a decision is made.    *)
Scored ==
    /\ pipe = "generate" => DOMAIN scores = {}
    /\ pipe \in {"save", "done"} => \A k \in DOMAIN scores : scores[k] = "done"

(* The rows each writer may write.                                         *)
Chosen ==
    /\ pipe \in {"generate", "score"} => offered = NoRow
    /\ pipe \in {"save", "done"} => offered \in Rows
    /\ main = "save" => fallback \in Vehicles

(* What is stored, or in doubt, until the fallback's save settles: nothing *)
(* but what a pipeline that met an error may have left behind.             *)
Storing ==
    /\ pipe \in {"generate", "score", "save"} => row = NoRow /\ inDoubt = NoRow
    /\ main \in {"fallback", "save"} =>
           /\ row \in {NoRow, offered} /\ inDoubt \in {NoRow, offered}
           /\ row # NoRow \/ inDoubt # NoRow => error = "io"

(* The answer, the row behind it, and the one case where they differ.      *)
Answered ==
    /\ main # "answered" => reply = NoReply /\ ~swallowed
    /\ main = "answered" => reply.kind # "none"
    /\ reply.kind = "offer" <=> pipe = "done"
    /\ reply.kind = "offer" => reply.row = offered /\ row = offered
    /\ reply.kind \in {"offer", "fallback"} => inDoubt = NoRow
    /\ reply.kind = "fallback" /\ ~swallowed => row = reply.row
    /\ swallowed => reply.kind = "fallback" /\ row = offered /\ error = "io"

(* Which events have been emitted at which stage. *)
Heard ==
    /\ Occurs("FallbackActivated") =>
           main = "save" \/ reply.kind \in {"fallback", "refused"}
    /\ main = "save" \/ reply.kind = "fallback" => Occurs("FallbackActivated")
    /\ Occurs("NoAvailability") <=> reply.kind = "refused"
    /\ Occurs("SuggestionShown") <=> reply.kind = "offer" /\ reply.row.point # NoPoint

Outcome == CASE reply.kind = "offer" -> "success"
             [] reply.kind = "fallback" -> "fallback"
             [] OTHER -> "no_availability"

Counting == counted = IF main = "answered" THEN <<Outcome>> ELSE << >>

IInv == /\ TypeOK
        /\ Control /\ Scored /\ Chosen /\ Storing /\ Answered /\ Heard /\ Counting

----------------------------------------------------------------------------
(* Emitting an event, or none, and counting an outcome.                    *)
Names == {"RequestCreated", "SuggestionShown", "FallbackActivated", "NoAvailability"}

LEMMA EmitOne ==
    ASSUME events \in Seq(Names), NEW x \in Names, events' = events \o <<x>>
    PROVE  /\ events' \in Seq(Names)
           /\ \A e : Occurs(e)' <=> Occurs(e) \/ e = x
<1>1. /\ Len(events) \in Nat
      /\ Len(events') = Len(events) + 1
      /\ \A i \in 1..Len(events) : events'[i] = events[i]
      /\ events'[Len(events) + 1] = x
      /\ events' \in Seq(Names)
  OBVIOUS
<1>2. 1..Len(events') = 1..Len(events) \cup {Len(events) + 1}
  BY <1>1
<1>q. QED
  BY <1>1, <1>2 DEF Occurs

LEMMA EmitNone ==
    ASSUME events \in Seq(Names), events' = events \o << >>
    PROVE  events' = events
  OBVIOUS

LEMMA OccursStays == ASSUME events' = events PROVE \A e : Occurs(e)' <=> Occurs(e)
  BY DEF Occurs

LEMMA CountFirst ==
    ASSUME counted = << >>, NEW outcome
    PROVE  Append(counted, outcome) = <<outcome>>
  OBVIOUS

(* The rows the pipeline and the fallback may save. *)
LEMMA DecisionOK ==
    ASSUME TypeOK, NEW k \in DOMAIN scores
    PROVE  Decision(k) \in Rows
<1>1. k \in Combos
  BY DEF TypeOK
<1>2. k[1] \in Vehicles /\ k[2] \in Points \cup {NoPoint}
  BY <1>1 DEF Combos
<1>q. QED
  BY <1>2 DEF Decision, Rows, Reasons

LEMMA FallbackRowOK ==
    ASSUME Chosen, main = "save"
    PROVE  FallbackRow \in Rows
  BY DEF Chosen, FallbackRow, FallbackReason, Rows, Reasons

----------------------------------------------------------------------------
(* Each step preserves the invariant.                                      *)
LEMMA StartStep ==
    ASSUME IInv, Start
    PROVE  IInv'
<1> USE DEF IInv, Start, found, store
<1>1. events' \in Seq(Names) /\ \A e : Occurs(e)' <=> Occurs(e) \/ e = "RequestCreated"
  BY EmitOne DEF TypeOK, Names, Emitted
<1>2. TypeOK'
  BY <1>1 DEF TypeOK, Names
<1>3. Control' /\ Scored' /\ Chosen' /\ Storing' /\ Answered' /\ Counting'
  BY DEF Control, Scored, Chosen, Storing, Answered, Counting, Outcome
<1>4. Heard'
  BY <1>1 DEF Heard, Control, Answered, NoReply
<1>q. QED
  BY <1>2, <1>3, <1>4

LEMMA TimerStep ==
    ASSUME IInv, TimerFires
    PROVE  IInv'
<1> USE DEF IInv, TimerFires, found, store, output
<1>1. TypeOK' /\ Control' /\ Scored' /\ Chosen' /\ Storing' /\ Answered' /\ Counting'
  BY DEF TypeOK, Control, Scored, Chosen, Storing, Answered, Counting, Outcome
<1>2. Heard'
  BY OccursStays DEF Heard
<1>q. QED
  BY <1>1, <1>2

(* The pipeline throws, while or before it saves. *)
LEMMA RejectStep ==
    ASSUME IInv, NEW cause \in {"empty", "abort", "io"}, Reject(cause),
           pipe \in {"generate", "score"}, main # "start",
           scores' \in [DOMAIN scores -> ScoreStages]
    PROVE  IInv'
<1> USE DEF IInv, Reject, ClearTimeout, found, store, output
<1>1. main = "pipeline" /\ main' = "fallback"
  BY DEF TypeOK, Control
<1>2. TypeOK'
  BY <1>1 DEF TypeOK
<1>3. Control' /\ Scored' /\ Chosen' /\ Storing' /\ Answered' /\ Counting'
  BY <1>1 DEF TypeOK, Control, Scored, Chosen, Storing, Answered, Counting, Outcome
<1>4. Heard'
  BY <1>1, OccursStays DEF Heard, Answered, NoReply
<1>q. QED
  BY <1>2, <1>3, <1>4

LEMMA GenerateStep ==
    ASSUME IInv, NEW V \in SUBSET Vehicles, NEW P \in SUBSET Points,
           GenerateResolves(V, P) \/ GenerateRejects
    PROVE  IInv'
<1>1. pipe = "generate" /\ main # "start" /\ scores \in [DOMAIN scores -> ScoreStages]
  BY DEF GenerateResolves, GenerateRejects, IInv, TypeOK
<1>2. CASE /\ UNCHANGED scores
           /\ \E cause \in {"empty", "abort", "io"} : Reject(cause)
  BY <1>1, <1>2, RejectStep
<1>3. CASE /\ pipe' = "score"
           /\ scores' = [k \in V \X (P \cup {NoPoint}) |-> "get"]
           /\ UNCHANGED <<main, timer, error, found, store, output>>
  <2> USE <1>1, <1>3 DEF IInv, found, store, output
  <2>1. /\ DOMAIN scores' = V \X (P \cup {NoPoint})
        /\ scores' \in [DOMAIN scores' -> ScoreStages]
    BY DEF ScoreStages
  <2>2. DOMAIN scores' \subseteq Combos
    BY <2>1 DEF Combos
  <2>3. TypeOK'
    BY <2>1, <2>2 DEF TypeOK
  <2>4. Control' /\ Scored' /\ Chosen' /\ Storing' /\ Answered' /\ Counting'
    BY DEF TypeOK, Control, Scored, Chosen, Storing, Answered, Counting, Outcome
  <2>5. Heard'
    BY OccursStays DEF Heard
  <2>q. QED
    BY <2>3, <2>4, <2>5
<1>q. QED
  BY <1>2, <1>3 DEF GenerateResolves, GenerateRejects

(* A score comes to a stage that decides nothing. *)
LEMMA ScoreMoves ==
    ASSUME IInv, NEW k \in DOMAIN scores, scores[k] # "done", NEW stage \in ScoreStages,
           scores' = [scores EXCEPT ![k] = stage],
           UNCHANGED <<control, error, found, store, output>>
    PROVE  IInv'
<1> USE DEF IInv, control, found, store, output
<1>1. /\ DOMAIN scores' = DOMAIN scores
      /\ scores' \in [DOMAIN scores -> ScoreStages]
  BY DEF TypeOK
<1>2. TypeOK'
  BY <1>1 DEF TypeOK
<1>3. Scored'
  BY <1>1 DEF Scored
<1>4. Control' /\ Chosen' /\ Storing' /\ Answered' /\ Counting'
  BY DEF Control, Chosen, Storing, Answered, Counting, Outcome
<1>5. Heard'
  BY OccursStays DEF Heard
<1>q. QED
  BY <1>2, <1>3, <1>4, <1>5

LEMMA ScoreRejectsStep ==
    ASSUME IInv, NEW k \in DOMAIN scores, scores[k] # "done",
           NEW cause \in {"abort", "io"}, ScoreRejects(k, cause)
    PROVE  IInv'
<1>1. /\ scores' = [scores EXCEPT ![k] = "failed"]
      /\ scores' \in [DOMAIN scores -> ScoreStages]
      /\ "failed" \in ScoreStages
  BY DEF ScoreRejects, IInv, TypeOK, ScoreStages
<1>2. CASE pipe = "score" /\ Reject(cause)
  <2>1. main # "start"
    BY <1>2 DEF IInv, Control
  <2>q. QED
    BY <1>1, <1>2, <2>1, RejectStep
<1>3. CASE UNCHANGED <<control, error, found, store, output>>
  BY <1>1, <1>3, ScoreMoves
<1>q. QED
  BY <1>2, <1>3 DEF ScoreRejects

LEMMA ScoreResolvesStep ==
    ASSUME IInv, NEW k \in DOMAIN scores, scores[k] # "done", ScoreResolves(k)
    PROVE  IInv'
<1>1. /\ scores' = [scores EXCEPT ![k] = "done"]
      /\ scores' \in [DOMAIN scores -> ScoreStages]
      /\ DOMAIN scores' = DOMAIN scores
      /\ "done" \in ScoreStages
  BY DEF ScoreResolves, IInv, TypeOK, ScoreStages
<1>2. CASE UNCHANGED <<control, error, found, store, output>>
  BY <1>1, <1>2, ScoreMoves
<1>3. CASE pipe = "score" /\ Reject("abort")
  <2>1. main # "start"
    BY <1>3 DEF IInv, Control
  <2>q. QED
    BY <1>1, <1>3, <2>1, RejectStep
<1>4. CASE /\ pipe = "score" /\ DecideAndSave /\ UNCHANGED events
           /\ \A j \in DOMAIN scores \ {k} : scores[j] = "done"
  <2> USE <1>4 DEF IInv, DecideAndSave, found, store
  <2>1. \A j \in DOMAIN scores' : scores'[j] = "done"
    BY <1>1
  <2>2. offered' \in Rows
    BY DecisionOK
  <2>3. TypeOK'
    BY <1>1, <2>2 DEF TypeOK
  <2>4. Scored'
    BY <2>1 DEF Scored
  <2>5. Control' /\ Chosen' /\ Storing' /\ Answered' /\ Counting'
    BY <2>2 DEF TypeOK, Control, Chosen, Storing, Answered, NoReply, Counting, Outcome
  <2>6. Heard'
    BY OccursStays DEF Heard
  <2>q. QED
    BY <2>3, <2>4, <2>5, <2>6
<1>q. QED
  BY <1>2, <1>3, <1>4 DEF ScoreResolves, Decide

LEMMA ScoringStep ==
    ASSUME IInv, NEW k \in DOMAIN scores, Scoring(k)
    PROVE  IInv'
<1>1. scores[k] # "done" /\ "set" \in ScoreStages
  BY DEF Scoring, CacheAnswers, CacheStored, DistanceFails, ScoreStages
<1>2. CASE ScoreResolves(k)
  BY <1>1, <1>2, ScoreResolvesStep
<1>3. CASE \E cause \in {"abort", "io"} : ScoreRejects(k, cause)
  BY <1>1, <1>3, ScoreRejectsStep
<1>4. CASE /\ scores' = [scores EXCEPT ![k] = "set"]
           /\ UNCHANGED <<control, error, found, store, output>>
  BY <1>1, <1>4, ScoreMoves
<1>q. QED
  BY <1>2, <1>3, <1>4 DEF Scoring, CacheAnswers, CacheStored, DistanceFails

----------------------------------------------------------------------------
LEMMA PipelineSavedStep ==
    ASSUME IInv, PipelineSaved
    PROVE  IInv'
<1> USE DEF IInv, PipelineSaved, ClearTimeout, found, Waits
<1>1. /\ main = "pipeline" /\ main' = "answered"
      /\ offered \in Rows /\ row = NoRow /\ inDoubt = NoRow /\ counted = << >>
  BY DEF TypeOK, Control, Chosen, Storing, Counting
<1>2. row' = offered /\ inDoubt' = NoRow /\ swallowed' = swallowed
  BY <1>1 DEF Saved
<1>3. reply' = [kind |-> "offer", row |-> offered] /\ counted' = <<"success">>
  BY <1>1, CountFirst
<1>4. /\ events' \in Seq(Names)
      /\ \A e : Occurs(e)' <=>
             Occurs(e) \/ (e = "SuggestionShown" /\ offered.point # NoPoint)
  <2>1. CASE offered.point = NoPoint
    <3>1. events' = events \o << >> /\ events \in Seq(Names)
      BY <2>1 DEF TypeOK, Names, Emitted
    <3>2. events' = events
      BY <3>1, EmitNone
    <3>q. QED
      BY <2>1, <3>1, <3>2, OccursStays
  <2>2. CASE offered.point # NoPoint
    BY <2>2, EmitOne DEF TypeOK, Names, Emitted
  <2>q. QED
    BY <2>1, <2>2
<1>5. TypeOK'
  BY <1>1, <1>2, <1>3, <1>4 DEF TypeOK, Names
<1>6. Control' /\ Scored' /\ Chosen' /\ Storing'
  BY <1>1, <1>2 DEF Control, Scored, Chosen, Storing, TypeOK
<1>7. Answered' /\ Counting'
  BY <1>1, <1>2, <1>3 DEF Answered, Counting, Outcome, TypeOK
<1>8. Heard'
  BY <1>1, <1>3, <1>4 DEF Heard, Answered, NoReply
<1>q. QED
  BY <1>5, <1>6, <1>7, <1>8

LEMMA PipelineSaveRejectsStep ==
    ASSUME IInv, PipelineSaveRejects
    PROVE  IInv'
<1> USE DEF IInv, PipelineSaveRejects, SaveRejects, ClearTimeout, found, output, Waits
<1>1. /\ main = "pipeline" /\ main' = "fallback"
      /\ offered \in Rows /\ row = NoRow /\ inDoubt = NoRow
  BY DEF TypeOK, Control, Chosen, Storing
<1>2. TypeOK'
  BY <1>1 DEF TypeOK
<1>3. Control' /\ Scored' /\ Chosen' /\ Storing' /\ Answered' /\ Counting'
  BY <1>1 DEF TypeOK, Control, Scored, Chosen, Storing, Answered, NoReply, Counting, Outcome
<1>4. Heard'
  BY <1>1, OccursStays DEF Heard, Answered, NoReply
<1>q. QED
  BY <1>2, <1>3, <1>4

LEMMA FallbackFindsStep ==
    ASSUME IInv, NEW v \in Vehicles, FallbackFinds(v)
    PROVE  IInv'
<1> USE DEF IInv, FallbackFinds, store
<1>1. events' \in Seq(Names) /\ \A e : Occurs(e)' <=> Occurs(e) \/ e = "FallbackActivated"
  BY EmitOne DEF TypeOK, Names, Emitted
<1>2. TypeOK'
  BY <1>1 DEF TypeOK, Names
<1>3. Control' /\ Scored' /\ Chosen' /\ Storing' /\ Answered' /\ Counting'
  BY DEF Control, Scored, Chosen, Storing, Answered, NoReply, Counting, Outcome
<1>4. Heard'
  BY <1>1 DEF Heard, Control, Answered, NoReply
<1>q. QED
  BY <1>2, <1>3, <1>4

(* Any failure of the catch block, its save's included. *)
LEMMA RefuseStep ==
    ASSUME IInv, main \in {"fallback", "save"}, Refuse,
           inDoubt' \in Rows \cup {NoRow},
           UNCHANGED <<pipe, timer, scores, error, found, row, swallowed>>
    PROVE  IInv'
<1> USE DEF IInv, Refuse, found
<1>1. events' \in Seq(Names) /\ \A e : Occurs(e)' <=> Occurs(e) \/ e = "NoAvailability"
  BY EmitOne DEF TypeOK, Names, Emitted
<1>2. counted' = <<"no_availability">>
  BY CountFirst DEF Counting, Counted
<1>3. TypeOK'
  BY <1>1, <1>2 DEF TypeOK, Names
<1>4. Control' /\ Scored' /\ Chosen' /\ Storing'
  BY DEF Control, Scored, Chosen, Storing
<1>5. Answered' /\ Counting'
  BY <1>2 DEF Answered, Counting, Outcome, Control
<1>6. Heard'
  BY <1>1 DEF Heard, Answered, NoReply
<1>q. QED
  BY <1>3, <1>4, <1>5, <1>6

LEMMA FallbackFailsStep ==
    ASSUME IInv, FallbackFails
    PROVE  IInv'
  BY RefuseStep DEF FallbackFails, store, IInv, TypeOK

LEMMA FallbackSaveRejectsStep ==
    ASSUME IInv, FallbackSaveRejects
    PROVE  IInv'
  BY RefuseStep, FallbackRowOK DEF FallbackSaveRejects, SaveRejects, IInv, TypeOK

LEMMA FallbackSavedStep ==
    ASSUME IInv, FallbackSaved
    PROVE  IInv'
<1> USE DEF IInv, FallbackSaved, found
<1> DEFINE mine == FallbackRow
<1>1. mine \in Rows
  BY FallbackRowOK
<1>2. /\ main = "save" /\ pipe = "failed" /\ reply = NoReply /\ ~swallowed
      /\ counted' = <<"fallback">> /\ reply' = [kind |-> "fallback", row |-> mine]
  BY CountFirst DEF Control, Answered, Counting, Counted
<1>3. /\ inDoubt' = NoRow
      /\ \/ row' = mine /\ ~swallowed'
         \/ row' = offered /\ error = "io" /\ swallowed'
  BY <1>2, NoRowAssumption DEF Saved, Storing
<1> HIDE DEF mine
<1>4. TypeOK'
  <2>1. reply' \in [kind : {"none", "offer", "fallback", "refused"}, row : Rows \cup {NoRow}]
    BY <1>1, <1>2
  <2>2. row' \in Rows \cup {NoRow}
    BY <1>1, <1>3 DEF TypeOK
  <2>3. swallowed' \in BOOLEAN
    BY DEF Saved, TypeOK
  <2>4. counted' \in Seq({"success", "fallback", "no_availability"})
    BY <1>2
  <2>q. QED
    BY <1>3, <2>1, <2>2, <2>3, <2>4 DEF TypeOK
<1>5. Control' /\ Scored' /\ Chosen' /\ Storing'
  BY <1>2 DEF Control, Scored, Chosen, Storing
<1>6. Answered' /\ Counting'
  BY <1>2, <1>3 DEF Answered, Counting, Outcome
<1>7. Heard'
  BY <1>2, OccursStays DEF Heard, NoReply
<1>q. QED
  BY <1>4, <1>5, <1>6, <1>7

LEMMA InDoubtStep ==
    ASSUME IInv, InDoubtResolves
    PROVE  IInv'
<1> USE DEF IInv, InDoubtResolves, CommitLands, CommitDropped, control, found, output
<1>1. TypeOK' /\ Control' /\ Scored' /\ Chosen' /\ Storing' /\ Answered' /\ Counting'
  BY DEF TypeOK, Control, Scored, Chosen, Storing, Answered, Counting, Outcome
<1>2. Heard'
  BY OccursStays DEF Heard
<1>q. QED
  BY <1>1, <1>2

----------------------------------------------------------------------------
LEMMA InitIInv == Init => IInv
<1> SUFFICES ASSUME Init PROVE IInv
  OBVIOUS
<1> USE DEF Init, NoReply
<1>1. DOMAIN scores = {} /\ scores \in [DOMAIN scores -> ScoreStages]
  OBVIOUS
<1>2. \A e : ~Occurs(e)
  BY DEF Occurs
<1>3. TypeOK
  <2>1. reply \in [kind : {"none", "offer", "fallback", "refused"}, row : Rows \cup {NoRow}]
    OBVIOUS
  <2>2. /\ events \in Seq(Names)
        /\ counted \in Seq({"success", "fallback", "no_availability"})
    OBVIOUS
  <2>q. QED
    BY <1>1, <2>1, <2>2 DEF TypeOK, Names
<1>4. Control /\ Scored /\ Chosen /\ Storing /\ Answered /\ Counting
  BY <1>1 DEF Control, Scored, Chosen, Storing, Answered, Counting
<1>5. Heard
  BY <1>2 DEF Heard
<1>q. QED
  BY <1>3, <1>4, <1>5 DEF IInv

LEMMA StutterIInv == IInv /\ UNCHANGED vars => IInv'
<1> SUFFICES ASSUME IInv, UNCHANGED vars PROVE IInv'
  OBVIOUS
<1> USE DEF vars, IInv
<1>1. TypeOK' /\ Control' /\ Scored' /\ Chosen' /\ Storing' /\ Answered' /\ Counting'
  BY DEF TypeOK, Control, Scored, Chosen, Storing, Answered, Counting, Outcome
<1>2. Heard'
  BY OccursStays DEF Heard
<1>q. QED
  BY <1>1, <1>2

LEMMA NextIInv == IInv /\ [Next]_vars => IInv'
<1> SUFFICES ASSUME IInv, [Next]_vars PROVE IInv'
  OBVIOUS
<1>1. CASE Start
  BY <1>1, StartStep
<1>2. CASE TimerFires
  BY <1>2, TimerStep
<1>3. CASE \E V \in SUBSET Vehicles, P \in SUBSET Points : GenerateResolves(V, P)
  BY <1>3, GenerateStep
<1>4. CASE GenerateRejects
  BY <1>4, GenerateStep
<1>5. CASE \E k \in DOMAIN scores : Scoring(k)
  BY <1>5, ScoringStep
<1>6. CASE PipelineSaved \/ PipelineSaveRejects
  BY <1>6, PipelineSavedStep, PipelineSaveRejectsStep
<1>7. CASE \E v \in Vehicles : FallbackFinds(v)
  BY <1>7, FallbackFindsStep
<1>8. CASE FallbackFails \/ FallbackSaved \/ FallbackSaveRejects
  BY <1>8, FallbackFailsStep, FallbackSavedStep, FallbackSaveRejectsStep
<1>9. CASE InDoubtResolves
  BY <1>9, InDoubtStep
<1>10. CASE UNCHANGED vars
  BY <1>10, StutterIInv
<1>q. QED
  BY <1>1, <1>2, <1>3, <1>4, <1>5, <1>6, <1>7, <1>8, <1>9, <1>10 DEF Next

----------------------------------------------------------------------------
(* The inductive invariant of an evaluation. *)
THEOREM Inductive == Spec => []IInv
  BY InitIInv, NextIInv, PTL DEF Spec

(* Every variable keeps its type, whatever rejects and whenever the timer  *)
(* fires.                                                                  *)
THEOREM TypeCorrect == Spec => []TypeOK
<1>1. IInv => TypeOK
  BY DEF IInv
<1>q. QED
  BY <1>1, Inductive, PTL

(* The catch block starts, and saves, only when the pipeline has ended: no *)
(* two writers of one decision run at once.                                *)
THEOREM OneWriter == Spec => []FallbackAfterPipeline
<1>1. IInv => FallbackAfterPipeline
  BY DEF IInv, Control, FallbackAfterPipeline
<1>q. QED
  BY <1>1, Inductive, PTL

(* No decision is made or offered while a score of the matrix is missing.  *)
THEOREM EveryScoreCounts == Spec => []OffersAreFullyScored
<1>1. IInv => OffersAreFullyScored
  BY DEF IInv, Scored, Answered, OffersAreFullyScored
<1>q. QED
  BY <1>1, Inductive, PTL

(* What the caller was told is what is stored, but for a swallowed 23505.  *)
THEOREM AnswersAreStored == Spec => []ReplyIsStored
<1>1. IInv => ReplyIsStored
  BY DEF IInv, Answered, ReplyIsStored
<1>q. QED
  BY <1>1, Inductive, PTL

(* A 23505 is swallowed only by a fallback that follows a pipeline's save  *)
(* in doubt, and then the row kept is the pipeline's.                      *)
THEOREM SwallowedIsThePipelines == Spec => []SwallowedOnlyInDoubt
<1>1. IInv => SwallowedOnlyInDoubt
  BY DEF IInv, Answered, SwallowedOnlyInDoubt
<1>q. QED
  BY <1>1, Inductive, PTL

(* The events emitted by the time of the answer tell what it was.          *)
THEOREM EventsTellTheAnswer == Spec => []EventsAgree
<1>1. IInv => EventsAgree
  BY DEF IInv, Answered, Heard, EventsAgree
<1>q. QED
  BY <1>1, Inductive, PTL

(* Each answer is counted once, under its own outcome.                     *)
THEOREM OneOutcome == Spec => []CountedOnce
<1>1. IInv => CountedOnce
  BY DEF IInv, Counting, Outcome, CountedOnce
<1>q. QED
  BY <1>1, Inductive, PTL

(* A pipeline whose signal is aborted starts no save: what has not reached *)
(* its save when the timer fires never writes.                             *)
THEOREM AbortIsFinal == Spec => NoSaveAfterAbort
<1>1. IInv /\ [Next]_vars => [Aborted /\ pipe # "save" => pipe' # "save"]_vars
  <2> SUFFICES ASSUME [Next]_vars, Aborted, pipe # "save" PROVE pipe' # "save"
    OBVIOUS
  <2>1. \A k : ~(Scoring(k) /\ pipe' = "save")
    BY DEF Scoring, CacheAnswers, CacheStored, DistanceFails, ScoreRejects, ScoreResolves,
       Reject, Decide, control
  <2>q. QED
    BY <2>1 DEF Next, vars, Start, TimerFires, GenerateResolves, GenerateRejects, Reject,
       PipelineSaved, PipelineSaveRejects, FallbackFinds, FallbackFails, FallbackSaved,
       FallbackSaveRejects, InDoubtResolves, control
<1>q. QED
  BY <1>1, Inductive, PTL DEF Spec, NoSaveAfterAbort

(* Once an offer or a fallback is answered its row is final, which is what *)
(* ConfirmDispatch takes for granted of the row it reads without a lock.   *)
THEOREM AnsweredRowsStay == Spec => ConfirmableRowIsFinal
<1>1. IInv /\ [Next]_vars => [main = "answered" /\ reply.kind # "refused" => row' = row]_vars
  <2> SUFFICES ASSUME IInv, Next, main = "answered", reply.kind # "refused" PROVE row' = row
    OBVIOUS
  <2>1. pipe \in {"done", "failed"} /\ inDoubt = NoRow
    BY DEF IInv, TypeOK, Control, Answered
  <2>2. \A k : Scoring(k) => row' = row
    BY <2>1 DEF Scoring, CacheAnswers, CacheStored, DistanceFails, ScoreRejects, ScoreResolves,
       Reject, Decide, store
  <2>q. QED
    BY <2>1, <2>2 DEF Next, Start, TimerFires, GenerateResolves, GenerateRejects, Reject,
       PipelineSaved, PipelineSaveRejects, FallbackFinds, FallbackFails, FallbackSaved,
       FallbackSaveRejects, InDoubtResolves, CommitLands, CommitDropped, store
<1>q. QED
  BY <1>1, Inductive, PTL DEF Spec, ConfirmableRowIsFinal
=============================================================================
