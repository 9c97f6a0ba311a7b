# NexRide dispatch: a TLA+ verification project

NexRide is a NestJS service that takes ride requests, offers a vehicle and
perhaps a safer pickup point, and turns a confirmed offer into a trip. State
lives in PostgreSQL (decisions, trips, safe points and their audit log,
analytics) and in Redis (the fleet, a distance cache). One Node.js process runs
many requests interleaved on one event loop, so what can go wrong lies between
two `await`s and between two transactions. These modules model that, TLC checks
them on small instances, and TLAPS proves for all instances what TLC finds to hold, liveness
excepted.

Paths below are relative to `src/src/` unless they start with `docs/`.

## 1. Inventory

| Component | State it keeps | Operations | Talks to |
|---|---|---|---|
| Rider API, `rider/`, `dispatch/dispatch.facade.ts` | none | `POST /rides/request`, `POST /rides/confirm` | the two use cases |
| Evaluate, `dispatch/application/evaluate-dispatch.use-case.ts` | locals of a call: abort signal, phase, candidates | `execute`, `runPipeline`: candidature, filter, scoring, decision, save; catch block with the fallback | generator, filter, scorer, decision maker, fallback, repository, event bus |
| Candidate generator and filter, `dispatch/domain/services/` | none | `generate` (fleet and catalogue read together), `filter` (five rules) | fleet, safe points |
| Scoring engine and decision maker | none | `score`, `decide` | distance provider |
| Fallback handler | none | `fallback`: reads the fleet again, nearest viable vehicle | fleet |
| Distance provider and cache | Redis `distance:*` with a TTL | `getEtaSeconds` (cache, then Haversine) | Redis, abort signal |
| Decision repository and recorder | `dispatch_decisions` | `savePreliminary` (swallows 23505), `findByRequestId`; `updateConfirmed` is unused | PostgreSQL |
| Confirm, `dispatch/application/confirm-dispatch.use-case.ts` | locals of a call: the decision read before the transaction | pre-read, ownership, transaction (lock, idempotency, trip, update), events | repository, trips, event bus |
| Trips, `trip/trip.service.ts` | `trips` (UNIQUE `request_id`) | `createMinimum` | PostgreSQL, in the caller's transaction |
| Fleet, `fleet/` | Redis `fleet:geo`, `fleet:vehicles:{id}`, written by telemetry outside this code | `findCandidatesInRadius`: one GEOSEARCH, then one HGETALL per vehicle | Redis |
| Safe points, `safe-points/` | `safe_points`, `safe_point_audit` | create, update, activate, deactivate, delete, `findWithin` | PostgreSQL; read by evaluate, referred to by decisions and trips |
| Analytics, `analytics/` | `analytics_events` | one asynchronous listener per event, failures swallowed | event bus, PostgreSQL |
| Guards and throttling, `common/guards/`, `app.module.ts` | hits and blocks per throttler and key | the throttler, the test context, the roles, in that order | every route |
| Event bus, errors, config, flags, observability, `common/` | counters only | emit, map errors, parse the environment | everything |
| Migrations, bootstrap, seeds, `docker/`, `scripts/`, CI | the schema | run once, outside serving | PostgreSQL |

What is hard, and what makes each component correct:

- **Confirm.** Double taps, retries after a 500, a lock and a foreign key on the
  same row, a pool of connections, a crash between COMMIT and the events. Correct
  when a request becomes at most one trip, together with its decision, finally,
  and every answer is true.
- **Evaluate.** A timer that aborts a coroutine which only notices at certain
  points; `Promise.all` leaving scores running; a fallback that writes the same
  key. Correct when one of the two writes, the answer is what is stored, and
  events and counters say the same.
- **Dispatch policy** (generator, filter, scorer, decision maker, fallback,
  fleet). Reads that are not atomic, thresholds, sorts on totals where the rule is
  on safety. Correct when whoever is assigned is fit, nobody fit is overlooked,
  safe points do not change who comes, and a clear improvement is never missed.
- **Safe points.** Two reads and two writes per change, in concurrent
  transactions, under foreign keys from two tables. Correct when the audit log
  tells the stored row, one delete wins, offered points stay.
- **Analytics.** Listeners on later turns of the loop, on the pool that
  confirmations hold. Rows may be lost by design; correct when the rows there are
  tell the truth, none is stored twice, a loss is counted and nobody starves.
- **The system.** Confirmations, offers and catalogue changes share a pool and three
  foreign keys that lock rows in opposite orders. Correct when a point in use stays
  and every caller is answered.
- **Guards.** Correct when a rider is limited by the rider's own calls.

`PROJECT.json` lists the hazards, each at its line, with the property that covers
it or the reason none does.

## 2. Modules

| Module | Models |
|---|---|
| `RideBooking` | abstract: what `POST /rides/confirm` promises |
| `ConfirmDispatch` | the confirmation, its two tables, trips, crashes |
| `ConfirmDispatchProofs` | its theorems |
| `EvaluateDispatch` | one evaluation: coroutines, timer, saves, answer |
| `EvaluateDispatchProofs` | its theorems |
| `DispatchPolicy` | which vehicle and which point, from a changing fleet |
| `DispatchPolicyProofs` | its theorems |
| `AuditedCatalogue` | abstract: what the admin routes of safe points promise |
| `SafePoints` | the catalogue and its audit log |
| `SafePointsProofs` | its theorems |
| `DispatchSystem` | composes `ConfirmDispatch` and `SafePoints` over one database and pool |
| `DispatchSystemProofs` | its theorems, from those of its two components |
| `Analytics` | composes `ConfirmDispatch` with the event listeners |
| `AnalyticsProofs` | its theorems, from those of `ConfirmDispatch` |
| `Admission` | the guards before a handler |
| `MC...` | instances for TLC, and statements of the docs the code does not keep |

Each module says the same two things of its steps: one action is what a call does
between two awaits, a query or an event-loop turn; and the code's early returns and
throws are its disjuncts. External to all: TypeORM's transaction helper, the pg
pool, PostgreSQL's locks and Redis, each modelled by what the code relies on.

### ConfirmDispatch

`offer[r]` is the row as the evaluation wrote it, `tripId[r]` and `userChoice[r]`
the columns the confirmation writes, `trips` the trips by id (a fresh UUID, named
by the call that creates it). `pc[c]`, `input[c]`, `decision[c]` and `reply[c]` are
a call's own; `staged[c]` is what its transaction wrote and has not committed;
`lock[r]` is the holder of the decision row. The actions, in the order of
`execute`: `ReadDecision` (43-56), `BeginTransaction` (59), `LockDecision` (63-94),
`CreateMinimum` (100-112 and `trip.service.ts`), `UpdateDecision` (115-120),
`Commit`, `Emit` (125-179); `Rollback` and `QueryFails` for every rejection,
`CommitUnacknowledged` for a COMMIT whose answer is lost, `Crash` for the process.
The check at 69-72 (the row vanished) has no action: no code deletes decisions.

### EvaluateDispatch

`main` is `execute`, `pipe` the `runPipeline` coroutine, `timer` the abort timer,
`scores[k]` each started `score()`. They interleave. `row` is the request's row of
`dispatch_decisions`; `inDoubt` is a row whose save rejected while its COMMIT was
under way, which lands or is dropped later. Requests share no row, so one request
is the whole component. `GenerateResolves`, `CacheAnswers`, `CacheStored`, `Decide`,
`PipelineSaved` and the fallback's actions carry the abort checks exactly where the
code has them (220, 281, 311, and the provider's at 35 and 54).

### DispatchPolicy

What `EvaluateDispatch` leaves nondeterministic. A search (`GeoSearch`) and one read
per vehicle (`ReadHash`) run against `hash` and `distance`, which `Telemetry` and
`Move` change meanwhile; `Score` applies the filter and fixes the matrix; `Decide`
is the winner and the suggestion; `EnterFallback`, `FallbackPicks` and
`NoAvailability` are the catch block. `base[v]` stands for proximity, energy and
continuity: the code computes them from the vehicle alone, and this independence is
all the properties use. Scores are integers, in units larger than the comparator's
1e-9, with rates in per cent. `held` and `been` are history variables: the hashes and the
distances each vehicle has had since the pipeline, or the fallback, began. A vehicle that
changes meanwhile may be judged on a place it has left and a state it took on later
(the code reads them in two steps), so `AssignedWasFit` asks that each was true of it at
some time, and `NobodyOverlooked` speaks of a vehicle that was fit in every combination.
The search is cut at `MaxFound` (100 in the code) before any filter: `Crowded(v)` says
that it was full of vehicles no farther than `v`, the only excuse for leaving `v` out.

### SafePoints

`points`, `audit` and `suggested` (the points a stored decision refers to) are the
tables; `existing[c]` is the row read before the transaction, `staged[c]` the row
written, `held[c]` the row lock, with PostgreSQL's modes: UPDATE takes NO KEY
UPDATE, DELETE takes UPDATE, a foreign key takes KEY SHARE. A statement sees the
row as committed once its lock is granted. The actions are the queries of
`safe-points.service.ts` and its repository: `FindById`, `BeginTransaction`, `Create`,
`Update`, `WriteAudit`, `Delete`, `CheckReferences` (the foreign key's check at the
end of the DELETE, with the row already locked), `Commit`, `Rollback`; `QueryFails`,
`Crash`, and `Offer`, an evaluation that stores a decision. `DeadlockAborts` is
PostgreSQL's own: among the catalogue's calls only two deletes of one point can wait
for each other, since each holds KEY SHARE from its audit row and wants UPDATE.

### AuditedCatalogue

`rows`, `log`, what each call `asked` and was `told`. `Apply` changes a row and logs it
in one step, on the row as it is then; an answer is a claim about the log ("done": my
change is in it; "notFound": no such row, and I changed nothing; "error": no claim).
`SafePoints!Promise` maps `log` to the audit table without its `before` and `id`
columns, which the promise does not cover, so COMMIT is the step that applies.

### DispatchSystem

`ConfirmDispatch` is extended and `SafePoints` instantiated with `suggested` replaced
by the points the decisions refer to. A system step is a step of one component that
the other's connections and locks allow: `SharedConnection` is one pool for both,
`PointIsFree` is the KEY SHARE that a trip's INSERT takes on its point, `Referring` the
transactions that hold it, `CheckDone` and `CheckFinds` the KEY SHARE that the check of
a DELETE takes on the decisions referring to the point. `StoreOffer` is a step of both,
and `ProcessCrash` stops both. `WaitForEachOther` is the cycle the code leaves to
`deadlock_timeout`: a confirmation holds its decision and wants the point, a delete
holds the point and wants the decision; either may lose.

### Analytics

A report is one emitted event. `Confirm` is a confirmation's step, and its `Emit` queues
the listeners of `Events(c)`; `Persist`, `Saved` and `SaveRejects` are `persist` of
`dispatch.handler.ts`, whose rejection is counted and forgotten, with the row stored or
not; `ProcessCrash` drops queued listeners and the counter. What an evaluation emits
is external here (`EvaluationEmits`), under the conditions `EvaluateDispatch` shows.

### Admission

`HandleRequest` for the `user` and then the `ip` throttler, `TestContext`, `Rbac`, in the
order Nest runs global and controller guards; `Tracker` reads `req.user`, which only
`TestContext` sets. Time is the set of calls older than the ttl.

### RideBooking

Three variables: who booked a request, what a call asks for, what it was told.
`Book` is the linearization point, and each answer is a claim about the bookings.
`ConfirmDispatch!Booking` maps `booked` to `tripId`, so COMMIT is the step that books.

## 3. Runs

| Run | Configuration | Shows |
|---|---|---|
| `confirm` | `MCConfirmDispatch.cfg` | all safety of the confirmation, and that it implements `RideBooking` |
| `confirm_expiry` | `MCConfirmExpiry.cfg` | **violated**: an expired offer is confirmed |
| `evaluate` | `MCEvaluateDispatch.cfg` | an evaluation has one writer and one answer, whose row is final; row, events and counters agree; an offer has every score; it always ends |
| `evaluate_timeout` | `MCEvaluateTimeout.cfg` | **violated**: a timeout during the save does not activate the fallback |
| `evaluate_reason` | `MCEvaluateReason.cfg` | **violated**: `no_candidates` is recorded for any error |
| `safepoints` | `MCSafePoints.cfg` | audit log, deletes, offered points and partial updates |
| `safepoints_snapshot` | `MCSafePointsSnapshot.cfg` | **violated**: a DELETE snapshot can be stale |
| `system` | `MCDispatchSystem.cfg` | points in use stay, confirmations and changes are all answered, each change is atomic with its audit row, and the catalogue still behaves as `SafePoints` |
| `analytics` | `MCAnalytics.cfg` | rows are true and unique, one verdict per request, losses counted, listeners and confirmations both end |
| `policy` | `MCDispatchPolicy.cfg` | who is assigned and what is suggested |
| `policy_origin` | `MCDispatchPolicyOrigin.cfg` | **violated**: a curated origin is scored with the baseline |
| `admission_budget` | `MCAdmission.cfg` | **violated**: riders behind one address share one user limit |

The violated properties each state a sentence of the docs or of a comment; the
findings in `PROJECT.json` quote it. Two findings need no violated run, because what
the code does is itself a property that holds. `SwallowedOnlyInDoubt`: the 23505
branch of `savePreliminary` keeps the pipeline's row, not the fallback's, as its
comment says. `OffersAreFullyScored`: an offer rests on every score, so a distance that
times out always ends in the fallback, while the guide promises the cache and then
Haversine first.

**Bounds.** *Confirm*: three calls, two requests, two riders: one call can hold the
lock while another waits and a third arrives late, on the same request or on
another; two connections make the pool smaller than the calls; one crash can
separate a commit from its answer, and more would repeat it (`MaxCrashes`). *Evaluate*: two vehicles
and one safe point give four scores, enough for one to reject while others are
pending and for the last to resolve. *SafePoints*: three calls on one point meet in every
pair of operations with a third to observe; two connections; two data values tell
an old value from a new one. Ids are never reused (`Fresh`), and a CREATE is received
only while an id is left (`IdLeft`). *System*: one confirmation and two changes are enough for both cycles
(confirmation against delete, delete against delete) and fill the pool of two; the
changes are CREATE, DEACTIVATE and DELETE, one for each way of touching a row
(`MCChangeRequests`), since `safepoints` has run them all. *Analytics*: two confirmations
of one request, one a retry of the other, and four of the events (`Listened`): two of
an evaluation, of which one has a condition, and the two verdicts. *Admission*: three
calls, limits 1 and 2, which keep the order of the code's 100 and 1000. *Policy*: three vehicles, of which a search
returns two (`MaxFound`), so that it is cut while two are still compared; two points are what
comparisons and ties need; the six kinds of hash each break one rule of the filter
or of the fallback; scores 20, 23 and 24 over a baseline of 20 sit at, below and
above 15 %; walks of 120 and 121 m sit on and past the radius; one change
(`MaxUpdates`) falls between any two reads. `MCInit` has the third vehicle start out fit, the
one worth hiding, and `QuietWithPoints` explores safe points only with fleets of fit
vehicles that do not change, since points and fleet meet in `Combos` alone; the theorems
have neither bound. Symmetry is used only among calls, requests, riders and data values
that start out alike, and never in a run that checks liveness.

`CHECK_DEADLOCK FALSE` in every configuration: a system whose calls are all answered stops.

**Fairness.** Weak fairness of each call's next step, in `ConfirmDispatch`, `SafePoints`
and their composition: a query settles and the event loop resumes its awaiter. Clients,
failing queries and crashes are not assumed to happen. A lock wait ends when the
holder ends; calls are finitely many, so no strong fairness is needed. Where two
transactions wait for each other PostgreSQL aborts one, which is part of the step
(`DeadlockAborts`, `ConfirmLosesDeadlock`, `ChangeLosesDeadlock`): without it TLC finds a
confirmation at its INSERT and a delete at its check that wait forever, so
`EveryCallAnswered` and `ChangesAnswered` do rest on `deadlock_timeout`. Neither needs a retry,
and the code has none: the loser's client gets a 500. `Analytics` adds the listeners,
which the event loop gets to. In `EvaluateDispatch` every await settles one way or the
other and the timer fires unless cleared, which is what `setTimeout` and the clients'
own timeouts give.

## 4. Theorems

Proved by TLAPS for every value of the constants, from the named assumptions on the
constants alone: `ConfirmAssumption`, `AbsentAssumption`, `PolicyAssumption`,
`SafePointsAssumption`, both `NoRowAssumption`s, `EvaluateAssumption`, `ListenedAssumption` and
`SystemAssumption` say that the "no such thing" values are none of the things, that
counts and rates are naturals, that the requests and the listened events are such;
`CatalogueAssumption` that the catalogue is finite.

**ConfirmDispatchProofs.** None of the safety invariants is inductive alone:
exclusion says nothing of who holds the lock. `IInv` adds that a call past
`LockDecision` holds the lock of its request and found it unconfirmed, that the
pre-read decision is the stored one (an offer is written once, which the
evaluation has to keep: `AnsweredRowsStay` below), that a staged trip is
`TripOf` its call, and that the trip of a request is the one `tripId` names. Each
action has a lemma `IInv /\ Action => IInv'`; `Inductive` combines them. From it
follow `TypeCorrect`, `LockingIsExclusive`, `AtMostOneTrip`, `TripAndDecisionAgree`,
`EventsAreTrue`, the action property `Finality`, and the
refinement `ImplementsRideBooking`: COMMIT is `Book`, an answer is `Answer`,
a crash is `LoseConnections`, everything else stutters.

**DispatchPolicyProofs.** `IInv` carries what each stage has established: what was
found and read of a vehicle was true of it since the run began, who is not among the
found is out of radius or `Crowded`, `passed` are those of the read that
pass, `primary` is first among the combos, `chosen` is the nearest viable. It gives
`TypeCorrect`, `SuggestedComboWon` (the suggestion is the winner's own point: a clear
improvement outscores the original, because the weight is not negative),
`VehicleIgnoresPoints` (adding a point's safety to both sides keeps an order),
`AssignmentsAreFit` and `EveryFitVehicleCounts`. `NoSuggestionMissed` needs no more of
the state, but a fact about the order: in a finite catalogue some point comes first
(`SomePointIsFirst`). Instead of an induction, it takes the point with the fewest
others ahead of it, which `LeastNumber` gives: a point ahead of that one would have
fewer still, because `Before` is total, transitive and asymmetric on the points of one
vehicle. `AheadIsSafer` then turns an order on totals into one on safety, for which
the weight must be positive.

**EvaluateDispatchProofs.** The invariants speak of the answer; `IInv` says how things
stand before it. `Control`: main waits exactly while the pipeline runs, and the timer
is armed only then. `Scored`, `Chosen`: what has been scored and what may be written.
`Storing` is the crux: until the fallback's save settles, the table holds nothing but
what a pipeline that met an I/O error may have left, stored or in doubt; so a swallowed
insert is the pipeline's row. `Answered`, `Heard`, `Counting` tie the answer to the row,
the events and the counter. From it follow `TypeCorrect`, `OneWriter`,
`EveryScoreCounts`, `AnswersAreStored`, `SwallowedIsThePipelines`, `EventsTellTheAnswer`,
`OneOutcome` and the action properties `AbortIsFinal` and `AnsweredRowsStay`, for any number
of scores in flight. `AnsweredRowsStay` is what `ConfirmDispatch` takes for granted: it
writes `offer[r]` once, and a row is not final while its evaluation runs (the fallback's
save may update the row of a pipeline in doubt), but it is from the answer that makes
its `requestId` known.

**SafePointsProofs.** `IInv` has one part per idea. `Staging`: which operation is at
which stage. `Locking`: what each stage holds, that a locked row exists, and that two
holders are compatible. `Staged`: what an uncommitted change wrote is the row as it
is *now* with its columns set, because nobody else can change a row it locked; a
created id is unheard of. `Found`: a point that was found once is stored or in the log.
`Log`: rows of finished calls, the last about a point true, none after a DELETE, one for
every "done". `Offers`: a delete past its check removes no offered point. From it
follow `TypeCorrect`, `LogIsTrue`, `OneDelete`, `OffersStay`, the action property
`Composition`, and the refinement `ChangesAreAudited`: COMMIT is `Apply`, the answers of
FindById and of ROLLBACK are `Answer`, a crash is `LoseConnections`.

**AnalyticsProofs.** `ConfirmsAlone`: a step of `Analytics` is a step of `ConfirmDispatch` or
changes none of its variables, so all that is proved of confirmations holds behind
their listeners. On top of that invariant, `AInv` says that a row is written by its
listener's one save (`Unsaved`) and that what a listener was queued for was emitted and
stays true (`Queued`: trips are final, offers written once). They give `NoEventTwice`,
`NoLossUncounted`, `RowsTellTheTruth`, and `OneVerdictPerRequest`: two verdicts would come from
two stored trips of one request, or from one call that emitted both.

**DispatchSystemProofs.** No new invariant. `ConfirmationsAlone` and `CatalogueIsAlone` show
that locks, foreign keys, deadlocks and the shared pool only forbid or fail steps: every
step of the system is a step or a stutter of each component, storing an offer being
`Offer`. So both components keep their promises here: `BookingsStayAtomic`,
`ChangesStayAtomic`. `TripsKeepPoints` joins the two invariants: a trip, staged or stored,
is `TripOf` a decision that is still the row, so its point is a suggested point, and
those stay (`OffersStay`). `Proved` instantiates `SafePointsProofs` as `Catalogue` does
`SafePoints`; the lemmas `Same...` say that a definition means the same under both names.

**Only model-checked.** Liveness, which is out of the prover's reach: `EveryRequestAnswered`,
`EveryCallAnswered`, `ChangesAnswered`, `EveryReportSettles`. The sentences of the docs that the
code does not keep are refuted by TLC, and have nothing to prove.

## 5. Not modelled

- Reservation of vehicles across requests: the code has none. Two riders can be
  offered, and can confirm, the same vehicle.
- What the distance cache holds, its key and its TTL: a value is within the metre its
  key rounds to.
- Floating point: the epsilon of the comparator is not transitive, NaN compares equal.
- A crash during an evaluation: the client's retry has a new `requestId`, and the code
  recovers nothing. The pool connection an evaluation's save holds for one statement.
- Configuration parsing: it runs once. `validateWeights` accepts negative weights, for
  which `SuggestedComboWon` does not hold; `PolicyAssumption` excludes them.
- DTO validation, metrics other than the outcome and loss counters, migrations, seeds,
  scripts, CI, `.agents/`: stateless, output only, or not part of the serving system.
- `updateConfirmed`, `getVehicleSnapshot` and the flag provider: nothing calls them.

## 6. Plan

Done, in this order: `ConfirmDispatch` with `RideBooking`, `EvaluateDispatch`,
`SafePoints` with `AuditedCatalogue`, `DispatchPolicy`, `DispatchSystem`, `Analytics`,
`Admission`, and the proofs of all but `Admission`.

1. `EvaluateDispatch` and `DispatchPolicy` composed, so that the row an evaluation stores
   is the vehicle and the point the policy chose, with the policy's theorems carried
   over as `DispatchSystemProofs` does.
2. What `Admission` does keep: no key exceeds its limit within the ttl.
