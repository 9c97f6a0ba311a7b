----------------------------- MODULE SafePoints -----------------------------
(***************************************************************************)
(* The safe-point catalogue: SafePointsService's create, update, activate, *)
(* deactivate and delete, as many concurrent calls over the tables         *)
(* safe_points and safe_point_audit.  One action is one query of a call.   *)
(*                                                                         *)
(* PostgreSQL at READ COMMITTED: a statement sees what is committed when   *)
(* it runs, after waiting for the row locks it needs.  UPDATE takes NO KEY *)
(* UPDATE, DELETE takes UPDATE, and the foreign key of an INSERT into      *)
(* safe_point_audit or dispatch_decisions takes KEY SHARE, on the row of   *)
(* safe_points.  Names, zones, reasons, scores and locations are `data`;   *)
(* an id is a fresh UUID, so no id is used twice.                          *)
(***************************************************************************)
EXTENDS Naturals, Sequences, FiniteSets

CONSTANTS Calls, Points, Data,
          Unset,        \* a field an UPDATE leaves as it is
          NoPoint, NoRow,
          PoolSize      \* connections of the DataSource's pool

ASSUME SafePointsAssumption ==
    /\ NoPoint \notin Points
    /\ Unset \notin Data \cup {"active", "inactive"}
    /\ PoolSize \in Nat \ {0}

Statuses == {"active", "inactive"}
Rows == [status : Statuses, data : Data]
ASSUME NoRowAssumption == NoRow \notin Rows

Actions == {"CREATE", "UPDATE", "ACTIVATE", "DEACTIVATE", "DELETE"}

(* The requests: which point, and the columns to set on it.  A PATCH may   *)
(* set the status too.                                                     *)
Inputs ==
    [op : {"CREATE"}, point : {NoPoint}, status : {"active"}, data : Data]
    \cup [op : {"UPDATE"}, point : Points, status : Statuses \cup {Unset},
          data : Data \cup {Unset}]
    \cup [op : {"ACTIVATE"}, point : Points, status : {"active"}, data : {Unset}]
    \cup [op : {"DEACTIVATE"}, point : Points, status : {"inactive"}, data : {Unset}]
    \cup [op : {"DELETE"}, point : Points, status : {Unset}, data : {Unset}]

NoInput == [op |-> "NONE", point |-> NoPoint, status |-> Unset, data |-> Unset]

(* id is the column safe_point_id; about is the id in the snapshot.        *)
AuditRows == [id : Points \cup {NoPoint}, about : Points, action : Actions,
              by : Calls, before : Rows \cup {NoRow}, after : Rows \cup {NoRow}]

Modes == {"none", "keyShare", "noKeyUpdate", "update"}

VARIABLES
    points,     \* safe_points
    audit,      \* safe_point_audit, in commit order
    suggested,  \* the points dispatch_decisions refers to
    input,      \* the input of each call
    pc,         \* where each call is
    existing,   \* the call's local `existing`, read before the transaction
    staged,     \* the row written by the call's open transaction
    held,       \* the lock the call's transaction holds on the row of its point
    reply       \* what the call answers, or will once it is rolled back

tables == <<points, audit, suggested>>
vars == <<points, audit, suggested, input, pc, existing, staged, held, reply>>

(* Any points may have been loaded, without an audit row, by a seed.       *)
Init ==
    /\ points \in [Points -> [status : {"active"}, data : Data] \cup {NoRow}]
    /\ audit = << >> /\ suggested = {}
    /\ input = [c \in Calls |-> NoInput]
    /\ pc = [c \in Calls |-> "idle"]
    /\ existing = [c \in Calls |-> NoRow]
    /\ staged = [c \in Calls |-> NoRow]
    /\ held = [c \in Calls |-> "none"]
    /\ reply = [c \in Calls |-> "none"]

----------------------------------------------------------------------------
Point(c) == input[c].point
Op(c) == input[c].op
Goto(c, stage) == pc' = [pc EXCEPT ![c] = stage]
Throw(c, stage, answer) == Goto(c, stage) /\ reply' = [reply EXCEPT ![c] = answer]

Open(c) == pc[c] \in {"insert", "update", "audit", "delete", "check", "commit",
                      "rollback"}
FreeConnection == Cardinality({c \in Calls : Open(c)}) < PoolSize

(* PostgreSQL's row-lock table, for the modes this code takes.             *)
Compatible(m, n) ==
    \/ "none" \in {m, n}
    \/ "keyShare" \in {m, n} /\ "update" \notin {m, n}

Blocks(d, c, mode) ==
    d # c /\ Point(d) = Point(c) /\ ~Compatible(held[d], mode)
Granted(c, mode) == \A d \in Calls : ~Blocks(d, c, mode)

Lock(c, mode) == held' = [held EXCEPT ![c] = IF @ = "none" THEN mode ELSE @]

----------------------------------------------------------------------------
(* No reason, or a blank one: refused before any query.                    *)
RequireReason(c) ==
    /\ pc[c] = "idle"
    /\ Throw(c, "answered", "reasonRequired")
    /\ UNCHANGED <<tables, input, existing, staged, held>>

(* Bound: a CREATE is received only if an id is left for it.               *)
Fresh(p) ==
    /\ points[p] = NoRow
    /\ \A d \in Calls : staged[d] # NoRow => Point(d) # p
    /\ \A i \in DOMAIN audit : audit[i].about # p

IdLeft == Cardinality({d \in Calls : Op(d) = "CREATE" /\ pc[d] \in {"begin", "insert"}})
              < Cardinality({p \in Points : Fresh(p)})

Receive(c, i) ==
    /\ pc[c] = "idle"
    /\ i.op = "CREATE" => IdLeft
    /\ input' = [input EXCEPT ![c] = i]
    /\ Goto(c, IF i.op = "CREATE" THEN "begin" ELSE "find")
    /\ UNCHANGED <<tables, existing, staged, held, reply>>

(* findById, outside the transaction. *)
FindById(c) ==
    /\ pc[c] = "find"
    /\ FreeConnection
    /\ \/ /\ points[Point(c)] = NoRow
          /\ Throw(c, "answered", "notFound")
          /\ UNCHANGED existing
       \/ /\ points[Point(c)] # NoRow
          /\ existing' = [existing EXCEPT ![c] = points[Point(c)]]
          /\ Goto(c, "begin")
          /\ UNCHANGED reply
    /\ UNCHANGED <<tables, input, staged, held>>

BeginTransaction(c) ==
    /\ pc[c] = "begin"
    /\ FreeConnection
    /\ Goto(c, IF Op(c) = "CREATE" THEN "insert"
               ELSE IF Op(c) = "DELETE" THEN "audit" ELSE "update")
    /\ UNCHANGED <<tables, input, existing, staged, held, reply>>

(* repo.create: the status is the column's default. *)
Create(c, p) ==
    /\ pc[c] = "insert"
    /\ Fresh(p)
    /\ input' = [input EXCEPT ![c].point = p]
    /\ staged' = [staged EXCEPT ![c] = [status |-> input[c].status, data |-> input[c].data]]
    /\ Goto(c, "audit")
    /\ UNCHANGED <<tables, existing, held, reply>>

(* The SET clause of repo.update has only the columns given.  The mutant   *)
(* sets every column, given or not.                                        *)
MutantMerge(row, i) == [status |-> i.status, data |-> i.data]
Merge(row, i) == [status |-> IF i.status = Unset THEN row.status ELSE i.status,
                  data   |-> IF i.data = Unset THEN row.data ELSE i.data]

(* It applies to the row as it is once the lock is granted.  The mutant    *)
(* writes the entity back, as save({...existing, ...input}) would.         *)
MutantUpdated(c) == Merge(existing[c], input[c])
Updated(c) == Merge(points[Point(c)], input[c])

Update(c) ==
    /\ pc[c] = "update"
    /\ Granted(c, "noKeyUpdate")
    /\ \/ /\ points[Point(c)] = NoRow
          /\ Throw(c, "rollback", "notFound")
          /\ UNCHANGED <<staged, held>>
       \/ /\ points[Point(c)] # NoRow
          /\ staged' = [staged EXCEPT ![c] = Updated(c)]
          /\ Lock(c, "noKeyUpdate")
          /\ Goto(c, "audit")
          /\ UNCHANGED reply
    /\ UNCHANGED <<tables, input, existing>>

(* The runner of writeAudit is the transaction's manager.  The mutant is   *)
(* the default runner, dataSource: one more connection of the pool.        *)
MutantRunnerReady == FreeConnection
RunnerReady == TRUE

(* repo.writeAudit, and the foreign key of safe_point_id: a transaction    *)
(* sees the row it inserted, and any other row must exist.  The mutant is  *)
(* a safe_point_id without REFERENCES.                                     *)
MutantInsertAudit(c) == Goto(c, IF Op(c) = "DELETE" THEN "delete" ELSE "commit")
                        /\ UNCHANGED <<held, reply>>
InsertAudit(c) ==
    \/ /\ Op(c) = "CREATE"
       /\ Goto(c, "commit")
       /\ UNCHANGED <<held, reply>>
    \/ /\ Op(c) # "CREATE"
       /\ Granted(c, "keyShare")
       /\ points[Point(c)] = NoRow
       /\ Throw(c, "rollback", "error")
       /\ UNCHANGED held
    \/ /\ Op(c) # "CREATE"
       /\ Granted(c, "keyShare")
       /\ points[Point(c)] # NoRow
       /\ Lock(c, "keyShare")
       /\ Goto(c, IF Op(c) = "DELETE" THEN "delete" ELSE "commit")
       /\ UNCHANGED reply

WriteAudit(c) ==
    /\ pc[c] = "audit"
    /\ RunnerReady
    /\ InsertAudit(c)
    /\ UNCHANGED <<tables, input, existing, staged>>

(* repo.delete: a row that is gone already is no error.                    *)
Delete(c) ==
    /\ pc[c] = "delete"
    /\ Granted(c, "update")
    /\ held' = [held EXCEPT ![c] = "update"]
    /\ Goto(c, "check")
    /\ UNCHANGED <<tables, input, existing, staged, reply>>

(* The foreign key's check at the end of the DELETE, with the row locked:  *)
(* a point that dispatch_decisions refers to is an error.                  *)
CheckReferences(c) ==
    /\ pc[c] = "check"
    /\ \/ /\ Point(c) \in suggested
          /\ Throw(c, "rollback", "error")
       \/ /\ Point(c) \notin suggested
          /\ Goto(c, "commit")
          /\ UNCHANGED reply
    /\ UNCHANGED <<tables, input, existing, staged, held>>

----------------------------------------------------------------------------
(* The audit row: `after` is the row RETURNING gave.  The mutant works it  *)
(* out from the row read before the transaction.                           *)
MutantSnapshot(c) ==
    [id |-> Point(c), about |-> Point(c), action |-> Op(c), by |-> c,
     before |-> existing[c],
     after |-> IF existing[c] = NoRow \/ Op(c) = "DELETE" THEN staged[c]
               ELSE Merge(existing[c], input[c])]
Snapshot(c) ==
    [id |-> Point(c), about |-> Point(c), action |-> Op(c), by |-> c,
     before |-> existing[c], after |-> staged[c]]

(* ON DELETE SET NULL. *)
Unlink(a, p) == IF a.id = p THEN [a EXCEPT !.id = NoPoint] ELSE a
Unlinked(rows, p) == [i \in DOMAIN rows |-> Unlink(rows[i], p)]

Audited(c) ==
    LET rows == Append(audit, Snapshot(c))
    IN  IF Op(c) = "DELETE" THEN Unlinked(rows, Point(c)) ELSE rows

End(c) ==
    /\ held' = [held EXCEPT ![c] = "none"]
    /\ staged' = [staged EXCEPT ![c] = NoRow]

(* COMMIT publishes the row and its audit row; its acknowledgement may be  *)
(* lost.  A DELETE staged no row.                                          *)
Commit(c) ==
    /\ pc[c] = "commit"
    /\ points' = [points EXCEPT ![Point(c)] = staged[c]]
    /\ audit' = Audited(c)
    /\ End(c)
    /\ \E answer \in {"done", "error"} : Throw(c, "answered", answer)
    /\ UNCHANGED <<suggested, input, existing>>

(* ROLLBACK. *)
Rollback(c) ==
    /\ pc[c] = "rollback"
    /\ End(c)
    /\ Goto(c, "answered")
    /\ UNCHANGED <<tables, input, existing, reply>>

(* A query rejects, with no effect. *)
QueryFails(c) ==
    /\ IF pc[c] \in {"find", "begin"}
       THEN Throw(c, "answered", "error")
       ELSE pc[c] \notin {"idle", "rollback", "answered"} /\ Throw(c, "rollback", "error")
    /\ UNCHANGED <<tables, input, existing, staged, held>>

(* External: deadlock_timeout aborts one of two transactions that wait for *)
(* each other.  Only deletes ever do: each wants UPDATE over the other's   *)
(* KEY SHARE.                                                              *)
DeadlockAborts(c) ==
    /\ pc[c] = "delete"
    /\ \E d \in Calls : pc[d] = "delete" /\ Blocks(d, c, "update")
    /\ Throw(c, "rollback", "error")
    /\ UNCHANGED <<tables, input, existing, staged, held>>

(* External: an evaluation stores a decision that offers p, a point it     *)
(* read as active, perhaps some time ago.  The foreign key waits for a     *)
(* DELETE under way.  The mutant is suggested_point_id without REFERENCES. *)
MutantReferable(p) == points[p] # NoRow
Referable(p) ==
    /\ points[p] # NoRow
    /\ \A d \in Calls : Point(d) = p => Compatible(held[d], "keyShare")

Offer(p) ==
    /\ Referable(p)
    /\ suggested' = suggested \cup {p}
    /\ UNCHANGED <<points, audit, input, pc, existing, staged, held, reply>>

(* The process dies: PostgreSQL aborts what its connections had open, and  *)
(* every caller sees its connection drop.                                  *)
InFlight == {c \in Calls : pc[c] \notin {"idle", "answered"}}

Crash ==
    /\ InFlight # {}
    /\ pc' = [c \in Calls |-> IF c \in InFlight THEN "answered" ELSE pc[c]]
    /\ reply' = [c \in Calls |-> IF c \in InFlight THEN "error" ELSE reply[c]]
    /\ staged' = [c \in Calls |-> NoRow]
    /\ held' = [c \in Calls |-> "none"]
    /\ UNCHANGED <<tables, input, existing>>

Step(c) ==
    \/ FindById(c) \/ BeginTransaction(c) \/ \E p \in Points : Create(c, p)
    \/ Update(c) \/ WriteAudit(c) \/ Delete(c) \/ CheckReferences(c)
    \/ Commit(c) \/ Rollback(c) \/ DeadlockAborts(c)

Next ==
    \/ \E c \in Calls : RequireReason(c) \/ QueryFails(c) \/ Step(c)
    \/ \E c \in Calls, i \in Inputs : Receive(c, i)
    \/ \E p \in Points : Offer(p)
    \/ Crash

Spec == Init /\ [][Next]_vars

(* Every query settles; a lock wait ends in a grant or in a deadlock error. *)
FairSpec == Spec /\ \A c \in Calls : WF_vars(Step(c))

----------------------------------------------------------------------------
(* What a call asks for: a CREATE has its point once it is inserted. *)
Received ==
    Inputs \cup {NoInput}
    \cup [op : {"CREATE"}, point : Points, status : {"active"}, data : Data]

Stages == {"idle", "find", "begin", "insert", "update", "audit", "delete", "check",
           "commit", "rollback", "answered"}

TypeOK ==
    /\ points \in [Points -> Rows \cup {NoRow}]
    /\ audit \in Seq(AuditRows)
    /\ suggested \in SUBSET Points
    /\ input \in [Calls -> Received]
    /\ pc \in [Calls -> Stages]
    /\ existing \in [Calls -> Rows \cup {NoRow}]
    /\ staged \in [Calls -> Rows \cup {NoRow}]
    /\ held \in [Calls -> Modes]
    /\ reply \in [Calls -> {"none", "done", "notFound", "reasonRequired", "error"}]

(* The audit log is complete and in order: whatever interleaving of        *)
(* concurrent changes, failures and rollbacks came before, the last row    *)
(* about a point shows the point as it is stored, and the last row about a *)
(* deleted point is its DELETE.                                            *)
LastAbout(p, i) ==
    audit[i].about = p /\ \A j \in DOMAIN audit : j > i => audit[j].about # p

AuditTellsTheRow ==
    \A p \in Points, i \in DOMAIN audit : LastAbout(p, i) =>
        /\ audit[i].after = points[p]
        /\ points[p] = NoRow <=> audit[i].action = "DELETE"

(* Two deletes of one point are never both acknowledged, though delete     *)
(* does not look at how many rows it removed: the loser's audit row needs  *)
(* a point that still exists.                                              *)
DeletedOnce ==
    \A c, d \in Calls :
        /\ Op(c) = "DELETE" /\ reply[c] = "done"
        /\ Op(d) = "DELETE" /\ reply[d] = "done"
        /\ Point(c) = Point(d)
        => c = d

(* A point that a stored decision offers is never deleted, although the    *)
(* evaluation read it, and the delete checked it, before the other wrote.  *)
OfferedPointsExist == \A p \in suggested : points[p] # NoRow

(* Concurrent partial updates compose: a change sets the columns it was    *)
(* asked to set and never brings back another call's older value.          *)
SetsOnlyItsColumns ==
    \A c \in Calls : pc[c] = "commit" /\ pc'[c] = "answered" /\ Op(c) # "CREATE" =>
        LET p == Point(c) IN points'[p] # NoRow =>
            /\ input[c].status = Unset => points'[p].status = points[p].status
            /\ input[c].data = Unset => points'[p].data = points[p].data

UpdatesCompose == [][SetsOnlyItsColumns]_vars

(* Every change is answered: neither row locks nor the pool make calls     *)
(* wait for each other forever.                                            *)
EveryChangeAnswered == \A c \in Calls : pc[c] \in {"find", "begin"} ~> pc[c] = "answered"

----------------------------------------------------------------------------
(* The promise made to callers: COMMIT is the step at which a change takes *)
(* effect, on the row as it is and with its audit row, and a call is told  *)
(* the truth about its own change.                                         *)
Entry(a) == [by |-> a.by, about |-> a.about, action |-> a.action, after |-> a.after]

Asked(i) == [action |-> i.op, status |-> i.status, data |-> i.data,
             point |-> IF i.op = "CREATE" THEN NoPoint ELSE i.point]

Promise == INSTANCE AuditedCatalogue WITH
    rows  <- points,
    log   <- [i \in DOMAIN audit |-> Entry(audit[i])],
    asked <- [c \in Calls |-> Asked(input[c])],
    told  <- [c \in Calls |-> IF pc[c] = "answered" THEN reply[c] ELSE "none"]

ImplementsAuditedCatalogue == Promise!Spec

(* "preserve snapshot": the DELETE row shows the point as it was deleted,  *)
(* that is as the audit row before it left it.                             *)
DeleteKeepsSnapshot ==
    \A i, j \in DOMAIN audit :
        /\ i < j /\ audit[j].action = "DELETE" /\ audit[i].about = audit[j].about
        /\ \A k \in (i + 1)..(j - 1) : audit[k].about # audit[j].about
        => audit[j].before = audit[i].after
=============================================================================
