-------------------------- MODULE SafePointsProofs --------------------------
(***************************************************************************)
(* Theorems about SafePoints, for any number of calls, points, values of   *)
(* the columns and connections.                                            *)
(***************************************************************************)
EXTENDS SafePoints, TLAPS

Writes == {"UPDATE", "ACTIVATE", "DEACTIVATE"}

(* Which operation a call may be at each stage. *)
Staging ==
    \A c \in Calls :
        /\ pc[c] = "idle" => input[c] = NoInput
        /\ pc[c] = "find" => Op(c) \in Writes \cup {"DELETE"}
        /\ pc[c] = "insert" => Op(c) = "CREATE"
        /\ pc[c] = "update" => Op(c) \in Writes
        /\ pc[c] \in {"delete", "check"} => Op(c) = "DELETE"
        /\ pc[c] \in {"begin", "audit", "commit", "rollback"} => Op(c) \in Actions
        /\ Op(c) = "CREATE" /\ pc[c] \in {"audit", "commit"} => Point(c) \in Points

(* What each stage holds on the row of its point; a row that is locked is  *)
(* there, and two calls hold it together only as the table of modes allows.*)
Locking ==
    /\ \A c \in Calls :
        /\ pc[c] \in {"idle", "find", "begin", "insert", "update", "answered"}
               => held[c] = "none"
        /\ pc[c] \in {"audit", "commit"} /\ Op(c) \in Writes => held[c] = "noKeyUpdate"
        /\ pc[c] = "delete" => held[c] # "none"
        /\ pc[c] = "check" => held[c] = "update"
        /\ pc[c] = "commit" /\ Op(c) = "DELETE" => held[c] = "update"
        /\ held[c] # "none" =>
               Op(c) # "CREATE" /\ Point(c) \in Points /\ points[Point(c)] # NoRow
    /\ \A c, d \in Calls :
        c # d /\ Point(c) = Point(d) => Compatible(held[c], held[d])

(* What an open transaction has written: a change of the row as it is, or  *)
(* a row with an id that nobody else knows.                                *)
Unheard(c) ==
    /\ Point(c) \in Points
    /\ points[Point(c)] = NoRow
    /\ \A d \in Calls \ {c} : staged[d] # NoRow => Point(d) # Point(c)
    /\ \A i \in DOMAIN audit : audit[i].about # Point(c)

Staged ==
    \A c \in Calls :
        /\ pc[c] \notin {"audit", "commit", "rollback"} => staged[c] = NoRow
        /\ Op(c) = "DELETE" => staged[c] = NoRow
        /\ staged[c] # NoRow /\ Op(c) # "CREATE" => held[c] # "none"
        /\ pc[c] \in {"audit", "commit"} =>
               /\ Op(c) \in Writes => staged[c] = Updated(c)
               /\ Op(c) = "CREATE" =>
                      staged[c] = [status |-> input[c].status, data |-> input[c].data]
        /\ staged[c] # NoRow /\ Op(c) = "CREATE" => Unheard(c)

(* A point that a call has found is known for good.                        *)
Known(p) == points[p] # NoRow \/ \E i \in DOMAIN audit : audit[i].about = p

Found ==
    \A c \in Calls :
        /\ Op(c) \in Writes \cup {"DELETE"} /\ pc[c] \notin {"find", "answered"}
               => Known(Point(c))
        /\ pc[c] = "rollback" =>
               /\ reply[c] \in {"notFound", "error"}
               /\ reply[c] = "notFound" => Op(c) \in Writes /\ points[Point(c)] = NoRow

(* The log: rows of calls that are over, nothing after a DELETE, the last  *)
(* one true; and a call that was told "done" has its row.                  *)
Log ==
    /\ AuditTellsTheRow
    /\ \A i \in DOMAIN audit : pc[audit[i].by] = "answered"
    /\ \A i \in DOMAIN audit, j \in DOMAIN audit :
        i < j /\ audit[i].about = audit[j].about => audit[i].action # "DELETE"
    /\ \A c \in Calls : reply[c] = "done" =>
        /\ pc[c] = "answered"
        /\ \E i \in DOMAIN audit :
            audit[i].by = c /\ audit[i].about = Point(c) /\ audit[i].action = Op(c)

Offers ==
    /\ OfferedPointsExist
    /\ \A c \in Calls : pc[c] = "commit" /\ Op(c) = "DELETE" => Point(c) \notin suggested

IInv == TypeOK /\ Staging /\ Locking /\ Staged /\ Found /\ Log /\ Offers
----------------------------------------------------------------------------
(* What a call asks for, by its operation. *)
LEMMA InputOK ==
    ASSUME TypeOK, NEW c \in Calls
    PROVE  /\ Op(c) \in Actions \cup {"NONE"}
           /\ Op(c) = "NONE" => input[c] = NoInput
           /\ Op(c) \in Writes \cup {"DELETE"} => Point(c) \in Points
           /\ Op(c) \in Writes =>
                  /\ input[c].status \in Statuses \cup {Unset}
                  /\ input[c].data \in Data \cup {Unset}
           /\ Op(c) = "CREATE" =>
                  /\ Point(c) \in Points \cup {NoPoint}
                  /\ input[c].status = "active" /\ input[c].data \in Data
           /\ Op(c) = "DELETE" => input[c].status = Unset /\ input[c].data = Unset
  BY DEF TypeOK, Received, Inputs, NoInput, Op, Point, Actions, Writes, Statuses

LEMMA Acting ==
    ASSUME TypeOK, Staging, NEW c \in Calls, pc[c] \notin {"idle", "answered"}
    PROVE  Op(c) \in Actions
  BY DEF TypeOK, Stages, Staging, Actions, Writes

LEMMA InputsOK ==
    ASSUME NEW i \in Inputs
    PROVE  /\ i \in Received /\ i.op \in Actions
           /\ i.op \in Writes \cup {"DELETE"} => i.point \in Points
  BY DEF Received, Inputs, Actions, Writes

LEMMA UpdatedOK ==
    ASSUME TypeOK, NEW c \in Calls, Op(c) \in Writes, points[Point(c)] # NoRow
    PROVE  Updated(c) \in Rows
  BY InputOK DEF TypeOK, Updated, Merge, Rows

(* A new row comes after the others; a DELETE unlinks, and changes nothing *)
(* else of them.                                                           *)
LEMMA SnapshotOK ==
    ASSUME TypeOK, NEW c \in Calls, Point(c) \in Points, Op(c) \in Actions
    PROVE  Snapshot(c) \in AuditRows
  BY DEF TypeOK, Snapshot, AuditRows

LEMMA EntryFields ==
    ASSUME NEW a, NEW b, Entry(a) = Entry(b)
    PROVE  /\ a.by = b.by /\ a.about = b.about
           /\ a.action = b.action /\ a.after = b.after
  BY DEF Entry

LEMMA UnlinkOK ==
    ASSUME NEW a \in AuditRows, NEW p
    PROVE  Unlink(a, p) \in AuditRows /\ Entry(Unlink(a, p)) = Entry(a)
  BY DEF Unlink, Entry, AuditRows

LEMMA AuditedOK ==
    ASSUME TypeOK, NEW c \in Calls, Point(c) \in Points, Op(c) \in Actions
    PROVE  /\ Audited(c) \in Seq(AuditRows)
           /\ Len(Audited(c)) = Len(audit) + 1
           /\ DOMAIN Audited(c) = 1..(Len(audit) + 1)
           /\ \A i \in 1..Len(audit) : Entry(Audited(c)[i]) = Entry(audit[i])
           /\ Entry(Audited(c)[Len(audit) + 1]) = Entry(Snapshot(c))
<1> DEFINE rows == Append(audit, Snapshot(c))
<1>1. /\ rows \in Seq(AuditRows)
      /\ Len(rows) = Len(audit) + 1
      /\ \A i \in 1..Len(audit) : rows[i] = audit[i]
      /\ rows[Len(audit) + 1] = Snapshot(c)
  BY SnapshotOK DEF TypeOK
<1> HIDE DEF rows
<1>2. /\ Unlinked(rows, Point(c)) \in Seq(AuditRows)
      /\ Len(Unlinked(rows, Point(c))) = Len(rows)
      /\ \A i \in 1..Len(rows) : Entry(Unlinked(rows, Point(c))[i]) = Entry(rows[i])
  <2>1. DOMAIN rows = 1..Len(rows) /\ Len(rows) \in Nat
    BY <1>1
  <2>2. \A i \in 1..Len(rows) : Unlinked(rows, Point(c))[i] \in AuditRows
    BY <1>1, <2>1, UnlinkOK DEF Unlinked
  <2>3. \A i \in 1..Len(rows) : Entry(Unlinked(rows, Point(c))[i]) = Entry(rows[i])
    BY <1>1, <2>1, UnlinkOK DEF Unlinked
  <2>4. Unlinked(rows, Point(c)) \in [1..Len(rows) -> AuditRows]
    BY <2>1, <2>2 DEF Unlinked
  <2>q. QED
    BY <2>1, <2>3, <2>4
<1>3. Audited(c) = IF Op(c) = "DELETE" THEN Unlinked(rows, Point(c)) ELSE rows
  BY DEF Audited, rows
<1>q. QED
  BY <1>1, <1>2, <1>3

----------------------------------------------------------------------------
(* A step that answers nobody "done" and leaves the tables alone leaves    *)
(* the log true.                                                           *)
LEMMA LogKept ==
    ASSUME Log, UNCHANGED <<points, audit>>,
           \A d \in Calls : pc[d] = "answered" => pc'[d] = "answered" /\ input'[d] = input[d],
           \A d \in Calls : reply'[d] = "done" => reply[d] = "done",
           TypeOK
    PROVE  Log'
<1>1. AuditTellsTheRow'
  BY DEF Log, AuditTellsTheRow, LastAbout
<1>2. \A i \in DOMAIN audit : audit[i].by \in Calls
  <2>1. \A i \in DOMAIN audit : audit[i] \in AuditRows
    BY DEF TypeOK
  <2>q. QED
    BY <2>1 DEF AuditRows
<1>3. \A d \in Calls : reply'[d] = "done" =>
        /\ pc'[d] = "answered"
        /\ \E i \in DOMAIN audit :
            audit[i].by = d /\ audit[i].about = Point(d)' /\ audit[i].action = Op(d)'
  BY DEF Log, Point, Op
<1>q. QED
  BY <1>1, <1>2, <1>3 DEF Log

LEMMA RequireReasonStep ==
    ASSUME IInv, NEW c \in Calls, RequireReason(c)
    PROVE  IInv'
<1> USE DEF RequireReason, tables, Goto, Throw
<1>1. TypeOK'
  BY InputOK, UpdatedOK DEF IInv, TypeOK, Staging, Stages, Modes, Writes, Op, Point
<1>2. Staging'
  BY InputOK DEF IInv, TypeOK, Staging, Actions, Writes, Op, Point
<1>3. Locking'
  BY InputOK DEF IInv, TypeOK, Staging, Locking, Actions, Writes, Op, Point, Compatible
<1>4. Staged'
  BY InputOK DEF IInv, TypeOK, Staging, Staged, Locking, Unheard, Updated, Actions, Writes, Op, Point
<1>5. Found'
  <2>1. \A q : Known(q)' = Known(q)
    BY DEF Known
  <2>q. QED
    BY <2>1, InputOK DEF IInv, TypeOK, Staging, Found, Actions, Writes, Op, Point
<1>6. Log'
  BY LogKept DEF IInv, TypeOK
<1>7. Offers'
  BY DEF IInv, TypeOK, Staging, Offers, OfferedPointsExist, Op, Point
<1>q. QED
  BY <1>1, <1>2, <1>3, <1>4, <1>5, <1>6, <1>7 DEF IInv

LEMMA ReceiveStep ==
    ASSUME IInv, NEW c \in Calls, NEW i \in Inputs, Receive(c, i)
    PROVE  IInv'
<1> USE DEF Receive, tables, Goto, Throw
<1>1. TypeOK'
  BY InputOK, InputsOK, UpdatedOK DEF IInv, TypeOK, Staging, Stages, Modes, Writes, Op, Point
<1>2. Staging'
  BY InputOK, InputsOK DEF IInv, TypeOK, Staging, Actions, Writes, Op, Point
<1>3. Locking'
  BY InputOK, InputsOK DEF IInv, TypeOK, Staging, Locking, Actions, Writes, Op, Point, Compatible
<1>4. Staged'
  BY InputOK, InputsOK DEF IInv, TypeOK, Staging, Staged, Locking, Unheard, Updated, Actions, Writes, Op, Point
<1>5. Found'
  BY InputOK, InputsOK DEF IInv, TypeOK, Staging, Found, Known, Actions, Writes, Op, Point
<1>6. Log'
  BY LogKept DEF IInv, TypeOK
<1>7. Offers'
  BY DEF IInv, TypeOK, Staging, Offers, OfferedPointsExist, Op, Point
<1>q. QED
  BY <1>1, <1>2, <1>3, <1>4, <1>5, <1>6, <1>7 DEF IInv

LEMMA FindByIdStep ==
    ASSUME IInv, NEW c \in Calls, FindById(c)
    PROVE  IInv'
<1> USE DEF FindById, tables, Goto, Throw
<1>1. TypeOK'
  BY InputOK, UpdatedOK DEF IInv, TypeOK, Staging, Stages, Modes, Writes, Op, Point
<1>2. Staging'
  BY InputOK DEF IInv, TypeOK, Staging, Actions, Writes, Op, Point
<1>3. Locking'
  BY InputOK DEF IInv, TypeOK, Staging, Locking, Actions, Writes, Op, Point, Compatible
<1>4. Staged'
  BY InputOK DEF IInv, TypeOK, Staging, Staged, Locking, Unheard, Updated, Actions, Writes, Op, Point
<1>5. Found'
  <2>1. \A q : Known(q)' = Known(q)
    BY DEF Known
  <2>2. pc'[c] = "begin" => Known(Point(c))
    BY DEF IInv, TypeOK, Known
  <2>q. QED
    BY <2>1, <2>2, InputOK DEF IInv, TypeOK, Staging, Found, Actions, Writes, Op, Point
<1>6. Log'
  BY LogKept DEF IInv, TypeOK
<1>7. Offers'
  BY DEF IInv, TypeOK, Staging, Offers, OfferedPointsExist, Op, Point
<1>q. QED
  BY <1>1, <1>2, <1>3, <1>4, <1>5, <1>6, <1>7 DEF IInv

LEMMA BeginTransactionStep ==
    ASSUME IInv, NEW c \in Calls, BeginTransaction(c)
    PROVE  IInv'
<1> USE DEF BeginTransaction, tables, Goto, Throw
<1>1. TypeOK'
  BY InputOK, UpdatedOK DEF IInv, TypeOK, Staging, Stages, Modes, Writes, Op, Point
<1>2. Staging'
  BY InputOK DEF IInv, TypeOK, Staging, Actions, Writes, Op, Point
<1>3. Locking'
  BY InputOK DEF IInv, TypeOK, Staging, Locking, Actions, Writes, Op, Point, Compatible
<1>4. Staged'
  BY InputOK DEF IInv, TypeOK, Staging, Staged, Locking, Unheard, Updated, Actions, Writes, Op, Point
<1>5. Found'
  <2>1. \A q : Known(q)' = Known(q)
    BY DEF Known
  <2>q. QED
    BY <2>1, InputOK DEF IInv, TypeOK, Staging, Found, Actions, Writes, Op, Point
<1>6. Log'
  BY LogKept DEF IInv, TypeOK
<1>7. Offers'
  BY DEF IInv, TypeOK, Staging, Offers, OfferedPointsExist, Op, Point
<1>q. QED
  BY <1>1, <1>2, <1>3, <1>4, <1>5, <1>6, <1>7 DEF IInv

LEMMA CreateStep ==
    ASSUME IInv, NEW c \in Calls, NEW p \in Points, Create(c, p)
    PROVE  IInv'
<1> USE DEF Create, Fresh, tables, Goto, Throw
<1> DEFINE i == [input[c] EXCEPT !.point = p]
<1>0. /\ input' = [input EXCEPT ![c] = i]
      /\ i = [op |-> "CREATE", point |-> p, status |-> input[c].status, data |-> input[c].data]
      /\ i \in Received
      /\ input[c].status = "active" /\ input[c].data \in Data
  <2>1. input[c] \in [op : {"CREATE"}, point : Points \cup {NoPoint},
                      status : {"active"}, data : Data]
    BY DEF IInv, TypeOK, Received, Inputs, NoInput, Staging, Op
  <2>2. i = [op |-> "CREATE", point |-> p, status |-> input[c].status, data |-> input[c].data]
    BY <2>1
  <2>q. QED
    BY <2>1, <2>2 DEF Received
<1> HIDE DEF i
<1>1. TypeOK'
  <2>1. input' \in [Calls -> Received] /\ pc' \in [Calls -> Stages]
    BY <1>0 DEF IInv, TypeOK, Stages
  <2>2. [status |-> input[c].status, data |-> input[c].data] \in Rows
    BY <1>0 DEF Rows, Statuses
  <2>3. staged' \in [Calls -> Rows \cup {NoRow}]
    BY <2>2 DEF IInv, TypeOK
  <2>q. QED
    BY <2>1, <2>3 DEF IInv, TypeOK
<1>2. Staging'
  BY <1>0, InputOK DEF IInv, TypeOK, Staging, Actions, Writes, Op, Point
<1>3. Locking'
  BY <1>0, InputOK DEF IInv, TypeOK, Staging, Locking, Actions, Writes, Op, Point, Compatible
<1>4. Staged'
  BY <1>0, InputOK DEF IInv, TypeOK, Staging, Staged, Locking, Unheard, Updated, Actions, Writes, Op, Point
<1>5. Found'
  <2>1. \A q : Known(q)' = Known(q)
    BY DEF Known
  <2>q. QED
    BY <1>0, <2>1, InputOK DEF IInv, TypeOK, Staging, Found, Actions, Writes, Op, Point
<1>6. Log'
  BY LogKept DEF IInv, TypeOK
<1>7. Offers'
  BY DEF IInv, TypeOK, Staging, Offers, OfferedPointsExist, Op, Point
<1>q. QED
  BY <1>1, <1>2, <1>3, <1>4, <1>5, <1>6, <1>7 DEF IInv

LEMMA UpdateStep ==
    ASSUME IInv, NEW c \in Calls, Update(c)
    PROVE  IInv'
<1> USE DEF Update, Lock, tables, Goto, Throw
<1>1. TypeOK'
  BY InputOK, UpdatedOK DEF IInv, TypeOK, Staging, Stages, Modes, Writes, Op, Point
<1>2. Staging'
  BY InputOK DEF IInv, TypeOK, Staging, Actions, Writes, Op, Point
<1>3. Locking'
  <2>1. \A d \in Calls : Point(d)' = Point(d)
    BY DEF Point
  <2>2. \A d \in Calls \ {c} : held'[d] = held[d]
    BY DEF IInv, TypeOK
  <2>3. \/ held'[c] = held[c]
        \/ \A d \in Calls \ {c} : Point(d) = Point(c) =>
               Compatible(held'[c], held[d]) /\ Compatible(held[d], held'[c])
    BY DEF IInv, TypeOK, Granted, Blocks, Compatible
  <2>4. \A d, e \in Calls : d # e /\ Point(d)' = Point(e)' => Compatible(held'[d], held'[e])
    BY <2>1, <2>2, <2>3 DEF IInv, Locking
  <2>q. QED
    BY <2>4, InputOK DEF IInv, TypeOK, Staging, Locking, Actions, Writes, Op, Point
<1>4. Staged'
  BY InputOK DEF IInv, TypeOK, Staging, Staged, Locking, Unheard, Updated, Actions, Writes, Op, Point
<1>5. Found'
  <2>1. \A q : Known(q)' = Known(q)
    BY DEF Known
  <2>q. QED
    BY <2>1, InputOK DEF IInv, TypeOK, Staging, Found, Actions, Writes, Op, Point
<1>6. Log'
  BY LogKept DEF IInv, TypeOK
<1>7. Offers'
  BY DEF IInv, TypeOK, Staging, Offers, OfferedPointsExist, Op, Point
<1>q. QED
  BY <1>1, <1>2, <1>3, <1>4, <1>5, <1>6, <1>7 DEF IInv

LEMMA WriteAuditStep ==
    ASSUME IInv, NEW c \in Calls, WriteAudit(c)
    PROVE  IInv'
<1> USE DEF WriteAudit, InsertAudit, RunnerReady, Lock, tables, Goto, Throw
<1>1. TypeOK'
  BY InputOK, UpdatedOK DEF IInv, TypeOK, Staging, Stages, Modes, Writes, Op, Point
<1>2. Staging'
  BY InputOK DEF IInv, TypeOK, Staging, Actions, Writes, Op, Point
<1>3. Locking'
  <2>1. \A d \in Calls : Point(d)' = Point(d)
    BY DEF Point
  <2>2. \A d \in Calls \ {c} : held'[d] = held[d]
    BY DEF IInv, TypeOK
  <2>3. \/ held'[c] = held[c]
        \/ \A d \in Calls \ {c} : Point(d) = Point(c) =>
               Compatible(held'[c], held[d]) /\ Compatible(held[d], held'[c])
    BY DEF IInv, TypeOK, Granted, Blocks, Compatible
  <2>4. \A d, e \in Calls : d # e /\ Point(d)' = Point(e)' => Compatible(held'[d], held'[e])
    BY <2>1, <2>2, <2>3 DEF IInv, Locking
  <2>q. QED
    BY <2>4, InputOK DEF IInv, TypeOK, Staging, Locking, Actions, Writes, Op, Point
<1>4. Staged'
  BY InputOK DEF IInv, TypeOK, Staging, Staged, Locking, Unheard, Updated, Actions, Writes, Op, Point
<1>5. Found'
  <2>1. \A q : Known(q)' = Known(q)
    BY DEF Known
  <2>q. QED
    BY <2>1, InputOK DEF IInv, TypeOK, Staging, Found, Actions, Writes, Op, Point
<1>6. Log'
  BY LogKept DEF IInv, TypeOK
<1>7. Offers'
  BY DEF IInv, TypeOK, Staging, Offers, OfferedPointsExist, Op, Point
<1>q. QED
  BY <1>1, <1>2, <1>3, <1>4, <1>5, <1>6, <1>7 DEF IInv

LEMMA DeleteStep ==
    ASSUME IInv, NEW c \in Calls, Delete(c)
    PROVE  IInv'
<1> USE DEF Delete, tables, Goto, Throw
<1>1. TypeOK'
  BY InputOK, UpdatedOK DEF IInv, TypeOK, Staging, Stages, Modes, Writes, Op, Point
<1>2. Staging'
  BY InputOK DEF IInv, TypeOK, Staging, Actions, Writes, Op, Point
<1>3. Locking'
  <2>1. \A d \in Calls : Point(d)' = Point(d)
    BY DEF Point
  <2>2. \A d \in Calls \ {c} : held'[d] = held[d]
    BY DEF IInv, TypeOK
  <2>3. \/ held'[c] = held[c]
        \/ \A d \in Calls \ {c} : Point(d) = Point(c) =>
               Compatible(held'[c], held[d]) /\ Compatible(held[d], held'[c])
    BY DEF IInv, TypeOK, Granted, Blocks, Compatible
  <2>4. \A d, e \in Calls : d # e /\ Point(d)' = Point(e)' => Compatible(held'[d], held'[e])
    BY <2>1, <2>2, <2>3 DEF IInv, Locking
  <2>q. QED
    BY <2>4, InputOK DEF IInv, TypeOK, Staging, Locking, Actions, Writes, Op, Point
<1>4. Staged'
  BY InputOK DEF IInv, TypeOK, Staging, Staged, Locking, Unheard, Updated, Actions, Writes, Op, Point
<1>5. Found'
  <2>1. \A q : Known(q)' = Known(q)
    BY DEF Known
  <2>q. QED
    BY <2>1, InputOK DEF IInv, TypeOK, Staging, Found, Actions, Writes, Op, Point
<1>6. Log'
  BY LogKept DEF IInv, TypeOK
<1>7. Offers'
  BY DEF IInv, TypeOK, Staging, Offers, OfferedPointsExist, Op, Point
<1>q. QED
  BY <1>1, <1>2, <1>3, <1>4, <1>5, <1>6, <1>7 DEF IInv

LEMMA CheckReferencesStep ==
    ASSUME IInv, NEW c \in Calls, CheckReferences(c)
    PROVE  IInv'
<1> USE DEF CheckReferences, tables, Goto, Throw
<1>1. TypeOK'
  BY InputOK, UpdatedOK DEF IInv, TypeOK, Staging, Stages, Modes, Writes, Op, Point
<1>2. Staging'
  BY InputOK DEF IInv, TypeOK, Staging, Actions, Writes, Op, Point
<1>3. Locking'
  BY InputOK DEF IInv, TypeOK, Staging, Locking, Actions, Writes, Op, Point, Compatible
<1>4. Staged'
  BY InputOK DEF IInv, TypeOK, Staging, Staged, Locking, Unheard, Updated, Actions, Writes, Op, Point
<1>5. Found'
  <2>1. \A q : Known(q)' = Known(q)
    BY DEF Known
  <2>q. QED
    BY <2>1, InputOK DEF IInv, TypeOK, Staging, Found, Actions, Writes, Op, Point
<1>6. Log'
  BY LogKept DEF IInv, TypeOK
<1>7. Offers'
  BY DEF IInv, TypeOK, Staging, Offers, OfferedPointsExist, Op, Point
<1>q. QED
  BY <1>1, <1>2, <1>3, <1>4, <1>5, <1>6, <1>7 DEF IInv

LEMMA RollbackStep ==
    ASSUME IInv, NEW c \in Calls, Rollback(c)
    PROVE  IInv'
<1> USE DEF Rollback, End, tables, Goto, Throw
<1>1. TypeOK'
  BY InputOK, UpdatedOK DEF IInv, TypeOK, Staging, Stages, Modes, Writes, Op, Point
<1>2. Staging'
  BY InputOK DEF IInv, TypeOK, Staging, Actions, Writes, Op, Point
<1>3. Locking'
  BY InputOK DEF IInv, TypeOK, Staging, Locking, Actions, Writes, Op, Point, Compatible
<1>4. Staged'
  BY InputOK DEF IInv, TypeOK, Staging, Staged, Locking, Unheard, Updated, Actions, Writes, Op, Point
<1>5. Found'
  <2>1. \A q : Known(q)' = Known(q)
    BY DEF Known
  <2>q. QED
    BY <2>1, InputOK DEF IInv, TypeOK, Staging, Found, Actions, Writes, Op, Point
<1>6. Log'
  BY LogKept DEF IInv, TypeOK
<1>7. Offers'
  BY DEF IInv, TypeOK, Staging, Offers, OfferedPointsExist, Op, Point
<1>q. QED
  BY <1>1, <1>2, <1>3, <1>4, <1>5, <1>6, <1>7 DEF IInv

LEMMA QueryFailsStep ==
    ASSUME IInv, NEW c \in Calls, QueryFails(c)
    PROVE  IInv'
<1> USE DEF QueryFails, tables, Goto, Throw
<1>1. TypeOK'
  BY InputOK, UpdatedOK DEF IInv, TypeOK, Staging, Stages, Modes, Writes, Op, Point
<1>2. Staging'
  BY Acting DEF IInv, TypeOK, Staging, Actions, Writes, Op, Point
<1>3. Locking'
  BY InputOK DEF IInv, TypeOK, Staging, Locking, Actions, Writes, Op, Point, Compatible
<1>4. Staged'
  BY InputOK DEF IInv, TypeOK, Staging, Staged, Locking, Unheard, Updated, Actions, Writes, Op, Point
<1>5. Found'
  <2>1. \A q : Known(q)' = Known(q)
    BY DEF Known
  <2>q. QED
    BY <2>1, InputOK DEF IInv, TypeOK, Staging, Found, Actions, Writes, Op, Point
<1>6. Log'
  BY LogKept DEF IInv, TypeOK
<1>7. Offers'
  BY DEF IInv, TypeOK, Staging, Offers, OfferedPointsExist, Op, Point
<1>q. QED
  BY <1>1, <1>2, <1>3, <1>4, <1>5, <1>6, <1>7 DEF IInv

LEMMA DeadlockAbortsStep ==
    ASSUME IInv, NEW c \in Calls, DeadlockAborts(c)
    PROVE  IInv'
<1> USE DEF DeadlockAborts, tables, Goto, Throw
<1>1. TypeOK'
  BY InputOK, UpdatedOK DEF IInv, TypeOK, Staging, Stages, Modes, Writes, Op, Point
<1>2. Staging'
  BY InputOK DEF IInv, TypeOK, Staging, Actions, Writes, Op, Point
<1>3. Locking'
  BY InputOK DEF IInv, TypeOK, Staging, Locking, Actions, Writes, Op, Point, Compatible
<1>4. Staged'
  BY InputOK DEF IInv, TypeOK, Staging, Staged, Locking, Unheard, Updated, Actions, Writes, Op, Point
<1>5. Found'
  <2>1. \A q : Known(q)' = Known(q)
    BY DEF Known
  <2>q. QED
    BY <2>1, InputOK DEF IInv, TypeOK, Staging, Found, Actions, Writes, Op, Point
<1>6. Log'
  BY LogKept DEF IInv, TypeOK
<1>7. Offers'
  BY DEF IInv, TypeOK, Staging, Offers, OfferedPointsExist, Op, Point
<1>q. QED
  BY <1>1, <1>2, <1>3, <1>4, <1>5, <1>6, <1>7 DEF IInv

----------------------------------------------------------------------------
(* Somebody refers to one more point, one that is there to stay.           *)
LEMMA OfferStep ==
    ASSUME IInv, NEW p \in Points, Offer(p)
    PROVE  IInv'
<1> USE DEF Offer, Referable
<1>1. TypeOK'
  BY DEF IInv, TypeOK
<1>2. Staging' /\ Locking' /\ Staged' /\ Found'
  BY DEF IInv, Staging, Locking, Staged, Unheard, Updated, Found, Known, Op, Point
<1>3. Log'
  BY LogKept DEF IInv
<1>4. Offers'
  BY DEF IInv, Locking, Compatible, Offers, OfferedPointsExist, Op, Point
<1>q. QED
  BY <1>1, <1>2, <1>3, <1>4 DEF IInv

LEMMA CrashStep ==
    ASSUME IInv, Crash
    PROVE  IInv'
<1> USE DEF Crash, InFlight, tables
<1>1. TypeOK'
  BY DEF IInv, TypeOK, Stages, Modes
<1>2. Staging' /\ Locking'
  BY DEF IInv, TypeOK, Staging, Locking, Compatible, Op, Point
<1>3. Staged' /\ Found'
  BY DEF IInv, TypeOK, Staged, Unheard, Updated, Found, Known, Op, Point
<1>4. Log'
  BY LogKept DEF IInv, TypeOK
<1>5. Offers'
  BY DEF IInv, TypeOK, Offers, OfferedPointsExist, Op, Point
<1>q. QED
  BY <1>1, <1>2, <1>3, <1>4, <1>5 DEF IInv

(* COMMIT: the call is alone with its point, and adds the last row about   *)
(* it.                                                                     *)
LEMMA CommitAlone ==
    ASSUME IInv, NEW c \in Calls, pc[c] = "commit"
    PROVE  /\ Point(c) \in Points /\ Op(c) \in Actions
           /\ Op(c) = "CREATE" => Unheard(c) /\ staged[c] # NoRow
           /\ Op(c) # "CREATE" => points[Point(c)] # NoRow
           /\ staged[c] = NoRow <=> Op(c) = "DELETE"
           /\ \A d \in Calls \ {c} : Point(d) = Point(c) /\ held[d] # "none" =>
                  held[d] = "keyShare" /\ Op(c) \in Writes
<1>1. Op(c) \in Actions
  BY Acting DEF IInv
<1>2. Point(c) \in Points
  BY <1>1, InputOK DEF IInv, Staging, Actions, Writes
<1>3. Op(c) # "CREATE" => points[Point(c)] # NoRow
  BY <1>1 DEF IInv, Locking, Actions, Writes
<1>4. Op(c) = "CREATE" => staged[c] \in Rows
  <2>1. ASSUME Op(c) = "CREATE" PROVE input[c].status = "active" /\ input[c].data \in Data
    BY <2>1, InputOK DEF IInv
  <2>2. Op(c) = "CREATE" =>
            staged[c] = [status |-> input[c].status, data |-> input[c].data]
    BY DEF IInv, Staged
  <2>q. QED
    BY <2>1, <2>2 DEF Rows, Statuses
<1>5. Op(c) \in Writes => staged[c] \in Rows
  BY <1>3, UpdatedOK DEF IInv, Staged, Writes
<1>6. Op(c) = "CREATE" => Unheard(c)
  BY <1>4, NoRowAssumption DEF IInv, Staged
<1>7. staged[c] = NoRow <=> Op(c) = "DELETE"
  BY <1>1, <1>4, <1>5, NoRowAssumption DEF IInv, Staged, Actions, Writes
<1>8. \A d \in Calls \ {c} : Point(d) = Point(c) /\ held[d] # "none" =>
          held[d] = "keyShare" /\ Op(c) \in Writes
  BY <1>1, <1>6 DEF IInv, TypeOK, Locking, Compatible, Unheard, Actions, Writes, Modes
<1>q. QED
  BY <1>1, <1>2, <1>3, <1>4, <1>6, <1>7, <1>8, NoRowAssumption

LEMMA CommitStep ==
    ASSUME IInv, NEW c \in Calls, Commit(c)
    PROVE  IInv'
<1> USE DEF Commit, End, Goto, Throw
<1> DEFINE n == Len(audit) + 1
<1>1. /\ Point(c) \in Points /\ Op(c) \in Actions /\ staged[c] \in Rows \cup {NoRow}
      /\ points' = [points EXCEPT ![Point(c)] = staged[c]]
      /\ input' = input
  BY CommitAlone DEF IInv, TypeOK
<1>2. /\ audit' \in Seq(AuditRows) /\ DOMAIN audit' = 1..n /\ DOMAIN audit = 1..Len(audit)
      /\ Len(audit) \in Nat
      /\ \A i \in 1..Len(audit) :
             /\ audit'[i].about = audit[i].about /\ audit'[i].by = audit[i].by
             /\ audit'[i].action = audit[i].action /\ audit'[i].after = audit[i].after
      /\ audit'[n].about = Point(c) /\ audit'[n].by = c
      /\ audit'[n].action = Op(c) /\ audit'[n].after = staged[c]
  <2>1. audit' = Audited(c) /\ audit \in Seq(AuditRows)
    BY DEF IInv, TypeOK
  <2>2. /\ audit' \in Seq(AuditRows) /\ DOMAIN audit' = 1..n
        /\ \A i \in 1..Len(audit) : Entry(audit'[i]) = Entry(audit[i])
        /\ Entry(audit'[n]) = Entry(Snapshot(c))
    BY <1>1, <2>1, AuditedOK DEF IInv
  <2>3. /\ Snapshot(c).about = Point(c) /\ Snapshot(c).by = c
        /\ Snapshot(c).action = Op(c) /\ Snapshot(c).after = staged[c]
    BY DEF Snapshot
  <2>4. DOMAIN audit = 1..Len(audit) /\ Len(audit) \in Nat
    BY <2>1
  <2>5. \A i \in 1..Len(audit) :
            /\ audit'[i].about = audit[i].about /\ audit'[i].by = audit[i].by
            /\ audit'[i].action = audit[i].action /\ audit'[i].after = audit[i].after
    BY <2>2, EntryFields
  <2>6. /\ audit'[n].about = Point(c) /\ audit'[n].by = c
        /\ audit'[n].action = Op(c) /\ audit'[n].after = staged[c]
    BY <2>2, <2>3, EntryFields
  <2>q. QED
    BY <2>2, <2>4, <2>5, <2>6
<1> HIDE DEF n
<1>3. TypeOK'
  BY <1>1, <1>2 DEF IInv, TypeOK, Stages, Modes
<1>4. Staging'
  BY DEF IInv, TypeOK, Staging, Op, Point
<1>5. Locking'
  BY <1>1, CommitAlone DEF IInv, TypeOK, Locking, Compatible, Op, Point, Writes
<1>6. Staged'
  <2>1. ASSUME NEW d \in Calls \ {c}, pc[d] \in {"audit", "commit"}, Op(d) \in Writes
        PROVE  Updated(d)' = Updated(d)
    <3>1. Point(d) # Point(c) /\ Point(d) \in Points
      BY <2>1, CommitAlone, InputOK DEF IInv, Locking
    <3>2. points'[Point(d)] = points[Point(d)]
      BY <1>1, <3>1 DEF IInv, TypeOK
    <3>q. QED
      BY <1>1, <3>2 DEF Updated, Merge, Point
  <2>2. ASSUME NEW d \in Calls \ {c}, staged[d] # NoRow, Op(d) = "CREATE"
        PROVE  Unheard(d)'
    <3>1. Unheard(d)
      BY <2>2 DEF IInv, Staged
    <3>2. Point(d) # Point(c)
      BY <2>2, <3>1, CommitAlone DEF Unheard
    <3>3. Point(d) \in Points /\ points'[Point(d)] = NoRow
      BY <1>1, <3>1, <3>2 DEF Unheard, IInv, TypeOK
    <3>4. \A e \in Calls \ {d} : staged'[e] # NoRow => Point(e) # Point(d)
      BY <3>1 DEF Unheard, IInv, TypeOK
    <3>5. \A k \in 1..n : audit'[k].about # Point(d)
      <4>1. Len(audit) \in Nat
        BY <1>2
      <4>2. \A k \in 1..n : k = n \/ k \in 1..Len(audit)
        BY <4>1 DEF n
      <4>q. QED
        BY <1>2, <3>1, <3>2, <4>2 DEF Unheard
    <3>q. QED
      BY <1>1, <1>2, <3>3, <3>4, <3>5 DEF Unheard, Point
  <2>q. QED
    BY <1>1, <2>1, <2>2 DEF IInv, TypeOK, Staged, Op, Point
<1>7. Found'
  <2>1. ASSUME NEW p \in Points, Known(p) PROVE Known(p)'
    <3>1. CASE p = Point(c)
      <4>1. n \in DOMAIN audit' /\ audit'[n].about = p
        BY <1>2, <3>1 DEF n
      <4>q. QED
        BY <4>1 DEF Known
    <3>2. CASE p # Point(c) /\ points[p] # NoRow
      <4>1. points'[p] = points[p]
        BY <1>1, <3>2 DEF IInv, TypeOK
      <4>q. QED
        BY <3>2, <4>1 DEF Known
    <3>3. CASE \E i \in DOMAIN audit : audit[i].about = p
      <4>1. PICK i \in 1..Len(audit) : audit[i].about = p
        BY <1>2, <3>3
      <4>2. i \in DOMAIN audit' /\ audit'[i].about = p
        BY <1>2, <4>1 DEF n
      <4>q. QED
        BY <4>2 DEF Known
    <3>q. QED
      BY <2>1, <3>1, <3>2, <3>3 DEF Known
  <2>2. ASSUME NEW d \in Calls, pc[d] = "rollback", reply[d] = "notFound"
        PROVE  points'[Point(d)] = NoRow
    <3>1. points[Point(d)] = NoRow /\ Known(Point(d)) /\ Point(d) \in Points
      BY <2>2, InputOK DEF IInv, Found
    <3>2. Point(d) # Point(c)
      BY <3>1, CommitAlone DEF Known, Unheard
    <3>q. QED
      BY <1>1, <3>1, <3>2 DEF IInv, TypeOK
  <2>3. \A d \in Calls : Op(d) \in Writes \cup {"DELETE"} => Point(d) \in Points
    BY InputOK DEF IInv
  <2>4. \A d \in Calls :
            Op(d) \in Writes \cup {"DELETE"} /\ pc[d] \notin {"find", "answered"}
                => Known(Point(d))'
    BY <1>1, <2>1, <2>3 DEF IInv, Found, Known, Point
  <2>q. QED
    BY <1>1, <2>2, <2>4 DEF IInv, TypeOK, Found, Op, Point
<1>8. Log'
  <2>1. AuditTellsTheRow'
    <3> SUFFICES ASSUME NEW p \in Points, NEW i \in 1..n, LastAbout(p, i)'
                 PROVE  /\ audit'[i].after = points'[p]
                        /\ points'[p] = NoRow <=> audit'[i].action = "DELETE"
      BY <1>2 DEF AuditTellsTheRow
    <3>1. CASE i = n
      BY <1>1, <1>2, <3>1, CommitAlone DEF LastAbout, IInv, TypeOK
    <3>2. CASE i # n
      <4>1. i \in 1..Len(audit) /\ n > i
        BY <1>2, <3>2 DEF n
      <4>2. n \in 1..n /\ \A j \in 1..Len(audit) : j \in 1..n
        BY <1>2 DEF n
      <4>3. p # Point(c)
        BY <1>2, <4>1, <4>2 DEF LastAbout
      <4>4. LastAbout(p, i)
        BY <1>2, <4>1, <4>2 DEF LastAbout
      <4>5. audit[i].after = points[p] /\ (points[p] = NoRow <=> audit[i].action = "DELETE")
        BY <1>2, <4>1, <4>4 DEF IInv, Log, AuditTellsTheRow
      <4>6. points'[p] = points[p]
        BY <1>1, <4>3 DEF IInv, TypeOK
      <4>q. QED
        BY <1>2, <4>1, <4>5, <4>6
    <3>q. QED
      BY <3>1, <3>2
  <2>2. \A i \in 1..Len(audit) : audit[i].about = Point(c) => audit[i].action # "DELETE"
    <3> SUFFICES ASSUME NEW i \in 1..Len(audit), audit[i].about = Point(c),
                        audit[i].action = "DELETE"
                 PROVE  FALSE
      OBVIOUS
    <3>1. LastAbout(Point(c), i)
      BY <1>2 DEF IInv, Log, LastAbout
    <3>2. points[Point(c)] = NoRow
      BY <1>1, <1>2, <3>1 DEF IInv, Log, AuditTellsTheRow
    <3>q. QED
      BY <1>2, <3>2, CommitAlone DEF Unheard
  <2>3. \A i \in 1..n, j \in 1..n :
            i < j /\ audit'[i].about = audit'[j].about => audit'[i].action # "DELETE"
    <3> SUFFICES ASSUME NEW i \in 1..n, NEW j \in 1..n, i < j,
                        audit'[i].about = audit'[j].about
                 PROVE  audit'[i].action # "DELETE"
      OBVIOUS
    <3>1. i \in 1..Len(audit) /\ (j = n \/ j \in 1..Len(audit))
      <4>1. Len(audit) \in Nat
        BY <1>2
      <4>q. QED
        BY <4>1 DEF n
    <3>2. CASE j = n
      BY <1>2, <2>2, <3>1, <3>2
    <3>3. CASE j \in 1..Len(audit)
      <4>1. audit[i].about = audit[j].about
        BY <1>2, <3>1, <3>3
      <4>2. audit[i].action # "DELETE"
        BY <1>2, <3>1, <3>3, <4>1 DEF IInv, Log
      <4>q. QED
        BY <1>2, <3>1, <4>2
    <3>q. QED
      BY <3>1, <3>2, <3>3
  <2>4. \A i \in 1..Len(audit) : audit[i].by \in Calls /\ pc[audit[i].by] = "answered"
    <3>1. \A i \in 1..Len(audit) : audit[i] \in AuditRows
      BY DEF IInv, TypeOK
    <3>q. QED
      BY <1>2, <3>1 DEF IInv, Log, AuditRows
  <2>5. \A i \in 1..n : pc'[audit'[i].by] = "answered"
    BY <1>2, <2>4 DEF IInv, TypeOK, n
  <2>6. ASSUME NEW d \in Calls, reply'[d] = "done"
        PROVE  /\ pc'[d] = "answered"
               /\ \E i \in 1..n : /\ audit'[i].by = d /\ audit'[i].about = Point(d)
                                  /\ audit'[i].action = Op(d)
    <3>1. n \in 1..n
      BY <1>2 DEF n
    <3>2. CASE d = c
      BY <1>2, <3>1, <3>2 DEF IInv, TypeOK
    <3>3. CASE d # c
      <4>1. reply[d] = "done"
        BY <2>6, <3>3 DEF IInv, TypeOK
      <4>2. PICK i \in 1..Len(audit) :
                audit[i].by = d /\ audit[i].about = Point(d) /\ audit[i].action = Op(d)
        BY <1>2, <4>1 DEF IInv, Log
      <4>3. i \in 1..n
        BY <1>2 DEF n
      <4>q. QED
        BY <1>2, <3>3, <4>1, <4>2, <4>3 DEF IInv, TypeOK, Log
    <3>q. QED
      BY <3>2, <3>3
  <2>q. QED
    BY <1>1, <1>2, <2>1, <2>3, <2>5, <2>6 DEF Log, Op, Point
<1>9. Offers'
  BY <1>1, CommitAlone DEF IInv, TypeOK, Offers, OfferedPointsExist, Op, Point
<1>q. QED
  BY <1>3, <1>4, <1>5, <1>6, <1>7, <1>8, <1>9 DEF IInv

LEMMA InitIInv == Init => IInv
<1> SUFFICES ASSUME Init PROVE IInv
  OBVIOUS
<1> USE DEF Init
<1>1. audit = << >> /\ DOMAIN audit = {} /\ audit \in Seq(AuditRows)
  OBVIOUS
<1>2. TypeOK
  BY <1>1 DEF TypeOK, Received, Stages, Modes, Rows, Statuses
<1>3. Staging
  BY DEF Staging, Op, Point, NoInput
<1>4. Locking
  BY DEF Locking, Compatible
<1>5. Staged
  BY DEF Staged
<1>6. Found
  BY DEF Found, Op, NoInput, Writes
<1>7. Log
  BY <1>1 DEF Log, AuditTellsTheRow
<1>8. Offers
  BY DEF Offers, OfferedPointsExist
<1>q. QED
  BY <1>2, <1>3, <1>4, <1>5, <1>6, <1>7, <1>8 DEF IInv

LEMMA StutterIInv == IInv /\ UNCHANGED vars => IInv'
<1> SUFFICES ASSUME IInv, UNCHANGED vars PROVE IInv'
  OBVIOUS
<1> USE DEF vars, tables
<1>1. TypeOK' /\ Staging' /\ Locking' /\ Offers'
  BY DEF IInv, TypeOK, Staging, Locking, Offers, OfferedPointsExist, Op, Point
<1>2. Staged' /\ Found'
  BY DEF IInv, Staged, Unheard, Updated, Found, Known, Op, Point
<1>3. Log'
  BY LogKept DEF IInv
<1>q. QED
  BY <1>1, <1>2, <1>3 DEF IInv

LEMMA NextIInv == IInv /\ [Next]_vars => IInv'
<1> SUFFICES ASSUME IInv, [Next]_vars PROVE IInv'
  OBVIOUS
<1>1. ASSUME NEW c \in Calls, RequireReason(c) \/ QueryFails(c) PROVE IInv'
  BY <1>1, RequireReasonStep, QueryFailsStep
<1>2. ASSUME NEW c \in Calls, Step(c) PROVE IInv'
  BY <1>2, FindByIdStep, BeginTransactionStep, CreateStep, UpdateStep, WriteAuditStep,
     DeleteStep, CheckReferencesStep, CommitStep, RollbackStep, DeadlockAbortsStep
     DEF Step
<1>3. ASSUME NEW c \in Calls, NEW i \in Inputs, Receive(c, i) PROVE IInv'
  BY <1>3, ReceiveStep
<1>4. ASSUME NEW p \in Points, Offer(p) PROVE IInv'
  BY <1>4, OfferStep
<1>5. CASE Crash
  BY <1>5, CrashStep
<1>6. CASE UNCHANGED vars
  BY <1>6, StutterIInv
<1>q. QED
  BY <1>1, <1>2, <1>3, <1>4, <1>5, <1>6 DEF Next

(* The inductive invariant: what each stage holds, has written and knows,  *)
(* and what the log says; true initially and kept by every step.           *)
THEOREM Inductive == Spec => []IInv
<1>q. QED
  BY InitIInv, NextIInv, PTL DEF Spec

(* Every variable keeps its type. *)
THEOREM TypeCorrect == Spec => []TypeOK
<1>1. IInv => TypeOK
  BY DEF IInv
<1>q. QED
  BY <1>1, Inductive, PTL

(* The last audit row about a point shows it as it is stored, and says     *)
(* DELETE exactly when it is gone.                                         *)
THEOREM LogIsTrue == Spec => []AuditTellsTheRow
<1>1. IInv => AuditTellsTheRow
  BY DEF IInv, Log
<1>q. QED
  BY <1>1, Inductive, PTL

(* Two deletes of one point are never both acknowledged: nothing about a   *)
(* point comes after its DELETE.                                           *)
THEOREM OneDelete == Spec => []DeletedOnce
<1>1. IInv => DeletedOnce
  <2> SUFFICES ASSUME IInv, NEW c \in Calls, NEW d \in Calls,
                      Op(c) = "DELETE", reply[c] = "done",
                      Op(d) = "DELETE", reply[d] = "done", Point(c) = Point(d)
               PROVE  c = d
    BY DEF DeletedOnce
  <2>1. PICK i \in DOMAIN audit :
            audit[i].by = c /\ audit[i].about = Point(c) /\ audit[i].action = "DELETE"
    BY DEF IInv, Log
  <2>2. PICK j \in DOMAIN audit :
            audit[j].by = d /\ audit[j].about = Point(c) /\ audit[j].action = "DELETE"
    BY DEF IInv, Log
  <2>3. i \in Nat /\ j \in Nat
    BY DEF IInv, TypeOK
  <2>4. ~(i < j) /\ ~(j < i)
    BY <2>1, <2>2 DEF IInv, Log
  <2>q. QED
    BY <2>1, <2>2, <2>3, <2>4
<1>q. QED
  BY <1>1, Inductive, PTL

(* A point that a stored decision offers is never deleted.                 *)
THEOREM OffersStay == Spec => []OfferedPointsExist
<1>1. IInv => OfferedPointsExist
  BY DEF IInv, Offers
<1>q. QED
  BY <1>1, Inductive, PTL

(* Partial updates compose: a COMMIT writes the columns its call was asked *)
(* to set over the row as it is at that moment.                            *)
THEOREM Composition == Spec => UpdatesCompose
<1>1. IInv /\ [Next]_vars => [SetsOnlyItsColumns]_vars
  <2> SUFFICES ASSUME IInv, Next PROVE SetsOnlyItsColumns
    OBVIOUS
  <2>1. ASSUME NEW d \in Calls, Commit(d) PROVE SetsOnlyItsColumns
    <3> SUFFICES ASSUME pc[d] = "commit", Op(d) # "CREATE", points'[Point(d)] # NoRow
                 PROVE  /\ input[d].status = Unset =>
                               points'[Point(d)].status = points[Point(d)].status
                        /\ input[d].data = Unset =>
                               points'[Point(d)].data = points[Point(d)].data
      BY <2>1 DEF Commit, Goto, Throw, SetsOnlyItsColumns, IInv, TypeOK
    <3>1. points'[Point(d)] = staged[d]
      BY <2>1, CommitAlone DEF Commit, IInv, TypeOK
    <3>2. Op(d) \in Writes
      BY <3>1, CommitAlone DEF Actions, Writes
    <3>3. staged[d] = Merge(points[Point(d)], input[d])
      BY <3>2 DEF IInv, Staged, Updated
    <3>q. QED
      BY <3>1, <3>3 DEF Merge
  <2>2. ASSUME points' = points PROVE SetsOnlyItsColumns
    BY <2>2 DEF SetsOnlyItsColumns
  <2>q. QED
    BY <2>1, <2>2 DEF Next, Step, RequireReason, QueryFails, FindById, BeginTransaction,
       Create, Update, WriteAudit, Delete, CheckReferences, Rollback, DeadlockAborts,
       Receive, Offer, Crash, tables
<1>q. QED
  BY <1>1, Inductive, PTL DEF Spec, UpdatesCompose

----------------------------------------------------------------------------
(* Refinement: every step of SafePoints is a step of AuditedCatalogue, or  *)
(* leaves it unchanged.  COMMIT is where a change takes effect.            *)
Told(c) == IF pc[c] = "answered" THEN reply[c] ELSE "none"

LEMMA PendingCall ==
    ASSUME IInv, NEW c \in Calls, pc[c] \notin {"idle", "answered"}
    PROVE  Promise!Pending(c) /\ ~Promise!Applied(c)
<1>1. Op(c) \in Actions
  BY Acting DEF IInv
<1>2. Asked(input[c]) # Promise!NoChange
  BY <1>1 DEF Asked, Promise!NoChange, Actions, Op
<1>3. \A i \in DOMAIN audit : Entry(audit[i]).by # c
  BY DEF IInv, Log, Entry
<1>q. QED
  BY <1>2, <1>3 DEF Promise!Pending, Promise!Applied

(* A step that the callers do not notice and that commits nothing.         *)
LEMMA QuietRefines ==
    ASSUME UNCHANGED <<points, audit>>,
           \A d \in Calls : Asked(input[d])' = Asked(input[d]),
           \A d \in Calls : Told(d)' = Told(d)
    PROVE  UNCHANGED Promise!catalogueVars
  BY DEF Told, Promise!catalogueVars

(* A call that is answered by a step answers in AuditedCatalogue.          *)
LEMMA AnswerRefines ==
    ASSUME IInv, NEW c \in Calls, NEW answer \in {"notFound", "error"},
           pc[c] \notin {"idle", "answered"},
           pc' = [pc EXCEPT ![c] = "answered"],
           \A d \in Calls \ {c} : reply'[d] = reply[d],
           reply'[c] = answer,
           Promise!Truthful(c, answer),
           UNCHANGED <<points, audit, input>>
    PROVE  Promise!Answer(c)
<1>1. Promise!Pending(c)
  BY PendingCall
<1>2. [d \in Calls |-> Told(d)]' = [[d \in Calls |-> Told(d)] EXCEPT ![c] = answer]
  BY DEF Told, IInv, TypeOK
<1>q. QED
  BY <1>1, <1>2 DEF Promise!Answer, Told

LEMMA RefinesRequests ==
    ASSUME IInv, NEW c \in Calls
    PROVE  /\ RequireReason(c) => Promise!Refuse(c)
           /\ \A i \in Inputs : Receive(c, i) => Promise!Ask(c)
<1>1. pc[c] = "idle" => Asked(input[c]) = Promise!NoChange
  BY DEF IInv, Staging, Asked, NoInput, Promise!NoChange
<1>2. RequireReason(c) => Promise!Refuse(c)
  <2> SUFFICES ASSUME RequireReason(c) PROVE Promise!Refuse(c)
    OBVIOUS
  <2>1. [d \in Calls |-> Told(d)]' =
            [[d \in Calls |-> Told(d)] EXCEPT ![c] = "reasonRequired"]
    BY DEF RequireReason, Throw, Goto, Told, IInv, TypeOK
  <2>q. QED
    BY <1>1, <2>1 DEF RequireReason, tables, Promise!Refuse, Told
<1>3. ASSUME NEW i \in Inputs, Receive(c, i) PROVE Promise!Ask(c)
  <2>1. Asked(i) \in Promise!Requested
    BY DEF Inputs, Asked, Promise!Requested, Promise!Statuses, Statuses
  <2>2. [d \in Calls |-> Asked(input[d])]' =
            [[d \in Calls |-> Asked(input[d])] EXCEPT ![c] = Asked(i)]
    BY <1>3 DEF Receive, IInv, TypeOK
  <2>3. [d \in Calls |-> Told(d)]' = [d \in Calls |-> Told(d)]
    BY <1>3 DEF Receive, Goto, Told, IInv, TypeOK
  <2>q. QED
    BY <1>1, <1>3, <2>1, <2>2, <2>3 DEF Receive, tables, Promise!Ask, Told
<1>q. QED
  BY <1>2, <1>3

(* COMMIT applies the change it was asked for to the point as it is.       *)
LEMMA RefinesCommit ==
    ASSUME IInv, NEW c \in Calls, Commit(c)
    PROVE  Promise!Apply(c)
<1> USE DEF Commit, End, Goto, Throw
<1> DEFINE p == Point(c)
           entries == [i \in DOMAIN audit |-> Entry(audit[i])]
<1>1. /\ p \in Points /\ Op(c) \in Actions
      /\ points' = [points EXCEPT ![p] = staged[c]]
      /\ audit' = Audited(c)
      /\ audit \in Seq(AuditRows)
  BY CommitAlone DEF IInv, TypeOK
<1>2. Promise!Pending(c) /\ ~Promise!Applied(c)
  BY PendingCall
<1>3. /\ Asked(input[c]).action = Op(c)
      /\ Asked(input[c]).status = input[c].status
      /\ Asked(input[c]).data = input[c].data
      /\ Op(c) # "CREATE" => Asked(input[c]).point = p
  BY DEF Asked, Op, Point
<1>4. Promise!Takes(c, p)
  <2>1. Op(c) = "CREATE" => ~Promise!Known(p)
    BY CommitAlone DEF Unheard, Entry, Promise!Known
  <2>q. QED
    BY <1>3, <2>1, CommitAlone DEF Promise!Takes
<1>5. staged[c] = Promise!After(Asked(input[c]), p)
  <2>1. CASE Op(c) = "CREATE"
    BY <1>3, <2>1 DEF IInv, Staged, Promise!After
  <2>2. CASE Op(c) = "DELETE"
    BY <1>3, <2>2 DEF IInv, Staged, Promise!After
  <2>3. CASE Op(c) \in Writes
    BY <1>3, <2>3 DEF IInv, Staged, Updated, Merge, Writes, Promise!After, Promise!Set
  <2>q. QED
    BY <1>1, <2>1, <2>2, <2>3 DEF Actions, Writes
<1>6. [i \in DOMAIN audit |-> Entry(audit[i])]' = Append(entries, Entry(Snapshot(c)))
  <2>1. /\ DOMAIN audit' = 1..(Len(audit) + 1)
        /\ \A i \in 1..Len(audit) : Entry(audit'[i]) = entries[i]
        /\ Entry(audit'[Len(audit) + 1]) = Entry(Snapshot(c))
    BY <1>1, AuditedOK DEF IInv
  <2>2. Len(audit) \in Nat /\ DOMAIN audit = 1..Len(audit)
    BY <1>1
  <2>3. entries \in Seq({Entry(audit[i]) : i \in DOMAIN audit}) /\ Len(entries) = Len(audit)
    BY <2>2
  <2>q. QED
    BY <2>1, <2>2, <2>3
<1>7. Entry(Snapshot(c)) = [by |-> c, about |-> p, action |-> Op(c), after |-> staged[c]]
  BY DEF Entry, Snapshot
<1>8. PICK said \in {"none", "done", "error"} :
          [d \in Calls |-> Told(d)]' = [[d \in Calls |-> Told(d)] EXCEPT ![c] = said]
  <2>1. PICK given \in {"done", "error"} : reply' = [reply EXCEPT ![c] = given]
    OBVIOUS
  <2>2. [d \in Calls |-> Told(d)]' = [[d \in Calls |-> Told(d)] EXCEPT ![c] = given]
    BY <2>1 DEF Told, IInv, TypeOK
  <2>q. QED
    BY <2>2
<1>9. [d \in Calls |-> Asked(input[d])]' = [d \in Calls |-> Asked(input[d])]
  OBVIOUS
<1> HIDE DEF entries
<1> SUFFICES /\ \E q \in Points :
                   /\ Promise!Takes(c, q)
                   /\ points' = [points EXCEPT ![q] = Promise!After(Asked(input[c]), q)]
                   /\ [i \in DOMAIN audit |-> Entry(audit[i])]' =
                          Append(entries, [by |-> c, about |-> q,
                                           action |-> Asked(input[c]).action,
                                           after |-> Promise!After(Asked(input[c]), q)])
             /\ \E answer \in {"none", "done", "error"} :
                   [d \in Calls |-> Told(d)]' = [[d \in Calls |-> Told(d)] EXCEPT ![c] = answer]
  BY <1>2, <1>9 DEF Promise!Apply, Told, entries
<1>10. points' = [points EXCEPT ![p] = Promise!After(Asked(input[c]), p)]
  BY <1>1, <1>5
<1>11. [i \in DOMAIN audit |-> Entry(audit[i])]' =
           Append(entries, [by |-> c, about |-> p, action |-> Asked(input[c]).action,
                            after |-> Promise!After(Asked(input[c]), p)])
  BY <1>3, <1>5, <1>6, <1>7
<1> HIDE DEF p
<1>q. QED
  BY <1>1, <1>4, <1>8, <1>10, <1>11

LEMMA RefinesStep ==
    ASSUME IInv, NEW c \in Calls, Step(c) \/ QueryFails(c)
    PROVE  [Promise!Next]_(Promise!catalogueVars)
<1> USE DEF Goto, Throw, tables
<1>1. CASE FindById(c)
  <2>1. CASE pc' = [pc EXCEPT ![c] = "answered"]
    <3>1. Promise!Truthful(c, "notFound")
      BY <1>1, <2>1, PendingCall, InputOK
         DEF FindById, IInv, TypeOK, Staging, Promise!Truthful, Asked, Writes, Op, Point
    <3>2. Promise!Answer(c)
      BY <1>1, <2>1, <3>1, AnswerRefines DEF FindById, IInv, TypeOK
    <3>q. QED
      BY <3>2 DEF Promise!Next
  <2>2. CASE pc' = [pc EXCEPT ![c] = "begin"]
    BY <1>1, <2>2, QuietRefines DEF FindById, Told, IInv, TypeOK
  <2>q. QED
    BY <1>1, <2>1, <2>2 DEF FindById
<1>2. CASE \E p \in Points : Create(c, p)
  <2>1. Op(c) = "CREATE" /\ Asked(input[c])' = Asked(input[c])
    BY <1>2 DEF Create, IInv, TypeOK, Staging, Asked, Op
  <2>q. QED
    BY <1>2, <2>1, QuietRefines DEF Create, Told, IInv, TypeOK
<1>3. CASE BeginTransaction(c) \/ Update(c) \/ WriteAudit(c) \/ Delete(c)
             \/ CheckReferences(c) \/ DeadlockAborts(c)
  BY <1>3, QuietRefines DEF BeginTransaction, Update, WriteAudit, InsertAudit, RunnerReady,
     Delete, CheckReferences, DeadlockAborts, Told, IInv, TypeOK
<1>4. CASE Commit(c)
  BY <1>4, RefinesCommit DEF Promise!Next
<1>5. CASE Rollback(c)
  <2>1. /\ reply[c] \in {"notFound", "error"}
        /\ reply[c] = "notFound" => Op(c) \in Writes /\ points[Point(c)] = NoRow
    BY <1>5 DEF Rollback, IInv, Found
  <2>2. Promise!Truthful(c, reply[c])
    BY <1>5, <2>1, PendingCall, InputOK
       DEF Rollback, IInv, Promise!Truthful, Asked, Writes, Op, Point
  <2>3. Promise!Answer(c)
    BY <1>5, <2>1, <2>2, AnswerRefines DEF Rollback
  <2>q. QED
    BY <2>3 DEF Promise!Next
<1>6. CASE QueryFails(c)
  <2>1. CASE pc' = [pc EXCEPT ![c] = "answered"]
    <3>1. Promise!Truthful(c, "error")
      BY DEF Promise!Truthful
    <3>2. Promise!Answer(c)
      BY <1>6, <2>1, <3>1, AnswerRefines DEF QueryFails, IInv, TypeOK
    <3>q. QED
      BY <3>2 DEF Promise!Next
  <2>2. CASE pc' = [pc EXCEPT ![c] = "rollback"]
    BY <1>6, <2>2, QuietRefines DEF QueryFails, Told, IInv, TypeOK
  <2>q. QED
    BY <1>6, <2>1, <2>2 DEF QueryFails
<1>q. QED
  BY <1>1, <1>2, <1>3, <1>4, <1>5, <1>6 DEF Step

LEMMA RefinesCrash ==
    ASSUME IInv, Crash
    PROVE  Promise!LoseConnections
<1> USE DEF Crash, InFlight, tables
<1>1. InFlight \in SUBSET {c \in Calls : Promise!Pending(c)}
  BY PendingCall
<1>2. [c \in Calls |-> Told(c)]' =
          [c \in Calls |-> IF c \in InFlight THEN "error" ELSE Told(c)]
  BY DEF Told, IInv, TypeOK
<1>q. QED
  BY <1>1, <1>2 DEF Promise!LoseConnections, Told

(* SafePoints implements AuditedCatalogue: a change takes effect at once   *)
(* with its audit row, on the point as it is, and every answer is true.    *)
THEOREM ChangesAreAudited == Spec => ImplementsAuditedCatalogue
<1>1. Init => Promise!Init
  BY DEF Init, Promise!Init, Promise!NoChange, Asked, NoInput
<1>2. IInv /\ [Next]_vars => [Promise!Next]_(Promise!catalogueVars)
  <2> SUFFICES ASSUME IInv, [Next]_vars
               PROVE  [Promise!Next]_(Promise!catalogueVars)
    OBVIOUS
  <2>1. ASSUME NEW c \in Calls, RequireReason(c) \/ QueryFails(c) \/ Step(c)
        PROVE  [Promise!Next]_(Promise!catalogueVars)
    BY <2>1, RefinesRequests, RefinesStep DEF Promise!Next
  <2>2. ASSUME NEW c \in Calls, NEW i \in Inputs, Receive(c, i)
        PROVE  Promise!Next
    BY <2>2, RefinesRequests DEF Promise!Next
  <2>3. ASSUME NEW p \in Points, Offer(p)
        PROVE  UNCHANGED Promise!catalogueVars
    BY <2>3, QuietRefines DEF Offer, Told
  <2>4. CASE Crash
    BY <2>4, RefinesCrash DEF Promise!Next
  <2>5. CASE UNCHANGED vars
    BY <2>5, QuietRefines DEF vars, tables, Told
  <2>q. QED
    BY <2>1, <2>2, <2>3, <2>4, <2>5 DEF Next
<1>q. QED
  BY <1>1, <1>2, Inductive, PTL DEF Spec, ImplementsAuditedCatalogue, Promise!Spec
=============================================================================
