-------------------------- MODULE AuditedCatalogue --------------------------
(***************************************************************************)
(* What the admin routes of safe points promise, with no transactions in   *)
(* sight: a change takes effect in one step, together with its entry in    *)
(* the log, once at most, on the point as it is at that moment; and every  *)
(* answer is true of the changes made.  SafePoints implements this         *)
(* specification.                                                          *)
(***************************************************************************)
EXTENDS Sequences, Naturals

CONSTANTS Calls, Points, Data, Unset, NoPoint, NoRow

Statuses == {"active", "inactive"}

(* The changes: the action, the point (none for a CREATE, which makes its  *)
(* own) and the columns to set.                                            *)
Requested == [action : {"CREATE", "UPDATE", "ACTIVATE", "DEACTIVATE", "DELETE"},
            point : Points \cup {NoPoint}, status : Statuses \cup {Unset},
            data : Data \cup {Unset}]

NoChange == [action |-> "NONE", point |-> NoPoint, status |-> Unset, data |-> Unset]

VARIABLES rows,   \* the catalogue
          log,    \* the entries: who changed which point, how, to what
          asked,  \* the change a call asks for, or NoChange
          told    \* the answer a call got, or "none"

catalogueVars == <<rows, log, asked, told>>

Init ==
    /\ rows \in [Points -> [status : {"active"}, data : Data] \cup {NoRow}]
    /\ log = << >>
    /\ asked = [c \in Calls |-> NoChange]
    /\ told = [c \in Calls |-> "none"]

Pending(c) == asked[c] # NoChange /\ told[c] = "none"
Applied(c) == \E i \in DOMAIN log : log[i].by = c
Known(p) == rows[p] # NoRow \/ \E i \in DOMAIN log : log[i].about = p

Ask(c) ==
    /\ asked[c] = NoChange /\ told[c] = "none"
    /\ \E change \in Requested : asked' = [asked EXCEPT ![c] = change]
    /\ UNCHANGED <<rows, log, told>>

(* The change's effect on the point as it is. *)
Set(old, new) == IF new = Unset THEN old ELSE new

After(change, p) ==
    IF change.action = "CREATE" THEN [status |-> change.status, data |-> change.data]
    ELSE IF change.action = "DELETE" THEN NoRow
    ELSE [status |-> Set(rows[p].status, change.status),
          data   |-> Set(rows[p].data, change.data)]

Takes(c, p) ==
    \/ asked[c].action = "CREATE" /\ ~Known(p)
    \/ asked[c].action # "CREATE" /\ asked[c].point = p /\ rows[p] # NoRow

(* The change and its entry, at once; it may be answered at once, too.     *)
Apply(c) ==
    /\ Pending(c) /\ ~Applied(c)
    /\ \E p \in Points :
        /\ Takes(c, p)
        /\ rows' = [rows EXCEPT ![p] = After(asked[c], p)]
        /\ log' = Append(log, [by |-> c, about |-> p, action |-> asked[c].action,
                               after |-> After(asked[c], p)])
    /\ \E answer \in {"none", "done", "error"} : told' = [told EXCEPT ![c] = answer]
    /\ UNCHANGED asked

(* An answer is a claim about the changes made. *)
Truthful(c, answer) ==
    \/ answer = "done"     /\ Applied(c)
    \/ answer = "notFound" /\ ~Applied(c)
       /\ asked[c].point \in Points /\ rows[asked[c].point] = NoRow
    \/ answer = "error"

Answer(c) ==
    /\ Pending(c)
    /\ \E answer \in {"done", "notFound", "error"} :
        /\ Truthful(c, answer)
        /\ told' = [told EXCEPT ![c] = answer]
    /\ UNCHANGED <<rows, log, asked>>

(* A call without a reason asks for nothing. *)
Refuse(c) ==
    /\ asked[c] = NoChange /\ told[c] = "none"
    /\ told' = [told EXCEPT ![c] = "reasonRequired"]
    /\ UNCHANGED <<rows, log, asked>>

(* Several callers lose their connection at once: they know nothing. *)
LoseConnections ==
    /\ \E S \in SUBSET {c \in Calls : Pending(c)} :
        told' = [c \in Calls |-> IF c \in S THEN "error" ELSE told[c]]
    /\ UNCHANGED <<rows, log, asked>>

Next ==
    \/ \E c \in Calls : Ask(c) \/ Refuse(c) \/ Apply(c) \/ Answer(c)
    \/ LoseConnections

Spec == Init /\ [][Next]_catalogueVars
=============================================================================
