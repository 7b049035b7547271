--------------------------- MODULE ApprovalLedger ---------------------------
(***************************************************************************)
(* What the event log of a run promises: one history of state changes that *)
(* only grows, one whole change at a time, in which an approval answers    *)
(* the gate that is open and an idempotency key is used once.  CommitLog   *)
(* shows how the files of a run directory implement it.                    *)
(*                                                                         *)
(* A change is abstracted to what it does to the gate: it opens one (a     *)
(* proposed route, a recorded stage, a prepared query, a rollback plan),   *)
(* closes it without an answer (a revision), answers it (an approval), or  *)
(* leaves it alone (any other commit).  A gate is named by the number of   *)
(* the event that opened it.                                               *)
(***************************************************************************)
EXTENDS Naturals, Sequences

CONSTANTS Keys, NoKey

VARIABLE history

Change(type, key, gate) == [type |-> type, key |-> key, gate |-> gate]
Note  == Change("note", NoKey, 0)
Open  == Change("open", NoKey, 0)
Close == Change("close", NoKey, 0)
Approve(k, g) == Change("approve", k, g)

Approvals == [type : {"approve"}, key : Keys, gate : Nat]
Changes   == {Note, Open, Close} \cup Approvals

(* Gate g is the gate that waits for an answer.                            *)
Pending(h, g) ==
    /\ g \in 1..Len(h) /\ h[g] = Open
    /\ \A j \in 1..Len(h) : j > g => h[j] = Note

Used(h, k) == \E i \in 1..Len(h) : h[i].type = "approve" /\ h[i].key = k

(* The changes that may follow history h.                                  *)
Allowed(h) ==
    {Note, Open, Close} \cup
    {c \in [type : {"approve"}, key : Keys, gate : 1..Len(h)] :
         Pending(h, c.gate) /\ ~Used(h, c.key)}

Init == history = <<Note>>

Next == \E c \in Allowed(history) : history' = Append(history, c)

Spec == Init /\ [][Next]_history

(* A gate is answered once, and an idempotency key answers one gate.       *)
OneApproval(h) ==
    \A i, j \in 1..Len(h) :
        h[i] \in Approvals /\ h[j] \in Approvals /\ i # j =>
            h[i].gate # h[j].gate /\ h[i].key # h[j].key
=============================================================================
