--------------------------- MODULE CommitLogProofs ---------------------------
(***************************************************************************)
(* Proofs about CommitLog: its invariants, and that the files of a run     *)
(* directory implement ApprovalLedger.                                     *)
(*                                                                         *)
(* What the lock holder has still to write determines how far the three    *)
(* files are apart (Phase).  An approval is appended only while the log is *)
(* whole and the state its head, and so is an event; between the event and *)
(* the state the log is one change ahead; a recovery restores the files in *)
(* the order in which it writes them.  That the gates are answered once    *)
(* follows from the ledger: a gate that is pending was opened after every  *)
(* approval in the log (PendingIsLast), and the key of an approval that    *)
(* passes its checks is used by no event (ApprovalAllowed), because every  *)
(* approval in the log is also in approvals.jsonl (Kept).                  *)
(***************************************************************************)
EXTENDS CommitLog, OrderFacts, SequenceTheorems

-----------------------------------------------------------------------------
(* What Committed selects.                                                 *)

Selected(h, s, n) == IF h[n].type = "approve" THEN Append(s, h[n]) ELSE s

Selects(h, m, f) ==
    f = [n \in 0..m |-> IF n = 0 THEN <<>>
                        ELSE IF h[n].type = "approve" THEN Append(f[n - 1], h[n])
                        ELSE f[n - 1]]

LEMMA SelectsValues ==
    ASSUME NEW h, NEW m \in Nat, NEW f, Selects(h, m, f)
    PROVE  f[0] = <<>> /\ \A n \in 0..m : n # 0 => f[n] = Selected(h, f[n - 1], n)
<1>1. ASSUME NEW n \in 0..m
      PROVE  f[n] = IF n = 0 THEN <<>>
                    ELSE IF h[n].type = "approve" THEN Append(f[n - 1], h[n])
                    ELSE f[n - 1]
  BY Zenon DEF Selects
<1>2. 0 \in 0..m
  OBVIOUS
<1>3. f[0] = <<>>
  BY <1>1, <1>2, Zenon
<1>4. ASSUME NEW n \in 0..m, n # 0 PROVE f[n] = Selected(h, f[n - 1], n)
  BY <1>1, <1>4, Zenon DEF Selected
<1> QED BY <1>3, <1>4

(* The function by which Committed is defined exists for every length.     *)
LEMMA SelectionExists ==
    ASSUME NEW h
    PROVE  \A m \in Nat : \E f : Selects(h, m, f)
<1> DEFINE S == {m \in Nat : \E f : Selects(h, m, f)}
<1>1. 0 \in S
  <2> DEFINE f == [n \in 0..0 |-> <<>>]
  <2>1. Selects(h, 0, f)
    BY DEF Selects
  <2> QED BY <2>1
<1>2. ASSUME NEW m \in Nat, m \in S PROVE m + 1 \in S
  <2>1. PICK f : Selects(h, m, f)
    BY <1>2
  <2> DEFINE g == [n \in 0..(m + 1) |-> IF n = 0 THEN <<>> ELSE Selected(h, f[n - 1], n)]
  <2>2. ASSUME NEW n \in 0..m PROVE g[n] = f[n]
    <3>1. n \in 0..(m + 1)
      OBVIOUS
    <3>2. g[n] = IF n = 0 THEN <<>> ELSE Selected(h, f[n - 1], n)
      BY <3>1, Zenon
    <3> HIDE DEF g
    <3>3. f[0] = <<>> /\ (n # 0 => f[n] = Selected(h, f[n - 1], n))
      BY <2>1, SelectsValues
    <3> QED BY <3>2, <3>3, Zenon
  <2> HIDE DEF g
  <2>3. \A n \in 0..(m + 1) : n # 0 => n - 1 \in 0..m /\ g[n - 1] = f[n - 1]
    BY <2>2
  <2> USE DEF g
  <2>4. g = [n \in 0..(m + 1) |-> IF n = 0 THEN <<>> ELSE Selected(h, f[n - 1], n)]
    OBVIOUS
  <2> HIDE DEF g
  <2>5. Selects(h, m + 1, g)
    BY <2>3, <2>4 DEF Selects, Selected
  <2>6. m + 1 \in Nat
    OBVIOUS
  <2> QED BY <2>5, <2>6
<1>3. Nat \subseteq S
  BY <1>1, <1>2, NatSetInduction
<1> QED BY <1>3

(* Committed(h) consists of the approvals of h, and of each of them once   *)
(* when no two are the same.                                               *)
LEMMA CommittedFacts ==
    ASSUME NEW h \in Seq(Ledger!Changes)
    PROVE  /\ Committed(h) \in Seq(Ledger!Approvals)
           /\ \A i \in 1..Len(h) : h[i].type = "approve" =>
                \E j \in 1..Len(Committed(h)) : Committed(h)[j] = h[i]
           /\ (\A i, j \in 1..Len(h) : h[i].type = "approve" /\ h[i] = h[j] => i = j)
              => \A i, j \in 1..Len(Committed(h)) : Committed(h)[i] = Committed(h)[j] => i = j
<1> DEFINE F == CHOOSE f : Selects(h, Len(h), f)
<1>1. Committed(h) = F[Len(h)]
  BY Zenon DEF Committed, Selects
<1>2. Len(h) \in Nat
  OBVIOUS
<1>3. Selects(h, Len(h), F)
  <2>1. \E f : Selects(h, Len(h), f)
    BY <1>2, SelectionExists
  <2> QED BY <2>1, Zenon
<1> HIDE DEF F
<1>4. F[0] = <<>> /\ \A n \in 0..Len(h) : n # 0 => F[n] = Selected(h, F[n - 1], n)
  BY <1>2, <1>3, SelectsValues
<1> DEFINE Distinct == \A i, j \in 1..Len(h) : h[i].type = "approve" /\ h[i] = h[j] => i = j
           Typed(n) == F[n] \in Seq(Ledger!Approvals)
           From(n)  == \A i \in 1..Len(F[n]) : \E j \in 1..n : h[j] = F[n][i]
           All(n)   == \A i \in 1..n : h[i].type = "approve" => \E j \in 1..Len(F[n]) : F[n][j] = h[i]
           Once(n)  == Distinct => \A i, j \in 1..Len(F[n]) : F[n][i] = F[n][j] => i = j
           S == {n \in Nat : n <= Len(h) => Typed(n) /\ From(n) /\ All(n) /\ Once(n)}
<1>5. 0 \in S
  <2>1. Len(F[0]) = 0 /\ F[0] \in Seq(Ledger!Approvals)
    BY <1>4
  <2>2. Typed(0) /\ From(0) /\ All(0) /\ Once(0)
    <3> HIDE DEF Distinct
    <3> QED BY <2>1
  <2> QED BY <2>2
<1>6. ASSUME NEW m \in Nat, m \in S PROVE m + 1 \in S
  <2>1. SUFFICES ASSUME m + 1 <= Len(h)
                 PROVE  Typed(m + 1) /\ From(m + 1) /\ All(m + 1) /\ Once(m + 1)
    OBVIOUS
  <2>2. Typed(m) /\ From(m) /\ All(m) /\ Once(m)
    BY <1>2, <1>6, <2>1
  <2>3. m + 1 \in 1..Len(h) /\ F[m + 1] = Selected(h, F[m], m + 1)
    BY <1>2, <1>4, <2>1
  <2>4. CASE h[m + 1].type # "approve"
    <3>1. F[m + 1] = F[m]
      BY <2>3, <2>4 DEF Selected
    <3> HIDE DEF Distinct
    <3> QED BY <2>2, <2>4, <3>1
  <2>5. CASE h[m + 1].type = "approve"
    <3>1. F[m + 1] = Append(F[m], h[m + 1])
      BY <2>3, <2>5 DEF Selected
    <3>2. h[m + 1] \in Ledger!Approvals
      <4>1. h[m + 1] \in Ledger!Changes
        BY <2>3
      <4> QED BY <2>5, <4>1 DEF Ledger!Changes, Ledger!Note, Ledger!Open, Ledger!Close, Ledger!Change
    <3> DEFINE g == F[m]  c == h[m + 1]
    <3> HIDE DEF g, c
    <3>3. /\ Append(g, c) \in Seq(Ledger!Approvals)
          /\ Len(Append(g, c)) = Len(g) + 1 /\ Len(g) \in Nat
          /\ Append(g, c)[Len(g) + 1] = c
          /\ \A i \in 1..Len(g) : Append(g, c)[i] = g[i]
      BY <2>2, <3>2, AppendProperties DEF g, c
    <3>4. From(m + 1)
      BY <2>2, <3>1, <3>3 DEF g, c
    <3>5. All(m + 1)
      BY <2>2, <3>1, <3>3 DEF g, c
    <3>6. ASSUME Distinct, NEW i \in 1..Len(g) PROVE g[i] # c
      <4>1. PICK j \in 1..m : h[j] = g[i]
        BY <2>2, <3>6 DEF g
      <4> QED BY <2>3, <2>5, <3>6, <4>1 DEF c
    <3>7. Once(m + 1)
      BY <2>2, <3>1, <3>3, <3>6 DEF g, c
    <3> QED BY <3>1, <3>3, <3>4, <3>5, <3>7 DEF g, c
  <2> QED BY <2>4, <2>5
<1>7. Len(h) \in S
  <2>1. \A n \in Nat : n \in S => n + 1 \in S
    BY <1>6
  <2> HIDE DEF S
  <2> QED BY <1>2, <1>5, <2>1, NatSetInduction
<1> QED BY <1>1, <1>2, <1>7

-----------------------------------------------------------------------------
(* The writes of the commands, written out.                                *)

LEMMA ConcatTwo ==
    ASSUME NEW a, NEW b, NEW c, NEW d
    PROVE  <<a, b>> \o <<c, d>> = <<a, b, c, d>>
<1> DEFINE S == {a, b, c, d}
           s == <<a, b>>  t == <<c, d>>  u == <<a, b, c, d>>
<1>1. s \in Seq(S) /\ t \in Seq(S) /\ u \in Seq(S) /\ Len(s) = 2 /\ Len(t) = 2 /\ Len(u) = 4
  OBVIOUS
<1>2. s \o t \in Seq(S) /\ Len(s \o t) = 4
  BY <1>1, ConcatProperties
<1>3. \A i \in 1..4 : (s \o t)[i] = u[i]
  BY <1>1, ConcatProperties
<1> QED BY <1>1, <1>2, <1>3, SeqEqual

LEMMA ConcatOneTwo ==
    ASSUME NEW a, NEW b, NEW c
    PROVE  <<a>> \o <<b, c>> = <<a, b, c>>
<1> DEFINE S == {a, b, c}
           s == <<a>>  t == <<b, c>>  u == <<a, b, c>>
<1>1. s \in Seq(S) /\ t \in Seq(S) /\ u \in Seq(S) /\ Len(s) = 1 /\ Len(t) = 2 /\ Len(u) = 3
  OBVIOUS
<1>2. s \o t \in Seq(S) /\ Len(s \o t) = 3
  BY <1>1, ConcatProperties
<1>3. \A i \in 1..3 : (s \o t)[i] = u[i]
  BY <1>1, ConcatProperties
<1> QED BY <1>1, <1>2, <1>3, SeqEqual

LEMMA ConcatThree ==
    ASSUME NEW a, NEW b, NEW c, NEW d, NEW e
    PROVE  <<a, b, c>> \o <<d, e>> = <<a, b, c, d, e>>
<1> DEFINE S == {a, b, c, d, e}
           s == <<a, b, c>>  t == <<d, e>>  u == <<a, b, c, d, e>>
<1>1. s \in Seq(S) /\ t \in Seq(S) /\ u \in Seq(S) /\ Len(s) = 3 /\ Len(t) = 2 /\ Len(u) = 5
  OBVIOUS
<1>2. s \o t \in Seq(S) /\ Len(s \o t) = 5
  BY <1>1, ConcatProperties
<1>3. \A i \in 1..5 : (s \o t)[i] = u[i]
  BY <1>1, ConcatProperties
<1> QED BY <1>1, <1>2, <1>3, SeqEqual

LEMMA ConcatFour ==
    ASSUME NEW a, NEW b, NEW c, NEW d, NEW e, NEW f
    PROVE  <<a, b, c, d>> \o <<e, f>> = <<a, b, c, d, e, f>>
<1> DEFINE S == {a, b, c, d, e, f}
           s == <<a, b, c, d>>  t == <<e, f>>  u == <<a, b, c, d, e, f>>
<1>1. s \in Seq(S) /\ t \in Seq(S) /\ u \in Seq(S) /\ Len(s) = 4 /\ Len(t) = 2 /\ Len(u) = 6
  OBVIOUS
<1>2. s \o t \in Seq(S) /\ Len(s \o t) = 6
  BY <1>1, ConcatProperties
<1>3. \A i \in 1..6 : (s \o t)[i] = u[i]
  BY <1>1, ConcatProperties
<1> QED BY <1>1, <1>2, <1>3, SeqEqual

EventOf(c)    == Write("events", c)
StateOf(c)    == Write("state", c)
ApprovalOf(c) == Write("approvals", c)

Writes == [file : {"approvals", "events", "state", "all events", "all approvals",
                   "all state", "audit"}, change : Ledger!Changes]

(* What is left of a command from a commit with the change c on: with or   *)
(* without a second commit behind it.                                      *)
EventLists(c) ==
    {<<EventOf(c), StateOf(c)>>, <<EventOf(c), StateOf(c), EventOf(Note), StateOf(Note)>>}

StateLists(c) == {<<StateOf(c)>>, <<StateOf(c), EventOf(Note), StateOf(Note)>>}

ApprovalLists(c) ==
    {<<ApprovalOf(c), EventOf(c), StateOf(c)>>,
     <<ApprovalOf(c), EventOf(c), StateOf(c), EventOf(Note), StateOf(Note)>>}

(* What is left of a recovery, from each of its rewrites on.               *)
AuditList == <<Write("audit", Note), EventOf(Note), StateOf(Note)>>
AllStateList == <<Write("all state", Note), Write("audit", Note), EventOf(Note), StateOf(Note)>>
AllApprovalsList ==
    <<Write("all approvals", Note), Write("all state", Note), Write("audit", Note),
      EventOf(Note), StateOf(Note)>>
AllEventsList ==
    <<Write("all events", Note), Write("all approvals", Note), Write("all state", Note),
      Write("audit", Note), EventOf(Note), StateOf(Note)>>

EventDue(c)    == todo \in EventLists(c)
StateDue(c)    == todo \in StateLists(c)
ApprovalDue(c) == todo \in ApprovalLists(c)

AuditDue        == todo = AuditList
AllStateDue     == todo = AllStateList
AllApprovalsDue == todo = AllApprovalsList
AllEventsDue    == todo = AllEventsList

Filed(c) == \E i \in 1..Len(approvals) : approvals[i] = c

LEMMA NoteIsAChange == Note \in Ledger!Changes
BY DEF Note, Ledger!Note, Ledger!Changes

LEMMA WritesAre ==
    ASSUME NEW c \in Ledger!Changes
    PROVE  /\ Commit(c) = <<EventOf(c), StateOf(c)>>
           /\ Commit(c) \o Commit(Note) = <<EventOf(c), StateOf(c), EventOf(Note), StateOf(Note)>>
           /\ RecoverWrites \o Commit(Note)
                 = <<Write("all events", Note), Write("all approvals", Note),
                     Write("all state", Note), Write("audit", Note), EventOf(Note), StateOf(Note)>>
<1>2. Commit(c) = <<EventOf(c), StateOf(c)>> /\ Commit(Note) = <<EventOf(Note), StateOf(Note)>>
  BY DEF Commit, EventOf, StateOf
<1>3. <<EventOf(c), StateOf(c)>> \o <<EventOf(Note), StateOf(Note)>>
        = <<EventOf(c), StateOf(c), EventOf(Note), StateOf(Note)>>
  BY ConcatTwo
<1>4. RecoverWrites = <<Write("all events", Note), Write("all approvals", Note),
                        Write("all state", Note), Write("audit", Note)>>
  BY DEF RecoverWrites
<1>5. <<Write("all events", Note), Write("all approvals", Note), Write("all state", Note),
        Write("audit", Note)>> \o <<EventOf(Note), StateOf(Note)>>
        = <<Write("all events", Note), Write("all approvals", Note),
            Write("all state", Note), Write("audit", Note), EventOf(Note), StateOf(Note)>>
  <2> DEFINE p == Write("all events", Note)   q == Write("all approvals", Note)
             r == Write("all state", Note)    s == Write("audit", Note)
             e == EventOf(Note)               f == StateOf(Note)
  <2> HIDE DEF p, q, r, s, e, f
  <2>1. <<p, q, r, s>> \o <<e, f>> = <<p, q, r, s, e, f>>
    BY ConcatFour
  <2> QED BY <2>1, Zenon DEF p, q, r, s, e, f
<1> QED BY <1>2, <1>3, <1>4, <1>5, Zenon

LEMMA ApprovalWritesAre ==
    ASSUME NEW c \in Ledger!Changes
    PROVE  /\ Filed(c) => ApprovalWrites(c) = Commit(c)
           /\ ~Filed(c) => /\ ApprovalWrites(c) = <<ApprovalOf(c), EventOf(c), StateOf(c)>>
                           /\ ApprovalWrites(c) \o Commit(Note)
                                 = <<ApprovalOf(c), EventOf(c), StateOf(c),
                                     EventOf(Note), StateOf(Note)>>
<1>1. Commit(c) = <<EventOf(c), StateOf(c)>> /\ Commit(Note) = <<EventOf(Note), StateOf(Note)>>
  BY DEF Commit, EventOf, StateOf
<1>2. Commit(c) \in Seq({EventOf(c), StateOf(c)})
  BY <1>1
<1>3. ASSUME Filed(c) PROVE ApprovalWrites(c) = Commit(c)
  <2>1. ApprovalWrites(c) = <<>> \o Commit(c)
    BY <1>3, Zenon DEF Filed, ApprovalWrites
  <2> QED BY <1>2, <2>1, ConcatEmptySeq
<1>4. ASSUME ~Filed(c)
      PROVE  /\ ApprovalWrites(c) = <<ApprovalOf(c), EventOf(c), StateOf(c)>>
             /\ ApprovalWrites(c) \o Commit(Note)
                  = <<ApprovalOf(c), EventOf(c), StateOf(c), EventOf(Note), StateOf(Note)>>
  <2>1. ApprovalWrites(c) = <<ApprovalOf(c)>> \o Commit(c)
    BY <1>4, Zenon DEF Filed, ApprovalWrites, ApprovalOf
  <2>2. <<ApprovalOf(c)>> \o <<EventOf(c), StateOf(c)>> = <<ApprovalOf(c), EventOf(c), StateOf(c)>>
    BY ConcatOneTwo, Zenon
  <2>3. <<ApprovalOf(c), EventOf(c), StateOf(c)>> \o <<EventOf(Note), StateOf(Note)>>
          = <<ApprovalOf(c), EventOf(c), StateOf(c), EventOf(Note), StateOf(Note)>>
    BY ConcatThree
  <2> QED BY <1>1, <2>1, <2>2, <2>3, Zenon
<1> QED BY <1>3, <1>4

-----------------------------------------------------------------------------
(* The inductive invariant.                                                *)

Synced   == eventsTail = "ok" /\ stateFile = events
Restored == eventsTail = "ok" /\ approvalsTail = "ok" /\ approvals = Committed(events)

(* What the lock holder has still to write says how far the files are      *)
(* apart, and that the change it carries is one the log may take.          *)
Phase ==
    \/ todo = <<>>
    \/ \E c \in Ledger!Approvals :
          ApprovalDue(c) /\ Synced /\ c \in Ledger!Allowed(events) /\ ~Filed(c)
    \/ \E c \in Ledger!Changes :
          /\ EventDue(c) /\ Synced /\ c \in Ledger!Allowed(events)
          /\ c.type = "approve" => Filed(c)
    \/ \E c \in Ledger!Changes :
          StateDue(c) /\ eventsTail = "ok" /\ events = Append(stateFile, c)
    \/ AllEventsDue
    \/ AllApprovalsDue /\ eventsTail = "ok"
    \/ AllStateDue /\ Restored
    \/ AuditDue /\ Restored /\ stateFile = events

(* A complete event without its newline is one the state has not seen: a   *)
(* command that trusts the state finds a log it can append to.             *)
TailKnown == eventsTail # "broken" /\ (eventsTail = "nonewline" => stateFile # events)

GatesBefore == \A i \in 1..Len(events) : events[i].type = "approve" => events[i].gate < i
NoTwice == \A i, j \in 1..Len(approvals) : approvals[i] = approvals[j] => i = j
Kept    == \A i \in 1..Len(events) : events[i].type = "approve" => Filed(events[i])

LogInv    == GatesBefore /\ NoTwice /\ Kept /\ OneApproval
CommitInv == TypeOK /\ Phase /\ TailKnown /\ StateNearHead /\ LogInv

-----------------------------------------------------------------------------
(* Facts about changes.                                                    *)

LEMMA ChangeFacts ==
    ASSUME NEW c \in Ledger!Changes
    PROVE  /\ c.type = "approve" <=> c \in Ledger!Approvals
           /\ c \in Ledger!Approvals => c.gate \in Nat /\ c.key \in Keys
BY DEF Ledger!Changes, Ledger!Note, Ledger!Open, Ledger!Close, Ledger!Change, Ledger!Approvals

LEMMA AllowedFacts ==
    ASSUME NEW h \in Seq(Ledger!Changes), NEW c \in Ledger!Allowed(h)
    PROVE  /\ c \in Ledger!Changes
           /\ c \in Ledger!Approvals => Ledger!Pending(h, c.gate) /\ ~Ledger!Used(h, c.key)
BY DEF Ledger!Allowed, Ledger!Changes, Ledger!Note, Ledger!Open, Ledger!Close, Ledger!Change,
       Ledger!Approvals

LEMMA EditsAllowed ==
    ASSUME NEW h, NEW c \in Edits
    PROVE  c \in Ledger!Allowed(h) /\ c \in Ledger!Changes /\ c.type # "approve"
BY DEF Edits, Note, Ledger!Allowed, Ledger!Changes, Ledger!Note, Ledger!Open, Ledger!Close,
       Ledger!Change

LEMMA NoteIsAnEdit == Note \in Edits
BY DEF Edits

(* A gate that is pending was opened after every earlier approval.         *)
LEMMA PendingIsLast ==
    ASSUME NEW h \in Seq(Ledger!Changes), NEW g, Ledger!Pending(h, g),
           NEW i \in 1..Len(h), h[i] \in Ledger!Approvals
    PROVE  i < g
<1>1. g \in 1..Len(h) /\ h[g] = Ledger!Open /\ \A j \in 1..Len(h) : j > g => h[j] = Ledger!Note
  BY DEF Ledger!Pending
<1>2. Ledger!Open \notin Ledger!Approvals /\ Ledger!Note \notin Ledger!Approvals
  BY DEF Ledger!Open, Ledger!Note, Ledger!Change, Ledger!Approvals
<1> QED BY <1>1, <1>2

LEMMA AppendFacts ==
    ASSUME NEW S, NEW h \in Seq(S), NEW c \in S
    PROVE  /\ Append(h, c) \in Seq(S) /\ Len(h) \in Nat
           /\ Len(Append(h, c)) = Len(h) + 1
           /\ Append(h, c)[Len(h) + 1] = c
           /\ \A i \in 1..Len(h) : Append(h, c)[i] = h[i]
           /\ h = SubSeq(Append(h, c), 1, Len(h))
           /\ Append(h, c) # h
<1>1. /\ Append(h, c) \in Seq(S) /\ Len(h) \in Nat
      /\ Len(Append(h, c)) = Len(h) + 1
      /\ Append(h, c)[Len(h) + 1] = c
      /\ \A i \in 1..Len(h) : Append(h, c)[i] = h[i]
  BY AppendProperties
<1> DEFINE s == Append(h, c)
<1> HIDE DEF s
<1>2. /\ SubSeq(s, 1, Len(h)) \in Seq(S) /\ Len(SubSeq(s, 1, Len(h))) = Len(h)
      /\ \A i \in 1..Len(h) : SubSeq(s, 1, Len(h))[i] = s[i]
  BY <1>1, SubSeqProperties DEF s
<1>3. h = SubSeq(s, 1, Len(h))
  BY <1>1, <1>2, SeqEqual DEF s
<1>4. Append(h, c) # h
  BY <1>1
<1> QED BY <1>1, <1>3, <1>4, Zenon DEF s

-----------------------------------------------------------------------------
(* The approvals and the log.                                              *)

LEMMA LogStays ==
    ASSUME LogInv, events' = events, approvals' = approvals
    PROVE  LogInv'
<1>1. \A c : Filed(c)' <=> Filed(c)
  BY DEF Filed
<1>2. GatesBefore' /\ NoTwice' /\ OneApproval'
  BY DEF LogInv, GatesBefore, NoTwice, OneApproval
<1>3. Kept'
  BY <1>1 DEF LogInv, Kept
<1> QED BY <1>2, <1>3 DEF LogInv

LEMMA LogGrows ==
    ASSUME TypeOK, LogInv, NEW c \in Ledger!Allowed(events), c.type = "approve" => Filed(c),
           events' = Append(events, c), approvals' = approvals
    PROVE  LogInv'
<1> DEFINE n == Len(events)
<1>1. events \in Seq(Ledger!Changes) /\ c \in Ledger!Changes
  BY AllowedFacts DEF TypeOK
<1>2. /\ n \in Nat /\ Len(events') = n + 1 /\ events'[n + 1] = c
      /\ \A i \in 1..n : events'[i] = events[i] /\ events[i] \in Ledger!Changes
  BY <1>1, AppendFacts
<1>3. ASSUME c.type = "approve"
      PROVE  Ledger!Pending(events, c.gate) /\ ~Ledger!Used(events, c.key)
  BY <1>1, <1>3, ChangeFacts, AllowedFacts
<1> HIDE DEF n
<1>4. \A d : Filed(d)' <=> Filed(d)
  BY DEF Filed
<1>5. GatesBefore'
  <2>1. ASSUME NEW i \in 1..(n + 1), events'[i].type = "approve" PROVE events'[i].gate < i
    <3>1. CASE i = n + 1
      <4>1. c.gate \in 1..n
        BY <1>2, <1>3, <2>1, <3>1 DEF Ledger!Pending, n
      <4> QED BY <1>2, <3>1, <4>1
    <3>2. CASE i \in 1..n
      BY <1>2, <2>1, <3>2 DEF LogInv, GatesBefore, n
    <3> QED BY <1>2, <3>1, <3>2
  <2> QED BY <1>2, <2>1 DEF GatesBefore
<1>6. Kept'
  <2>1. ASSUME NEW i \in 1..(n + 1), events'[i].type = "approve" PROVE Filed(events'[i])
    <3>1. CASE i = n + 1
      BY <1>2, <2>1, <3>1
    <3>2. CASE i \in 1..n
      BY <1>2, <2>1, <3>2 DEF LogInv, Kept, n
    <3> QED BY <1>2, <3>1, <3>2
  <2> QED BY <1>2, <1>4, <2>1 DEF Kept
<1>7. OneApproval'
  <2>1. ASSUME NEW i \in 1..n, events[i] \in Ledger!Approvals, c \in Ledger!Approvals
        PROVE  events[i].gate # c.gate /\ events[i].key # c.key
    <3>1. events[i].type = "approve" /\ c.type = "approve" /\ events[i].gate \in Nat
      BY <1>1, <1>2, <2>1, ChangeFacts
    <3>2. i < c.gate /\ c.gate \in Nat
      BY <1>1, <1>3, <2>1, <3>1, PendingIsLast DEF Ledger!Pending, n
    <3>3. events[i].gate < i
      BY <2>1, <3>1 DEF LogInv, GatesBefore, n
    <3>4. events[i].key # c.key
      BY <1>3, <3>1 DEF Ledger!Used, n
    <3> QED BY <1>2, <3>1, <3>2, <3>3, <3>4
  <2>2. ASSUME NEW i \in 1..(n + 1), NEW j \in 1..(n + 1),
               events'[i] \in Ledger!Approvals, events'[j] \in Ledger!Approvals, i # j
        PROVE  events'[i].gate # events'[j].gate /\ events'[i].key # events'[j].key
    <3>1. CASE i \in 1..n /\ j \in 1..n
      BY <1>2, <2>2, <3>1 DEF LogInv, OneApproval, Ledger!OneApproval, n
    <3>2. CASE i = n + 1 /\ j \in 1..n
      BY <1>2, <2>1, <2>2, <3>2
    <3>3. CASE j = n + 1 /\ i \in 1..n
      BY <1>2, <2>1, <2>2, <3>3
    <3> QED BY <1>2, <2>2, <3>1, <3>2, <3>3
  <2> QED BY <1>2, <2>2 DEF OneApproval, Ledger!OneApproval
<1>8. NoTwice'
  BY DEF LogInv, NoTwice
<1> QED BY <1>5, <1>6, <1>7, <1>8 DEF LogInv

LEMMA ApprovalIsFiled ==
    ASSUME TypeOK, LogInv, NEW c \in Ledger!Approvals, ~Filed(c),
           approvals' = Append(approvals, c), events' = events
    PROVE  LogInv'
<1> DEFINE n == Len(approvals)
<1>1. /\ n \in Nat /\ Len(approvals') = n + 1 /\ approvals'[n + 1] = c
      /\ \A i \in 1..n : approvals'[i] = approvals[i]
  <2>1. approvals \in Seq(Ledger!Approvals)
    BY DEF TypeOK
  <2> QED BY <2>1, AppendFacts
<1>2. \A i \in 1..n : approvals[i] # c
  BY DEF Filed
<1> HIDE DEF n
<1>3. NoTwice'
  <2>1. ASSUME NEW i \in 1..(n + 1), NEW j \in 1..(n + 1), approvals'[i] = approvals'[j]
        PROVE  i = j
    <3>1. CASE i \in 1..n /\ j \in 1..n
      BY <1>1, <2>1, <3>1 DEF LogInv, NoTwice, n
    <3>2. CASE i = n + 1 \/ j = n + 1
      BY <1>1, <1>2, <2>1, <3>2
    <3> QED BY <1>1, <3>1, <3>2
  <2> QED BY <1>1, <2>1 DEF NoTwice
<1>4. ASSUME NEW d, Filed(d) PROVE Filed(d)'
  <2>1. PICK i \in 1..n : approvals[i] = d
    BY <1>4 DEF Filed, n
  <2>2. i \in 1..Len(approvals') /\ approvals'[i] = d
    BY <1>1, <2>1
  <2> QED BY <2>2 DEF Filed
<1>5. Kept'
  BY <1>4 DEF LogInv, Kept
<1>6. GatesBefore' /\ OneApproval'
  BY DEF LogInv, GatesBefore, OneApproval
<1> QED BY <1>3, <1>5, <1>6 DEF LogInv

LEMMA ApprovalsRestored ==
    ASSUME TypeOK, LogInv, approvals' = Committed(events), events' = events
    PROVE  LogInv' /\ approvals' \in Seq(Ledger!Approvals)
<1>1. events \in Seq(Ledger!Changes)
  BY DEF TypeOK
<1>2. ASSUME NEW i \in 1..Len(events), NEW j \in 1..Len(events),
             events[i].type = "approve", events[i] = events[j]
      PROVE  i = j
  <2>1. events[i] \in Ledger!Approvals
    <3>1. events[i] \in Ledger!Changes
      BY <1>1
    <3> QED BY <1>2, <3>1, ChangeFacts
  <2> QED BY <1>2, <2>1 DEF LogInv, OneApproval, Ledger!OneApproval
<1>3. NoTwice' /\ approvals' \in Seq(Ledger!Approvals)
  BY <1>1, <1>2, CommittedFacts DEF NoTwice
<1>4. Kept'
  BY <1>1, CommittedFacts DEF Kept, Filed
<1>5. GatesBefore' /\ OneApproval'
  BY DEF LogInv, GatesBefore, OneApproval
<1> QED BY <1>3, <1>4, <1>5 DEF LogInv

-----------------------------------------------------------------------------
(* Heads, tails and types of lists of up to six writes.                    *)

LEMMA PartsOfOne ==
    ASSUME NEW a
    PROVE  Head(<<a>>) = a /\ Tail(<<a>>) = <<>>
OBVIOUS

LEMMA PartsOfTwo ==
    ASSUME NEW a, NEW b
    PROVE  Head(<<a, b>>) = a /\ Tail(<<a, b>>) = <<b>>
OBVIOUS

LEMMA PartsOfThree ==
    ASSUME NEW a, NEW b, NEW c
    PROVE  Head(<<a, b, c>>) = a /\ Tail(<<a, b, c>>) = <<b, c>>
OBVIOUS

LEMMA PartsOfFour ==
    ASSUME NEW a, NEW b, NEW c, NEW d
    PROVE  Head(<<a, b, c, d>>) = a /\ Tail(<<a, b, c, d>>) = <<b, c, d>>
OBVIOUS

LEMMA PartsOfFive ==
    ASSUME NEW a, NEW b, NEW c, NEW d, NEW e
    PROVE  Head(<<a, b, c, d, e>>) = a /\ Tail(<<a, b, c, d, e>>) = <<b, c, d, e>>
OBVIOUS

LEMMA PartsOfSix ==
    ASSUME NEW a, NEW b, NEW c, NEW d, NEW e, NEW f
    PROVE  Head(<<a, b, c, d, e, f>>) = a /\ Tail(<<a, b, c, d, e, f>>) = <<b, c, d, e, f>>
OBVIOUS

LEMMA SeqOne ==
    ASSUME NEW S, NEW a \in S
    PROVE  <<a>> \in Seq(S)
OBVIOUS

LEMMA SeqTwo ==
    ASSUME NEW S, NEW a \in S, NEW b \in S
    PROVE  <<a, b>> \in Seq(S)
OBVIOUS

LEMMA SeqThree ==
    ASSUME NEW S, NEW a \in S, NEW b \in S, NEW c \in S
    PROVE  <<a, b, c>> \in Seq(S)
OBVIOUS

LEMMA SeqFour ==
    ASSUME NEW S, NEW a \in S, NEW b \in S, NEW c \in S, NEW d \in S
    PROVE  <<a, b, c, d>> \in Seq(S)
OBVIOUS

LEMMA SeqFive ==
    ASSUME NEW S, NEW a \in S, NEW b \in S, NEW c \in S, NEW d \in S, NEW e \in S
    PROVE  <<a, b, c, d, e>> \in Seq(S)
OBVIOUS

LEMMA SeqSix ==
    ASSUME NEW S, NEW a \in S, NEW b \in S, NEW c \in S, NEW d \in S, NEW e \in S, NEW f \in S
    PROVE  <<a, b, c, d, e, f>> \in Seq(S)
OBVIOUS

-----------------------------------------------------------------------------
(* What the lock holder writes next, by the kind of its next write.        *)

LEMMA WriteParts ==
    ASSUME NEW f, NEW c
    PROVE  Write(f, c).file = f /\ Write(f, c).change = c
BY DEF Write

LEMMA ListParts ==
    ASSUME NEW c
    PROVE  /\ \A t \in ApprovalLists(c) : Head(t) = ApprovalOf(c) /\ Tail(t) \in EventLists(c)
           /\ \A t \in EventLists(c) : Head(t) = EventOf(c) /\ Tail(t) \in StateLists(c)
           /\ \A t \in StateLists(c) :
                Head(t) = StateOf(c) /\ (Tail(t) = <<>> \/ Tail(t) \in EventLists(Note))
<1> DEFINE p == ApprovalOf(c)  e == EventOf(c)     s == StateOf(c)
           x == EventOf(Note)  y == StateOf(Note)
<1>1. /\ ApprovalLists(c) = {<<p, e, s>>, <<p, e, s, x, y>>}
      /\ EventLists(c) = {<<e, s>>, <<e, s, x, y>>}
      /\ StateLists(c) = {<<s>>, <<s, x, y>>}
      /\ EventLists(Note) = {<<x, y>>, <<x, y, x, y>>}
  BY Zenon DEF ApprovalLists, EventLists, StateLists
<1> HIDE DEF p, e, s, x, y
<1>2. /\ Head(<<p, e, s>>) = p /\ Tail(<<p, e, s>>) = <<e, s>>
      /\ Head(<<p, e, s, x, y>>) = p /\ Tail(<<p, e, s, x, y>>) = <<e, s, x, y>>
  BY PartsOfThree, PartsOfFive
<1>3. /\ Head(<<e, s>>) = e /\ Tail(<<e, s>>) = <<s>>
      /\ Head(<<e, s, x, y>>) = e /\ Tail(<<e, s, x, y>>) = <<s, x, y>>
  BY PartsOfTwo, PartsOfFour
<1>4. /\ Head(<<s>>) = s /\ Tail(<<s>>) = <<>>
      /\ Head(<<s, x, y>>) = s /\ Tail(<<s, x, y>>) = <<x, y>>
  BY PartsOfOne, PartsOfThree
<1>5. \A t \in ApprovalLists(c) : Head(t) = p /\ Tail(t) \in EventLists(c)
  BY <1>1, <1>2, Zenon
<1>6. \A t \in EventLists(c) : Head(t) = e /\ Tail(t) \in StateLists(c)
  BY <1>1, <1>3, Zenon
<1>7. \A t \in StateLists(c) : Head(t) = s /\ (Tail(t) = <<>> \/ Tail(t) \in EventLists(Note))
  BY <1>1, <1>4, Zenon
<1> QED BY <1>5, <1>6, <1>7, Zenon DEF p, e, s

LEMMA RecoveryParts ==
    /\ Head(AllEventsList) = Write("all events", Note)
    /\ Tail(AllEventsList) = AllApprovalsList
    /\ Head(AllApprovalsList) = Write("all approvals", Note)
    /\ Tail(AllApprovalsList) = AllStateList
    /\ Head(AllStateList) = Write("all state", Note)
    /\ Tail(AllStateList) = AuditList
    /\ Head(AuditList) = Write("audit", Note)
    /\ Tail(AuditList) \in EventLists(Note)
<1> DEFINE p == Write("all events", Note)   q == Write("all approvals", Note)
           r == Write("all state", Note)    u == Write("audit", Note)
           x == EventOf(Note)               y == StateOf(Note)
<1>1. /\ AllEventsList = <<p, q, r, u, x, y>> /\ AllApprovalsList = <<q, r, u, x, y>>
      /\ AllStateList = <<r, u, x, y>> /\ AuditList = <<u, x, y>>
      /\ EventLists(Note) = {<<x, y>>, <<x, y, x, y>>}
  BY Zenon DEF AllEventsList, AllApprovalsList, AllStateList, AuditList, EventLists
<1> HIDE DEF p, q, r, u, x, y
<1>2. Head(<<p, q, r, u, x, y>>) = p /\ Tail(<<p, q, r, u, x, y>>) = <<q, r, u, x, y>>
  BY PartsOfSix
<1>3. Head(<<q, r, u, x, y>>) = q /\ Tail(<<q, r, u, x, y>>) = <<r, u, x, y>>
  BY PartsOfFive
<1>4. Head(<<r, u, x, y>>) = r /\ Tail(<<r, u, x, y>>) = <<u, x, y>>
  BY PartsOfFour
<1>5. Head(<<u, x, y>>) = u /\ Tail(<<u, x, y>>) = <<x, y>>
  BY PartsOfThree
<1>6. /\ Head(AllEventsList) = p /\ Tail(AllEventsList) = AllApprovalsList
      /\ Head(AllApprovalsList) = q /\ Tail(AllApprovalsList) = AllStateList
  BY <1>1, <1>2, <1>3, Zenon
<1>7. /\ Head(AllStateList) = r /\ Tail(AllStateList) = AuditList
      /\ Head(AuditList) = u /\ Tail(AuditList) \in EventLists(Note)
  BY <1>1, <1>4, <1>5, Zenon
<1> QED BY <1>6, <1>7, Zenon DEF p, q, r, u

(* The lists do not depend on the state.                                   *)
LEMMA ListsAreConstant ==
    ASSUME NEW c
    PROVE  /\ EventDue(c)' <=> todo' \in EventLists(c)
           /\ StateDue(c)' <=> todo' \in StateLists(c)
           /\ ApprovalDue(c)' <=> todo' \in ApprovalLists(c)
           /\ AuditDue' <=> todo' = AuditList
           /\ AllStateDue' <=> todo' = AllStateList
           /\ AllApprovalsDue' <=> todo' = AllApprovalsList
           /\ AllEventsDue' <=> todo' = AllEventsList
BY Zenon DEF EventDue, StateDue, ApprovalDue, AuditDue, AllStateDue, AllApprovalsDue, AllEventsDue

LEMMA HeadsAndTails ==
    ASSUME NEW c
    PROVE  /\ ApprovalDue(c) => /\ Head(todo).file = "approvals" /\ This = c
                                /\ (todo' = Tail(todo) => EventDue(c)')
           /\ EventDue(c) => /\ Head(todo).file = "events" /\ This = c
                             /\ (todo' = Tail(todo) => StateDue(c)')
           /\ StateDue(c) => /\ Head(todo).file = "state" /\ This = c
                             /\ (todo' = Tail(todo) => todo' = <<>> \/ EventDue(Note)')
           /\ AllEventsDue => /\ Head(todo).file = "all events"
                              /\ (todo' = Tail(todo) => AllApprovalsDue')
           /\ AllApprovalsDue => /\ Head(todo).file = "all approvals"
                                 /\ (todo' = Tail(todo) => AllStateDue')
           /\ AllStateDue => /\ Head(todo).file = "all state"
                             /\ (todo' = Tail(todo) => AuditDue')
           /\ AuditDue => /\ Head(todo).file = "audit"
                          /\ (todo' = Tail(todo) => EventDue(Note)')
<1>1. ApprovalDue(c) => /\ Head(todo) = ApprovalOf(c)
                        /\ (todo' = Tail(todo) => EventDue(c)')
  BY ListParts, ListsAreConstant DEF ApprovalDue
<1>2. EventDue(c) => Head(todo) = EventOf(c) /\ (todo' = Tail(todo) => StateDue(c)')
  BY ListParts, ListsAreConstant DEF EventDue
<1>3. StateDue(c) => /\ Head(todo) = StateOf(c)
                     /\ (todo' = Tail(todo) => todo' = <<>> \/ EventDue(Note)')
  BY ListParts, ListsAreConstant DEF StateDue
<1>4. /\ AllEventsDue => /\ Head(todo) = Write("all events", Note)
                         /\ (todo' = Tail(todo) => AllApprovalsDue')
      /\ AllApprovalsDue => /\ Head(todo) = Write("all approvals", Note)
                            /\ (todo' = Tail(todo) => AllStateDue')
      /\ AllStateDue => /\ Head(todo) = Write("all state", Note)
                        /\ (todo' = Tail(todo) => AuditDue')
      /\ AuditDue => /\ Head(todo) = Write("audit", Note)
                     /\ (todo' = Tail(todo) => EventDue(Note)')
  BY RecoveryParts, ListsAreConstant DEF AuditDue, AllStateDue, AllApprovalsDue, AllEventsDue
<1>5. /\ ApprovalOf(c).file = "approvals" /\ ApprovalOf(c).change = c
      /\ EventOf(c).file = "events" /\ EventOf(c).change = c
      /\ StateOf(c).file = "state" /\ StateOf(c).change = c
  BY WriteParts DEF ApprovalOf, EventOf, StateOf
<1>6. /\ Write("all events", Note).file = "all events"
      /\ Write("all approvals", Note).file = "all approvals"
      /\ Write("all state", Note).file = "all state"
      /\ Write("audit", Note).file = "audit"
  BY WriteParts
<1> QED BY <1>1, <1>2, <1>3, <1>4, <1>5, <1>6, Zenon DEF This

LEMMA PhaseOfWrite ==
    ASSUME Phase, todo # <<>>
    PROVE  /\ Head(todo).file = "approvals" =>
                \E c \in Ledger!Approvals :
                   ApprovalDue(c) /\ Synced /\ c \in Ledger!Allowed(events) /\ ~Filed(c)
           /\ Head(todo).file = "events" =>
                \E c \in Ledger!Changes :
                   /\ EventDue(c) /\ Synced /\ c \in Ledger!Allowed(events)
                   /\ c.type = "approve" => Filed(c)
           /\ Head(todo).file = "state" =>
                \E c \in Ledger!Changes :
                   StateDue(c) /\ eventsTail = "ok" /\ events = Append(stateFile, c)
           /\ Head(todo).file = "all events" => AllEventsDue
           /\ Head(todo).file = "all approvals" => AllApprovalsDue /\ eventsTail = "ok"
           /\ Head(todo).file = "all state" => AllStateDue /\ Restored
           /\ Head(todo).file = "audit" => AuditDue /\ Restored /\ stateFile = events
BY HeadsAndTails, Zenon DEF Phase

-----------------------------------------------------------------------------
(* Every command that takes the lock.                                      *)

LEMMA InitEstablishes == Init => CommitInv
<1> SUFFICES ASSUME Init PROVE CommitInv
  OBVIOUS
<1>1. Note \in Ledger!Changes /\ Note.type = "note"
  BY DEF Note, Ledger!Note, Ledger!Changes, Ledger!Change
<1>2. /\ events = <<Note>> /\ stateFile = <<Note>> /\ events \in Seq(Ledger!Changes)
      /\ Len(events) = 1 /\ events[1] = Note /\ approvals = <<>> /\ Len(approvals) = 0
      /\ approvals \in Seq(Ledger!Approvals) /\ todo = <<>>
  BY <1>1 DEF Init
<1>3. TypeOK
  BY <1>2 DEF Init, TypeOK, Tails
<1>4. Phase /\ TailKnown /\ StateNearHead
  BY <1>2 DEF Init, Phase, TailKnown, StateNearHead
<1>5. GatesBefore /\ Kept /\ NoTwice
  BY <1>1, <1>2 DEF GatesBefore, Kept, NoTwice
<1>6. OneApproval
  BY <1>2 DEF OneApproval, Ledger!OneApproval
<1> QED BY <1>3, <1>4, <1>5, <1>6 DEF CommitInv, LogInv

(* A step that leaves the files alone and plans an allowed change.         *)
LEMMA FilesStay ==
    ASSUME CommitInv, UNCHANGED files
    PROVE  /\ TailKnown' /\ StateNearHead' /\ LogInv'
           /\ events' \in Seq(Ledger!Changes) /\ stateFile' \in Seq(Ledger!Changes)
           /\ approvals' \in Seq(Ledger!Approvals)
           /\ eventsTail' \in Tails /\ approvalsTail' \in Tails
           /\ \A c : Filed(c)' <=> Filed(c)
<1>1. events' = events /\ approvals' = approvals /\ stateFile' = stateFile
      /\ eventsTail' = eventsTail /\ approvalsTail' = approvalsTail
  BY DEF files
<1>2. LogInv'
  BY <1>1, LogStays DEF CommitInv
<1>3. TailKnown' /\ StateNearHead'
  BY <1>1 DEF CommitInv, TailKnown, StateNearHead
<1>4. \A c : Filed(c)' <=> Filed(c)
  BY <1>1 DEF Filed
<1> QED BY <1>1, <1>2, <1>3, <1>4 DEF CommitInv, TypeOK

LEMMA WriteLists ==
    ASSUME NEW c \in Ledger!Changes
    PROVE  /\ EventLists(c) \subseteq Seq(Writes) /\ StateLists(c) \subseteq Seq(Writes)
           /\ ApprovalLists(c) \subseteq Seq(Writes) /\ AllEventsList \in Seq(Writes)
<1>1. /\ EventOf(c) \in Writes /\ StateOf(c) \in Writes /\ ApprovalOf(c) \in Writes
      /\ EventOf(Note) \in Writes /\ StateOf(Note) \in Writes
      /\ Write("all events", Note) \in Writes /\ Write("all approvals", Note) \in Writes
      /\ Write("all state", Note) \in Writes /\ Write("audit", Note) \in Writes
  BY NoteIsAChange DEF EventOf, StateOf, ApprovalOf, Write, Writes
<1>2. /\ EventLists(c) \subseteq Seq(Writes) /\ StateLists(c) \subseteq Seq(Writes)
      /\ ApprovalLists(c) \subseteq Seq(Writes)
  <2> DEFINE p == ApprovalOf(c)  e == EventOf(c)     s == StateOf(c)
             x == EventOf(Note)  y == StateOf(Note)
  <2>1. /\ ApprovalLists(c) = {<<p, e, s>>, <<p, e, s, x, y>>}
        /\ EventLists(c) = {<<e, s>>, <<e, s, x, y>>}
        /\ StateLists(c) = {<<s>>, <<s, x, y>>}
    BY Zenon DEF ApprovalLists, EventLists, StateLists
  <2>2. p \in Writes /\ e \in Writes /\ s \in Writes /\ x \in Writes /\ y \in Writes
    BY <1>1
  <2> HIDE DEF p, e, s, x, y
  <2>3. <<s>> \in Seq(Writes) /\ <<e, s>> \in Seq(Writes)
    BY <2>2, SeqOne, SeqTwo, Zenon
  <2>4. <<p, e, s>> \in Seq(Writes) /\ <<s, x, y>> \in Seq(Writes)
    BY <2>2, SeqThree, Zenon
  <2>5. <<e, s, x, y>> \in Seq(Writes) /\ <<p, e, s, x, y>> \in Seq(Writes)
    BY <2>2, SeqFour, SeqFive, Zenon
  <2> QED BY <2>1, <2>3, <2>4, <2>5, Zenon
<1>3. AllEventsList \in Seq(Writes)
  BY <1>1, SeqSix, Zenon DEF AllEventsList
<1> QED BY <1>2, <1>3

-----------------------------------------------------------------------------
(* A step preserves the invariant: the commands that begin.                *)

(* A state file that is the head of a readable log is one of a log that    *)
(* ends with a whole line: the log can be appended to.                     *)
LEMMA HealthyIsSynced == CommitInv /\ Healthy => Synced
BY DEF CommitInv, TypeOK, TailKnown, Healthy, Readable, Synced, Tails

LEMMA BeginEditKeeps ==
    ASSUME CommitInv, BeginEdit
    PROVE  CommitInv'
<1>1. PICK c \in Edits : todo' \in {Commit(c), Commit(c) \o Commit(Note)}
  BY DEF BeginEdit
<1>2. UNCHANGED files /\ UNCHANGED crashes /\ Synced
  BY HealthyIsSynced DEF BeginEdit
<1>3. c \in Ledger!Changes /\ c.type # "approve" /\ c \in Ledger!Allowed(events)
  BY EditsAllowed
<1>4. todo' \in EventLists(c)
  BY <1>1, <1>3, WritesAre, Zenon DEF EventLists
<1>5. EventDue(c)' /\ todo' \in Seq(Writes)
  BY <1>3, <1>4, ListsAreConstant, WriteLists, Zenon
<1>6. Synced' /\ c \in Ledger!Allowed(events)'
  BY <1>2, <1>3 DEF Synced, files
<1>7. Phase'
  BY <1>3, <1>5, <1>6, Zenon DEF Phase
<1>8. TypeOK'
  BY <1>2, <1>5, FilesStay DEF CommitInv, TypeOK, Writes
<1> QED BY <1>2, <1>7, <1>8, FilesStay DEF CommitInv

(* The key of an approval that passes its checks is used by no event.      *)
LEMMA ApprovalAllowed ==
    ASSUME CommitInv, Healthy, NEW k \in Keys, NEW g \in 1..Len(stateFile), CanApprove(k, g)
    PROVE  Ledger!Approve(k, g) \in Ledger!Allowed(events) \cap Ledger!Approvals
<1> DEFINE c == Ledger!Approve(k, g)
<1>1. stateFile = events /\ events \in Seq(Ledger!Changes)
  BY HealthyIsSynced DEF Synced, CommitInv, TypeOK
<1>2. c.type = "approve" /\ c.key = k /\ c.gate = g
      /\ c \in [type : {"approve"}, key : Keys, gate : 1..Len(events)]
      /\ c \in Ledger!Approvals
  BY <1>1 DEF Ledger!Approve, Ledger!Change, Ledger!Approvals
<1>3. Ledger!Pending(events, g)
  BY <1>1 DEF CanApprove
<1>4. ASSUME Ledger!Used(events, k) PROVE FALSE
  <2>1. PICK i \in 1..Len(events) : events[i].type = "approve" /\ events[i].key = k
    BY <1>4 DEF Ledger!Used
  <2>2. PICK j \in 1..Len(approvals) : approvals[j] = events[i]
    BY <2>1 DEF CommitInv, LogInv, Kept, Filed
  <2>3. approvals[j] \in Existing(k)
    BY <2>1, <2>2 DEF Existing
  <2>4. ~Recorded(approvals[j])
    BY <2>3 DEF CanApprove
  <2> QED BY <2>2, <2>4 DEF Recorded
<1> HIDE DEF c
<1>5. c \in Ledger!Allowed(events)
  BY <1>2, <1>3, <1>4 DEF Ledger!Allowed
<1> QED BY <1>2, <1>5 DEF c

LEMMA BeginApproveKeeps ==
    ASSUME CommitInv, NEW k \in Keys, NEW g \in 1..Len(stateFile), BeginApprove(k, g)
    PROVE  CommitInv'
<1> DEFINE c == Ledger!Approve(k, g)
<1>1. c \in Ledger!Allowed(events) /\ c \in Ledger!Approvals /\ c \in Ledger!Changes
  BY ApprovalAllowed DEF BeginApprove, Ledger!Changes
<1>2. /\ UNCHANGED files /\ UNCHANGED crashes /\ Synced
      /\ todo' \in {ApprovalWrites(c), ApprovalWrites(c) \o Commit(Note)}
  BY HealthyIsSynced DEF BeginApprove
<1> HIDE DEF c
<1>3. Synced' /\ c \in Ledger!Allowed(events)' /\ (Filed(c)' <=> Filed(c))
  BY <1>1, <1>2 DEF Synced, Filed, files
<1>4. Phase' /\ todo' \in Seq(Writes)
  <2>1. CASE Filed(c)
    <3>1. todo' \in EventLists(c)
      BY <1>1, <1>2, <2>1, WritesAre, ApprovalWritesAre, Zenon DEF EventLists
    <3>2. EventDue(c)' /\ todo' \in Seq(Writes)
      BY <1>1, <3>1, ListsAreConstant, WriteLists, Zenon
    <3> QED BY <1>1, <1>3, <2>1, <3>2, Zenon DEF Phase
  <2>2. CASE ~Filed(c)
    <3>1. todo' \in ApprovalLists(c)
      BY <1>1, <1>2, <2>2, ApprovalWritesAre, Zenon DEF ApprovalLists
    <3>2. ApprovalDue(c)' /\ todo' \in Seq(Writes)
      BY <1>1, <3>1, ListsAreConstant, WriteLists, Zenon
    <3> QED BY <1>1, <1>3, <2>2, <3>2, Zenon DEF Phase
  <2> QED BY <2>1, <2>2
<1>5. TypeOK'
  BY <1>2, <1>4, FilesStay DEF CommitInv, TypeOK, Writes
<1> QED BY <1>2, <1>4, <1>5, FilesStay DEF CommitInv

LEMMA BeginRecoverKeeps ==
    ASSUME CommitInv, BeginRecover
    PROVE  CommitInv'
<1>1. UNCHANGED files /\ UNCHANGED crashes /\ todo' = RecoverWrites \o Commit(Note)
  BY DEF BeginRecover
<1>2. todo' = AllEventsList
  BY <1>1, NoteIsAChange, WritesAre, Zenon DEF AllEventsList
<1>3. AllEventsDue' /\ todo' \in Seq(Writes)
  BY <1>2, NoteIsAChange, ListsAreConstant, WriteLists, Zenon
<1>4. Phase'
  BY <1>3, Zenon DEF Phase
<1>5. TypeOK'
  BY <1>1, <1>3, FilesStay DEF CommitInv, TypeOK, Writes
<1> QED BY <1>1, <1>4, <1>5, FilesStay DEF CommitInv

-----------------------------------------------------------------------------
(* The writes of the lock holder.                                          *)

LEMMA TailTyped ==
    ASSUME TypeOK, todo # <<>>
    PROVE  Tail(todo) \in Seq(Writes)
<1>1. todo \in Seq(Writes)
  BY DEF TypeOK, Writes
<1> QED BY <1>1, HeadTailProperties

LEMMA AppendApprovalKeeps ==
    ASSUME CommitInv, AppendApproval
    PROVE  CommitInv'
<1>1. /\ todo # <<>> /\ Head(todo).file = "approvals" /\ todo' = Tail(todo)
      /\ crashes' = crashes /\ approvals' = Append(approvals, This)
      /\ approvalsTail' = AfterAppend(approvalsTail)
      /\ events' = events /\ eventsTail' = eventsTail /\ stateFile' = stateFile
  BY DEF AppendApproval, Writing, Done
<1>2. PICK c \in Ledger!Approvals :
         ApprovalDue(c) /\ Synced /\ c \in Ledger!Allowed(events) /\ ~Filed(c)
  BY <1>1, PhaseOfWrite DEF CommitInv
<1>3. This = c /\ EventDue(c)' /\ c \in Ledger!Changes
  BY <1>1, <1>2, HeadsAndTails DEF Ledger!Changes
<1>4. LogInv'
  BY <1>1, <1>2, <1>3, ApprovalIsFiled DEF CommitInv
<1>5. /\ approvals' \in Seq(Ledger!Approvals)
      /\ Len(approvals') = Len(approvals) + 1 /\ Len(approvals) \in Nat
      /\ approvals'[Len(approvals) + 1] = c
  BY <1>1, <1>3, AppendFacts DEF CommitInv, TypeOK
<1>6. Filed(c)'
  BY <1>5 DEF Filed
<1>7. Phase'
  <2>1. Synced' /\ c \in Ledger!Allowed(events)'
    BY <1>1, <1>2 DEF Synced
  <2> QED BY <1>3, <1>6, <2>1, Zenon DEF Phase
<1>8. TypeOK'
  BY <1>1, <1>5, TailTyped DEF CommitInv, TypeOK, AfterAppend, Tails, Writes
<1>9. TailKnown' /\ StateNearHead'
  BY <1>1 DEF CommitInv, TailKnown, StateNearHead
<1> QED BY <1>4, <1>7, <1>8, <1>9 DEF CommitInv

LEMMA AppendEventKeeps ==
    ASSUME CommitInv, AppendEvent
    PROVE  CommitInv'
<1>1. /\ todo # <<>> /\ Head(todo).file = "events" /\ todo' = Tail(todo)
      /\ crashes' = crashes /\ events' = Append(events, This)
      /\ eventsTail' = AfterAppend(eventsTail)
      /\ approvals' = approvals /\ approvalsTail' = approvalsTail /\ stateFile' = stateFile
  BY DEF AppendEvent, Writing, Done
<1>2. PICK c \in Ledger!Changes :
         /\ EventDue(c) /\ Synced /\ c \in Ledger!Allowed(events)
         /\ c.type = "approve" => Filed(c)
  BY <1>1, PhaseOfWrite DEF CommitInv
<1>3. This = c /\ StateDue(c)'
  BY <1>1, <1>2, HeadsAndTails
<1>4. LogInv'
  BY <1>1, <1>2, <1>3, LogGrows DEF CommitInv
<1>5. /\ events' \in Seq(Ledger!Changes) /\ Len(events') = Len(events) + 1
      /\ events = SubSeq(events', 1, Len(events))
  BY <1>1, <1>3, AppendFacts DEF CommitInv, TypeOK
<1>6. eventsTail' = "ok" /\ stateFile' = events
  BY <1>1, <1>2 DEF Synced, AfterAppend
<1>7. Phase'
  <2>1. events' = Append(stateFile', c)
    BY <1>1, <1>3, <1>6
  <2> QED BY <1>3, <1>6, <2>1, Zenon DEF Phase
<1>8. TypeOK'
  BY <1>1, <1>5, <1>6, TailTyped DEF CommitInv, TypeOK, Tails, Writes
<1>9. TailKnown' /\ StateNearHead'
  BY <1>5, <1>6 DEF TailKnown, StateNearHead
<1> QED BY <1>4, <1>7, <1>8, <1>9 DEF CommitInv

LEMMA ReplaceStateKeeps ==
    ASSUME CommitInv, ReplaceState
    PROVE  CommitInv'
<1>1. /\ todo # <<>> /\ Head(todo).file = "state" /\ todo' = Tail(todo)
      /\ crashes' = crashes /\ stateFile' = Append(stateFile, This)
      /\ events' = events /\ eventsTail' = eventsTail
      /\ approvals' = approvals /\ approvalsTail' = approvalsTail
  BY DEF ReplaceState, Writing, Done
<1>2. PICK c \in Ledger!Changes :
         StateDue(c) /\ eventsTail = "ok" /\ events = Append(stateFile, c)
  BY <1>1, PhaseOfWrite DEF CommitInv
<1>3. This = c /\ (todo' = <<>> \/ EventDue(Note)')
  BY <1>1, <1>2, HeadsAndTails
<1>4. eventsTail' = "ok" /\ stateFile' = events' /\ stateFile' = events
  BY <1>1, <1>2, <1>3
<1>5. Phase'
  <2>1. Synced' /\ Note \in Ledger!Allowed(events)' /\ Note \in Ledger!Changes
        /\ Note.type # "approve"
    BY <1>4, NoteIsAnEdit, EditsAllowed DEF Synced
  <2> QED BY <1>3, <2>1, Zenon DEF Phase
<1>6. TypeOK'
  BY <1>1, <1>4, TailTyped DEF CommitInv, TypeOK, Writes
<1>7. TailKnown' /\ StateNearHead'
  BY <1>4 DEF TailKnown, StateNearHead
<1> QED BY <1>1, <1>5, <1>6, <1>7, LogStays DEF CommitInv

LEMMA RewriteEventsKeeps ==
    ASSUME CommitInv, RewriteEvents
    PROVE  CommitInv'
<1>1. /\ todo # <<>> /\ Head(todo).file = "all events" /\ todo' = Tail(todo)
      /\ crashes' = crashes /\ eventsTail' = "ok" /\ events' = events
      /\ approvals' = approvals /\ approvalsTail' = approvalsTail /\ stateFile' = stateFile
  BY DEF RewriteEvents, Writing, Done
<1>2. AllApprovalsDue'
  BY <1>1, PhaseOfWrite, HeadsAndTails DEF CommitInv
<1>3. Phase'
  BY <1>1, <1>2, Zenon DEF Phase
<1>4. TypeOK'
  BY <1>1, TailTyped DEF CommitInv, TypeOK, Tails, Writes
<1>5. TailKnown' /\ StateNearHead'
  BY <1>1 DEF CommitInv, TailKnown, StateNearHead
<1> QED BY <1>1, <1>3, <1>4, <1>5, LogStays DEF CommitInv

LEMMA RewriteApprovalsKeeps ==
    ASSUME CommitInv, RewriteApprovals
    PROVE  CommitInv'
<1>1. /\ todo # <<>> /\ Head(todo).file = "all approvals" /\ todo' = Tail(todo)
      /\ crashes' = crashes /\ eventsTail' = eventsTail /\ events' = events
      /\ approvals' = Committed(events) /\ approvalsTail' = "ok" /\ stateFile' = stateFile
  BY DEF RewriteApprovals, Writing, Done
<1>2. AllStateDue' /\ eventsTail = "ok"
  BY <1>1, PhaseOfWrite, HeadsAndTails DEF CommitInv
<1>3. Restored'
  BY <1>1, <1>2 DEF Restored
<1>4. Phase'
  BY <1>2, <1>3, Zenon DEF Phase
<1>5. LogInv' /\ approvals' \in Seq(Ledger!Approvals)
  BY <1>1, ApprovalsRestored DEF CommitInv
<1>6. TypeOK'
  BY <1>1, <1>5, TailTyped DEF CommitInv, TypeOK, Tails, Writes
<1>7. TailKnown' /\ StateNearHead'
  BY <1>1 DEF CommitInv, TailKnown, StateNearHead
<1> QED BY <1>4, <1>5, <1>6, <1>7 DEF CommitInv

LEMMA RewriteStateKeeps ==
    ASSUME CommitInv, RewriteState
    PROVE  CommitInv'
<1>1. /\ todo # <<>> /\ Head(todo).file = "all state" /\ todo' = Tail(todo)
      /\ crashes' = crashes /\ eventsTail' = eventsTail /\ events' = events
      /\ approvals' = approvals /\ approvalsTail' = approvalsTail /\ stateFile' = events
  BY DEF RewriteState, Writing, Done
<1>2. AuditDue' /\ Restored
  BY <1>1, PhaseOfWrite, HeadsAndTails DEF CommitInv
<1>3. Restored' /\ stateFile' = events'
  BY <1>1, <1>2 DEF Restored
<1>4. Phase'
  BY <1>2, <1>3, Zenon DEF Phase
<1>5. TypeOK'
  BY <1>1, TailTyped DEF CommitInv, TypeOK, Writes
<1>6. TailKnown' /\ StateNearHead'
  BY <1>3 DEF TailKnown, StateNearHead, Restored
<1> QED BY <1>1, <1>4, <1>5, <1>6, LogStays DEF CommitInv

LEMMA AuditKeeps ==
    ASSUME CommitInv, Audit
    PROVE  CommitInv'
<1>1. /\ todo # <<>> /\ Head(todo).file = "audit" /\ todo' \in {Tail(todo), <<>>}
      /\ crashes' = crashes /\ UNCHANGED files
  BY DEF Audit, Writing
<1>2. /\ Restored /\ stateFile = events
      /\ todo' = <<>> \/ EventDue(Note)'
  BY <1>1, PhaseOfWrite, HeadsAndTails DEF CommitInv
<1>3. Phase'
  <2>1. Synced' /\ Note \in Ledger!Allowed(events)' /\ Note \in Ledger!Changes
        /\ Note.type # "approve"
    BY <1>1, <1>2, NoteIsAnEdit, EditsAllowed DEF Synced, Restored, files
  <2> QED BY <1>2, <2>1, Zenon DEF Phase
<1>4. todo' \in Seq(Writes)
  <2>1. Tail(todo) \in Seq(Writes)
    BY <1>1, TailTyped DEF CommitInv
  <2>2. CASE todo' = <<>>
    BY <2>2
  <2> QED BY <1>1, <2>1, <2>2
<1>5. TypeOK'
  BY <1>1, <1>4, FilesStay DEF CommitInv, TypeOK, Writes
<1> QED BY <1>1, <1>3, <1>5, FilesStay DEF CommitInv

-----------------------------------------------------------------------------
(* The lock holder dies.                                                   *)

LEMMA DiesLeaves ==
    ASSUME CommitInv, Dies
    PROVE  Phase' /\ todo' \in Seq(Writes) /\ crashes' \in Nat
<1>1. todo' = <<>> /\ crashes' = crashes + 1
  BY DEF Dies
<1>2. todo' \in Seq(Writes)
  BY <1>1
<1>3. crashes' \in Nat
  <2>1. crashes \in Nat
    BY Zenon DEF CommitInv, TypeOK
  <2> QED BY <1>1, <2>1
<1>4. Phase'
  BY <1>1, Zenon DEF Phase
<1> QED BY <1>2, <1>3, <1>4

LEMMA CrashBetweenKeeps ==
    ASSUME CommitInv, CrashBetween
    PROVE  CommitInv'
<1>1. UNCHANGED files /\ Phase' /\ todo' \in Seq(Writes) /\ crashes' \in Nat
  BY DiesLeaves DEF CrashBetween
<1>2. TypeOK'
  BY <1>1, FilesStay DEF TypeOK, Writes
<1> QED BY <1>1, <1>2, FilesStay DEF CommitInv

LEMMA CrashInApprovalKeeps ==
    ASSUME CommitInv, CrashInApproval
    PROVE  CommitInv'
<1>1. /\ Phase' /\ todo' \in Seq(Writes) /\ crashes' \in Nat
      /\ todo # <<>> /\ Head(todo).file = "approvals"
      /\ events' = events /\ eventsTail' = eventsTail /\ stateFile' = stateFile
      /\ approvalsTail' \in {AfterTorn(approvalsTail, "nonewline"),
                             AfterTorn(approvalsTail, "partial")}
      /\ approvals' = approvals \/ approvals' = Append(approvals, This)
  BY DiesLeaves DEF CrashInApproval, Writing
<1>2. PICK c \in Ledger!Approvals :
         ApprovalDue(c) /\ Synced /\ c \in Ledger!Allowed(events) /\ ~Filed(c)
  BY <1>1, PhaseOfWrite DEF CommitInv
<1>3. This = c
  BY <1>2, HeadsAndTails
<1>4. LogInv' /\ approvals' \in Seq(Ledger!Approvals)
  <2>1. CASE approvals' = approvals
    BY <1>1, <2>1, LogStays DEF CommitInv, TypeOK
  <2>2. CASE approvals' = Append(approvals, This)
    BY <1>1, <1>2, <1>3, <2>2, ApprovalIsFiled, AppendFacts DEF CommitInv, TypeOK
  <2> QED BY <1>1, <2>1, <2>2
<1>5. approvalsTail' \in Tails
  BY <1>1 DEF AfterTorn, Tails
<1>6. TypeOK'
  BY <1>1, <1>4, <1>5 DEF CommitInv, TypeOK, Writes
<1>7. TailKnown' /\ StateNearHead'
  BY <1>1 DEF CommitInv, TailKnown, StateNearHead
<1> QED BY <1>1, <1>4, <1>6, <1>7 DEF CommitInv

LEMMA CrashInEventKeeps ==
    ASSUME CommitInv, CrashInEvent
    PROVE  CommitInv'
<1>1. /\ Phase' /\ todo' \in Seq(Writes) /\ crashes' \in Nat
      /\ todo # <<>> /\ Head(todo).file = "events"
      /\ approvals' = approvals /\ approvalsTail' = approvalsTail /\ stateFile' = stateFile
      /\ \/ events' = Append(events, This) /\ eventsTail' = AfterTorn(eventsTail, "nonewline")
         \/ events' = events /\ eventsTail' = AfterTorn(eventsTail, "partial")
  BY DiesLeaves DEF CrashInEvent, Writing
<1>2. PICK c \in Ledger!Changes :
         /\ EventDue(c) /\ Synced /\ c \in Ledger!Allowed(events)
         /\ c.type = "approve" => Filed(c)
  BY <1>1, PhaseOfWrite DEF CommitInv
<1>3. This = c /\ stateFile' = events
  BY <1>1, <1>2, HeadsAndTails DEF Synced
<1>4. CASE events' = Append(events, This) /\ eventsTail' = AfterTorn(eventsTail, "nonewline")
  <2>1. eventsTail' = "nonewline"
    BY <1>2, <1>4 DEF Synced, AfterTorn
  <2>2. /\ events' \in Seq(Ledger!Changes) /\ Len(events') = Len(events) + 1
        /\ events = SubSeq(events', 1, Len(events)) /\ events' # events
    BY <1>3, <1>4, AppendFacts DEF CommitInv, TypeOK
  <2>3. LogInv'
    BY <1>1, <1>2, <1>3, <1>4, LogGrows DEF CommitInv
  <2>4. TypeOK'
    BY <1>1, <2>1, <2>2 DEF CommitInv, TypeOK, Tails, Writes
  <2>5. TailKnown' /\ StateNearHead'
    BY <1>3, <2>1, <2>2 DEF TailKnown, StateNearHead
  <2> QED BY <1>1, <2>3, <2>4, <2>5 DEF CommitInv
<1>5. CASE events' = events /\ eventsTail' = AfterTorn(eventsTail, "partial")
  <2>1. eventsTail' = "partial"
    BY <1>2, <1>5 DEF Synced, AfterTorn
  <2>2. TypeOK'
    BY <1>1, <1>5, <2>1 DEF CommitInv, TypeOK, Tails, Writes
  <2>3. TailKnown' /\ StateNearHead'
    BY <1>3, <1>5, <2>1 DEF TailKnown, StateNearHead
  <2> QED BY <1>1, <1>5, <2>2, <2>3, LogStays DEF CommitInv
<1> QED BY <1>1, <1>4, <1>5

-----------------------------------------------------------------------------
(* The theorems.                                                           *)

LEMMA StutterKeeps ==
    ASSUME CommitInv, UNCHANGED vars
    PROVE  CommitInv'
<1>1. UNCHANGED files /\ todo' = todo /\ crashes' = crashes
  BY DEF vars
<1>2. Synced' = Synced /\ Restored' = Restored /\ (stateFile = events)' = (stateFile = events)
  BY <1>1 DEF Synced, Restored, files
<1>3. Phase'
  <2>1. \A c : /\ EventDue(c)' <=> EventDue(c)
               /\ StateDue(c)' <=> StateDue(c)
               /\ ApprovalDue(c)' <=> ApprovalDue(c)
               /\ Filed(c)' <=> Filed(c)
    BY <1>1, FilesStay, ListsAreConstant DEF EventDue, StateDue, ApprovalDue
  <2>2. /\ AllEventsDue' <=> AllEventsDue
        /\ AllApprovalsDue' <=> AllApprovalsDue
        /\ AllStateDue' <=> AllStateDue
        /\ AuditDue' <=> AuditDue
    BY <1>1, ListsAreConstant DEF AllEventsDue, AllApprovalsDue, AllStateDue, AuditDue
  <2>3. events' = events /\ stateFile' = stateFile /\ eventsTail' = eventsTail
    BY <1>1 DEF files
  <2>4. Phase
    BY DEF CommitInv
  <2> QED BY <1>1, <1>2, <2>1, <2>2, <2>3, <2>4, Zenon DEF Phase
<1>4. TypeOK'
  BY <1>1, FilesStay DEF CommitInv, TypeOK
<1> QED BY <1>1, <1>3, <1>4, FilesStay DEF CommitInv

LEMMA StepKeepsCommitInv ==
    ASSUME CommitInv, [Next]_vars
    PROVE  CommitInv'
<1>1. CASE BeginEdit
  BY <1>1, BeginEditKeeps
<1>2. CASE BeginRecover
  BY <1>2, BeginRecoverKeeps
<1>3. CASE Step
  BY <1>3, AppendApprovalKeeps, AppendEventKeeps, ReplaceStateKeeps, AuditKeeps,
     RewriteEventsKeeps, RewriteApprovalsKeeps, RewriteStateKeeps DEF Step
<1>4. CASE Crash
  BY <1>4, CrashBetweenKeeps, CrashInApprovalKeeps, CrashInEventKeeps DEF Crash
<1>5. ASSUME NEW k \in Keys, NEW g \in 1..Len(stateFile), BeginApprove(k, g)
      PROVE  CommitInv'
  BY <1>5, BeginApproveKeeps
<1>6. CASE UNCHANGED vars
  BY <1>6, StutterKeeps
<1> QED BY <1>1, <1>2, <1>3, <1>4, <1>5, <1>6 DEF Next

(* The inductive invariant: the files are as far apart as the writes that  *)
(* the holder of the run lock has still to make say they are.              *)
THEOREM FilesFollowTheWrites == Spec => []CommitInv
<1>1. CommitInv /\ [Next]_vars => CommitInv'
  BY StepKeepsCommitInv
<1> QED BY <1>1, InitEstablishes, PTL DEF Spec

(* Every variable holds a value of the kind its comment announces.         *)
THEOREM LogTypeCorrect == Spec => []TypeOK
<1>1. CommitInv => TypeOK
  BY DEF CommitInv
<1> QED BY <1>1, FilesFollowTheWrites, PTL

(* Wherever a command dies, no append ever follows an unfinished line, so  *)
(* the event log can be recovered.                                         *)
THEOREM TheLogStaysRecoverable == Spec => []EventsRecoverable
<1>1. CommitInv => EventsRecoverable
  BY DEF CommitInv, TailKnown, EventsRecoverable, Recoverable
<1> QED BY <1>1, FilesFollowTheWrites, PTL

(* The state file is the head of the log or one change behind it.          *)
THEOREM StateIsNearHead == Spec => []StateNearHead
<1>1. CommitInv => StateNearHead
  BY DEF CommitInv
<1> QED BY <1>1, FilesFollowTheWrites, PTL

(* A committed approval is in approvals.jsonl, exactly once, even while    *)
(* that file cannot be read and when recovery rebuilds it.                 *)
THEOREM CommittedApprovalsAreKept == Spec => []CommittedApprovalsKept
<1>1. CommitInv => CommittedApprovalsKept
  <2>1. SUFFICES ASSUME CommitInv, NEW i \in 1..Len(events), events[i].type = "approve"
                 PROVE  \E j \in 1..Len(approvals) :
                           \A n \in 1..Len(approvals) : approvals[n] = events[i] <=> n = j
    BY DEF CommittedApprovalsKept
  <2>2. PICK j \in 1..Len(approvals) : approvals[j] = events[i]
    BY <2>1 DEF CommitInv, LogInv, Kept, Filed
  <2>3. ASSUME NEW n \in 1..Len(approvals) PROVE approvals[n] = events[i] <=> n = j
    BY <2>1, <2>2 DEF CommitInv, LogInv, NoTwice
  <2> QED BY <2>2, <2>3
<1> QED BY <1>1, FilesFollowTheWrites, PTL

(* When recover audits its work the three files agree.                     *)
THEOREM RecoveryRestoresAgreement == Spec => []RecoverAgrees
<1>1. CommitInv => RecoverAgrees
  BY PhaseOfWrite DEF CommitInv, RecoverAgrees, Writing, Restored
<1> QED BY <1>1, FilesFollowTheWrites, PTL

(* No gate is answered twice and no key is used twice, across crashes,     *)
(* retries and recoveries.                                                 *)
THEOREM GatesAreAnsweredOnce == Spec => []OneApproval
<1>1. CommitInv => OneApproval
  BY DEF CommitInv, LogInv
<1> QED BY <1>1, FilesFollowTheWrites, PTL

(* A step of the files is a step of the ledger or leaves it alone: only a  *)
(* commit and a commit that dies touch the events, and what they append is *)
(* a change the ledger allows.                                             *)
LEMMA StepIsLedgerStep ==
    ASSUME CommitInv, [Next]_vars
    PROVE  [Ledger!Next]_events
<1>1. ASSUME Writing("events"), events' = Append(events, This)
      PROVE  Ledger!Next
  <2>1. PICK c \in Ledger!Changes : EventDue(c) /\ c \in Ledger!Allowed(events)
    BY <1>1, PhaseOfWrite DEF CommitInv, Writing
  <2>2. This = c
    BY <2>1, HeadsAndTails
  <2> QED BY <1>1, <2>1, <2>2 DEF Ledger!Next
<1>2. CASE AppendEvent
  BY <1>1, <1>2 DEF AppendEvent
<1>3. CASE CrashInEvent
  BY <1>1, <1>3 DEF CrashInEvent
<1>4. CASE BeginEdit \/ BeginRecover \/ \E k \in Keys : \E g \in 1..Len(stateFile) : BeginApprove(k, g)
  BY <1>4 DEF BeginEdit, BeginRecover, BeginApprove, files
<1>5. CASE AppendApproval \/ ReplaceState \/ Audit \/ RewriteEvents \/ RewriteApprovals \/ RewriteState
  BY <1>5 DEF AppendApproval, ReplaceState, Audit, RewriteEvents, RewriteApprovals,
              RewriteState, files
<1>6. CASE CrashBetween \/ CrashInApproval \/ UNCHANGED vars
  BY <1>6 DEF CrashBetween, CrashInApproval, vars, files
<1> QED BY <1>2, <1>3, <1>4, <1>5, <1>6 DEF Next, Step, Crash

(* The files of a run implement the ledger of approvals: the log grows by  *)
(* whole changes that are allowed, and no crash or recovery removes one.   *)
THEOREM FilesImplementTheLedger == Spec => LedgerSpec
<1>1. Init => Ledger!Init
  BY DEF Init, Ledger!Init, Note
<1>2. CommitInv /\ [Next]_vars => [Ledger!Next]_events
  BY StepIsLedgerStep
<1> QED BY <1>1, <1>2, FilesFollowTheWrites, PTL DEF Spec, LedgerSpec, Ledger!Spec
=============================================================================
