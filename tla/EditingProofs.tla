---------------------------- MODULE EditingProofs ----------------------------
(***************************************************************************)
(* Proofs about the two halves of an edit: OperationLog, how operations    *)
(* are numbered and stored, and Text, what they do to the document.        *)
(*                                                                         *)
(* OperationLog, for any number of documents and writers, any batch size   *)
(* and any bound of the identity column.  IInv is inductive: the row lock  *)
(* keeps what a transaction has read of its document current until it      *)
(* ends, so what it inserts stays above everything visible.                *)
(*                                                                         *)
(* Text, for any documents, texts to insert, answers and drift.  The       *)
(* inductive invariant says that an applied answer was computed from the   *)
(* document before it, each range where its text was found; that the       *)
(* result is that of simultaneous edits is a second induction, over the    *)
(* operations in the order of application.                                 *)
(***************************************************************************)
EXTENDS OperationLog, Text, TLAPS, WellFoundedInduction, SequenceTheorems,
        FiniteSetTheorems

-----------------------------------------------------------------------------
(* The operation log                                                        *)

LEMMA InitIInv == Init => IInv
  BY NoWriterAssumption
  DEF Init, IInv, TypeOK, LockHeld, SequencesDistinct, AboveCommitted,
      OutboxComplete, OpenTodo, LamportOrder, Statements, Operation, Locked

-----------------------------------------------------------------------------

LEMMA BeginIInv ==
  ASSUME IInv, NEW w \in Writers, NEW d \in Docs,
         NEW received \in Nat, NEW n \in Nat \ {0}, Begin(w, d, received, n)
  PROVE  IInv'
<1> USE DEF IInv, TypeOK, Begin
<1>1. TypeOK'
  BY DEF Statements
<1>2. LockHeld'
  BY DEF LockHeld, Locked
<1>3. SequencesDistinct'
  BY DEF SequencesDistinct
<1>4. AboveCommitted'
  BY DEF AboveCommitted
<1>5. OutboxComplete'
  BY DEF OutboxComplete
<1>6. OpenTodo'
  BY DEF OpenTodo
<1>7. LamportOrder'
  BY DEF LamportOrder
<1> QED BY <1>1, <1>2, <1>3, <1>4, <1>5, <1>6, <1>7

LEMMA AcquireIInv ==
  ASSUME IInv, NEW w \in Writers, AcquireDocumentWriteLock(w)
  PROVE  IInv'
<1> USE DEF IInv, TypeOK, AcquireDocumentWriteLock
<1>1. TypeOK'
  BY DEF Statements
<1>2. LockHeld'
  BY NoWriterAssumption DEF LockHeld, Locked
<1>3. SequencesDistinct'
  BY DEF SequencesDistinct
<1>4. AboveCommitted'
  BY DEF AboveCommitted
<1>5. OutboxComplete'
  BY DEF OutboxComplete
<1>6. OpenTodo'
  BY DEF OpenTodo
<1>7. LamportOrder'
  BY DEF LamportOrder
<1> QED BY <1>1, <1>2, <1>3, <1>4, <1>5, <1>6, <1>7

LEMMA GetMaxIInv ==
  ASSUME IInv, NEW w \in Writers, GetMaxClockValue(w)
  PROVE  IInv'
<1> USE DEF IInv, TypeOK
<1>1. PICK highest \in ClocksOf(target[w]) :
        /\ \A c \in ClocksOf(target[w]) : c <= highest
        /\ clock' = [clock EXCEPT ![w] = IF highest > @ THEN highest ELSE @]
  BY DEF GetMaxClockValue
<1>2. /\ pc[w] = "max"
      /\ pc' = [pc EXCEPT ![w] = "insert"]
      /\ UNCHANGED <<log, outbox, sequence, rowLock, target, todo, rows, outboxRows>>
  BY DEF GetMaxClockValue
<1>3. highest \in Nat /\ \A old \in log[target[w]] : old.clock <= highest
  BY <1>1 DEF ClocksOf, Operation
<1>4. TypeOK'
  BY <1>1, <1>2, <1>3 DEF Statements
<1>5. LockHeld'
  BY <1>2 DEF LockHeld, Locked
<1>6. SequencesDistinct'
  BY <1>2 DEF SequencesDistinct
<1>7. AboveCommitted'
  <2>1. clock'[w] \in Nat /\ highest <= clock'[w]
    BY <1>1, <1>3
  <2>2. \A old \in log[target[w]] : old.clock <= clock'[w]
    BY <1>3, <2>1 DEF Operation
  <2>3. rows[w] = {} /\ outboxRows[w] = {}
    BY <1>2 DEF AboveCommitted
  <2>4. \A v \in Writers \ {w} : clock'[v] = clock[v] /\ pc'[v] = pc[v]
    BY <1>1, <1>2
  <2> QED BY <1>2, <2>2, <2>3, <2>4 DEF AboveCommitted
<1>8. OutboxComplete'
  BY <1>2 DEF OutboxComplete
<1>9. OpenTodo'
  BY <1>2 DEF OpenTodo, Statements
<1>10. LamportOrder'
  BY <1>2 DEF LamportOrder
<1> QED BY <1>4, <1>5, <1>6, <1>7, <1>8, <1>9, <1>10

LEMMA InsertOperationIInv ==
  ASSUME IInv, NEW w \in Writers, InsertOperation(w)
  PROVE  IInv'
<1> DEFINE new == [seq |-> sequence + 1, clock |-> clock[w] + 1]
<1> USE DEF IInv, TypeOK, InsertOperation
<1>1. new \in Operation
  BY DEF Operation
<1>2. /\ rows' = [rows EXCEPT ![w] = @ \cup {new}]
      /\ rows'[w] = rows[w] \cup {new}
      /\ \A v \in Writers \ {w} : rows'[v] = rows[v]
  OBVIOUS
<1>3. todo[w] - 1 \in Nat
  BY DEF OpenTodo
<1>4. TypeOK'
  BY <1>1, <1>2, <1>3 DEF Statements
<1>5. LockHeld'
  BY DEF LockHeld, Locked
<1>6. SequencesDistinct'
  <2>1. \A v \in Writers, d \in Docs : \A m \in rows'[v], n \in log[d] : m.seq # n.seq
    BY <1>2 DEF SequencesDistinct, Operation
  <2>2. \A v \in Writers : \A op \in rows'[v] : op.seq <= sequence'
    BY <1>2 DEF SequencesDistinct, Operation
  <2>3. \A d \in Docs : \A op \in log[d] : op.seq <= sequence'
    BY DEF SequencesDistinct, Operation
  <2>4. \A v, x \in Writers : v # x =>
          \A m \in rows'[v], n \in rows'[x] : m.seq # n.seq
    BY <1>2 DEF SequencesDistinct, Operation
  <2> QED BY <2>1, <2>2, <2>3, <2>4 DEF SequencesDistinct
<1>7. AboveCommitted'
  <2>1. /\ clock'[w] = clock[w] + 1
        /\ \A v \in Writers \ {w} : clock'[v] = clock[v] /\ pc'[v] = pc[v]
        /\ pc'[w] = "outbox"
    OBVIOUS
  <2>2. /\ \A old \in log[target[w]] : old.clock <= clock'[w]
        /\ \A m \in rows'[w] : m.clock <= clock'[w]
    BY <1>2, <2>1 DEF AboveCommitted, Operation
  <2>3. \A m \in rows'[w], old \in log[target[w]] :
          old.seq < m.seq /\ old.clock < m.clock
    BY <1>2 DEF AboveCommitted, SequencesDistinct, Operation
  <2>4. \A m, n \in rows'[w] : m.seq < n.seq <=> m.clock < n.clock
    BY <1>2 DEF AboveCommitted, SequencesDistinct, Operation
  <2> QED BY <1>2, <2>1, <2>2, <2>3, <2>4 DEF AboveCommitted
<1>8. OutboxComplete'
  BY <1>2 DEF OutboxComplete
<1>9. OpenTodo'
  BY <1>2, <1>3 DEF OpenTodo
<1>10. LamportOrder'
  BY DEF LamportOrder
<1> QED BY <1>4, <1>5, <1>6, <1>7, <1>8, <1>9, <1>10

LEMMA InsertOutboxEntryIInv ==
  ASSUME IInv, NEW w \in Writers, InsertOutboxEntry(w)
  PROVE  IInv'
<1> USE DEF IInv, TypeOK, InsertOutboxEntry
<1>1. TypeOK'
  BY DEF Statements, Operation
<1>2. LockHeld'
  BY DEF LockHeld, Locked
<1>3. SequencesDistinct'
  BY DEF SequencesDistinct
<1>4. AboveCommitted'
  BY DEF AboveCommitted
<1>5. OutboxComplete'
  BY DEF OutboxComplete, OpenTodo
<1>6. OpenTodo'
  BY DEF OpenTodo
<1>7. LamportOrder'
  BY DEF LamportOrder
<1> QED BY <1>1, <1>2, <1>3, <1>4, <1>5, <1>6, <1>7

LEMMA CommitIInv ==
  ASSUME IInv, NEW w \in Writers, Commit(w)
  PROVE  IInv'
<1> USE DEF IInv, TypeOK, Commit, EndTransaction
<1>1. TypeOK'
  BY DEF Statements
<1>2. LockHeld'
  BY NoWriterAssumption DEF LockHeld, Locked
<1>3. /\ rows'[w] = {}
      /\ \A v \in Writers \ {w} : rows'[v] = rows[v]
      /\ log'[target[w]] = log[target[w]] \cup rows[w]
      /\ \A d \in Docs \ {target[w]} : log'[d] = log[d]
  OBVIOUS
<1>4. SequencesDistinct'
  BY <1>3 DEF SequencesDistinct
<1>5. AboveCommitted'
  <2>1. SUFFICES ASSUME NEW v \in Writers, v # w
                 PROVE  /\ pc[v] \in {"insert", "outbox", "commit"} =>
                             \A old \in log'[target[v]] : old.clock <= clock[v]
                        /\ \A m \in rows[v], old \in log'[target[v]] :
                             old.seq < m.seq /\ old.clock < m.clock
    BY <1>3 DEF AboveCommitted
  <2>2. CASE pc[v] \in Locked
    <3>1. target[v] # target[w]
      BY <2>1, <2>2 DEF LockHeld, Locked
    <3> QED BY <1>3, <3>1 DEF AboveCommitted
  <2>3. CASE pc[v] \notin Locked
    BY <2>3 DEF AboveCommitted, Locked, Statements
  <2> QED BY <2>2, <2>3
<1>6. OutboxComplete'
  BY <1>3 DEF OutboxComplete
<1>7. OpenTodo'
  BY <1>3 DEF OpenTodo
<1>8. LamportOrder'
  <2>1. \A a, b \in rows[w] : a.seq < b.seq <=> a.clock < b.clock
    BY DEF AboveCommitted
  <2>2. \A a \in rows[w], b \in log[target[w]] : b.seq < a.seq /\ b.clock < a.clock
    BY DEF AboveCommitted
  <2>3. \A a, b \in log'[target[w]] : a.seq < b.seq <=> a.clock < b.clock
    BY <1>3, <2>1, <2>2 DEF LamportOrder, Operation
  <2> QED BY <1>3, <2>3 DEF LamportOrder
<1> QED BY <1>1, <1>2, <1>4, <1>5, <1>6, <1>7, <1>8

LEMMA RollbackIInv ==
  ASSUME IInv, NEW w \in Writers, Rollback(w)
  PROVE  IInv'
<1> USE DEF IInv, TypeOK, Rollback, EndTransaction
<1>1. TypeOK'
  BY DEF Statements
<1>2. LockHeld'
  BY NoWriterAssumption DEF LockHeld, Locked
<1>3. SequencesDistinct'
  BY DEF SequencesDistinct
<1>4. AboveCommitted'
  BY DEF AboveCommitted
<1>5. OutboxComplete'
  BY DEF OutboxComplete
<1>6. OpenTodo'
  BY DEF OpenTodo
<1>7. LamportOrder'
  BY DEF LamportOrder
<1> QED BY <1>1, <1>2, <1>3, <1>4, <1>5, <1>6, <1>7

LEMMA NextIInv == IInv /\ [Next]_vars => IInv'
<1> SUFFICES ASSUME IInv, [Next]_vars PROVE IInv'
  OBVIOUS
<1>1. CASE UNCHANGED vars
  BY <1>1 DEF vars, txVars, IInv, TypeOK, LockHeld, SequencesDistinct,
     AboveCommitted, OutboxComplete, OpenTodo, LamportOrder
<1>2. ASSUME NEW w \in Writers, BeginUpdate(w) PROVE IInv'
  BY <1>2, BeginIInv, ReceivedClocksAssumption DEF BeginUpdate
<1>3. ASSUME NEW w \in Writers, BeginApplyOps(w) PROVE IInv'
  BY <1>3, BeginIInv, MaxBatchAssumption DEF BeginApplyOps
<1>4. ASSUME NEW w \in Writers, AcquireDocumentWriteLock(w) PROVE IInv'
  BY <1>4, AcquireIInv
<1>5. ASSUME NEW w \in Writers, Proceed(w) PROVE IInv'
  BY <1>5, GetMaxIInv, InsertOperationIInv, InsertOutboxEntryIInv, CommitIInv,
     RollbackIInv DEF Proceed, SequenceExhausted
<1>6. ASSUME NEW w \in Writers, Fail(w) PROVE IInv'
  BY <1>6, RollbackIInv DEF Fail
<1> QED BY <1>1, <1>2, <1>3, <1>4, <1>5, <1>6 DEF Next

-----------------------------------------------------------------------------

(* The inductive invariant holds of every state the transactions reach.     *)
THEOREM Inductive == Spec => []IInv
<1> QED BY InitIInv, NextIInv, PTL DEF Spec

(* Every variable keeps its type.                                           *)
THEOREM TypeCorrect == Spec => []TypeOK
<1>1. IInv => TypeOK
  BY DEF IInv
<1> QED BY <1>1, Inductive, PTL

(* Lamport clocks follow the sequence order in every document, however the  *)
(* transactions of gateway and AI service interleave.                       *)
THEOREM ClocksFollowSequence == Spec => []LamportOrder
<1>1. IInv => LamportOrder
  BY DEF IInv
<1> QED BY <1>1, Inductive, PTL

(* A commit is one step of the abstract log, every other statement none.    *)
LEMMA StepImplements == IInv /\ [Next]_vars => [DL!Next]_(DL!vars)
<1> SUFFICES ASSUME IInv, Next PROVE DL!Next \/ UNCHANGED <<log, outbox>>
  BY DEF vars, DL!vars
<1>1. ASSUME NEW w \in Writers, Commit(w) PROVE DL!Next
  <2> DEFINE d == target[w]
  <2> USE <1>1 DEF IInv, TypeOK, Commit
  <2>1. /\ rows[w] # {} /\ rows[w] \subseteq Operation
        /\ outboxRows[w] = {op.seq : op \in rows[w]}
    BY DEF OutboxComplete
  <2>2. /\ \A new \in rows[w], old \in log[d] : old.seq < new.seq /\ old.clock < new.clock
        /\ \A m, n \in rows[w] : m.seq < n.seq <=> m.clock < n.clock
    BY DEF AboveCommitted
  <2>3. \A new \in rows[w], e \in Docs : \A old \in log[e] : new.seq # old.seq
    BY DEF SequencesDistinct
  <2>4. log'[d] \ log[d] = rows[w]
    <3>1. \A op \in rows[w] : op \notin log[d]
      BY <2>3
    <3> QED BY <3>1
  <2>5. DL!Commit(d, rows[w])
    BY <2>1, <2>2, <2>3 DEF DL!Commit, DL!Ops, Operation
  <2> QED BY <2>4, <2>5 DEF DL!Next
<1>2. ASSUME NEW w \in Writers, ~Commit(w),
             \/ BeginUpdate(w) \/ BeginApplyOps(w) \/ AcquireDocumentWriteLock(w)
             \/ Proceed(w) \/ Fail(w)
      PROVE  UNCHANGED <<log, outbox>>
  BY <1>2 DEF BeginUpdate, BeginApplyOps, Begin, AcquireDocumentWriteLock, Proceed,
     GetMaxClockValue, InsertOperation, InsertOutboxEntry, SequenceExhausted, Fail,
     Rollback
<1> QED BY <1>1, <1>2 DEF Next

(* The transactions implement the log the other components rely on.         *)
THEOREM Implements == Spec => ImplementsDocumentLog
<1>1. Init => DL!Init
  BY DEF Init, DL!Init
<1> QED BY <1>1, Inductive, StepImplements, PTL DEF Spec, ImplementsDocumentLog, DL!Spec

(* Rows appear only above what their document already shows.                *)
THEOREM NothingCommitsLate == Spec => NoLateCommit
<1> DEFINE A == \A d \in Docs :
                  /\ log[d] \subseteq log'[d]
                  /\ \A old \in log[d], new \in log'[d] \ log[d] : old.seq < new.seq
<1>1. IInv /\ [Next]_vars => [A]_vars
  <2> SUFFICES ASSUME IInv, [DL!Next]_(DL!vars) PROVE A
    BY StepImplements
  <2>1. CASE UNCHANGED DL!vars
    BY <2>1 DEF DL!vars
  <2>2. ASSUME NEW e \in Docs, DL!Commit(e, log'[e] \ log[e]) PROVE A
    BY <2>2 DEF DL!Commit, IInv, TypeOK
  <2> QED BY <2>1, <2>2 DEF DL!Next
<1> QED BY <1>1, Inductive, PTL DEF Spec, NoLateCommit

-----------------------------------------------------------------------------

(* A non-empty set of numbers has a least element.                          *)
LEMMA Least ==
  ASSUME NEW T \in SUBSET Nat, T # {}
  PROVE  \E x \in T : \A y \in T : x <= y
<1>1. PICK x \in T : \A y \in T : ~ (<<y, x>> \in OpToRel(<, Nat))
  BY NatLessThanWellFounded, WFMin
<1>2. \A y \in T : ~ (y < x)
  BY <1>1 DEF OpToRel
<1> QED BY <1>2

(* Induction, on a set.                                                     *)
LEMMA Induction ==
  ASSUME NEW P, 0 \in P, \A n \in Nat : n \in P => n + 1 \in P
  PROVE  \A n \in Nat : n \in P
<1> SUFFICES ASSUME NEW m \in Nat, m \notin P PROVE FALSE
  OBVIOUS
<1>1. PICK x \in Nat \ P : \A y \in Nat \ P : x <= y
  BY Least
<1>2. x # 0 /\ x - 1 \in Nat /\ x - 1 \in P
  BY <1>1
<1>3. (x - 1) + 1 \in P
  BY <1>2
<1> QED BY <1>1, <1>2, <1>3

(* g starts with base, and step leads from each of its values to the next.  *)
Follows(g, n, base, step) ==
  g[0] = base /\ \A i \in 1 .. n : g[i] = step[<<i, g[i - 1]>>]

(* A value for 0 and a step give a function on 0 .. n.                      *)
LEMMA Recursion ==
  ASSUME NEW n \in Nat, NEW V, NEW base \in V, NEW step \in [(1 .. n) \X V -> V]
  PROVE  \E g \in [0 .. n -> V] : Follows(g, n, base, step)
<1> DEFINE Ok(m, g) == Follows(g, m, base, step)
           P == {m \in Nat : m <= n => \E g \in [0 .. m -> V] : Ok(m, g)}
<1>1. 0 \in P
  <2>1. [i \in 0 .. 0 |-> base] \in [0 .. 0 -> V]
    OBVIOUS
  <2>2. Ok(0, [i \in 0 .. 0 |-> base])
    BY DEF Follows
  <2> QED BY <2>1, <2>2
<1>2. ASSUME NEW m \in Nat, m \in P PROVE m + 1 \in P
  <2> SUFFICES ASSUME m + 1 <= n PROVE \E g \in [0 .. m + 1 -> V] : Ok(m + 1, g)
    OBVIOUS
  <2>1. PICK g \in [0 .. m -> V] : Ok(m, g)
    BY <1>2
  <2> DEFINE h == [i \in 0 .. m + 1 |-> IF i = m + 1 THEN step[<<m + 1, g[m]>>] ELSE g[i]]
  <2>2. g[m] \in V /\ <<m + 1, g[m]>> \in (1 .. n) \X V
    OBVIOUS
  <2>3. h \in [0 .. m + 1 -> V]
    BY <2>2
  <2>4. Ok(m + 1, h)
    <3>1. h[0] = base
      BY <2>1 DEF Follows
    <3>2. ASSUME NEW i \in 1 .. m + 1 PROVE h[i] = step[<<i, h[i - 1]>>]
      <4>0. i - 1 \in 0 .. m /\ h[i - 1] = g[i - 1]
        OBVIOUS
      <4> HIDE DEF h
      <4>1. CASE i = m + 1
        <5>1. h[m + 1] = step[<<m + 1, g[m]>>]
          BY DEF h
        <5>2. h[i - 1] = g[m] /\ h[i] = h[m + 1]
          BY <4>0, <4>1
        <5> QED BY <4>1, <5>1, <5>2
      <4>2. CASE i # m + 1
        <5>1. i \in 1 .. m /\ i \in 0 .. m
          BY <4>2
        <5>2. h[i] = g[i]
          BY <5>1, <4>2 DEF h
        <5> QED BY <4>0, <5>1, <5>2, <2>1 DEF Follows
      <4> QED BY <4>1, <4>2
    <3> HIDE DEF h
    <3> QED BY <3>1, <3>2 DEF Follows
  <2> HIDE DEF Ok, h
  <2> QED BY <2>3, <2>4
<1>3. \A m \in Nat : m \in P
  <2> HIDE DEF P
  <2> QED BY <1>1, <1>2, Induction
<1> QED BY <1>3

(* Concatenation, whose laws the proofs use and whose definition they hide. *)
x ++ y == x \o y

LEMMA CatType == \A S : \A x, y \in Seq(S) : x ++ y \in Seq(S)
  BY ConcatProperties DEF ++

LEMMA CatEmpty == \A S : \A x \in Seq(S) : x ++ <<>> = x /\ <<>> ++ x = x
  BY ConcatEmptySeq DEF ++

LEMMA CatAssoc == \A S : \A x, y, z \in Seq(S) : (x ++ y) ++ z = x ++ (y ++ z)
  BY ConcatAssociative DEF ++

LEMMA CatLen == \A S : \A x, y \in Seq(S) : Len(x ++ y) = Len(x) + Len(y)
  BY ConcatProperties DEF ++

LEMMA CatAt ==
  \A S : \A x, y \in Seq(S) : \A i \in 1 .. Len(x) + Len(y) :
    (x ++ y)[i] = IF i <= Len(x) THEN x[i] ELSE y[i - Len(x)]
  BY ConcatProperties DEF ++

(* The partial concatenations of the elements of s.                         *)
Partial(s, F) == F[0] = <<>> /\ \A i \in 1 .. Len(s) : F[i] = F[i - 1] ++ s[i]

LEMMA PartialExists ==
  ASSUME NEW S, NEW s \in Seq(Seq(S))
  PROVE  \E F \in [0 .. Len(s) -> Seq(S)] : Partial(s, F)
<1> DEFINE step == [p \in (1 .. Len(s)) \X Seq(S) |-> p[2] ++ s[p[1]]]
<1>1. Len(s) \in Nat /\ <<>> \in Seq(S)
  OBVIOUS
<1>2. step \in [(1 .. Len(s)) \X Seq(S) -> Seq(S)]
  <2> SUFFICES ASSUME NEW p \in (1 .. Len(s)) \X Seq(S) PROVE p[2] ++ s[p[1]] \in Seq(S)
    OBVIOUS
  <2>1. p[1] \in 1 .. Len(s) /\ p[2] \in Seq(S) /\ s[p[1]] \in Seq(S)
    OBVIOUS
  <2> QED BY <2>1, CatType
<1>3. PICK F \in [0 .. Len(s) -> Seq(S)] : Follows(F, Len(s), <<>>, step)
  <2> HIDE DEF step
  <2> QED BY <1>1, <1>2, Recursion
<1>4. ASSUME NEW i \in 1 .. Len(s) PROVE F[i] = F[i - 1] ++ s[i]
  <2>1. i - 1 \in 0 .. Len(s)
    BY <1>1
  <2>2. <<i, F[i - 1]>> \in (1 .. Len(s)) \X Seq(S)
    BY <2>1
  <2> QED BY <1>3, <2>2 DEF Follows
<1>5. F[0] = <<>>
  BY <1>3 DEF Follows
<1> QED BY <1>4, <1>5 DEF Partial

(* FlattenSeq is the last of them.                                          *)
LEMMA FlattenIsPartial ==
  ASSUME NEW S, NEW s \in Seq(Seq(S)), NEW F \in [0 .. Len(s) -> Seq(S)], Partial(s, F)
  PROVE  FlattenSeq(s) = F[Len(s)]
<1>0. Len(s) \in Nat
  OBVIOUS
<1>1. CASE Len(s) = 0
  <2>1. s = <<>>
    BY <1>1, EmptySeq
  <2> QED BY <1>1, <2>1 DEF FlattenSeq, Partial
<1>2. CASE Len(s) # 0
  <2> DEFINE Eq(f) == f = [i \in 1 .. Len(s) |-> IF i = 1 THEN s[i] ELSE f[i - 1] ++ s[i]]
             G == [i \in 1 .. Len(s) |-> F[i]]
             fl == CHOOSE f : Eq(f)
  <2>1. Eq(G)
    <3> SUFFICES ASSUME NEW i \in 1 .. Len(s)
                 PROVE F[i] = IF i = 1 THEN s[i] ELSE G[i - 1] ++ s[i]
      OBVIOUS
    <3>1. s[i] \in Seq(S) /\ F[i] = F[i - 1] ++ s[i]
      BY DEF Partial
    <3>2. CASE i = 1
      <4>1. i - 1 = 0 /\ F[0] = <<>>
        BY <3>2 DEF Partial
      <4>2. F[i] = <<>> ++ s[i]
        BY <3>1, <4>1
      <4> QED BY <3>1, <3>2, <4>2, CatEmpty
    <3>3. CASE i # 1
      <4>1. i - 1 \in 1 .. Len(s)
        BY <3>3
      <4> QED BY <3>1, <3>3, <4>1
    <3> QED BY <3>2, <3>3
  <2>2. Eq(fl)
    <3> HIDE DEF Eq, G
    <3> QED BY <2>1
  <2> DEFINE P == {i \in Nat : i + 1 <= Len(s) => fl[i + 1] = F[i + 1]}
  <2>3. 0 \in P
    <3>1. fl[1] = s[1] /\ s[1] \in Seq(S)
      <4> HIDE DEF fl
      <4> QED BY <1>0, <1>2, <2>2
    <3>2. F[1] = F[0] ++ s[1]
      <4>1. 1 \in 1 .. Len(s) /\ 1 - 1 = 0
        BY <1>0, <1>2
      <4> HIDE DEF fl
      <4> QED BY <4>1 DEF Partial
    <3>3. F[1] = s[1]
      BY <3>1, <3>2, CatEmpty DEF Partial
    <3> HIDE DEF fl
    <3> QED BY <3>1, <3>3
  <2>4. ASSUME NEW i \in Nat, i \in P PROVE i + 1 \in P
    <3> SUFFICES ASSUME i + 2 <= Len(s) PROVE fl[i + 2] = F[i + 2]
      <4> HIDE DEF fl
      <4> QED OBVIOUS
    <3> HIDE DEF fl
    <3>1. fl[i + 2] = fl[i + 1] ++ s[i + 2]
      <4>1. i + 2 \in 1 .. Len(s) /\ i + 2 # 1 /\ (i + 2) - 1 = i + 1
        BY <1>0
      <4> QED BY <4>1, <2>2
    <3>2. F[i + 2] = F[i + 1] ++ s[i + 2]
      <4>1. i + 2 \in 1 .. Len(s) /\ (i + 2) - 1 = i + 1
        BY <1>0
      <4> QED BY <4>1 DEF Partial
    <3>3. fl[i + 1] = F[i + 1]
      BY <2>4
    <3> QED BY <3>1, <3>2, <3>3
  <2>5. Len(s) - 1 \in P
    <3> HIDE DEF P
    <3>1. \A i \in Nat : i \in P
      BY <2>3, <2>4, Induction
    <3>2. Len(s) - 1 \in Nat
      BY <1>0, <1>2
    <3> QED BY <3>1, <3>2
  <2>6. fl[Len(s)] = F[Len(s)]
    <3> HIDE DEF fl
    <3> QED BY <1>0, <1>2, <2>5
  <2>7. FlattenSeq(s) = fl[Len(s)]
    BY <1>2 DEF FlattenSeq, ++
  <2> QED BY <2>6, <2>7
<1> QED BY <1>1, <1>2

LEMMA FlattenType ==
  ASSUME NEW S, NEW s \in Seq(Seq(S))
  PROVE  FlattenSeq(s) \in Seq(S)
<1>1. PICK F \in [0 .. Len(s) -> Seq(S)] : Partial(s, F)
  BY PartialExists
<1>2. Len(s) \in 0 .. Len(s)
  OBVIOUS
<1> QED BY <1>1, <1>2, FlattenIsPartial

LEMMA FlattenEmpty == FlattenSeq(<<>>) = <<>>
  BY DEF FlattenSeq

LEMMA FlattenOne ==
  ASSUME NEW S, NEW x \in Seq(S)
  PROVE  FlattenSeq(<<x>>) = x
<1> DEFINE F == [i \in 0 .. 1 |-> IF i = 0 THEN <<>> ELSE x]
<1>1. <<x>> \in Seq(Seq(S)) /\ Len(<<x>>) = 1 /\ F \in [0 .. 1 -> Seq(S)]
  OBVIOUS
<1>2. Partial(<<x>>, F)
  BY CatEmpty DEF Partial
<1> QED BY <1>1, <1>2, FlattenIsPartial

LEMMA FlattenConcat ==
  ASSUME NEW S, NEW a \in Seq(Seq(S)), NEW b \in Seq(Seq(S))
  PROVE  FlattenSeq(a ++ b) = FlattenSeq(a) ++ FlattenSeq(b)
<1>1. PICK A \in [0 .. Len(a) -> Seq(S)] : Partial(a, A)
  BY PartialExists
<1>2. PICK B \in [0 .. Len(b) -> Seq(S)] : Partial(b, B)
  BY PartialExists
<1> DEFINE s == a ++ b
           F == [i \in 0 .. Len(s) |-> IF i <= Len(a) THEN A[i] ELSE A[Len(a)] ++ B[i - Len(a)]]
<1>3. /\ Len(a) \in Nat /\ Len(b) \in Nat /\ s \in Seq(Seq(S)) /\ Len(s) = Len(a) + Len(b)
      /\ \A i \in 1 .. Len(s) : s[i] = IF i <= Len(a) THEN a[i] ELSE b[i - Len(a)]
  <2>1. s \in Seq(Seq(S))
    BY CatType
  <2>2. Len(s) = Len(a) + Len(b)
    BY CatLen
  <2>3. \A i \in 1 .. Len(a) + Len(b) : s[i] = IF i <= Len(a) THEN a[i] ELSE b[i - Len(a)]
    BY CatAt
  <2>4. Len(a) \in Nat /\ Len(b) \in Nat
    OBVIOUS
  <2> HIDE DEF s
  <2> QED BY <2>1, <2>2, <2>3, <2>4
<1> HIDE DEF s
<1>4. F \in [0 .. Len(s) -> Seq(S)]
  <2> SUFFICES ASSUME NEW i \in 0 .. Len(s)
               PROVE (IF i <= Len(a) THEN A[i] ELSE A[Len(a)] ++ B[i - Len(a)]) \in Seq(S)
    OBVIOUS
  <2>1. CASE i <= Len(a)
    <3>1. i \in 0 .. Len(a)
      BY <1>3, <2>1
    <3> QED BY <2>1, <3>1
  <2>2. CASE ~(i <= Len(a))
    <3>1. i - Len(a) \in 0 .. Len(b) /\ Len(a) \in 0 .. Len(a)
      BY <1>3, <2>2
    <3> QED BY <2>2, <3>1, CatType
  <2> QED BY <2>1, <2>2
<1>5. Partial(s, F)
  <2>1. F[0] = <<>>
    BY <1>1, <1>3 DEF Partial
  <2>2. ASSUME NEW i \in 1 .. Len(s) PROVE F[i] = F[i - 1] ++ s[i]
    <3>0. i - 1 \in 0 .. Len(s) /\ i \in 0 .. Len(s)
      BY <1>3
    <3>1. CASE i <= Len(a)
      <4>1. i \in 1 .. Len(a) /\ F[i] = A[i] /\ F[i - 1] = A[i - 1] /\ s[i] = a[i]
        BY <1>3, <3>0, <3>1, SMTT(20)
      <4> QED BY <4>1, <1>1 DEF Partial
    <3>2. CASE i = Len(a) + 1
      <4>1. /\ 1 \in 1 .. Len(b) /\ s[i] = b[1] /\ F[i] = A[Len(a)] ++ B[1]
            /\ F[i - 1] = A[Len(a)]
        <5>1. ~(i <= Len(a)) /\ i - Len(a) = 1 /\ i - 1 = Len(a) /\ Len(a) <= Len(a)
          BY <1>3, <3>2
        <5>2. 1 \in 1 .. Len(b)
          BY <1>3, <3>2
        <5>3. F[i] = A[Len(a)] ++ B[i - Len(a)] /\ F[i - 1] = A[i - 1]
          BY <3>0, <5>1
        <5>4. s[i] = b[i - Len(a)]
          BY <1>3, <5>1
        <5> HIDE DEF F
        <5> QED BY <5>1, <5>2, <5>3, <5>4
      <4>2. B[1] = B[0] ++ b[1] /\ B[0] = <<>> /\ b[1] \in Seq(S)
        <5>1. B[1] = B[1 - 1] ++ b[1] /\ B[0] = <<>>
          BY <4>1, <1>2 DEF Partial
        <5>2. 1 - 1 = 0
          OBVIOUS
        <5>3. b[1] \in Seq(S)
          BY <4>1
        <5> QED BY <5>1, <5>2, <5>3
      <4>3. B[1] = b[1]
        BY <4>2, CatEmpty
      <4> QED BY <4>1, <4>3
    <3>3. CASE i > Len(a) + 1
      <4> DEFINE j == i - Len(a)
      <4>1. j \in 1 .. Len(b) /\ j - 1 \in 0 .. Len(b) /\ Len(a) \in 0 .. Len(a)
        <5>1. i \in Nat /\ i <= Len(a) + Len(b) /\ Len(a) \in Nat /\ Len(b) \in Nat
          BY <1>3
        <5> HIDE DEF F
        <5> QED BY <3>3, <5>1
      <4>2. s[i] = b[j] /\ F[i] = A[Len(a)] ++ B[j]
        <5>1. ~(i <= Len(a))
          BY <1>3, <3>3
        <5> QED BY <1>3, <3>0, <5>1
      <4>3. F[i - 1] = A[Len(a)] ++ B[j - 1]
        <5>1. ~(i - 1 <= Len(a)) /\ (i - 1) - Len(a) = j - 1
          BY <1>3, <3>3, SMTT(20)
        <5> QED BY <3>0, <5>1
      <4> HIDE DEF j, F
      <4>4. B[j] = B[j - 1] ++ b[j]
        BY <4>1, <1>2 DEF Partial
      <4>6. b[j] \in Seq(S) /\ B[j - 1] \in Seq(S)
        <5>1. b \in [1 .. Len(b) -> Seq(S)]
          BY LenProperties
        <5> QED BY <4>1, <5>1
      <4>5. A[Len(a)] \in Seq(S)
        BY <4>1
      <4>7. (A[Len(a)] ++ B[j - 1]) ++ b[j] = A[Len(a)] ++ (B[j - 1] ++ b[j])
        BY <4>5, <4>6, CatAssoc
      <4> QED BY <4>2, <4>3, <4>4, <4>7
    <3>4. i <= Len(a) \/ i = Len(a) + 1 \/ i > Len(a) + 1
      <4>1. i \in Nat /\ Len(a) \in Nat
        BY <1>3
      <4> HIDE DEF F
      <4> QED BY <4>1
    <3> HIDE DEF F
    <3> QED BY <3>1, <3>2, <3>3, <3>4
  <2> QED BY <2>1, <2>2 DEF Partial
<1>6. FlattenSeq(s) = F[Len(s)]
  <2> HIDE DEF F
  <2> QED BY <1>3, <1>4, <1>5, FlattenIsPartial
<1>7. FlattenSeq(a) = A[Len(a)] /\ FlattenSeq(b) = B[Len(b)]
  BY <1>1, <1>2, FlattenIsPartial
<1>8. CASE Len(b) = 0
  <2>1. b = <<>> /\ s = a
    BY <1>8, EmptySeq, CatEmpty DEF s
  <2> QED BY <2>1, FlattenEmpty, FlattenType, CatEmpty DEF s
<1>9. CASE Len(b) # 0
  <2>1. F[Len(s)] = A[Len(a)] ++ B[Len(b)]
    <3>1. ~(Len(s) <= Len(a)) /\ Len(s) - Len(a) = Len(b) /\ Len(s) \in 0 .. Len(s)
      BY <1>3, <1>9
    <3> QED BY <3>1
  <2> QED BY <2>1, <1>6, <1>7 DEF s
<1> QED BY <1>8, <1>9

-----------------------------------------------------------------------------
(* Numbers                                                                  *)

LEMMA MinPair ==
  ASSUME NEW a \in Int, NEW b \in Int
  PROVE  Min({a, b}) = IF a <= b THEN a ELSE b
<1> DEFINE m == IF a <= b THEN a ELSE b
<1>1. m \in {a, b} /\ \A y \in {a, b} : m =< y
  OBVIOUS
<1>2. \A x \in {a, b} : (\A y \in {a, b} : x =< y) => x = m
  OBVIOUS
<1> QED BY <1>1, <1>2 DEF Min

LEMMA MaxPair ==
  ASSUME NEW a \in Int, NEW b \in Int
  PROVE  Max({a, b}) = IF a >= b THEN a ELSE b
<1> DEFINE m == IF a >= b THEN a ELSE b
<1>1. m \in {a, b} /\ \A y \in {a, b} : m >= y
  OBVIOUS
<1>2. \A x \in {a, b} : (\A y \in {a, b} : x >= y) => x = m
  OBVIOUS
<1> QED BY <1>1, <1>2 DEF Max

LEMMA MinOfSome ==
  ASSUME NEW T \in SUBSET Nat, T # {}
  PROVE  Min(T) \in T /\ \A y \in T : Min(T) <= y
<1>1. \E x \in T : \A y \in T : x <= y
  BY Least
<1> QED BY <1>1 DEF Min

LEMMA ClampValue ==
  ASSUME NEW value \in Int, NEW n \in Nat
  PROVE  Clamp(value, 0, n) = IF value <= 0 THEN 0 ELSE IF value <= n THEN value ELSE n
<1>1. Max({value, 0}) = IF value >= 0 THEN value ELSE 0
  BY MaxPair
<1> DEFINE m == Max({value, 0})
<1>2. m \in Int
  BY <1>1
<1> HIDE DEF m
<1>3. Min({m, n}) = IF m <= n THEN m ELSE n
  BY <1>2, MinPair
<1>4. Clamp(value, 0, n) = Min({m, n})
  BY DEF Clamp, m
<1> QED BY <1>1, <1>3, <1>4 DEF m

-----------------------------------------------------------------------------
(* Sequences                                                                *)

LEMMA FunIsSeq ==
  ASSUME NEW S, NEW n \in Nat, NEW f \in [1 .. n -> S]
  PROVE  f \in Seq(S) /\ Len(f) = n /\ DOMAIN f = 1 .. n
OBVIOUS

LEMMA SeqFacts ==
  ASSUME NEW S, NEW s \in Seq(S)
  PROVE  /\ Len(s) \in Nat /\ DOMAIN s = 1 .. Len(s)
         /\ \A i \in 1 .. Len(s) : s[i] \in S
         /\ s = <<>> <=> Len(s) = 0
OBVIOUS

LEMMA SliceFacts ==
  ASSUME NEW S, NEW s \in Seq(S), NEW a \in Nat, NEW b \in Int
  PROVE  LET m == IF b <= Len(s) THEN b ELSE Len(s)
         IN /\ Slice(s, a, b) \in Seq(S)
            /\ Len(Slice(s, a, b)) = IF a <= m THEN m - a ELSE 0
            /\ \A i \in 1 .. m - a : Slice(s, a, b)[i] = s[a + i]
<1> DEFINE m == IF b <= Len(s) THEN b ELSE Len(s)
<1>1. Len(s) \in Nat /\ m \in Int /\ m <= Len(s)
  OBVIOUS
<1>2. Min({b, Len(s)}) = m
  BY <1>1, MinPair
<1>3. Slice(s, a, b) = SubSeq(s, a + 1, m)
  BY <1>2 DEF Slice
<1> HIDE DEF m
<1>4. \A i \in a + 1 .. m : s[i] \in S
  BY <1>1
<1>5. /\ SubSeq(s, a + 1, m) \in Seq(S)
      /\ Len(SubSeq(s, a + 1, m)) = IF a + 1 <= m THEN m - (a + 1) + 1 ELSE 0
      /\ \A i \in 1 .. m - (a + 1) + 1 : SubSeq(s, a + 1, m)[i] = s[a + 1 + i - 1]
  BY <1>1, <1>4, SubSeqProperties
<1>6. Len(Slice(s, a, b)) = IF a <= m THEN m - a ELSE 0
  BY <1>1, <1>3, <1>5
<1>7. ASSUME NEW i \in 1 .. m - a PROVE Slice(s, a, b)[i] = s[a + i]
  <2>1. i \in 1 .. m - (a + 1) + 1 /\ a + 1 + i - 1 = a + i
    BY <1>1
  <2> QED BY <1>3, <1>5, <2>1
<1> QED BY <1>3, <1>5, <1>6, <1>7 DEF m

LEMMA SliceIn ==
  ASSUME NEW S, NEW s \in Seq(S), NEW a \in Nat, NEW b \in a .. Len(s)
  PROVE  /\ Slice(s, a, b) \in Seq(S) /\ Len(Slice(s, a, b)) = b - a
         /\ \A i \in 1 .. b - a : Slice(s, a, b)[i] = s[a + i]
<1>1. Len(s) \in Nat /\ b \in Nat /\ a <= b /\ b <= Len(s) /\ a + 1 \in Int
  OBVIOUS
<1>2. Min({b, Len(s)}) = b
  BY <1>1, MinPair
<1>3. Slice(s, a, b) = SubSeq(s, a + 1, b)
  BY <1>2 DEF Slice
<1>4. \A i \in a + 1 .. b : s[i] \in S
  BY <1>1
<1>5. /\ SubSeq(s, a + 1, b) \in Seq(S)
      /\ Len(SubSeq(s, a + 1, b)) = IF a + 1 <= b THEN b - (a + 1) + 1 ELSE 0
      /\ \A i \in 1 .. b - (a + 1) + 1 : SubSeq(s, a + 1, b)[i] = s[a + 1 + i - 1]
  BY <1>1, <1>4, SubSeqProperties
<1>6. Len(Slice(s, a, b)) = b - a
  BY <1>1, <1>3, <1>5
<1>7. ASSUME NEW i \in 1 .. b - a PROVE Slice(s, a, b)[i] = s[a + i]
  <2>1. i \in 1 .. b - (a + 1) + 1 /\ a + 1 + i - 1 = a + i
    BY <1>1
  <2> QED BY <1>3, <1>5, <2>1
<1> QED BY <1>3, <1>5, <1>6, <1>7

(* A sequence is its first k elements and the rest.                         *)
LEMMA Parts ==
  ASSUME NEW S, NEW s \in Seq(S), NEW k \in 0 .. Len(s)
  PROVE  /\ Slice(s, 0, k) \in Seq(S) /\ Len(Slice(s, 0, k)) = k
         /\ \A i \in 1 .. k : Slice(s, 0, k)[i] = s[i]
         /\ Slice(s, k, Len(s)) \in Seq(S) /\ Len(Slice(s, k, Len(s))) = Len(s) - k
         /\ \A i \in 1 .. Len(s) - k : Slice(s, k, Len(s))[i] = s[k + i]
         /\ Slice(s, 0, k) ++ Slice(s, k, Len(s)) = s
<1> DEFINE x == Slice(s, 0, k)
           y == Slice(s, k, Len(s))
<1>1. Len(s) \in Nat /\ k \in Nat /\ k <= Len(s) /\ 0 \in Nat /\ k \in 0 .. Len(s)
      /\ Len(s) \in k .. Len(s)
  OBVIOUS
<1>2. /\ x \in Seq(S) /\ Len(x) = k - 0
      /\ \A i \in 1 .. k - 0 : x[i] = s[0 + i]
  BY <1>1, SliceIn
<1>3. /\ y \in Seq(S) /\ Len(y) = Len(s) - k
      /\ \A i \in 1 .. Len(s) - k : y[i] = s[k + i]
  BY <1>1, SliceIn
<1> HIDE DEF x, y
<1>4. Len(x) = k /\ Len(y) = Len(s) - k /\ \A i \in 1 .. k : x[i] = s[i]
  BY <1>1, <1>2, <1>3
<1>5. x ++ y \in Seq(S) /\ Len(x ++ y) = Len(s)
  <2>1. Len(x ++ y) = Len(x) + Len(y)
    BY <1>2, <1>3, CatLen
  <2> QED BY <1>1, <1>2, <1>3, <1>4, <2>1, CatType
<1>6. ASSUME NEW i \in 1 .. Len(s) PROVE (x ++ y)[i] = s[i]
  <2>1. i \in 1 .. Len(x) + Len(y)
    BY <1>1, <1>4
  <2>2. (x ++ y)[i] = IF i <= Len(x) THEN x[i] ELSE y[i - Len(x)]
    BY <1>2, <1>3, <2>1, CatAt
  <2>3. CASE i <= k
    BY <1>4, <2>2, <2>3
  <2>4. CASE ~(i <= k)
    <3>1. i - k \in 1 .. Len(s) - k /\ k + (i - k) = i
      BY <1>1, <2>4
    <3> QED BY <1>3, <1>4, <2>2, <2>4, <3>1
  <2> QED BY <2>3, <2>4
<1>7. x ++ y = s
  BY <1>5, <1>6, SeqEqual
<1> QED BY <1>2, <1>3, <1>4, <1>7 DEF x, y

(* The elements up to k, and those after k.                                 *)
LEMMA Halves ==
  ASSUME NEW S, NEW s \in Seq(S), NEW k \in 0 .. Len(s)
  PROVE  /\ SubSeq(s, 1, k) \in Seq(S) /\ Len(SubSeq(s, 1, k)) = k
         /\ \A i \in 1 .. k : SubSeq(s, 1, k)[i] = s[i]
         /\ SubSeq(s, k + 1, Len(s)) \in Seq(S) /\ Len(SubSeq(s, k + 1, Len(s))) = Len(s) - k
         /\ \A i \in 1 .. Len(s) - k : SubSeq(s, k + 1, Len(s))[i] = s[k + i]
         /\ SubSeq(s, 1, k) ++ SubSeq(s, k + 1, Len(s)) = s
<1>1. Len(s) \in Nat /\ k \in Nat /\ k <= Len(s)
  OBVIOUS
<1>2. Slice(s, 0, k) = SubSeq(s, 1, k)
  <2>1. Min({k, Len(s)}) = k /\ 0 + 1 = 1
    BY <1>1, MinPair
  <2>2. Slice(s, 0, k) = SubSeq(s, 0 + 1, Min({k, Len(s)}))
    BY DEF Slice
  <2> QED BY <2>1, <2>2
<1>3. Slice(s, k, Len(s)) = SubSeq(s, k + 1, Len(s))
  <2>1. Min({Len(s), Len(s)}) = Len(s)
    BY <1>1, MinPair
  <2>2. Slice(s, k, Len(s)) = SubSeq(s, k + 1, Min({Len(s), Len(s)}))
    BY DEF Slice
  <2> QED BY <2>1, <2>2
<1>4. /\ Slice(s, 0, k) \in Seq(S) /\ Len(Slice(s, 0, k)) = k
      /\ \A i \in 1 .. k : Slice(s, 0, k)[i] = s[i]
      /\ Slice(s, k, Len(s)) \in Seq(S) /\ Len(Slice(s, k, Len(s))) = Len(s) - k
      /\ \A i \in 1 .. Len(s) - k : Slice(s, k, Len(s))[i] = s[k + i]
      /\ Slice(s, 0, k) ++ Slice(s, k, Len(s)) = s
  BY Parts
<1> QED BY <1>2, <1>3, <1>4

LEMMA FlattenHalves ==
  ASSUME NEW S, NEW s \in Seq(Seq(S)), NEW k \in 0 .. Len(s)
  PROVE  FlattenSeq(s) =
           FlattenSeq(SubSeq(s, 1, k)) ++ FlattenSeq(SubSeq(s, k + 1, Len(s)))
<1>1. /\ SubSeq(s, 1, k) \in Seq(Seq(S)) /\ SubSeq(s, k + 1, Len(s)) \in Seq(Seq(S))
      /\ SubSeq(s, 1, k) ++ SubSeq(s, k + 1, Len(s)) = s
  BY Halves
<1> DEFINE x == SubSeq(s, 1, k)
           y == SubSeq(s, k + 1, Len(s))
<1> HIDE DEF x, y
<1>2. FlattenSeq(x ++ y) = FlattenSeq(x) ++ FlattenSeq(y)
  BY <1>1, FlattenConcat DEF x, y
<1> QED BY <1>1, <1>2 DEF x, y

(* One element, what precedes it and what follows it.                       *)
LEMMA FlattenAround ==
  ASSUME NEW S, NEW s \in Seq(Seq(S)), NEW i \in 1 .. Len(s)
  PROVE  FlattenSeq(s) =
           FlattenSeq(SubSeq(s, 1, i - 1)) ++
             (s[i] ++ FlattenSeq(SubSeq(s, i + 1, Len(s))))
<1>1. Len(s) \in Nat /\ i \in Nat /\ i - 1 \in 0 .. Len(s) /\ (i - 1) + 1 = i /\ s[i] \in Seq(S)
      /\ i \in 0 .. Len(s)
  OBVIOUS
<1> DEFINE y == SubSeq(s, i, Len(s))
           z == SubSeq(s, i + 1, Len(s))
<1>2. FlattenSeq(s) = FlattenSeq(SubSeq(s, 1, i - 1)) ++ FlattenSeq(y)
  BY <1>1, FlattenHalves
<1>3. /\ y \in Seq(Seq(S)) /\ Len(y) = Len(s) - (i - 1)
      /\ \A j \in 1 .. Len(s) - (i - 1) : y[j] = s[(i - 1) + j]
  BY <1>1, Halves
<1>4. /\ z \in Seq(Seq(S)) /\ Len(z) = Len(s) - i
      /\ \A j \in 1 .. Len(s) - i : z[j] = s[i + j]
  BY <1>1, Halves
<1> HIDE DEF y, z
<1>5. y = <<s[i]>> ++ z
  <2>1. <<s[i]>> \in Seq(Seq(S)) /\ Len(<<s[i]>>) = 1 /\ <<s[i]>>[1] = s[i]
    BY <1>1
  <2>2. <<s[i]>> ++ z \in Seq(Seq(S)) /\ Len(<<s[i]>> ++ z) = 1 + (Len(s) - i)
    BY <1>4, <2>1, CatType, CatLen, ZenonT(30)
  <2>3. ASSUME NEW j \in 1 .. Len(y) PROVE y[j] = (<<s[i]>> ++ z)[j]
    <3>1. j \in 1 .. Len(<<s[i]>>) + Len(z)
      BY <1>1, <1>3, <1>4, <2>1
    <3>2. (<<s[i]>> ++ z)[j] = IF j <= 1 THEN <<s[i]>>[j] ELSE z[j - 1]
      BY <1>4, <2>1, <3>1, CatAt
    <3>3. y[j] = s[(i - 1) + j]
      BY <1>3
    <3>4. CASE j = 1
      <4>1. y[j] = s[i]
        BY <1>1, <3>3, <3>4
      <4> QED BY <2>1, <3>2, <3>4, <4>1
    <3>5. CASE j # 1
      <4>1. j - 1 \in 1 .. Len(s) - i /\ i + (j - 1) = (i - 1) + j /\ ~(j <= 1)
        BY <1>1, <1>3, <3>5
      <4>2. z[j - 1] = s[i + (j - 1)]
        BY <1>4, <4>1
      <4> QED BY <3>2, <3>3, <4>1, <4>2
    <3> QED BY <3>4, <3>5
  <2>4. Len(y) = Len(<<s[i]>> ++ z)
    BY <1>1, <1>3, <2>2
  <2> QED BY <1>3, <2>2, <2>3, <2>4, SeqEqual
<1>6. FlattenSeq(<<s[i]>> ++ z) = FlattenSeq(<<s[i]>>) ++ FlattenSeq(z)
  <2>1. <<s[i]>> \in Seq(Seq(S))
    BY <1>1
  <2> QED BY <1>4, <2>1, FlattenConcat
<1>7. FlattenSeq(<<s[i]>>) = s[i]
  BY <1>1, FlattenOne
<1> QED BY <1>2, <1>5, <1>6, <1>7 DEF z

LEMMA FlattenNonEmpty ==
  ASSUME NEW S, NEW s \in Seq(Seq(S)), NEW i \in 1 .. Len(s), s[i] # <<>>
  PROVE  FlattenSeq(s) # <<>>
<1> DEFINE x == FlattenSeq(SubSeq(s, 1, i - 1))
           z == FlattenSeq(SubSeq(s, i + 1, Len(s)))
<1>1. i - 1 \in 0 .. Len(s) /\ i \in 0 .. Len(s) /\ s[i] \in Seq(S)
  OBVIOUS
<1>2. SubSeq(s, 1, i - 1) \in Seq(Seq(S)) /\ SubSeq(s, i + 1, Len(s)) \in Seq(Seq(S))
  BY <1>1, Halves
<1>3. x \in Seq(S) /\ z \in Seq(S)
  BY <1>2, FlattenType
<1>4. FlattenSeq(s) = x ++ (s[i] ++ z)
  BY FlattenAround
<1> HIDE DEF x, z
<1>5. Len(s[i] ++ z) = Len(s[i]) + Len(z) /\ s[i] ++ z \in Seq(S)
  BY <1>1, <1>3, CatLen, CatType
<1>6. Len(x ++ (s[i] ++ z)) = Len(x) + (Len(s[i]) + Len(z))
  BY <1>3, <1>5, CatLen
<1>7. Len(s[i]) > 0 /\ Len(x) \in Nat /\ Len(z) \in Nat
  BY <1>1, <1>3
<1>8. Len(FlattenSeq(s)) > 0
  BY <1>4, <1>6, <1>7
<1> QED BY <1>8

-----------------------------------------------------------------------------
(* Types of the operators                                                   *)

LEMMA PlainType ==
  ASSUME NEW s \in Seq(Characters)
  PROVE  /\ Plain(s) \in Seq(Cells) /\ Len(Plain(s)) = Len(s)
         /\ \A i \in 1 .. Len(s) : Plain(s)[i].ch = s[i] /\ Plain(s)[i].bold = FALSE
<1>1. Len(s) \in Nat /\ DOMAIN s = 1 .. Len(s) /\ \A i \in 1 .. Len(s) : s[i] \in Characters
  BY SeqFacts
<1>2. Plain(s) \in [1 .. Len(s) -> Cells]
  BY <1>1 DEF Plain, Cells
<1>3. Plain(s) \in Seq(Cells) /\ Len(Plain(s)) = Len(s)
  BY <1>1, <1>2, FunIsSeq
<1> QED BY <1>1, <1>3 DEF Plain

LEMMA BreakType == Break \in Seq(Characters) /\ Len(Break) = 2
  BY CharactersAssumption DEF Break

LEMMA JoinedType ==
  ASSUME NEW s \in Seq(Seq(Characters))
  PROVE  Joined(s) \in Seq(Characters)
<1> DEFINE e == [i \in DOMAIN s |-> IF i = 1 THEN s[i] ELSE Break \o s[i]]
<1>1. Len(s) \in Nat /\ DOMAIN s = 1 .. Len(s) /\ \A i \in 1 .. Len(s) : s[i] \in Seq(Characters)
  BY SeqFacts
<1>2. \A i \in 1 .. Len(s) : Break ++ s[i] \in Seq(Characters)
  BY <1>1, BreakType, CatType
<1>3. e \in [1 .. Len(s) -> Seq(Characters)]
  BY <1>1, <1>2 DEF ++
<1>4. e \in Seq(Seq(Characters))
  BY <1>1, <1>3, FunIsSeq
<1>5. FlattenSeq(e) \in Seq(Characters)
  BY <1>4, FlattenType
<1> QED BY <1>5 DEF Joined

(* The rendering of one cell with the marks around it.                      *)
Marked(b, i) ==
  (IF b[i].bold /\ (i = 1 \/ ~b[i - 1].bold) THEN <<"<">> ELSE <<>>)
    \o <<b[i].ch>>
    \o (IF b[i].bold /\ (i = Len(b) \/ ~b[i + 1].bold) THEN <<">">> ELSE <<>>)

LEMMA MarkedType ==
  ASSUME NEW b \in Seq(Cells), NEW i \in 1 .. Len(b)
  PROVE  /\ Marked(b, i) \in Seq(Characters)
         /\ Len(Marked(b, i)) >= 1
         /\ ~b[i].bold => Marked(b, i) = <<b[i].ch>>
<1> DEFINE x == IF b[i].bold /\ (i = 1 \/ ~b[i - 1].bold) THEN <<"<">> ELSE <<>>
           y == <<b[i].ch>>
           z == IF b[i].bold /\ (i = Len(b) \/ ~b[i + 1].bold) THEN <<">">> ELSE <<>>
<1>1. b[i] \in Cells
  BY SeqFacts
<1>2. x \in Seq(Characters) /\ z \in Seq(Characters)
  BY CharactersAssumption
<1>3. y \in Seq(Characters) /\ Len(y) = 1
  BY <1>1 DEF Cells
<1>4. Marked(b, i) = x ++ y ++ z
  BY DEF Marked, ++
<1>5. ~b[i].bold => x = <<>> /\ z = <<>>
  OBVIOUS
<1> HIDE DEF x, y, z
<1>6. x ++ y \in Seq(Characters) /\ Len(x ++ y) = Len(x) + 1
  BY <1>2, <1>3, CatType, CatLen
<1>7. x ++ y ++ z \in Seq(Characters) /\ Len(x ++ y ++ z) = Len(x) + 1 + Len(z)
  BY <1>2, <1>6, CatType, CatLen
<1>8. Len(x) \in Nat /\ Len(z) \in Nat
  BY <1>2
<1>9. ~b[i].bold => x ++ y ++ z = y
  BY <1>2, <1>3, <1>5, CatEmpty
<1> QED BY <1>4, <1>7, <1>8, <1>9 DEF y

LEMMA RenderIsFlat ==
  ASSUME NEW b \in Seq(Cells)
  PROVE  /\ Render(b) = FlattenSeq([i \in 1 .. Len(b) |-> Marked(b, i)])
         /\ [i \in 1 .. Len(b) |-> Marked(b, i)] \in Seq(Seq(Characters))
         /\ Len([i \in 1 .. Len(b) |-> Marked(b, i)]) = Len(b)
<1>1. Len(b) \in Nat /\ DOMAIN b = 1 .. Len(b)
  BY SeqFacts
<1>2. [i \in 1 .. Len(b) |-> Marked(b, i)] \in [1 .. Len(b) -> Seq(Characters)]
  BY MarkedType
<1>3. Render(b) = FlattenSeq([i \in 1 .. Len(b) |-> Marked(b, i)])
  BY <1>1 DEF Render, Marked
<1> QED BY <1>1, <1>2, <1>3, FunIsSeq

LEMMA RenderType ==
  ASSUME NEW b \in Seq(Cells)
  PROVE  Render(b) \in Seq(Characters)
BY RenderIsFlat, FlattenType

LEMMA ExtractTextType ==
  ASSUME NEW d \in Seq(Seq(Cells))
  PROVE  ExtractText(d) \in Seq(Characters)
<1>1. Len(d) \in Nat /\ DOMAIN d = 1 .. Len(d) /\ \A i \in 1 .. Len(d) : d[i] \in Seq(Cells)
  BY SeqFacts
<1>2. [i \in 1 .. Len(d) |-> Render(d[i])] \in [1 .. Len(d) -> Seq(Characters)]
  BY <1>1, RenderType
<1>3. [i \in 1 .. Len(d) |-> Render(d[i])] \in Seq(Seq(Characters))
  BY <1>1, <1>2, FunIsSeq
<1> QED BY <1>1, <1>3, JoinedType DEF ExtractText

(* The ranges of the nodes: they start at 0, and two places after the node  *)
(* before them.                                                             *)
LEMMA Nodes ==
  ASSUME NEW d \in Seq(Seq(Cells))
  PROVE  LET node == LinearizeXmlText(d)
         IN /\ DOMAIN node = 1 .. Len(d)
            /\ \A i \in 1 .. Len(d) :
                 /\ node[i].start \in Nat
                 /\ node[i].end = node[i].start + Len(Render(d[i]))
            /\ Len(d) > 0 => node[1].start = 0
            /\ \A i \in 2 .. Len(d) : node[i].start = node[i - 1].end + 2
<1> DEFINE len(i) == Len(Render(d[i]))
           Eq(f) == f = [i \in DOMAIN d |-> IF i = 1 THEN 0
                           ELSE f[i - 1] + Len(Render(d[i - 1])) + Len(Break)]
           start == CHOOSE f : Eq(f)
           step == [p \in (1 .. Len(d)) \X Nat |->
                      IF p[1] = 1 THEN 0 ELSE p[2] + len(p[1] - 1) + 2]
<1>1. Len(d) \in Nat /\ DOMAIN d = 1 .. Len(d)
  BY SeqFacts
<1>2. \A i \in 1 .. Len(d) : len(i) \in Nat
  <2> SUFFICES ASSUME NEW i \in 1 .. Len(d) PROVE len(i) \in Nat
    OBVIOUS
  <2>1. d[i] \in Seq(Cells)
    BY SeqFacts
  <2>2. Render(d[i]) \in Seq(Characters)
    BY <2>1, RenderType
  <2> QED BY <2>2, SeqFacts
<1>3. step \in [(1 .. Len(d)) \X Nat -> Nat]
  <2> SUFFICES ASSUME NEW p \in (1 .. Len(d)) \X Nat
               PROVE (IF p[1] = 1 THEN 0 ELSE p[2] + len(p[1] - 1) + 2) \in Nat
    OBVIOUS
  <2>1. p[1] \in 1 .. Len(d) /\ p[2] \in Nat
    OBVIOUS
  <2>2. p[1] # 1 => p[1] - 1 \in 1 .. Len(d)
    BY <1>1, <2>1
  <2>3. p[1] = 1 \/ p[1] # 1
    OBVIOUS
  <2>4. p[1] # 1 => len(p[1] - 1) \in Nat
    BY <1>2, <2>2
  <2> HIDE DEF len
  <2> QED BY <2>1, <2>3, <2>4, SMTT(20)
<1>4. PICK g \in [0 .. Len(d) -> Nat] : Follows(g, Len(d), 0, step)
  <2> HIDE DEF step
  <2> QED BY <1>1, <1>3, Recursion
<1>5. ASSUME NEW i \in 1 .. Len(d)
      PROVE g[i] \in Nat /\ g[i] = IF i = 1 THEN 0 ELSE g[i - 1] + len(i - 1) + 2
  <2>1. i - 1 \in 0 .. Len(d) /\ i \in 0 .. Len(d)
    BY <1>1
  <2>2. <<i, g[i - 1]>> \in (1 .. Len(d)) \X Nat /\ g[i] \in Nat
    BY <2>1
  <2>3. g[i] = step[<<i, g[i - 1]>>]
    BY <1>4 DEF Follows
  <2> HIDE DEF len
  <2> QED BY <2>2, <2>3
<1> HIDE DEF step
<1>6. Eq([i \in 1 .. Len(d) |-> g[i]])
  <2>1. ASSUME NEW i \in 1 .. Len(d)
        PROVE g[i] = IF i = 1 THEN 0
                     ELSE [j \in 1 .. Len(d) |-> g[j]][i - 1] + Len(Render(d[i - 1])) + Len(Break)
    <3>1. i # 1 => i - 1 \in 1 .. Len(d)
      BY <1>1
    <3> QED BY <1>5, <3>1, BreakType
  <2> QED BY <1>1, <2>1
<1>7. Eq(start)
  <2> HIDE DEF Eq
  <2> QED BY <1>6
<1> DEFINE node == LinearizeXmlText(d)
<1>9. node = [i \in DOMAIN d |-> [start |-> start[i], end |-> start[i] + len(i)]]
  BY DEF LinearizeXmlText
<1> HIDE DEF start, node
<1>10. ASSUME NEW i \in 1 .. Len(d)
       PROVE /\ start[i] = IF i = 1 THEN 0 ELSE start[i - 1] + len(i - 1) + 2
             /\ node[i].start = start[i] /\ node[i].end = start[i] + len(i)
  BY <1>1, <1>7, <1>9, BreakType
<1> DEFINE P == {i \in Nat : i + 1 <= Len(d) => start[i + 1] \in Nat}
<1>11. 0 \in P
  BY <1>1, <1>10
<1>12. ASSUME NEW i \in Nat, i \in P PROVE i + 1 \in P
  <2> SUFFICES ASSUME i + 2 <= Len(d) PROVE start[i + 2] \in Nat
    OBVIOUS
  <2>1. i + 2 \in 1 .. Len(d) /\ i + 1 \in 1 .. Len(d) /\ (i + 2) - 1 = i + 1 /\ i + 2 # 1
    BY <1>1
  <2>2. start[i + 2] = start[i + 1] + len(i + 1) + 2
    BY <1>10, <2>1
  <2> HIDE DEF len
  <2> QED BY <1>2, <1>12, <2>1, <2>2
<1>13. \A i \in Nat : i \in P
  <2> HIDE DEF P
  <2> QED BY <1>11, <1>12, Induction
<1>14. ASSUME NEW i \in 1 .. Len(d) PROVE start[i] \in Nat
  <2>1. i - 1 \in Nat /\ (i - 1) + 1 = i /\ i <= Len(d)
    BY <1>1
  <2>2. i - 1 \in P
    BY <1>13, <2>1
  <2> QED BY <2>1, <2>2
<1>15. DOMAIN node = 1 .. Len(d)
  BY <1>1, <1>9
<1>16. Len(d) > 0 => node[1].start = 0
  BY <1>1, <1>10
<1>17. ASSUME NEW i \in 2 .. Len(d) PROVE node[i].start = node[i - 1].end + 2
  <2>1. i \in 1 .. Len(d) /\ i - 1 \in 1 .. Len(d) /\ i # 1
    BY <1>1
  <2> HIDE DEF len
  <2> QED BY <1>10, <2>1
<1> QED BY <1>10, <1>14, <1>15, <1>16, <1>17 DEF node

Start(d, i) == LinearizeXmlText(d)[i].start
End(d, i) == LinearizeXmlText(d)[i].end

LEMMA Bounds ==
  ASSUME NEW d \in Seq(Seq(Cells))
  PROVE  /\ DOMAIN LinearizeXmlText(d) = 1 .. Len(d)
         /\ \A i \in 1 .. Len(d) :
              /\ Start(d, i) \in Nat /\ End(d, i) \in Nat
              /\ Len(Render(d[i])) \in Nat
              /\ End(d, i) = Start(d, i) + Len(Render(d[i]))
         /\ Len(d) > 0 => Start(d, 1) = 0
         /\ \A i \in 2 .. Len(d) : Start(d, i) = End(d, i - 1) + 2
<1>1. \A i \in 1 .. Len(d) : Len(Render(d[i])) \in Nat
  <2> SUFFICES ASSUME NEW i \in 1 .. Len(d) PROVE Len(Render(d[i])) \in Nat
    OBVIOUS
  <2>1. d[i] \in Seq(Cells)
    BY SeqFacts
  <2>2. Render(d[i]) \in Seq(Characters)
    BY <2>1, RenderType
  <2> QED BY <2>2, SeqFacts
<1>2. /\ DOMAIN LinearizeXmlText(d) = 1 .. Len(d)
      /\ \A i \in 1 .. Len(d) :
           Start(d, i) \in Nat /\ End(d, i) = Start(d, i) + Len(Render(d[i]))
      /\ Len(d) > 0 => Start(d, 1) = 0
      /\ \A i \in 2 .. Len(d) : Start(d, i) = End(d, i - 1) + 2
  BY Nodes DEF Start, End
<1> QED BY <1>1, <1>2

(* The ranges are in the order of the nodes.                                *)
LEMMA Ascending ==
  ASSUME NEW d \in Seq(Seq(Cells))
  PROVE  \A i, j \in 1 .. Len(d) : i < j => End(d, i) + 2 <= Start(d, j)
<1> DEFINE P == {k \in Nat : \A i \in 1 .. Len(d) :
                   i + 1 + k <= Len(d) => End(d, i) + 2 <= Start(d, i + 1 + k)}
<1>1. Len(d) \in Nat
  OBVIOUS
<1>2. 0 \in P
  BY <1>1, Bounds
<1>3. ASSUME NEW k \in Nat, k \in P PROVE k + 1 \in P
  <2> SUFFICES ASSUME NEW i \in 1 .. Len(d), i + 1 + (k + 1) <= Len(d)
               PROVE End(d, i) + 2 <= Start(d, i + 1 + (k + 1))
    OBVIOUS
  <2> DEFINE j == i + 1 + k
  <2>1. End(d, i) + 2 <= Start(d, j)
    BY <1>1, <1>3
  <2>2. j \in 1 .. Len(d) /\ j + 1 \in 2 .. Len(d) /\ (j + 1) - 1 = j
        /\ i + 1 + (k + 1) = j + 1
    BY <1>1
  <2> HIDE DEF j
  <2>3. Start(d, j + 1) = End(d, j) + 2 /\ End(d, j) = Start(d, j) + Len(Render(d[j]))
    BY <2>2, Bounds
  <2>4. /\ Len(Render(d[j])) \in Nat /\ Start(d, j) \in Nat /\ End(d, i) \in Nat
        /\ Start(d, j + 1) \in Nat
    BY <2>2, Bounds
  <2> DEFINE r == Len(Render(d[j]))
  <2> HIDE DEF r
  <2>5. Start(d, j + 1) = Start(d, j) + r + 2 /\ r \in Nat
    BY <2>3, <2>4 DEF r
  <2>6. End(d, i) + 2 <= Start(d, j + 1)
    BY <2>1, <2>4, <2>5, SMTT(20)
  <2> QED BY <2>2, <2>6
<1>4. \A k \in Nat : k \in P
  <2> HIDE DEF P
  <2> QED BY <1>2, <1>3, Induction
<1> SUFFICES ASSUME NEW i \in 1 .. Len(d), NEW j \in 1 .. Len(d), i < j
             PROVE End(d, i) + 2 <= Start(d, j)
  OBVIOUS
<1>5. j - i - 1 \in Nat /\ i + 1 + (j - i - 1) = j
  BY <1>1
<1>6. j - i - 1 \in P
  <2> HIDE DEF P
  <2> QED BY <1>4, <1>5
<1> QED BY <1>5, <1>6

(* The marks of characters typed together.                                  *)
Typed(s, bold) == [i \in DOMAIN s |-> [ch |-> s[i], bold |-> bold]]

LEMMA TypedType ==
  ASSUME NEW s \in Seq(Characters), NEW bold \in BOOLEAN
  PROVE  /\ Typed(s, bold) \in Seq(Cells) /\ Len(Typed(s, bold)) = Len(s)
         /\ \A i \in 1 .. Len(s) : Typed(s, bold)[i].ch = s[i] /\ Typed(s, bold)[i].bold = bold
<1>1. Len(s) \in Nat /\ DOMAIN s = 1 .. Len(s) /\ \A i \in 1 .. Len(s) : s[i] \in Characters
  BY SeqFacts
<1>2. Typed(s, bold) \in [1 .. Len(s) -> Cells]
  BY <1>1 DEF Typed, Cells
<1>3. Typed(s, bold) \in Seq(Cells) /\ Len(Typed(s, bold)) = Len(s)
  BY <1>1, <1>2, FunIsSeq
<1> QED BY <1>1, <1>3 DEF Typed

LEMMA YInsertValue ==
  ASSUME NEW b \in Seq(Cells), NEW offset \in Nat, NEW s \in Seq(Characters)
  PROVE  LET k == IF offset <= Len(b) THEN offset ELSE Len(b)
             bold == k > 0 /\ b[k].bold
         IN /\ YInsert(b, offset, s) =
                 Slice(b, 0, k) ++ Typed(s, bold) ++ Slice(b, k, Len(b))
            /\ bold \in BOOLEAN
            /\ YInsert(b, offset, s) \in Seq(Cells)
            /\ Len(YInsert(b, offset, s)) = Len(b) + Len(s)
<1> DEFINE k == IF offset <= Len(b) THEN offset ELSE Len(b)
           bold == k > 0 /\ b[k].bold
<1>1. Len(b) \in Nat /\ k \in 0 .. Len(b)
  OBVIOUS
<1>2. Min({offset, Len(b)}) = k
  BY <1>1, MinPair
<1>3. k > 0 => k \in 1 .. Len(b) /\ b[k] \in Cells
  BY <1>1
<1>4. bold \in BOOLEAN
  BY <1>3 DEF Cells
<1> HIDE DEF k
<1>5. k > 0 => Max({k, 1}) = k
  BY <1>1, MaxPair
<1>6. (k > 0 /\ b[Max({k, 1})].bold) = bold
  BY <1>5
<1> HIDE DEF bold
<1>7. YInsert(b, offset, s) = Slice(b, 0, k) ++ Typed(s, bold) ++ Slice(b, k, Len(b))
  BY <1>2, <1>6 DEF YInsert, Typed, ++
<1>8. /\ Slice(b, 0, k) \in Seq(Cells) /\ Len(Slice(b, 0, k)) = k
      /\ Slice(b, k, Len(b)) \in Seq(Cells) /\ Len(Slice(b, k, Len(b))) = Len(b) - k
  BY <1>1, Parts
<1>9. Typed(s, bold) \in Seq(Cells) /\ Len(Typed(s, bold)) = Len(s)
  BY <1>4, TypedType
<1>10. /\ Slice(b, 0, k) ++ Typed(s, bold) \in Seq(Cells)
       /\ Len(Slice(b, 0, k) ++ Typed(s, bold)) = k + Len(s)
  BY <1>8, <1>9, CatType, CatLen
<1>11. YInsert(b, offset, s) \in Seq(Cells)
       /\ Len(YInsert(b, offset, s)) = k + Len(s) + (Len(b) - k)
  BY <1>7, <1>8, <1>10, CatType, CatLen
<1>12. Len(s) \in Nat
  OBVIOUS
<1>13. Len(YInsert(b, offset, s)) = Len(b) + Len(s)
  BY <1>1, <1>11, <1>12
<1> QED BY <1>4, <1>7, <1>11, <1>13 DEF k, bold

LEMMA YDeleteType ==
  ASSUME NEW b \in Seq(Cells), NEW offset \in Nat, NEW length \in Nat
  PROVE  YDelete(b, offset, length) \in Seq(Cells)
<1>1. Slice(b, 0, offset) \in Seq(Cells) /\ Slice(b, offset + length, Len(b)) \in Seq(Cells)
  <2>1. offset + length \in Nat /\ 0 \in Nat /\ offset \in Int /\ Len(b) \in Int
    OBVIOUS
  <2>2. Slice(b, 0, offset) \in Seq(Cells)
    BY <2>1, SliceFacts
  <2>3. Slice(b, offset + length, Len(b)) \in Seq(Cells)
    BY <2>1, SliceFacts
  <2> QED BY <2>2, <2>3
<1> QED BY <1>1, CatType DEF YDelete, ++

LEMMA YFormatType ==
  ASSUME NEW b \in Seq(Cells), NEW offset \in Nat, NEW length \in Nat
  PROVE  YFormat(b, offset, length) \in Seq(Cells)
<1> DEFINE short == Max({0, offset + length - Len(b)})
           x == [i \in DOMAIN b |-> IF offset < i /\ i <= offset + length
                                      THEN [b[i] EXCEPT !.bold = TRUE] ELSE b[i]]
           n == Min({short, length})
           y == [i \in 1 .. n |-> [ch |-> "nl", bold |-> TRUE]]
<1>1. Len(b) \in Nat /\ DOMAIN b = 1 .. Len(b) /\ \A i \in 1 .. Len(b) : b[i] \in Cells
  BY SeqFacts
<1>2. short \in Nat
  BY <1>1, MaxPair
<1>3. n \in Nat
  <2> HIDE DEF short
  <2> QED BY <1>2, MinPair
<1>4. x \in [1 .. Len(b) -> Cells]
  BY <1>1 DEF Cells
<1>5. x \in Seq(Cells)
  BY <1>1, <1>4, FunIsSeq
<1> HIDE DEF n, x
<1>6. y \in [1 .. n -> Cells]
  BY CharactersAssumption DEF Cells
<1>7. y \in Seq(Cells)
  BY <1>3, <1>6, FunIsSeq
<1>8. YFormat(b, offset, length) = x ++ y
  BY DEF YFormat, x, n, ++
<1> HIDE DEF y
<1> QED BY <1>5, <1>7, <1>8, CatType

(* The paragraphs that the last segments of a text become.                  *)
Fresh(segments, tail) ==
  [i \in 1 .. Len(segments) - 1 |->
     Plain(IF i < Len(segments) - 1 THEN segments[i + 1] ELSE segments[i + 1] \o tail)]

LEMMA FreshType ==
  ASSUME NEW segments \in Texts, NEW tail \in Seq(Characters)
  PROVE  /\ Fresh(segments, tail) \in Seq(Seq(Cells))
         /\ Len(Fresh(segments, tail)) = Len(segments) - 1
         /\ Len(segments) \in Nat \ {0} /\ segments[1] \in Seq(Characters)
         /\ Head(segments) = segments[1] /\ segments \in Seq(Seq(Characters))
<1>1. segments \in Seq(Seq(Characters)) /\ segments # <<>>
  BY TextsAssumption
<1>2. Len(segments) \in Nat \ {0} /\ \A i \in 1 .. Len(segments) : segments[i] \in Seq(Characters)
  BY <1>1
<1>3. Head(segments) = segments[1] /\ segments[1] \in Seq(Characters)
  BY <1>1, <1>2
<1>4. ASSUME NEW i \in 1 .. Len(segments) - 1
      PROVE Plain(IF i < Len(segments) - 1 THEN segments[i + 1]
                                           ELSE segments[i + 1] \o tail) \in Seq(Cells)
  <2>1. i + 1 \in 1 .. Len(segments)
    BY <1>2
  <2>2. segments[i + 1] \in Seq(Characters)
    BY <1>2, <2>1
  <2>3. segments[i + 1] ++ tail \in Seq(Characters)
    BY <2>2, CatType
  <2>4. (IF i < Len(segments) - 1 THEN segments[i + 1]
                                  ELSE segments[i + 1] ++ tail) \in Seq(Characters)
    BY <2>2, <2>3
  <2> QED BY <2>4, PlainType DEF ++
<1>5. Fresh(segments, tail) \in [1 .. Len(segments) - 1 -> Seq(Cells)]
  BY <1>4 DEF Fresh
<1>6. Len(segments) - 1 \in Nat
  BY <1>2
<1>7. Fresh(segments, tail) \in Seq(Seq(Cells)) /\ Len(Fresh(segments, tail)) = Len(segments) - 1
  BY <1>5, <1>6, FunIsSeq
<1> QED BY <1>1, <1>2, <1>3, <1>7

LEMMA InsertBlocksValue ==
  ASSUME NEW d \in Seq(Seq(Cells)), NEW t \in 1 .. Len(d),
         NEW offset \in 0 .. Len(Render(d[t])), NEW segments \in Texts
  PROVE  LET tail == Slice(Render(d[t]), offset, Len(Render(d[t])))
             kept == YDelete(d[t], offset, Len(Render(d[t])) - offset)
         IN /\ InsertBlocks(d, t, offset, segments) =
                 SubSeq(d, 1, t - 1) ++ <<YInsert(kept, offset, segments[1])>>
                   ++ Fresh(segments, tail) ++ SubSeq(d, t + 1, Len(d))
            /\ tail \in Seq(Characters) /\ kept \in Seq(Cells)
            /\ YInsert(kept, offset, segments[1]) \in Seq(Cells)
            /\ InsertBlocks(d, t, offset, segments) \in Seq(Seq(Cells)) \ {<<>>}
<1> DEFINE text == Render(d[t])
           tail == Slice(text, offset, Len(text))
           kept == YDelete(d[t], offset, Len(text) - offset)
           new == YInsert(kept, offset, segments[1])
           x == SubSeq(d, 1, t - 1)
           y == Fresh(segments, tail)
           z == SubSeq(d, t + 1, Len(d))
<1>1. d[t] \in Seq(Cells)
  OBVIOUS
<1>2. text \in Seq(Characters)
  BY <1>1, RenderType
<1>3. Len(text) \in Nat /\ offset \in Nat /\ Len(text) - offset \in Nat
  <2> HIDE DEF text
  <2>1. Len(text) \in Nat
    BY <1>2
  <2> QED BY <2>1 DEF text
<1>4. tail \in Seq(Characters)
  <2>1. offset \in 0 .. Len(text)
    OBVIOUS
  <2> HIDE DEF text
  <2> QED BY <1>2, <2>1, Parts
<1>5. kept \in Seq(Cells)
  <2> HIDE DEF text
  <2> QED BY <1>1, <1>3, YDeleteType
<1>6. Fresh(segments, tail) \in Seq(Seq(Cells)) /\ segments[1] \in Seq(Characters)
      /\ Head(segments) = segments[1]
  <2> HIDE DEF tail
  <2> QED BY <1>4, FreshType
<1>7. new \in Seq(Cells)
  <2> HIDE DEF kept
  <2> QED BY <1>3, <1>5, <1>6, YInsertValue
<1>8. x \in Seq(Seq(Cells)) /\ z \in Seq(Seq(Cells)) /\ Len(x) = t - 1
  <2>1. Len(d) \in Nat /\ t - 1 \in 0 .. Len(d) /\ t \in 0 .. Len(d)
    OBVIOUS
  <2> QED BY <2>1, Halves
<1>9. InsertBlocks(d, t, offset, segments) = x ++ <<new>> ++ y ++ z
  BY <1>6 DEF InsertBlocks, Fresh, ++
<1>10. x ++ <<new>> ++ y ++ z \in Seq(Seq(Cells)) \ {<<>>}
  <2> HIDE DEF x, y, z, new
  <2>1. <<new>> \in Seq(Seq(Cells)) /\ Len(<<new>>) = 1
    BY <1>7
  <2>2. x ++ <<new>> \in Seq(Seq(Cells)) /\ Len(x ++ <<new>>) = (t - 1) + 1
    BY <1>8, <2>1, CatType, CatLen
  <2>3. y \in Seq(Seq(Cells))
    BY <1>6 DEF y
  <2>4. x ++ <<new>> ++ y \in Seq(Seq(Cells)) /\ Len(x ++ <<new>> ++ y) = (t - 1) + 1 + Len(y)
    BY <2>2, <2>3, CatType, CatLen
  <2>5. /\ x ++ <<new>> ++ y ++ z \in Seq(Seq(Cells))
        /\ Len(x ++ <<new>> ++ y ++ z) = (t - 1) + 1 + Len(y) + Len(z)
    BY <1>8, <2>4, CatType, CatLen
  <2>6. Len(y) \in Nat /\ Len(z) \in Nat
    BY <1>8, <2>3
  <2>7. Len(x ++ <<new>> ++ y ++ z) # 0
    BY <2>5, <2>6
  <2> QED BY <2>5, <2>7
<1> HIDE DEF new, x, y, z, tail, kept, text
<1> QED BY <1>4, <1>5, <1>7, <1>9, <1>10 DEF new, x, y, z, tail, kept, text

(* The nodes that reach up to a position.                                   *)
Owners(d, position) == {i \in DOMAIN d : position <= LinearizeXmlText(d)[i].end}
Target(d, position) ==
  IF Owners(d, position) = {} THEN Len(d) ELSE Min(Owners(d, position))
Offset(d, position) ==
  Clamp(position - Start(d, Target(d, position)), 0,
        End(d, Target(d, position)) - Start(d, Target(d, position)))

LEMMA TargetType ==
  ASSUME NEW d \in Seq(Seq(Cells)), d # <<>>, NEW position \in Nat
  PROVE  /\ Target(d, position) \in 1 .. Len(d)
         /\ Offset(d, position) \in 0 .. Len(Render(d[Target(d, position)]))
<1> DEFINE t == Target(d, position)
<1>1. Len(d) \in Nat \ {0} /\ DOMAIN d = 1 .. Len(d)
  OBVIOUS
<1>2. t \in 1 .. Len(d)
  <2>1. CASE Owners(d, position) = {}
    BY <1>1, <2>1 DEF Target
  <2>2. CASE Owners(d, position) # {}
    <3>1. Owners(d, position) \in SUBSET Nat /\ Owners(d, position) \subseteq 1 .. Len(d)
      BY <1>1 DEF Owners
    <3>2. Min(Owners(d, position)) \in Owners(d, position)
      BY <2>2, <3>1, MinOfSome
    <3> QED BY <2>2, <3>1, <3>2 DEF Target
  <2> QED BY <2>1, <2>2
<1> HIDE DEF t
<1>3. /\ Start(d, t) \in Nat /\ Len(Render(d[t])) \in Nat
      /\ End(d, t) = Start(d, t) + Len(Render(d[t]))
  BY <1>2, Bounds
<1> DEFINE n == Len(Render(d[t]))
           v == position - Start(d, t)
<1>4. End(d, t) - Start(d, t) = n /\ n \in Nat /\ v \in Int
  BY <1>3
<1>5. Offset(d, position) = Clamp(v, 0, n)
  BY <1>4 DEF Offset, t
<1> HIDE DEF n, v
<1>6. Clamp(v, 0, n) \in 0 .. n
  BY <1>4, ClampValue
<1> QED BY <1>2, <1>5, <1>6 DEF n, t

(* The paragraphs of a text.                                                *)
Paragraphs(segments) == [i \in 1 .. Len(segments) |-> Plain(segments[i])]

LEMMA InsertTextValue ==
  ASSUME NEW d \in Seq(Seq(Cells)), NEW position \in Nat, NEW segments \in Texts
  PROVE  /\ d = <<>> => InsertText(d, position, segments) = Paragraphs(segments)
         /\ d # <<>> /\ Len(segments) = 1 =>
              InsertText(d, position, segments) =
                [d EXCEPT ![Target(d, position)] =
                   YInsert(d[Target(d, position)], Offset(d, position), segments[1])]
         /\ d # <<>> /\ Len(segments) # 1 =>
              InsertText(d, position, segments) =
                InsertBlocks(d, Target(d, position), Offset(d, position), segments)
<1> DEFINE t == Owner(d, position)
           offset == LocalOffset(d, position)
<1>2. t = Target(d, position)
  BY DEF Owner, Owners, Target
<1>3. offset = Offset(d, position)
  BY <1>2 DEF LocalOffset, Offset, Start, End
<1>4. DOMAIN segments = 1 .. Len(segments)
  BY TextsAssumption
<1>5. InsertText(d, position, segments) =
        IF d = <<>> THEN [i \in DOMAIN segments |-> Plain(segments[i])]
        ELSE IF Len(segments) = 1 THEN [d EXCEPT ![t] = YInsert(@, offset, segments[1])]
        ELSE InsertBlocks(d, t, offset, segments)
  BY DEF InsertText
<1> HIDE DEF t, offset
<1>6. [d EXCEPT ![t] = YInsert(@, offset, segments[1])]
        = [d EXCEPT ![t] = YInsert(d[t], offset, segments[1])]
  OBVIOUS
<1>7. ASSUME d = <<>>
      PROVE  InsertText(d, position, segments) = Paragraphs(segments)
  BY <1>4, <1>5, <1>7 DEF Paragraphs
<1>8. ASSUME d # <<>>, Len(segments) = 1
      PROVE  InsertText(d, position, segments) =
               [d EXCEPT ![Target(d, position)] =
                  YInsert(d[Target(d, position)], Offset(d, position), segments[1])]
  BY <1>2, <1>3, <1>5, <1>6, <1>8
<1>9. ASSUME d # <<>>, Len(segments) # 1
      PROVE  InsertText(d, position, segments) =
               InsertBlocks(d, Target(d, position), Offset(d, position), segments)
  BY <1>2, <1>3, <1>5, <1>9
<1> QED BY <1>7, <1>8, <1>9

LEMMA InsertTextType ==
  ASSUME NEW d \in Seq(Seq(Cells)), NEW position \in Nat, NEW segments \in Texts
  PROVE  InsertText(d, position, segments) \in Seq(Seq(Cells)) \ {<<>>}
<1> DEFINE t == Target(d, position)
           offset == Offset(d, position)
<1>1. segments \in Seq(Seq(Characters)) /\ Len(segments) \in Nat \ {0}
      /\ segments[1] \in Seq(Characters)
  <2>1. <<>> \in Seq(Characters)
    OBVIOUS
  <2> QED BY <2>1, FreshType
<1>2. CASE d = <<>>
  <2>1. \A i \in 1 .. Len(segments) : segments[i] \in Seq(Characters)
    BY <1>1
  <2>2. \A i \in 1 .. Len(segments) : Plain(segments[i]) \in Seq(Cells)
    BY <2>1, PlainType
  <2> DEFINE f == Paragraphs(segments)
  <2>3. f \in [1 .. Len(segments) -> Seq(Cells)]
    BY <2>2 DEF Paragraphs
  <2>4. InsertText(d, position, segments) = f
    BY <1>2, InsertTextValue, ZenonT(30)
  <2> HIDE DEF f
  <2>5. f \in Seq(Seq(Cells)) /\ Len(f) = Len(segments)
    BY <1>1, <2>3, FunIsSeq
  <2> QED BY <1>1, <2>4, <2>5
<1>3. CASE d # <<>>
  <2>0. t \in 1 .. Len(d) /\ offset \in 0 .. Len(Render(d[t]))
    BY <1>3, TargetType
  <2>1. t \in 1 .. Len(d) /\ offset \in 0 .. Len(Render(d[t])) /\ d[t] \in Seq(Cells)
    <3> HIDE DEF t, offset
    <3> QED BY <2>0, SeqFacts
  <2>2. offset \in Nat
    BY <2>1, Bounds
  <2> HIDE DEF t, offset
  <2>3. CASE Len(segments) = 1
    <3>1. InsertText(d, position, segments) = [d EXCEPT ![t] = YInsert(d[t], offset, segments[1])]
      BY <1>3, <2>3, InsertTextValue DEF t, offset
    <3>2. YInsert(d[t], offset, segments[1]) \in Seq(Cells)
      BY <1>1, <2>1, <2>2, YInsertValue
    <3>3. /\ [d EXCEPT ![t] = YInsert(d[t], offset, segments[1])] \in Seq(Seq(Cells))
          /\ Len([d EXCEPT ![t] = YInsert(d[t], offset, segments[1])]) = Len(d)
      BY <2>1, <3>2, ExceptSeq
    <3> QED BY <1>3, <3>1, <3>3
  <2>4. CASE Len(segments) # 1
    <3>1. InsertText(d, position, segments) = InsertBlocks(d, t, offset, segments)
      BY <1>3, <2>4, InsertTextValue DEF t, offset
    <3> QED BY <2>1, <3>1, InsertBlocksValue
  <2> QED BY <2>3, <2>4
<1> QED BY <1>2, <1>3

(* The part of a range that lies in a node.                                 *)
From(d, start, i) == IF start >= Start(d, i) THEN start ELSE Start(d, i)
Upto(d, end, i) == IF end <= End(d, i) THEN end ELSE End(d, i)

LEMMA OverlapsAny ==
  ASSUME NEW d \in Seq(Seq(Cells)), NEW start \in Int, NEW end \in Int
  PROVE  /\ DOMAIN Overlaps(d, start, end) =
               {i \in 1 .. Len(d) : From(d, start, i) < Upto(d, end, i)}
         /\ \A i \in DOMAIN Overlaps(d, start, end) :
              LET o == Overlaps(d, start, end)[i]
              IN /\ o.offset = From(d, start, i) - Start(d, i)
                 /\ o.length = Upto(d, end, i) - From(d, start, i)
                 /\ o.offset \in Nat /\ o.length \in Nat
<1>1. ASSUME NEW i \in 1 .. Len(d)
      PROVE /\ Max({start, LinearizeXmlText(d)[i].start}) = From(d, start, i)
            /\ Min({end, LinearizeXmlText(d)[i].end}) = Upto(d, end, i)
            /\ From(d, start, i) - Start(d, i) \in Nat
            /\ From(d, start, i) < Upto(d, end, i) =>
                 Upto(d, end, i) - From(d, start, i) \in Nat
  <2>1. Start(d, i) \in Nat /\ End(d, i) \in Nat
    BY Bounds
  <2>2. Max({start, Start(d, i)}) = From(d, start, i)
    BY <2>1, MaxPair, SMTT(30) DEF From
  <2> DEFINE e == End(d, i)
  <2>3. Min({end, e}) = Upto(d, end, i)
    <3>1. e \in Int /\ end \in Int
      BY <2>1
    <3>2. Upto(d, end, i) = IF end <= e THEN end ELSE e
      BY DEF Upto
    <3> HIDE DEF e
    <3> QED BY <3>1, <3>2, MinPair
  <2>4. From(d, start, i) \in Nat /\ Upto(d, end, i) \in Int /\ From(d, start, i) >= Start(d, i)
    BY <2>1 DEF From, Upto
  <2> QED BY <2>1, <2>2, <2>3, <2>4, SMTT(20) DEF Start, End
<1>2. DOMAIN d = 1 .. Len(d)
  OBVIOUS
<1>3. Overlaps(d, start, end) =
        [i \in {i \in 1 .. Len(d) : From(d, start, i) < Upto(d, end, i)} |->
           [offset |-> From(d, start, i) - Start(d, i),
            length |-> Upto(d, end, i) - From(d, start, i)]]
  <2>1. {i \in 1 .. Len(d) : From(d, start, i) < Upto(d, end, i)} =
          {i \in 1 .. Len(d) : Max({start, LinearizeXmlText(d)[i].start})
                                 < Min({end, LinearizeXmlText(d)[i].end})}
    BY <1>1
  <2>2. Overlaps(d, start, end) =
          [i \in {i \in 1 .. Len(d) : Max({start, LinearizeXmlText(d)[i].start})
                                         < Min({end, LinearizeXmlText(d)[i].end})} |->
             [offset |-> Max({start, LinearizeXmlText(d)[i].start})
                           - LinearizeXmlText(d)[i].start,
              length |-> Min({end, LinearizeXmlText(d)[i].end})
                           - Max({start, LinearizeXmlText(d)[i].start})]]
    BY <1>2 DEF Overlaps
  <2> QED BY <1>1, <2>1, <2>2 DEF Start
<1> DEFINE o == Overlaps(d, start, end)
<1>4. DOMAIN o = {i \in 1 .. Len(d) : From(d, start, i) < Upto(d, end, i)}
  BY <1>3
<1>5. ASSUME NEW i \in DOMAIN o
      PROVE  /\ o[i].offset = From(d, start, i) - Start(d, i)
             /\ o[i].length = Upto(d, end, i) - From(d, start, i)
  BY <1>3, <1>5
<1> HIDE DEF o
<1>6. ASSUME NEW i \in DOMAIN o
      PROVE  o[i].offset \in Nat /\ o[i].length \in Nat
  <2>1. i \in 1 .. Len(d) /\ From(d, start, i) < Upto(d, end, i)
    BY <1>4
  <2> QED BY <1>1, <1>5, <2>1
<1> QED BY <1>4, <1>5, <1>6 DEF o

LEMMA OverlapsValue ==
  ASSUME NEW d \in Seq(Seq(Cells)), NEW start \in Nat, NEW end \in Nat
  PROVE  /\ DOMAIN Overlaps(d, start, end) =
               {i \in 1 .. Len(d) : From(d, start, i) < Upto(d, end, i)}
         /\ \A i \in DOMAIN Overlaps(d, start, end) :
              LET o == Overlaps(d, start, end)[i]
              IN /\ o.offset = From(d, start, i) - Start(d, i)
                 /\ o.length = Upto(d, end, i) - From(d, start, i)
                 /\ o.offset \in Nat /\ o.length \in Nat
<1>1. start \in Int /\ end \in Int
  OBVIOUS
<1> QED BY <1>1, OverlapsAny

(* What a range edit makes of the paragraphs, before any of them is removed. *)
Cleared(d, start, end) ==
  LET o == Overlaps(d, start, end)
  IN [i \in DOMAIN d |->
        IF i \in DOMAIN o THEN YDelete(d[i], o[i].offset, o[i].length) ELSE d[i]]

LEMMA ClearedType ==
  ASSUME NEW d \in Seq(Seq(Cells)), NEW start \in Int, NEW end \in Int
  PROVE  /\ Cleared(d, start, end) \in Seq(Seq(Cells))
         /\ Len(Cleared(d, start, end)) = Len(d)
         /\ DeleteText(d, start, end) =
              PruneEmptyBlocks(Cleared(d, start, end), DOMAIN Overlaps(d, start, end))
<1> DEFINE o == Overlaps(d, start, end)
<1>1. Len(d) \in Nat /\ DOMAIN d = 1 .. Len(d) /\ \A i \in 1 .. Len(d) : d[i] \in Seq(Cells)
  BY SeqFacts
<1>2. ASSUME NEW i \in 1 .. Len(d), i \in DOMAIN o
      PROVE YDelete(d[i], o[i].offset, o[i].length) \in Seq(Cells)
  <2>1. o[i].offset \in Nat /\ o[i].length \in Nat
    BY <1>2, OverlapsAny
  <2> HIDE DEF o
  <2> QED BY <1>1, <2>1, YDeleteType
<1>3. Cleared(d, start, end) \in [1 .. Len(d) -> Seq(Cells)]
  <2>1. Cleared(d, start, end) = [i \in 1 .. Len(d) |->
          IF i \in DOMAIN o THEN YDelete(d[i], o[i].offset, o[i].length) ELSE d[i]]
    BY <1>1 DEF Cleared
  <2> HIDE DEF o
  <2> QED BY <1>1, <1>2, <2>1
<1>4. Cleared(d, start, end) \in Seq(Seq(Cells)) /\ Len(Cleared(d, start, end)) = Len(d)
  BY <1>1, <1>3, FunIsSeq
<1> QED BY <1>4 DEF DeleteText, Cleared

(* The paragraphs that a delete removes.                                    *)
Gone(d, affected) ==
  LET empty == {i \in affected : d[i] = <<>>}
  IN IF empty = DOMAIN d THEN empty \ {Len(d)} ELSE empty

LEMMA PruneType ==
  ASSUME NEW d \in Seq(Seq(Cells)), NEW affected \in SUBSET (1 .. Len(d))
  PROVE  LET s == [i \in 1 .. Len(d) |-> IF i \in Gone(d, affected) THEN <<>> ELSE <<d[i]>>]
         IN /\ s \in Seq(Seq(Seq(Cells))) /\ Len(s) = Len(d)
            /\ PruneEmptyBlocks(d, affected) = FlattenSeq(s)
            /\ PruneEmptyBlocks(d, affected) \in Seq(Seq(Cells))
            /\ d # <<>> => PruneEmptyBlocks(d, affected) # <<>>
<1> DEFINE s == [i \in 1 .. Len(d) |-> IF i \in Gone(d, affected) THEN <<>> ELSE <<d[i]>>]
<1>1. Len(d) \in Nat /\ DOMAIN d = 1 .. Len(d) /\ \A i \in 1 .. Len(d) : d[i] \in Seq(Cells)
  BY SeqFacts
<1>2. s \in [1 .. Len(d) -> Seq(Seq(Cells))]
  BY <1>1
<1>3. PruneEmptyBlocks(d, affected) = FlattenSeq(s)
  BY <1>1 DEF PruneEmptyBlocks, Gone
<1>4. \A i \in 1 .. Len(d) : i \notin Gone(d, affected) => s[i] # <<>>
  OBVIOUS
<1> HIDE DEF s
<1>5. s \in Seq(Seq(Seq(Cells))) /\ Len(s) = Len(d)
  BY <1>1, <1>2, FunIsSeq
<1>6. FlattenSeq(s) \in Seq(Seq(Cells))
  BY <1>5, FlattenType
<1>7. ASSUME d # <<>> PROVE FlattenSeq(s) # <<>>
  <2>1. PICK i \in 1 .. Len(d) : i \notin Gone(d, affected)
    <3>1. Len(d) \in 1 .. Len(d)
      BY <1>1, <1>7
    <3> DEFINE empty == {i \in affected : d[i] = <<>>}
    <3>2. CASE empty = DOMAIN d
      BY <3>1, <3>2 DEF Gone
    <3>3. CASE empty # DOMAIN d
      <4>1. Gone(d, affected) = empty /\ empty \subseteq DOMAIN d
        BY <1>1, <3>3 DEF Gone
      <4> QED BY <1>1, <3>3, <4>1
    <3> QED BY <3>2, <3>3
  <2>2. s[i] # <<>> /\ i \in 1 .. Len(s)
    BY <1>4, <1>5, <2>1
  <2> QED BY <1>5, <2>2, FlattenNonEmpty
<1> QED BY <1>3, <1>5, <1>6, <1>7 DEF s

LEMMA DeleteTextType ==
  ASSUME NEW d \in Seq(Seq(Cells)), NEW start \in Int, NEW end \in Int
  PROVE  /\ DeleteText(d, start, end) \in Seq(Seq(Cells))
         /\ d # <<>> => DeleteText(d, start, end) # <<>>
<1> DEFINE c == Cleared(d, start, end)
           affected == DOMAIN Overlaps(d, start, end)
<1>1. /\ c \in Seq(Seq(Cells)) /\ Len(c) = Len(d)
      /\ DeleteText(d, start, end) = PruneEmptyBlocks(c, affected)
  BY ClearedType
<1>2. affected \in SUBSET (1 .. Len(c))
  <2>0. affected = {i \in 1 .. Len(d) : From(d, start, i) < Upto(d, end, i)}
    BY OverlapsAny
  <2>1. affected \subseteq 1 .. Len(d)
    BY <2>0
  <2> HIDE DEF c, affected
  <2> QED BY <1>1, <2>1
<1> HIDE DEF c, affected
<1>3. /\ PruneEmptyBlocks(c, affected) \in Seq(Seq(Cells))
      /\ c # <<>> => PruneEmptyBlocks(c, affected) # <<>>
  BY <1>1, <1>2, PruneType
<1>4. d # <<>> => c # <<>>
  <2>1. d # <<>> => Len(d) # 0
    OBVIOUS
  <2> QED BY <1>1, <2>1
<1> QED BY <1>1, <1>3, <1>4

LEMMA FormatTextType ==
  ASSUME NEW d \in Seq(Seq(Cells)), NEW start \in Int, NEW end \in Int
  PROVE  FormatText(d, start, end) \in Seq(Seq(Cells)) /\ Len(FormatText(d, start, end)) = Len(d)
<1> DEFINE o == Overlaps(d, start, end)
<1>1. Len(d) \in Nat /\ DOMAIN d = 1 .. Len(d) /\ \A i \in 1 .. Len(d) : d[i] \in Seq(Cells)
  BY SeqFacts
<1>2. ASSUME NEW i \in 1 .. Len(d), i \in DOMAIN o
      PROVE YFormat(d[i], o[i].offset, o[i].length) \in Seq(Cells)
  <2>1. o[i].offset \in Nat /\ o[i].length \in Nat
    BY <1>2, OverlapsAny
  <2> HIDE DEF o
  <2> QED BY <1>1, <2>1, YFormatType
<1>3. FormatText(d, start, end) \in [1 .. Len(d) -> Seq(Cells)]
  <2>1. FormatText(d, start, end) = [i \in 1 .. Len(d) |->
          IF i \in DOMAIN o THEN YFormat(d[i], o[i].offset, o[i].length) ELSE d[i]]
    BY <1>1 DEF FormatText
  <2> HIDE DEF o
  <2> QED BY <1>1, <1>2, <2>1
<1> QED BY <1>1, <1>3, FunIsSeq

-----------------------------------------------------------------------------
(* Folding                                                                  *)

LEMMA MaxOfSome ==
  ASSUME NEW n \in Nat, NEW T \in SUBSET (1 .. n), T # {}
  PROVE  Max(T) \in T /\ \A y \in T : y <= Max(T)
<1> DEFINE U == {k \in 0 .. n : n - k \in T}
<1>1. U \in SUBSET Nat /\ U # {}
  <2>1. PICK y \in T : TRUE
    OBVIOUS
  <2>2. n - y \in 0 .. n /\ n - (n - y) = y
    BY <2>1
  <2>3. n - y \in U
    BY <2>1, <2>2
  <2>4. U \in SUBSET Nat
    OBVIOUS
  <2> HIDE DEF U
  <2> QED BY <2>3, <2>4
<1>2. PICK k \in U : \A l \in U : k <= l
  BY <1>1, Least
<1>3. ASSUME NEW y \in T PROVE y <= n - k
  <2>1. n - y \in 0 .. n /\ n - (n - y) = y /\ y \in Nat
    OBVIOUS
  <2>2. n - y \in U /\ k \in Nat
    BY <2>1
  <2>3. k <= n - y
    <3> HIDE DEF U
    <3> QED BY <1>2, <2>2
  <2> QED BY <2>1, <2>2, <2>3
<1>4. n - k \in T
  BY <1>2
<1>5. \E x \in T : \A y \in T : x >= y
  <2>1. \A y \in T : n - k >= y
    BY <1>3
  <2> QED BY <1>4, <2>1
<1>6. Max(T) \in T /\ \A y \in T : Max(T) >= y
  BY <1>5 DEF Max
<1> QED BY <1>6

(* The values as the elements of t are taken in ascending order.            *)
Along(g, n, base, step, t) ==
  g[0] = base /\ \A i \in 1 .. n : g[i] = IF i \in t THEN step[<<i, g[i - 1]>>] ELSE g[i - 1]

LEMMA AlongExists ==
  ASSUME NEW n \in Nat, NEW V, NEW base \in V, NEW step \in [(1 .. n) \X V -> V],
         NEW t \in SUBSET (1 .. n)
  PROVE  \E g \in [0 .. n -> V] : Along(g, n, base, step, t)
<1> DEFINE part == [p \in (1 .. n) \X V |-> IF p[1] \in t THEN step[p] ELSE p[2]]
<1>1. part \in [(1 .. n) \X V -> V]
  OBVIOUS
<1>2. PICK g \in [0 .. n -> V] : Follows(g, n, base, part)
  <2> HIDE DEF part
  <2> QED BY <1>1, Recursion
<1>3. ASSUME NEW i \in 1 .. n
      PROVE  g[i] = IF i \in t THEN step[<<i, g[i - 1]>>] ELSE g[i - 1]
  <2>1. i - 1 \in 0 .. n
    OBVIOUS
  <2>2. <<i, g[i - 1]>> \in (1 .. n) \X V
    BY <2>1
  <2>3. g[i] = part[<<i, g[i - 1]>>]
    BY <1>2 DEF Follows
  <2> QED BY <2>2, <2>3
<1>4. g[0] = base
  BY <1>2 DEF Follows
<1> QED BY <1>3, <1>4 DEF Along

(* What is taken after place x makes no difference up to x.                 *)
LEMMA AlongSame ==
  ASSUME NEW n \in Nat, NEW base, NEW step, NEW t, NEW u, NEW x \in 0 .. n,
         \A i \in 1 .. x : i \in t <=> i \in u,
         NEW g, Along(g, n, base, step, t), NEW h, Along(h, n, base, step, u)
  PROVE  g[x] = h[x]
<1> DEFINE P == {i \in Nat : i <= x => g[i] = h[i]}
<1>1. 0 \in P
  BY DEF Along
<1>2. ASSUME NEW i \in Nat, i \in P PROVE i + 1 \in P
  <2> SUFFICES ASSUME i + 1 <= x PROVE g[i + 1] = h[i + 1]
    OBVIOUS
  <2>1. i + 1 \in 1 .. n /\ i + 1 \in 1 .. x /\ (i + 1) - 1 = i /\ g[i] = h[i]
    BY <1>2
  <2>2. g[i + 1] = IF i + 1 \in t THEN step[<<i + 1, g[i]>>] ELSE g[i]
    BY <2>1 DEF Along
  <2>3. h[i + 1] = IF i + 1 \in u THEN step[<<i + 1, h[i]>>] ELSE h[i]
    BY <2>1 DEF Along
  <2> QED BY <2>1, <2>2, <2>3
<1>3. \A i \in Nat : i \in P
  <2> HIDE DEF P
  <2> QED BY <1>1, <1>2, Induction
<1> QED BY <1>3

(* Past the last element taken nothing changes.                             *)
LEMMA AlongRest ==
  ASSUME NEW n \in Nat, NEW base, NEW step, NEW t \in SUBSET (1 .. n), NEW x \in 0 .. n,
         \A i \in t : i <= x, NEW g, Along(g, n, base, step, t)
  PROVE  g[n] = g[x]
<1> DEFINE P == {i \in Nat : x + i <= n => g[x + i] = g[x]}
<1>1. 0 \in P
  OBVIOUS
<1>2. ASSUME NEW i \in Nat, i \in P PROVE i + 1 \in P
  <2> SUFFICES ASSUME x + (i + 1) <= n PROVE g[x + (i + 1)] = g[x]
    OBVIOUS
  <2> DEFINE j == x + (i + 1)
  <2>1. j \in 1 .. n /\ j \notin t /\ j - 1 = x + i /\ g[x + i] = g[x]
    BY <1>2
  <2> HIDE DEF j
  <2>2. g[j] = g[j - 1]
    BY <2>1 DEF Along
  <2> QED BY <2>1, <2>2 DEF j
<1>3. \A i \in Nat : i \in P
  <2> HIDE DEF P
  <2> QED BY <1>1, <1>2, Induction
<1>4. n - x \in Nat /\ x + (n - x) = n /\ n - x \in P
  <2>1. n - x \in Nat /\ x + (n - x) = n
    OBVIOUS
  <2> HIDE DEF P
  <2> QED BY <1>3, <2>1
<1> QED BY <1>4

ButLast(t) == t \ {Max(t)}

LEMMA AlongNone ==
  ASSUME NEW n \in Nat, NEW base, NEW step, NEW g, Along(g, n, base, step, {})
  PROVE  g[n] = base
<1>1. 0 \in 0 .. n /\ {} \in SUBSET (1 .. n) /\ \A i \in {} : i <= 0
  OBVIOUS
<1>2. g[n] = g[0]
  BY <1>1, AlongRest
<1> QED BY <1>2 DEF Along

(* The function on sets by which the folds are defined exists.              *)
Iterates(iter, n, base, step) ==
  \A t \in SUBSET (1 .. n) :
    iter[t] = IF t = {} THEN base ELSE step[<<Max(t), iter[ButLast(t)]>>]

LEMMA IterExists ==
  ASSUME NEW n \in Nat, NEW V, NEW base \in V, NEW step \in [(1 .. n) \X V -> V]
  PROVE  \E iter \in [SUBSET (1 .. n) -> V] : Iterates(iter, n, base, step)
<1> DEFINE Of(t) == CHOOSE g \in [0 .. n -> V] : Along(g, n, base, step, t)
           iter == [t \in SUBSET (1 .. n) |-> Of(t)[n]]
<1>1. ASSUME NEW t \in SUBSET (1 .. n)
      PROVE  Of(t) \in [0 .. n -> V] /\ Along(Of(t), n, base, step, t)
  BY AlongExists
<1> HIDE DEF Of
<1>2. iter \in [SUBSET (1 .. n) -> V]
  <2>1. n \in 0 .. n
    OBVIOUS
  <2> QED BY <1>1, <2>1
<1>3. ASSUME NEW t \in SUBSET (1 .. n)
      PROVE iter[t] = IF t = {} THEN base ELSE step[<<Max(t), iter[ButLast(t)]>>]
  <2> DEFINE u == ButLast(t)
  <2>0. u \in SUBSET (1 .. n)
    BY DEF ButLast
  <2>1. PICK g \in [0 .. n -> V] : g = Of(t) /\ Along(g, n, base, step, t)
    BY <1>1
  <2>2. PICK h \in [0 .. n -> V] : h = Of(u) /\ Along(h, n, base, step, u)
    BY <1>1, <2>0
  <2>3. iter[t] = g[n] /\ iter[u] = h[n]
    BY <2>0, <2>1, <2>2
  <2>4. CASE t = {}
    <3>1. Along(g, n, base, step, {})
      BY <2>1, <2>4
    <3>2. g[n] = base
      BY <3>1, AlongNone
    <3> QED BY <2>3, <2>4, <3>2
  <2>5. CASE t # {}
    <3> DEFINE x == Max(t)
               y == x - 1
    <3>1. x \in t /\ \A i \in t : i <= x
      BY <2>5, MaxOfSome
    <3>2. u = t \ {x} /\ Along(h, n, base, step, u)
      BY <2>2 DEF ButLast
    <3> HIDE DEF x, u
    <3>3. x \in 1 .. n /\ x \in 0 .. n /\ y \in 0 .. n /\ u \in SUBSET (1 .. n)
      BY <3>1, <3>2
    <3>4. \A i \in u : i <= y
      BY <3>1, <3>2
    <3>5. \A i \in 1 .. y : i \in t <=> i \in u
      BY <3>1, <3>2
    <3> HIDE DEF y
    <3>6. g[n] = g[x]
      BY <2>1, <3>1, <3>3, AlongRest
    <3>7. h[n] = h[y]
      BY <3>2, <3>3, <3>4, AlongRest
    <3>8. g[y] = h[y]
      BY <2>1, <3>2, <3>3, <3>5, AlongSame
    <3>9. g[x] = step[<<x, g[y]>>]
      BY <2>1, <3>1, <3>3 DEF Along, y
    <3>10. g[n] = step[<<Max(t), h[n]>>]
      BY <3>6, <3>7, <3>8, <3>9 DEF x
    <3> HIDE DEF iter
    <3> QED BY <2>3, <2>5, <3>10 DEF u
  <2> QED BY <2>4, <2>5
<1> HIDE DEF iter
<1>4. Iterates(iter, n, base, step)
  BY <1>3 DEF Iterates
<1> QED BY <1>2, <1>4

(* The last of 1 .. k.                                                      *)
LEMMA LastOf ==
  ASSUME NEW k \in Nat \ {0}
  PROVE  Max(1 .. k) = k /\ (1 .. k) \ {k} = 1 .. k - 1 /\ 1 .. k # {}
<1>1. 1 .. k # {} /\ k \in 1 .. k /\ 1 .. k \in SUBSET (1 .. k)
  OBVIOUS
<1>2. Max(1 .. k) \in 1 .. k /\ \A y \in 1 .. k : y <= Max(1 .. k)
  BY <1>1, MaxOfSome
<1>3. Max(1 .. k) = k
  BY <1>1, <1>2
<1>4. (1 .. k) \ {k} = 1 .. k - 1
  OBVIOUS
<1> QED BY <1>1, <1>3, <1>4

-----------------------------------------------------------------------------
(* Operations                                                               *)

LEMMA OpFacts ==
  ASSUME NEW op \in TextOps
  PROVE  /\ Place(op) \in Int
         /\ IsInsert(op) => op \in Insertions /\ Place(op) = op.position
         /\ ~IsInsert(op) => op \in RangeEdits /\ Place(op) = op.start
BY DEF TextOps, RangeEdits, Insertions, Place, IsInsert

LEMMA ApplyValue ==
  ASSUME NEW d, NEW op \in TextOps
  PROVE  /\ op.type = "insert" => Apply(d, op) = InsertText(d, op.position, op.text)
         /\ op.type = "delete" => Apply(d, op) = DeleteText(d, op.start, op.end)
         /\ op.type = "format" => Apply(d, op) = FormatText(d, op.start, op.end)
         /\ op.type \in {"insert", "delete", "format"}
BY DEF Apply, TextOps, RangeEdits, Insertions

LEMMA ApplyType ==
  ASSUME NEW d \in TextDocs, NEW op \in TextOps
  PROVE  /\ Apply(d, op) \in TextDocs
         /\ IsInsert(op) \/ d # <<>> => Apply(d, op) # <<>>
<1>1. CASE op.type = "insert"
  <2>1. op.position \in Nat /\ op.text \in Texts
    BY <1>1 DEF TextOps, RangeEdits, Insertions
  <2>2. InsertText(d, op.position, op.text) \in Seq(Seq(Cells)) \ {<<>>}
    BY <2>1, InsertTextType DEF TextDocs
  <2> QED BY <1>1, <2>2, ApplyValue DEF TextDocs
<1>2. CASE op.type = "delete"
  <2>1. op.start \in Int /\ op.end \in Int
    BY <1>2 DEF TextOps, RangeEdits, Insertions
  <2>2. /\ DeleteText(d, op.start, op.end) \in Seq(Seq(Cells))
        /\ d # <<>> => DeleteText(d, op.start, op.end) # <<>>
    BY <2>1, DeleteTextType DEF TextDocs
  <2>3. ~IsInsert(op)
    BY <1>2 DEF IsInsert
  <2> QED BY <1>2, <2>2, <2>3, ApplyValue DEF TextDocs
<1>3. CASE op.type = "format"
  <2>1. op.start \in Int /\ op.end \in Int
    BY <1>3 DEF TextOps, RangeEdits, Insertions
  <2>2. /\ FormatText(d, op.start, op.end) \in Seq(Seq(Cells))
        /\ Len(FormatText(d, op.start, op.end)) = Len(d)
    BY <2>1, FormatTextType DEF TextDocs
  <2>3. ~IsInsert(op)
    BY <1>3 DEF IsInsert
  <2>4. d # <<>> => FormatText(d, op.start, op.end) # <<>>
    <3>1. d # <<>> => Len(d) # 0
      BY DEF TextDocs
    <3> QED BY <2>2, <3>1
  <2> QED BY <1>3, <2>2, <2>3, <2>4, ApplyValue DEF TextDocs
<1> QED BY <1>1, <1>2, <1>3, ApplyValue

(* The documents between one operation and the next.                        *)
Stages(g, d, s) == g[0] = d /\ \A k \in 1 .. Len(s) : g[k] = Apply(g[k - 1], s[k])

LEMMA FoldApply ==
  ASSUME NEW d \in TextDocs, NEW s \in Seq(TextOps)
  PROVE  \E g \in [0 .. Len(s) -> TextDocs] : Stages(g, d, s) /\ FoldLeft(Apply, d, s) = g[Len(s)]
<1> DEFINE n == Len(s)
           step == [p \in (1 .. n) \X TextDocs |-> Apply(p[2], s[p[1]])]
           Eq(f) == f = [t \in SUBSET (DOMAIN s) |->
                           IF t = {} THEN d ELSE Apply(f[t \ {Max(t)}], s[Max(t)])]
           fold == CHOOSE f : Eq(f)
<1>1. n \in Nat /\ DOMAIN s = 1 .. n /\ \A i \in 1 .. n : s[i] \in TextOps
  BY SeqFacts
<1>2. step \in [(1 .. n) \X TextDocs -> TextDocs]
  <2> SUFFICES ASSUME NEW p \in (1 .. n) \X TextDocs PROVE Apply(p[2], s[p[1]]) \in TextDocs
    OBVIOUS
  <2>1. p[2] \in TextDocs /\ s[p[1]] \in TextOps
    BY <1>1
  <2> QED BY <2>1, ApplyType
<1>3. PICK iter \in [SUBSET (1 .. n) -> TextDocs] : Iterates(iter, n, d, step)
  <2> HIDE DEF step, n
  <2> QED BY <1>1, <1>2, IterExists
<1>4. Eq(iter)
  <2>1. ASSUME NEW t \in SUBSET (1 .. n)
        PROVE iter[t] = IF t = {} THEN d ELSE Apply(iter[t \ {Max(t)}], s[Max(t)])
    <3>1. iter[t] = IF t = {} THEN d ELSE step[<<Max(t), iter[t \ {Max(t)}]>>]
      BY <1>3 DEF Iterates, ButLast
    <3>2. CASE t # {}
      <4>1. Max(t) \in 1 .. n
        BY <1>1, <3>2, MaxOfSome
      <4>2. <<Max(t), iter[t \ {Max(t)}]>> \in (1 .. n) \X TextDocs
        BY <4>1
      <4> QED BY <3>1, <3>2, <4>2
    <3> QED BY <3>1, <3>2
  <2> QED BY <1>1, <2>1
<1>5. Eq(fold)
  <2> HIDE DEF Eq
  <2> QED BY <1>4
<1>6. FoldLeft(Apply, d, s) = fold[1 .. n]
  BY <1>1 DEF FoldLeft, MapThenFoldSet
<1> HIDE DEF fold, n, step
<1>7. fold[{}] = d
  BY <1>1, <1>5
<1>8. ASSUME NEW k \in 1 .. n PROVE fold[1 .. k] = Apply(fold[1 .. k - 1], s[k])
  <2>1. 1 .. k \in SUBSET (DOMAIN s) /\ k \in Nat \ {0}
    BY <1>1
  <2>2. Max(1 .. k) = k /\ (1 .. k) \ {k} = 1 .. k - 1 /\ 1 .. k # {}
    BY <2>1, LastOf
  <2>3. fold[1 .. k] = Apply(fold[(1 .. k) \ {Max(1 .. k)}], s[Max(1 .. k)])
    BY <1>5, <2>1, <2>2
  <2> QED BY <2>2, <2>3
<1> DEFINE P == {k \in Nat : k <= n => fold[1 .. k] \in TextDocs}
<1>9. 0 \in P
  BY <1>7
<1>10. ASSUME NEW k \in Nat, k \in P PROVE k + 1 \in P
  <2> SUFFICES ASSUME k + 1 <= n PROVE fold[1 .. k + 1] \in TextDocs
    OBVIOUS
  <2>1. k + 1 \in 1 .. n /\ (k + 1) - 1 = k /\ fold[1 .. k] \in TextDocs
    BY <1>1, <1>10
  <2>2. fold[1 .. k + 1] = Apply(fold[1 .. k], s[k + 1])
    BY <1>8, <2>1
  <2> QED BY <1>1, <2>1, <2>2, ApplyType
<1>11. \A k \in Nat : k \in P
  <2> HIDE DEF P
  <2> QED BY <1>9, <1>10, Induction
<1> DEFINE g == [k \in 0 .. n |-> fold[1 .. k]]
<1>12. g \in [0 .. n -> TextDocs]
  BY <1>11
<1>13. Stages(g, d, s)
  <2>1. g[0] = d
    <3>1. 1 .. 0 = {} /\ 0 \in 0 .. n
      BY <1>1
    <3> QED BY <1>7, <3>1
  <2>2. ASSUME NEW k \in 1 .. n PROVE g[k] = Apply(g[k - 1], s[k])
    <3>1. k \in 0 .. n /\ k - 1 \in 0 .. n
      BY <1>1
    <3>2. g[k] = fold[1 .. k] /\ g[k - 1] = fold[1 .. k - 1]
      BY <3>1
    <3> QED BY <1>8, <3>2
  <2> HIDE DEF g
  <2> QED BY <2>1, <2>2 DEF Stages, n
<1>14. g[n] = fold[1 .. n]
  BY <1>1
<1> HIDE DEF g
<1> QED BY <1>6, <1>12, <1>13, <1>14 DEF n

-----------------------------------------------------------------------------
(* Check 2                                                                  *)

LEMMA NormalizedType ==
  ASSUME NEW s \in Seq(Characters)
  PROVE  /\ Normalized(s) \in Seq(Characters) /\ Len(Normalized(s)) = Len(s)
         /\ \A i \in 1 .. Len(s) : Normalized(s)[i] = IF s[i] = "nl" THEN "sp" ELSE s[i]
<1>1. Len(s) \in Nat /\ DOMAIN s = 1 .. Len(s) /\ \A i \in 1 .. Len(s) : s[i] \in Characters
  BY SeqFacts
<1>2. Normalized(s) \in [1 .. Len(s) -> Characters]
  BY <1>1, CharactersAssumption DEF Normalized
<1>3. Normalized(s) \in Seq(Characters) /\ Len(Normalized(s)) = Len(s)
  BY <1>1, <1>2, FunIsSeq
<1> QED BY <1>1, <1>3 DEF Normalized

LEMMA NormalizedSlice ==
  ASSUME NEW s \in Seq(Characters), NEW a \in Nat, NEW b \in a .. Len(s)
  PROVE  Slice(Normalized(s), a, b) = Normalized(Slice(s, a, b))
<1> DEFINE x == Slice(s, a, b)
           z == Slice(Normalized(s), a, b)
<1>1. /\ x \in Seq(Characters) /\ Len(x) = b - a /\ \A i \in 1 .. b - a : x[i] = s[a + i]
  BY SliceIn
<1>2. /\ Normalized(s) \in Seq(Characters) /\ Len(Normalized(s)) = Len(s)
      /\ \A i \in 1 .. Len(s) : Normalized(s)[i] = IF s[i] = "nl" THEN "sp" ELSE s[i]
  BY NormalizedType
<1>3. b \in a .. Len(Normalized(s))
  BY <1>2
<1>4. /\ z \in Seq(Characters) /\ Len(z) = b - a
      /\ \A i \in 1 .. b - a : z[i] = Normalized(s)[a + i]
  BY <1>2, <1>3, SliceIn
<1> HIDE DEF x, z
<1>5. /\ Normalized(x) \in Seq(Characters) /\ Len(Normalized(x)) = Len(x)
      /\ \A i \in 1 .. Len(x) : Normalized(x)[i] = IF x[i] = "nl" THEN "sp" ELSE x[i]
  BY <1>1, NormalizedType
<1>6. ASSUME NEW i \in 1 .. Len(z) PROVE z[i] = Normalized(x)[i]
  <2>1. a + i \in 1 .. Len(s) /\ i \in 1 .. Len(x) /\ i \in 1 .. b - a
    BY <1>1, <1>4
  <2> QED BY <1>1, <1>2, <1>4, <1>5, <2>1
<1>7. z = Normalized(x)
  BY <1>1, <1>4, <1>5, <1>6, SeqEqual
<1> QED BY <1>7 DEF x, z

LEMMA OccurrencesFacts ==
  ASSUME NEW s \in Seq(Characters), NEW needle \in Seq(Characters), NEW i \in Occurrences(s, needle)
  PROVE  /\ i \in Nat /\ i + Len(needle) <= Len(s)
         /\ Slice(s, i, i + Len(needle)) = needle
<1>1. Len(s) \in Nat /\ Len(needle) \in Nat
  OBVIOUS
<1> QED BY <1>1 DEF Occurrences

(* What is found reads as what was sought, blanks aside.                    *)
LEMMA FoundText ==
  ASSUME NEW s \in Seq(Characters), NEW needle \in Seq(Characters), NEW preferred,
         FindNearestExactText(s, needle, preferred) # {}
  PROVE  LET i == Min(FindNearestExactText(s, needle, preferred))
         IN /\ i \in Nat /\ i + Len(needle) <= Len(s)
            /\ Normalized(Slice(s, i, i + Len(needle))) = Normalized(needle)
<1> DEFINE result == FindNearestExactText(s, needle, preferred)
           exact == Occurrences(s, needle)
           loose == Occurrences(Normalized(s), Normalized(needle))
           i == Min(result)
<1>1. result \subseteq exact \/ result \subseteq loose
  BY DEF FindNearestExactText
<1>2. /\ Normalized(s) \in Seq(Characters) /\ Len(Normalized(s)) = Len(s)
      /\ Normalized(needle) \in Seq(Characters) /\ Len(Normalized(needle)) = Len(needle)
      /\ Len(s) \in Nat /\ Len(needle) \in Nat
  BY NormalizedType
<1>3. exact \subseteq Nat /\ loose \subseteq Nat
  BY <1>2, OccurrencesFacts
<1>4. i \in result
  <2>1. result \in SUBSET Nat
    BY <1>1, <1>3
  <2> HIDE DEF result
  <2> QED BY <2>1, MinOfSome DEF result
<1> HIDE DEF i, result
<1>5. CASE i \in exact
  <2>1. i \in Nat /\ i + Len(needle) <= Len(s) /\ Slice(s, i, i + Len(needle)) = needle
    BY <1>5, OccurrencesFacts
  <2> QED BY <2>1 DEF i, result
<1>6. CASE i \in loose
  <2>1. /\ i \in Nat /\ i + Len(needle) <= Len(s)
        /\ Slice(Normalized(s), i, i + Len(needle)) = Normalized(needle)
    BY <1>2, <1>6, OccurrencesFacts
  <2>2. i + Len(needle) \in i .. Len(s)
    BY <1>2, <2>1
  <2>3. Slice(Normalized(s), i, i + Len(needle)) = Normalized(Slice(s, i, i + Len(needle)))
    BY <2>1, <2>2, NormalizedSlice
  <2> QED BY <2>1, <2>3 DEF i, result
<1> QED BY <1>1, <1>4, <1>5, <1>6

(* The range holds its text.                                                *)
Found(op, text) ==
  ~IsInsert(op) /\ op.start >= 0 =>
    Normalized(op.expected) = Normalized(Slice(text, op.start, op.end))

Moves == {m \in UNION {[X -> Int] : X \in SUBSET Int} :
            \A p \in DOMAIN m \cap Nat : m[p] \in Nat}
Outcomes == {"all_exact", "partial", "fuzzy_match"}
Checks(text) ==
  {acc \in [outcome : Outcomes, valid : Seq(TextOps), moved : Moves] :
     \A i \in 1 .. Len(acc.valid) : Found(acc.valid[i], text)}

LEMMA UncheckedType ==
  ASSUME NEW text
  PROVE  Unchecked \in Checks(text)
<1>1. Unchecked.moved \in Moves
  <2>1. <<>> \in [{} -> Int] /\ {} \in SUBSET Int /\ DOMAIN <<>> = {}
    OBVIOUS
  <2> QED BY <2>1 DEF Unchecked, Moves
<1>2. Unchecked.valid \in Seq(TextOps) /\ Len(Unchecked.valid) = 0
  BY DEF Unchecked
<1>3. Unchecked \in [outcome : Outcomes, valid : Seq(TextOps), moved : Moves]
  BY <1>1, <1>2 DEF Unchecked, Outcomes
<1> QED BY <1>2, <1>3 DEF Checks

LEMMA KeepType ==
  ASSUME NEW text, NEW acc \in Checks(text), NEW op \in TextOps, Found(op, text)
  PROVE  Keep(acc, op) \in Checks(text) /\ Keep(acc, op).moved = acc.moved
<1>1. acc \in [outcome : Outcomes, valid : Seq(TextOps), moved : Moves]
      /\ \A i \in 1 .. Len(acc.valid) : Found(acc.valid[i], text)
  BY DEF Checks
<1> DEFINE v == Append(acc.valid, op)
<1>2. /\ v \in Seq(TextOps) /\ Len(v) = Len(acc.valid) + 1 /\ Len(acc.valid) \in Nat
      /\ \A i \in 1 .. Len(acc.valid) : v[i] = acc.valid[i]
      /\ v[Len(acc.valid) + 1] = op
  BY <1>1, AppendProperties
<1>3. Keep(acc, op) = [acc EXCEPT !.valid = v]
  BY DEF Keep
<1> HIDE DEF v
<1>4. Keep(acc, op) \in [outcome : Outcomes, valid : Seq(TextOps), moved : Moves]
      /\ Keep(acc, op).valid = v /\ Keep(acc, op).moved = acc.moved
  BY <1>1, <1>2, <1>3
<1>5. \A i \in 1 .. Len(v) : Found(v[i], text)
  BY <1>1, <1>2
<1> QED BY <1>4, <1>5 DEF Checks

LEMMA RejectType ==
  ASSUME NEW text, NEW acc \in Checks(text)
  PROVE  Reject(acc) \in Checks(text) /\ [acc EXCEPT !.outcome = "fuzzy_match"] \in Checks(text)
BY DEF Checks, Reject, Outcomes

LEMMA CheckInsertType ==
  ASSUME NEW text \in Seq(Characters), NEW acc \in Checks(text), NEW op \in TextOps, IsInsert(op)
  PROVE  CheckInsert(acc, op, text) \in Checks(text)
<1>1. op \in Insertions
  BY OpFacts
<1>2. ASSUME NEW p \in Nat
      PROVE  Keep(acc, [op EXCEPT !.position = p]) \in Checks(text)
  <2>1. [op EXCEPT !.position = p] \in Insertions
    BY <1>1 DEF Insertions
  <2>2. [op EXCEPT !.position = p] \in TextOps /\ Found([op EXCEPT !.position = p], text)
    BY <2>1 DEF TextOps, Found, IsInsert, Insertions
  <2> QED BY <2>2, KeepType
<1>3. CASE op.anchor = <<>>
  <2> DEFINE p == IF op.position \in DOMAIN acc.moved THEN acc.moved[op.position] ELSE op.position
  <2>1. p \in Nat
    <3>1. acc.moved \in Moves
      BY DEF Checks
    <3>2. op.position \in Nat
      BY <1>1 DEF Insertions
    <3> QED BY <3>1, <3>2 DEF Moves
  <2>2. CheckInsert(acc, op, text) = Keep(acc, [op EXCEPT !.position = p])
    BY <1>3 DEF CheckInsert
  <2> HIDE DEF p
  <2> QED BY <1>2, <2>1, <2>2
<1>4. CASE op.anchor # <<>>
  <2> DEFINE found == FindNearestExactText(text, op.anchor, op.position)
             p == Min(found) + (IF op.side = "before" THEN 0 ELSE Len(op.anchor))
  <2>1. CASE found = {}
    BY <1>4, <2>1, RejectType DEF CheckInsert
  <2>2. CASE found # {}
    <3>1. CheckInsert(acc, op, text) = Keep(acc, [op EXCEPT !.position = p])
      BY <1>4, <2>2 DEF CheckInsert
    <3>2. op.anchor \in Seq(Characters)
      BY <1>1 DEF Insertions
    <3>3. Min(found) \in Nat /\ Len(op.anchor) \in Nat
      BY <2>2, <3>2, FoundText
    <3>4. p \in Nat
      <4> HIDE DEF found
      <4> QED BY <3>3
    <3> HIDE DEF p
    <3> QED BY <1>2, <3>1, <3>4
  <2> QED BY <2>1, <2>2
<1> QED BY <1>3, <1>4

LEMMA MovedType ==
  ASSUME NEW text, NEW acc \in Checks(text), NEW from \in Int, NEW to \in Int,
         from \in Nat => to \in Nat
  PROVE  Moved(acc, from, to) \in Checks(text)
<1> DEFINE m == acc.moved
           moved == [p \in DOMAIN m \cup {from} |-> IF p = from THEN to ELSE m[p]]
<1>1. m \in Moves
  BY DEF Checks
<1>2. Moved(acc, from, to) = [acc EXCEPT !.moved = moved]
  BY DEF Moved
<1> HIDE DEF m
<1>3. moved \in Moves
  <2>1. PICK X \in SUBSET Int : m \in [X -> Int]
    BY <1>1 DEF Moves
  <2>2. moved \in [X \cup {from} -> Int] /\ X \cup {from} \in SUBSET Int
    BY <2>1
  <2>3. \A p \in DOMAIN moved \cap Nat : moved[p] \in Nat
    BY <1>1 DEF Moves
  <2> HIDE DEF moved
  <2> QED BY <2>2, <2>3 DEF Moves
<1> HIDE DEF moved
<1> QED BY <1>2, <1>3 DEF Checks

LEMMA CheckRangeType ==
  ASSUME NEW text \in Seq(Characters), NEW acc \in Checks(text), NEW op \in TextOps, ~IsInsert(op)
  PROVE  CheckRange(acc, op, text) \in Checks(text)
<1>1. op \in RangeEdits
  BY OpFacts
<1> DEFINE actual == JsSlice(text, op.start, op.end)
           found == FindNearestExactText(text, op.expected, op.start)
           start == Min(found)
           end == start + Len(op.expected)
           new == [op EXCEPT !.start = start, !.end = end]
<1> DEFINE Ranges == [type : {"delete", "format"}, start : Int, end : Int,
                     expected : Seq(Characters) \ {<<>>}]
<1>2. /\ op \in Ranges /\ op.start \in Int /\ op.end \in Int /\ op.start < op.end
      /\ op.expected \in Seq(Characters) /\ Len(op.expected) \in Nat \ {0}
  BY <1>1 DEF RangeEdits
<1>3. CASE op.expected = actual
  <2>1. CheckRange(acc, op, text) = Moved(Keep(acc, op), op.start, op.start)
    BY <1>3 DEF CheckRange
  <2>2. Found(op, text)
    <3> SUFFICES ASSUME op.start >= 0 PROVE op.expected = Slice(text, op.start, op.end)
      BY DEF Found
    <3> QED BY <1>2, <1>3 DEF JsSlice
  <2>3. Keep(acc, op) \in Checks(text)
    BY <2>2, KeepType
  <2> QED BY <1>2, <2>1, <2>3, MovedType
<1>4. CASE op.expected # actual /\ found # {}
  <2>1. CheckRange(acc, op, text) = Moved(Keep(acc, new), op.start, start)
    BY <1>4 DEF CheckRange
  <2>2. /\ start \in Nat
        /\ Normalized(Slice(text, start, start + Len(op.expected))) = Normalized(op.expected)
    <3> HIDE DEF actual
    <3> QED BY <1>2, <1>4, FoundText
  <2> HIDE DEF start
  <2>3. end \in Int /\ start < end
    BY <1>2, <2>2
  <2>4. /\ new.start = start /\ new.end = end /\ new.expected = op.expected
        /\ new \in Ranges
    <3>1. op \in Ranges /\ start \in Int /\ end \in Int
      BY <1>2, <2>2, <2>3
    <3> HIDE DEF end
    <3>2. new \in Ranges
      BY <3>1
    <3>3. new.start = start /\ new.end = end /\ new.expected = op.expected
      BY <3>1
    <3> QED BY <3>2, <3>3
  <2> HIDE DEF new
  <2>5. Found(new, text)
    BY <2>2, <2>4 DEF Found
  <2>7. new \in TextOps
    BY <2>3, <2>4 DEF RangeEdits, TextOps
  <2>6. Keep(acc, new) \in Checks(text)
    BY <2>5, <2>7, KeepType
  <2> QED BY <1>2, <2>1, <2>2, <2>6, MovedType
<1>5. CASE op.expected # actual /\ found = {}
  BY <1>5, RejectType DEF CheckRange
<1> QED BY <1>3, <1>4, <1>5

(* One operation of the check.                                              *)
CheckStep(acc, op, text) ==
  IF acc.outcome = "fuzzy_match" THEN acc
  ELSE IF IsInsert(op) THEN CheckInsert(acc, op, text)
  ELSE CheckRange(acc, op, text)

LEMMA CheckStepType ==
  ASSUME NEW text \in Seq(Characters), NEW acc \in Checks(text), NEW op \in TextOps
  PROVE  CheckStep(acc, op, text) \in Checks(text)
BY CheckInsertType, CheckRangeType DEF CheckStep

LEMMA CheckType ==
  ASSUME NEW text \in Seq(Characters), NEW s \in Seq(TextOps)
  PROVE  CheckContentExistence(s, text) \in Checks(text)
<1> DEFINE n == Len(s)
           V == Checks(text)
           step == [p \in (1 .. n) \X V |-> CheckStep(p[2], s[p[1]], text)]
           Eq(f) == f = [t \in SUBSET (DOMAIN s) |->
                           IF t = {} THEN Unchecked
                           ELSE CheckStep(f[t \ {Max(t)}], s[Max(t)], text)]
           fold == CHOOSE f : Eq(f)
<1>1. n \in Nat /\ DOMAIN s = 1 .. n /\ \A i \in 1 .. n : s[i] \in TextOps
  BY SeqFacts
<1>2. step \in [(1 .. n) \X V -> V]
  <2> SUFFICES ASSUME NEW p \in (1 .. n) \X V PROVE CheckStep(p[2], s[p[1]], text) \in V
    OBVIOUS
  <2>1. p[2] \in V /\ s[p[1]] \in TextOps
    BY <1>1
  <2> QED BY <2>1, CheckStepType
<1>3. PICK iter \in [SUBSET (1 .. n) -> V] : Iterates(iter, n, Unchecked, step)
  <2> HIDE DEF step, n, V
  <2>1. Unchecked \in V
    BY UncheckedType DEF V
  <2> QED BY <1>1, <1>2, <2>1, IterExists
<1>4. Eq(iter)
  <2>1. ASSUME NEW t \in SUBSET (1 .. n)
        PROVE iter[t] = IF t = {} THEN Unchecked
                        ELSE CheckStep(iter[t \ {Max(t)}], s[Max(t)], text)
    <3>1. iter[t] = IF t = {} THEN Unchecked ELSE step[<<Max(t), iter[t \ {Max(t)}]>>]
      BY <1>3 DEF Iterates, ButLast
    <3>2. CASE t # {}
      <4>1. Max(t) \in 1 .. n
        BY <1>1, <3>2, MaxOfSome
      <4>2. <<Max(t), iter[t \ {Max(t)}]>> \in (1 .. n) \X V
        BY <4>1
      <4> HIDE DEF V
      <4> QED BY <3>1, <3>2, <4>2
    <3> QED BY <3>1, <3>2
  <2> QED BY <1>1, <2>1
<1>5. Eq(fold)
  <2> HIDE DEF Eq
  <2> QED BY <1>4
<1>6. CheckContentExistence(s, text) = fold[1 .. n]
  BY <1>1 DEF CheckContentExistence, CheckStep, FoldLeft, MapThenFoldSet
<1> HIDE DEF fold, n, step, V
<1>7. fold[{}] = Unchecked
  BY <1>1, <1>5
<1>8. ASSUME NEW k \in 1 .. n PROVE fold[1 .. k] = CheckStep(fold[1 .. k - 1], s[k], text)
  <2>1. 1 .. k \in SUBSET (DOMAIN s) /\ k \in Nat \ {0}
    BY <1>1
  <2>2. Max(1 .. k) = k /\ (1 .. k) \ {k} = 1 .. k - 1 /\ 1 .. k # {}
    BY <2>1, LastOf
  <2>3. fold[1 .. k] = CheckStep(fold[(1 .. k) \ {Max(1 .. k)}], s[Max(1 .. k)], text)
    BY <1>5, <2>1, <2>2
  <2> QED BY <2>2, <2>3
<1> DEFINE P == {k \in Nat : k <= n => fold[1 .. k] \in V}
<1>9. 0 \in P
  BY <1>7, UncheckedType DEF V
<1>10. ASSUME NEW k \in Nat, k \in P PROVE k + 1 \in P
  <2> SUFFICES ASSUME k + 1 <= n PROVE fold[1 .. k + 1] \in V
    OBVIOUS
  <2>1. k + 1 \in 1 .. n /\ (k + 1) - 1 = k /\ fold[1 .. k] \in V
    BY <1>1, <1>10
  <2>2. fold[1 .. k + 1] = CheckStep(fold[1 .. k], s[k + 1], text)
    BY <1>8, <2>1
  <2> QED BY <1>1, <2>1, <2>2, CheckStepType DEF V
<1>11. \A k \in Nat : k \in P
  <2> HIDE DEF P
  <2> QED BY <1>9, <1>10, Induction
<1>12. fold[1 .. n] \in V
  BY <1>1, <1>11
<1> QED BY <1>6, <1>12 DEF V

-----------------------------------------------------------------------------
(* The order of application                                                 *)

Strict(n, R) ==
  \A i, j \in 1 .. n :
    /\ <<i, i>> \notin R
    /\ i # j => <<i, j>> \in R \/ <<j, i>> \in R
    /\ \A k \in 1 .. n : <<i, j>> \in R /\ <<j, k>> \in R => <<i, k>> \in R

OneToOne(p, n) ==
  /\ p \in [1 .. n -> 1 .. n]
  /\ \A k, l \in 1 .. n : p[k] = p[l] => k = l
  /\ \A i \in 1 .. n : \E k \in 1 .. n : p[k] = i

LEMMA InjectiveIsOneToOne ==
  ASSUME NEW n \in Nat, NEW p \in [1 .. n -> 1 .. n],
         \A k, l \in 1 .. n : p[k] = p[l] => k = l
  PROVE  OneToOne(p, n)
<1>1. p \in Injection(1 .. n, 1 .. n)
  BY DEF Injection, IsInjective
<1>2. IsFiniteSet(1 .. n)
  BY FS_Interval
<1>3. p \in Surjection(1 .. n, 1 .. n)
  BY <1>1, <1>2, FS_Injection
<1> QED BY <1>3 DEF OneToOne, Surjection

(* A strict order of 1 .. n enumerates it.                                  *)
LEMMA Enumerate ==
  ASSUME NEW n \in Nat, NEW R, Strict(n, R)
  PROVE  \E p \in [1 .. n -> 1 .. n] :
           \A k, l \in 1 .. n : k < l => <<p[k], p[l]>> \in R
<1> DEFINE below(i) == {j \in 1 .. n : <<j, i>> \in R}
           rank == [i \in 1 .. n |-> 1 + Cardinality(below(i))]
<1>1. IsFiniteSet(1 .. n) /\ Cardinality(1 .. n) = n
  BY FS_Interval
<1>2. ASSUME NEW i \in 1 .. n
      PROVE  IsFiniteSet(below(i)) /\ Cardinality(below(i)) \in Nat /\ Cardinality(below(i)) < n
  <2>1. below(i) \in SUBSET (1 .. n) /\ i \notin below(i)
    BY DEF Strict
  <2> HIDE DEF below
  <2>2. /\ IsFiniteSet(below(i)) /\ Cardinality(below(i)) <= n
        /\ n = Cardinality(below(i)) => 1 .. n = below(i)
    BY <1>1, <2>1, FS_Subset
  <2>3. Cardinality(below(i)) \in Nat
    BY <2>2, FS_CardinalityType
  <2>4. Cardinality(below(i)) # n
    BY <2>1, <2>2
  <2> QED BY <2>2, <2>3, <2>4
<1>3. ASSUME NEW i \in 1 .. n, NEW j \in 1 .. n, <<i, j>> \in R
      PROVE  rank[i] < rank[j]
  <2>1. below(i) \in SUBSET below(j) /\ i \in below(j) /\ i \notin below(i)
    BY <1>3 DEF Strict
  <2> HIDE DEF below
  <2>2. /\ Cardinality(below(i)) <= Cardinality(below(j))
        /\ Cardinality(below(j)) = Cardinality(below(i)) => below(j) = below(i)
    BY <1>2, <2>1, FS_Subset
  <2>3. Cardinality(below(i)) < Cardinality(below(j))
    BY <1>2, <2>1, <2>2
  <2> QED BY <1>2, <2>3
<1>4. rank \in [1 .. n -> 1 .. n]
  <2> HIDE DEF below
  <2> QED BY <1>2
<1> HIDE DEF rank
<1>5. ASSUME NEW i \in 1 .. n, NEW j \in 1 .. n, rank[i] = rank[j] PROVE i = j
  <2>1. rank[i] \in Nat /\ rank[j] \in Nat
    BY <1>4
  <2>2. <<i, j>> \notin R /\ <<j, i>> \notin R
    BY <1>3, <1>5, <2>1
  <2> QED BY <2>2 DEF Strict
<1>6. OneToOne(rank, n)
  BY <1>4, <1>5, InjectiveIsOneToOne
<1> DEFINE p == [k \in 1 .. n |-> CHOOSE i \in 1 .. n : rank[i] = k]
<1>7. ASSUME NEW k \in 1 .. n PROVE p[k] \in 1 .. n /\ rank[p[k]] = k
  BY <1>6 DEF OneToOne
<1>8. p \in [1 .. n -> 1 .. n]
  BY <1>7
<1> HIDE DEF p
<1>9. ASSUME NEW k \in 1 .. n, NEW l \in 1 .. n, k < l PROVE <<p[k], p[l]>> \in R
  <2>1. p[k] # p[l] /\ p[k] \in 1 .. n /\ p[l] \in 1 .. n
    BY <1>7, <1>9
  <2>2. <<p[l], p[k]>> \notin R
    <3> SUFFICES ASSUME <<p[l], p[k]>> \in R PROVE FALSE
      OBVIOUS
    <3>1. rank[p[l]] < rank[p[k]]
      BY <1>3, <2>1
    <3> QED BY <1>7, <1>9, <3>1
  <2> QED BY <2>1, <2>2 DEF Strict
<1> QED BY <1>8, <1>9

(* Which of two operations of s is applied first.                           *)
Sooner(s, i, j) ==
  \/ Place(s[i]) > Place(s[j])
  \/ Place(s[i]) = Place(s[j]) /\ ~IsInsert(s[i]) /\ IsInsert(s[j])
  \/ Place(s[i]) = Place(s[j]) /\ (IsInsert(s[i]) <=> IsInsert(s[j])) /\ i < j

LEMMA SoonerStrict ==
  ASSUME NEW s \in Seq(TextOps)
  PROVE  Strict(Len(s), {r \in (1 .. Len(s)) \X (1 .. Len(s)) : Sooner(s, r[1], r[2])})
<1>1. Len(s) \in Nat /\ \A i \in 1 .. Len(s) : Place(s[i]) \in Int
  BY SeqFacts, OpFacts
<1>2. ASSUME NEW i \in 1 .. Len(s), NEW j \in 1 .. Len(s), NEW k \in 1 .. Len(s)
      PROVE  /\ ~Sooner(s, i, i)
             /\ i # j => Sooner(s, i, j) \/ Sooner(s, j, i)
             /\ Sooner(s, i, j) /\ Sooner(s, j, k) => Sooner(s, i, k)
  BY <1>1 DEF Sooner
<1> QED BY <1>2 DEF Strict

(* The operations in the order of application.                              *)
LEMMA OrderFacts ==
  ASSUME NEW s \in Seq(TextOps)
  PROVE  \E p \in [1 .. Len(s) -> 1 .. Len(s)] :
           /\ OneToOne(p, Len(s))
           /\ OrderOpsForApplication(s) = [k \in 1 .. Len(s) |-> s[p[k]]]
           /\ HasRangeEdit(s) =>
                \A k, l \in 1 .. Len(s) : k < l => Sooner(s, p[k], p[l])
<1> DEFINE n == Len(s)
           Sorted(p) == \A k, l \in DOMAIN s : k < l => Sooner(s, p[k], p[l])
           order == CHOOSE p \in [DOMAIN s -> DOMAIN s] : Sorted(p)
<1>1. n \in Nat /\ DOMAIN s = 1 .. n /\ \A i \in 1 .. n : s[i] \in TextOps
  BY SeqFacts
<1>2. CASE ~HasRangeEdit(s)
  <2> DEFINE p == [k \in 1 .. n |-> k]
  <2>1. p \in [1 .. n -> 1 .. n] /\ OneToOne(p, n)
    BY DEF OneToOne
  <2>2. s = [k \in 1 .. n |-> s[k]]
    BY LenProperties
  <2>3. OrderOpsForApplication(s) = s
    BY <1>2 DEF OrderOpsForApplication
  <2>4. [k \in 1 .. n |-> s[p[k]]] = [k \in 1 .. n |-> s[k]]
    OBVIOUS
  <2>5. OrderOpsForApplication(s) = [k \in 1 .. n |-> s[p[k]]]
    BY <2>2, <2>3, <2>4
  <2> HIDE DEF p
  <2> QED BY <1>2, <2>1, <2>5
<1>3. CASE HasRangeEdit(s)
  <2> DEFINE R == {r \in (1 .. n) \X (1 .. n) : Sooner(s, r[1], r[2])}
  <2>1. Strict(n, R)
    BY SoonerStrict
  <2>2. PICK p \in [1 .. n -> 1 .. n] : \A k, l \in 1 .. n : k < l => <<p[k], p[l]>> \in R
    <3> HIDE DEF R
    <3> QED BY <1>1, <2>1, Enumerate
  <2>3. Sorted(p)
    BY <1>1, <2>2
  <2>4. order \in [1 .. n -> 1 .. n] /\ Sorted(order)
    <3> HIDE DEF Sorted
    <3> QED BY <1>1, <2>3
  <2>5. OrderOpsForApplication(s) = [k \in 1 .. n |-> s[order[k]]]
    BY <1>1, <1>3 DEF OrderOpsForApplication, Sooner
  <2> HIDE DEF order
  <2>6. \A k, l \in 1 .. n : k < l => Sooner(s, order[k], order[l])
    BY <1>1, <2>4
  <2>7. ASSUME NEW k \in 1 .. n, NEW l \in 1 .. n, order[k] = order[l] PROVE k = l
    <3>1. \A i \in 1 .. n : ~Sooner(s, i, i)
      BY <2>1 DEF Strict
    <3>2. order[k] \in 1 .. n
      BY <2>4
    <3>3. ~(k < l) /\ ~(l < k)
      BY <2>6, <2>7, <3>1, <3>2
    <3> QED BY <3>3
  <2>8. OneToOne(order, n)
    BY <1>1, <2>4, <2>7, InjectiveIsOneToOne
  <2> QED BY <2>4, <2>5, <2>6, <2>8
<1> QED BY <1>2, <1>3

LEMMA OrderType ==
  ASSUME NEW s \in Seq(TextOps)
  PROVE  OrderOpsForApplication(s) \in Seq(TextOps) /\ Len(OrderOpsForApplication(s)) = Len(s)
<1>1. PICK p \in [1 .. Len(s) -> 1 .. Len(s)] :
        OrderOpsForApplication(s) = [k \in 1 .. Len(s) |-> s[p[k]]]
  BY OrderFacts
<1>2. Len(s) \in Nat /\ \A i \in 1 .. Len(s) : s[i] \in TextOps
  BY SeqFacts
<1>3. OrderOpsForApplication(s) \in [1 .. Len(s) -> TextOps]
  BY <1>1, <1>2
<1> QED BY <1>2, <1>3, FunIsSeq

LEMMA ComputeAfterType ==
  ASSUME NEW d \in TextDocs, NEW s \in Seq(TextOps)
  PROVE  /\ ComputeAfter(d, s) \in TextDocs
         /\ d # <<>> => ComputeAfter(d, s) # <<>>
<1> DEFINE o == OrderOpsForApplication(s)
<1>1. o \in Seq(TextOps) /\ Len(o) \in Nat /\ \A i \in 1 .. Len(o) : o[i] \in TextOps
  BY OrderType, SeqFacts
<1> HIDE DEF o
<1>2. PICK g \in [0 .. Len(o) -> TextDocs] : Stages(g, d, o) /\ FoldLeft(Apply, d, o) = g[Len(o)]
  BY <1>1, FoldApply
<1>3. ComputeAfter(d, s) = g[Len(o)]
  BY <1>2 DEF ComputeAfter, o
<1>4. ASSUME d # <<>> PROVE g[Len(o)] # <<>>
  <2> DEFINE P == {k \in Nat : k <= Len(o) => g[k] # <<>>}
  <2>1. 0 \in P
    BY <1>2, <1>4 DEF Stages
  <2>2. ASSUME NEW k \in Nat, k \in P PROVE k + 1 \in P
    <3> SUFFICES ASSUME k + 1 <= Len(o) PROVE g[k + 1] # <<>>
      OBVIOUS
    <3>1. k + 1 \in 1 .. Len(o) /\ (k + 1) - 1 = k /\ g[k] # <<>> /\ g[k] \in TextDocs
      BY <1>1, <2>2
    <3>2. g[k + 1] = Apply(g[k], o[k + 1])
      BY <1>2, <3>1 DEF Stages
    <3> QED BY <1>1, <3>1, <3>2, ApplyType
  <2>3. \A k \in Nat : k \in P
    <3> HIDE DEF P
    <3> QED BY <2>1, <2>2, Induction
  <2> QED BY <1>1, <2>3
<1>5. g[Len(o)] \in TextDocs
  BY <1>1
<1> QED BY <1>3, <1>4, <1>5

-----------------------------------------------------------------------------

LEMMA OperationsType ==
  ASSUME NEW text \in Seq(Characters)
  PROVE  Operations(text) \subseteq TextOps
<1> DEFINE Pairs == {r \in (0 .. Len(text)) \X (0 .. Len(text)) : r[1] < r[2]}
           Quotes(r) == {Slice(text, r[1], r[2]), Normalized(Slice(text, r[1], r[2]))}
           Ranges(r) == {x \in {<<r[1] + k[1], r[2] + k[2]>> : k \in Shifts} : x[1] < x[2]}
<1>1. Len(text) \in Nat
  OBVIOUS
<1>2. ASSUME NEW r \in Pairs
      PROVE  Quotes(r) \subseteq Seq(Characters) \ {<<>>}
  <2>1. r[1] \in Nat /\ r[2] \in r[1] .. Len(text) /\ r[2] - r[1] > 0
    BY <1>1
  <2> DEFINE x == Slice(text, r[1], r[2])
  <2>2. x \in Seq(Characters) /\ Len(x) = r[2] - r[1]
    BY <2>1, SliceIn
  <2> HIDE DEF x
  <2>3. Normalized(x) \in Seq(Characters) /\ Len(Normalized(x)) = r[2] - r[1]
    BY <2>2, NormalizedType
  <2>4. x # <<>> /\ Normalized(x) # <<>>
    BY <2>1, <2>2, <2>3
  <2> QED BY <2>2, <2>3, <2>4 DEF x
<1>3. ASSUME NEW r \in Pairs, NEW x \in Ranges(r), NEW type \in {"delete", "format"},
             NEW quote \in Quotes(r)
      PROVE  [type |-> type, start |-> x[1], end |-> x[2], expected |-> quote] \in RangeEdits
  <2>1. PICK k \in Shifts : x = <<r[1] + k[1], r[2] + k[2]>>
    OBVIOUS
  <2>2. x[1] \in Int /\ x[2] \in Int /\ x[1] < x[2]
    <3>1. k[1] \in Int /\ k[2] \in Int /\ r[1] \in Int /\ r[2] \in Int
      BY <1>1, ShiftsAssumption
    <3>2. x[1] = r[1] + k[1] /\ x[2] = r[2] + k[2] /\ x[1] < x[2]
      BY <2>1
    <3> QED BY <3>1, <3>2
  <2>3. quote \in Seq(Characters) \ {<<>>}
    BY <1>2
  <2> QED BY <2>2, <2>3 DEF RangeEdits
<1>4. ASSUME NEW p \in 0 .. Len(text) + MaxPast, NEW t \in Texts, NEW quote \in Seq(Characters),
             NEW side \in {"before", "after"}
      PROVE  [type |-> "insert", position |-> p, text |-> t, anchor |-> quote, side |-> side]
               \in Insertions
  BY <1>1, BoundsAssumption DEF Insertions
<1>5. \A r \in Pairs : r[1] \in 0 .. Len(text) + MaxPast
  BY <1>1, BoundsAssumption
<1> DEFINE IsEdit(op) == \E r \in Pairs, type \in {"delete", "format"} :
             \E quote \in Quotes(r), x \in Ranges(r) :
               op = [type |-> type, start |-> x[1], end |-> x[2], expected |-> quote]
           IsAnchored(op) == \E r \in Pairs, t \in Texts, side \in {"before", "after"} :
             \E quote \in Quotes(r) :
               op = [type |-> "insert", position |-> r[1], text |-> t, anchor |-> quote,
                     side |-> side]
           IsLoose(op) == \E p \in 0 .. Len(text) + MaxPast, t \in Texts :
               op = [type |-> "insert", position |-> p, text |-> t, anchor |-> <<>>,
                     side |-> "after"]
<1>6. ASSUME NEW op \in Operations(text)
      PROVE  IsEdit(op) \/ IsAnchored(op) \/ IsLoose(op)
  <2> DEFINE Slices(n) == {r \in (0 .. Len(text)) \X (0 .. Len(text)) :
                             r[1] < r[2] /\ r[2] - r[1] <= n}
             Edits(r) == {[type |-> type, start |-> x[1], end |-> x[2],
                           expected |-> quote] :
                            type \in {"delete", "format"}, quote \in Quotes(r),
                            x \in Ranges(r)}
             Anchored(r) == {[type |-> "insert", position |-> r[1], text |-> t,
                              anchor |-> quote, side |-> side] :
                               t \in Texts, quote \in Quotes(r), side \in {"before", "after"}}
             Loose == {[type |-> "insert", position |-> p, text |-> t, anchor |-> <<>>,
                        side |-> "after"] : p \in 0 .. Len(text) + MaxPast, t \in Texts}
             AllEdits == UNION {Edits(r) : r \in Slices(Len(text))}
             AllAnchored == UNION {Anchored(r) : r \in Slices(MaxQuote)}
  <2>1. op \in AllEdits \cup AllAnchored \cup Loose
    BY DEF Operations
  <2>2. \A n : Slices(n) \subseteq Pairs
    OBVIOUS
  <2> HIDE DEF Slices
  <2>3. CASE op \in AllEdits
    <3>1. PICK r \in Pairs : op \in Edits(r)
      <4> HIDE DEF Edits, Pairs
      <4> QED BY <2>2, <2>3
    <3> HIDE DEF Pairs, Quotes, Ranges
    <3>2. PICK type \in {"delete", "format"}, quote \in Quotes(r), x \in Ranges(r) :
            op = [type |-> type, start |-> x[1], end |-> x[2], expected |-> quote]
      BY <3>1
    <3>3. IsEdit(op)
      BY <3>2
    <3> QED BY <3>3
  <2>4. CASE op \in AllAnchored
    <3>1. PICK r \in Pairs : op \in Anchored(r)
      <4> HIDE DEF Anchored, Pairs
      <4> QED BY <2>2, <2>4
    <3> HIDE DEF Pairs, Quotes
    <3>2. PICK t \in Texts, quote \in Quotes(r), side \in {"before", "after"} :
            op = [type |-> "insert", position |-> r[1], text |-> t, anchor |-> quote,
                  side |-> side]
      BY <3>1
    <3>3. IsAnchored(op)
      BY <3>2
    <3> QED BY <3>3
  <2>5. CASE op \in Loose
    <3> HIDE DEF Pairs, Quotes, Ranges, Edits, Anchored
    <3>1. IsLoose(op)
      BY <2>5
    <3> QED BY <3>1
  <2> HIDE DEF AllEdits, AllAnchored, Loose, IsEdit, IsAnchored, IsLoose
  <2> QED BY <2>1, <2>3, <2>4, <2>5
<1> SUFFICES ASSUME NEW op \in Operations(text) PROVE op \in RangeEdits \/ op \in Insertions
  BY DEF TextOps
<1> HIDE DEF Pairs, Quotes, Ranges
<1>7. <<>> \in Seq(Characters)
  OBVIOUS
<1>8. CASE IsEdit(op)
  BY <1>3, <1>8
<1>9. CASE IsAnchored(op)
  BY <1>2, <1>4, <1>5, <1>9
<1>10. CASE IsLoose(op)
  BY <1>4, <1>7, <1>10
<1> HIDE DEF IsEdit, IsAnchored, IsLoose
<1> QED BY <1>6, <1>8, <1>9, <1>10

LEMMA TextInitType == TextInit => TextTypeOK
<1> SUFFICES ASSUME TextInit PROVE TextTypeOK
  OBVIOUS
<1>1. doc \in TextDocs
  BY DocumentsAssumption DEF TextInit, TextDocs
<1>2. ops \in Seq(TextOps) /\ applied \in Seq(TextOps)
  BY DEF TextInit
<1>3. edits \in 0 .. MaxEdits
  BY BoundsAssumption DEF TextInit
<1> QED BY <1>1, <1>2, <1>3 DEF TextInit, TextTypeOK

LEMMA GenerateType ==
  ASSUME TextTypeOK, Generate
  PROVE  TextTypeOK'
<1>1. ExtractText(doc) \in Seq(Characters)
  BY ExtractTextType DEF TextTypeOK, TextDocs
<1>2. PICK n \in 1 .. MaxOps : ops' \in [1 .. n -> Operations(ExtractText(doc))]
  BY DEF Generate
<1>3. ops' \in [1 .. n -> TextOps] /\ n \in Nat
  BY <1>1, <1>2, OperationsType, BoundsAssumption
<1>4. ops' \in Seq(TextOps)
  BY <1>3, FunIsSeq
<1> QED BY <1>4 DEF Generate, TextTypeOK

(* The outcome of the check of the operations under way.                    *)
LEMMA CheckedType ==
  ASSUME TextTypeOK
  PROVE  /\ CheckContentExistence(ops, ExtractText(doc)) \in Checks(ExtractText(doc))
         /\ CheckContentExistence(ops, ExtractText(doc)).valid \in Seq(TextOps)
<1>1. ExtractText(doc) \in Seq(Characters) /\ ops \in Seq(TextOps)
  BY ExtractTextType DEF TextTypeOK, TextDocs
<1>2. CheckContentExistence(ops, ExtractText(doc)) \in Checks(ExtractText(doc))
  BY <1>1, CheckType
<1> QED BY <1>2 DEF Checks

LEMMA ApplyOpsType ==
  ASSUME TextTypeOK, NEW s \in Seq(TextOps), NEW end \in {"applied", "confirmed"},
         ApplyOps(s, end)
  PROVE  TextTypeOK'
<1>1. ComputeAfter(doc, s) \in TextDocs /\ (doc # <<>> => ComputeAfter(doc, s) # <<>>)
  BY ComputeAfterType DEF TextTypeOK
<1> DEFINE order == OrderOpsForApplication(s)
<1>2. erased' = ErasedBy(Versions(doc, order), order, Len(order)) /\ <<>> \in Seq(TextOps)
  BY DEF ApplyOps
<1>3. erased' \in BOOLEAN
  BY <1>2 DEF ErasedBy, TextTypeOK
<1> QED BY <1>1, <1>2, <1>3 DEF ApplyOps, TextTypeOK

LEMMA StageType ==
  ASSUME TextTypeOK, StageProposal
  PROVE  TextTypeOK'
BY CheckedType DEF StageProposal, TextTypeOK

LEMMA EditType ==
  ASSUME TextTypeOK, Edit
  PROVE  TextTypeOK'
<1>1. doc \in Seq(Seq(Cells)) /\ edits \in Nat /\ MaxEdits \in Nat
  BY BoundsAssumption DEF TextTypeOK, TextDocs
<1>a. PICK i \in DOMAIN doc : \E k \in 0 .. Len(doc[i]) :
        \/ \E c \in Letters : doc' = [doc EXCEPT ![i] = YInsert(@, k, <<c>>)]
        \/ k < Len(doc[i]) /\ doc' = [doc EXCEPT ![i] = YDelete(@, k, 1)]
        \/ doc' = SubSeq(doc, 1, i - 1)
                     \o <<Slice(doc[i], 0, k), Slice(doc[i], k, Len(doc[i]))>>
                     \o SubSeq(doc, i + 1, Len(doc))
  BY ZenonT(30) DEF Edit
<1>b. erased' \in BOOLEAN
  BY ZenonT(30) DEF Edit, TextTypeOK
<1>2. PICK k \in 0 .. Len(doc[i]) :
        \/ \E c \in Letters : doc' = [doc EXCEPT ![i] = YInsert(@, k, <<c>>)]
        \/ k < Len(doc[i]) /\ doc' = [doc EXCEPT ![i] = YDelete(@, k, 1)]
        \/ doc' = SubSeq(doc, 1, i - 1)
                     \o <<Slice(doc[i], 0, k), Slice(doc[i], k, Len(doc[i]))>>
                     \o SubSeq(doc, i + 1, Len(doc))
  BY <1>a
<1>3. i \in 1 .. Len(doc) /\ doc[i] \in Seq(Cells) /\ k \in Nat /\ Len(doc) \in Nat \ {0}
  BY <1>1
<1>4. ASSUME NEW b \in Seq(Cells), doc' = [doc EXCEPT ![i] = b]
      PROVE  doc' \in Seq(Seq(Cells)) /\ doc' # <<>>
  <2>1. /\ [doc EXCEPT ![i] = b] \in Seq(Seq(Cells)) /\ Len([doc EXCEPT ![i] = b]) = Len(doc)
    BY <1>1, <1>3, ExceptSeq
  <2> QED BY <1>3, <1>4, <2>1
<1>5. doc' \in Seq(Seq(Cells)) /\ doc' # <<>>
  <2>1. CASE \E c \in Letters : doc' = [doc EXCEPT ![i] = YInsert(@, k, <<c>>)]
    <3>1. PICK c \in Letters : doc' = [doc EXCEPT ![i] = YInsert(doc[i], k, <<c>>)]
      BY <2>1
    <3>2. <<c>> \in Seq(Characters)
      BY CharactersAssumption
    <3>3. YInsert(doc[i], k, <<c>>) \in Seq(Cells)
      BY <1>3, <3>2, YInsertValue
    <3> QED BY <1>4, <3>1, <3>3
  <2>2. CASE doc' = [doc EXCEPT ![i] = YDelete(@, k, 1)]
    <3>1. YDelete(doc[i], k, 1) \in Seq(Cells)
      BY <1>3, YDeleteType
    <3>2. doc' = [doc EXCEPT ![i] = YDelete(doc[i], k, 1)]
      BY <2>2
    <3> QED BY <1>4, <3>1, <3>2
  <2>3. CASE doc' = SubSeq(doc, 1, i - 1)
                      \o <<Slice(doc[i], 0, k), Slice(doc[i], k, Len(doc[i]))>>
                      \o SubSeq(doc, i + 1, Len(doc))
    <3> DEFINE x == SubSeq(doc, 1, i - 1)
               y == <<Slice(doc[i], 0, k), Slice(doc[i], k, Len(doc[i]))>>
               z == SubSeq(doc, i + 1, Len(doc))
    <3>1. i - 1 \in 0 .. Len(doc) /\ i \in 0 .. Len(doc)
      BY <1>3
    <3>2. x \in Seq(Seq(Cells)) /\ z \in Seq(Seq(Cells))
      BY <1>1, <3>1, Halves
    <3>3. y \in Seq(Seq(Cells)) /\ Len(y) = 2
      <4>1. Slice(doc[i], 0, k) \in Seq(Cells) /\ Slice(doc[i], k, Len(doc[i])) \in Seq(Cells)
        BY <1>3, Parts
      <4> QED BY <4>1
    <3>4. doc' = x ++ y ++ z
      BY <2>3 DEF ++
    <3> HIDE DEF x, y, z
    <3>5. x ++ y \in Seq(Seq(Cells)) /\ Len(x ++ y) = Len(x) + 2
      BY <3>2, <3>3, CatType, CatLen
    <3>6. x ++ y ++ z \in Seq(Seq(Cells)) /\ Len(x ++ y ++ z) = Len(x) + 2 + Len(z)
      BY <3>2, <3>5, CatType, CatLen
    <3>7. Len(x) \in Nat /\ Len(z) \in Nat
      BY <3>2
    <3>8. Len(doc') # 0
      BY <3>4, <3>6, <3>7
    <3> QED BY <3>4, <3>6, <3>8
  <2> QED BY <1>2, <2>1, <2>2, <2>3
<1>6. edits' \in 0 .. MaxEdits
  <2>1. edits < MaxEdits /\ edits' = edits + 1
    BY DEF Edit
  <2> QED BY <1>1, <2>1
<1> QED BY <1>b, <1>5, <1>6 DEF Edit, TextTypeOK, TextDocs

LEMMA TextNextType ==
  ASSUME TextTypeOK, [TextNext]_textVars
  PROVE  TextTypeOK'
<1>1. CASE Generate
  BY <1>1, GenerateType
<1>2. CASE Chat
  BY <1>2, CheckedType, ApplyOpsType DEF Chat
<1>3. CASE StageProposal
  BY <1>3, StageType
<1>4. CASE Edit
  BY <1>4, EditType
<1>5. CASE AcceptProposal
  BY <1>5, CheckedType, ApplyOpsType DEF AcceptProposal
<1>6. CASE AcceptConfirmed
  <2>1. ops \in Seq(TextOps)
    BY DEF TextTypeOK
  <2> QED BY <1>6, <2>1, ApplyOpsType DEF AcceptConfirmed
<1>7. CASE Refuse
  <2>1. <<>> \in Seq(TextOps)
    OBVIOUS
  <2> QED BY <1>7, <2>1 DEF Refuse, TextTypeOK
<1>8. CASE UNCHANGED textVars
  BY <1>8 DEF textVars, TextTypeOK
<1> QED BY <1>1, <1>2, <1>3, <1>4, <1>5, <1>6, <1>7, <1>8 DEF TextNext

(* Whatever the documents, the texts to insert and the drift: documents     *)
(* stay sequences of paragraphs, no request leaves a document without any,  *)
(* and the operations under way are well formed.                            *)
THEOREM TextTypeCorrect == TextSpec => []TextTypeOK
<1>1. TextInit => TextTypeOK
  BY TextInitType
<1>2. TextTypeOK /\ [TextNext]_textVars => TextTypeOK'
  BY TextNextType
<1> QED BY <1>1, <1>2, PTL DEF TextSpec

-----------------------------------------------------------------------------
(* Mapping                                                                  *)

Map(f, s) == [i \in 1 .. Len(s) |-> f[s[i]]]

(* f goes from S to V: named, for the prover to find S and V.               *)
Goes(f, S, V) == f \in [S -> V]

LEMMA MapType ==
  ASSUME NEW S, NEW V, NEW f, Goes(f, S, V), NEW s \in Seq(S)
  PROVE  /\ Map(f, s) \in Seq(V) /\ Len(Map(f, s)) = Len(s)
         /\ \A i \in 1 .. Len(s) : Map(f, s)[i] = f[s[i]]
<1>1. Len(s) \in Nat /\ \A i \in 1 .. Len(s) : s[i] \in S
  BY SeqFacts
<1>2. Map(f, s) \in [1 .. Len(s) -> V]
  BY <1>1 DEF Map, Goes
<1>3. Map(f, s) \in Seq(V) /\ Len(Map(f, s)) = Len(s)
  BY <1>1, <1>2, FunIsSeq
<1> QED BY <1>3 DEF Map

LEMMA MapCat ==
  ASSUME NEW S, NEW V, NEW f, Goes(f, S, V), NEW x \in Seq(S), NEW y \in Seq(S)
  PROVE  Map(f, x ++ y) = Map(f, x) ++ Map(f, y)
<1> DEFINE z == x ++ y
<1>1. /\ Len(x) \in Nat /\ Len(y) \in Nat /\ z \in Seq(S) /\ Len(z) = Len(x) + Len(y)
      /\ \A i \in 1 .. Len(x) + Len(y) : z[i] = IF i <= Len(x) THEN x[i] ELSE y[i - Len(x)]
  <2>1. Len(x) \in Nat /\ Len(y) \in Nat
    OBVIOUS
  <2> QED BY <2>1, CatType, CatLen, CatAt
<1> HIDE DEF z
<1>2. /\ Map(f, x) \in Seq(V) /\ Len(Map(f, x)) = Len(x)
      /\ \A i \in 1 .. Len(x) : Map(f, x)[i] = f[x[i]]
  BY MapType
<1>3. /\ Map(f, y) \in Seq(V) /\ Len(Map(f, y)) = Len(y)
      /\ \A i \in 1 .. Len(y) : Map(f, y)[i] = f[y[i]]
  BY MapType
<1>4. /\ Map(f, z) \in Seq(V) /\ Len(Map(f, z)) = Len(x) + Len(y)
      /\ \A i \in 1 .. Len(x) + Len(y) : Map(f, z)[i] = f[z[i]]
  BY <1>1, MapType
<1> DEFINE a == Map(f, x)
           b == Map(f, y)
           c == Map(f, z)
<1> HIDE DEF a, b, c
<1>5. /\ a ++ b \in Seq(V) /\ Len(a ++ b) = Len(x) + Len(y)
      /\ \A i \in 1 .. Len(x) + Len(y) : (a ++ b)[i] = IF i <= Len(x) THEN a[i] ELSE b[i - Len(x)]
  <2>1. a \in Seq(V) /\ b \in Seq(V) /\ Len(a) = Len(x) /\ Len(b) = Len(y)
    BY <1>2, <1>3 DEF a, b
  <2>2. a ++ b \in Seq(V) /\ Len(a ++ b) = Len(a) + Len(b)
    BY <2>1, CatType, CatLen
  <2>3. \A i \in 1 .. Len(a) + Len(b) : (a ++ b)[i] = IF i <= Len(a) THEN a[i] ELSE b[i - Len(a)]
    BY <2>1, CatAt
  <2> QED BY <2>1, <2>2, <2>3
<1>6. ASSUME NEW i \in 1 .. Len(x) + Len(y) PROVE c[i] = (a ++ b)[i]
  <2>1. c[i] = f[z[i]]
    BY <1>4 DEF c
  <2>2. CASE i <= Len(x)
    <3>1. i \in 1 .. Len(x)
      BY <1>1, <2>2
    <3>2. a[i] = f[x[i]]
      BY <1>2, <3>1 DEF a
    <3> QED BY <1>1, <1>5, <2>1, <2>2, <3>2
  <2>3. CASE ~(i <= Len(x))
    <3>1. i - Len(x) \in 1 .. Len(y)
      BY <1>1, <2>3
    <3>2. b[i - Len(x)] = f[y[i - Len(x)]]
      BY <1>3, <3>1 DEF b
    <3> QED BY <1>1, <1>5, <2>1, <2>3, <3>2
  <2> QED BY <2>2, <2>3
<1>7. c = a ++ b
  <2>1. c \in Seq(V) /\ Len(c) = Len(a ++ b)
    BY <1>4, <1>5 DEF c
  <2>2. \A i \in 1 .. Len(c) : c[i] = (a ++ b)[i]
    BY <1>4, <1>6 DEF c
  <2> QED BY <1>5, <2>1, <2>2, SeqEqual
<1> QED BY <1>7 DEF a, b, c, z

LEMMA MapEmpty == \A f : Map(f, <<>>) = <<>>
<1> SUFFICES ASSUME NEW f PROVE Map(f, <<>>) = <<>>
  OBVIOUS
<1>1. Map(f, <<>>) \in [1 .. 0 -> {f}] /\ Len(<<>>) = 0
  BY DEF Map
<1>2. Map(f, <<>>) \in Seq({f}) /\ Len(Map(f, <<>>)) = 0
  BY <1>1, FunIsSeq
<1> QED BY <1>2

LEMMA MapOne ==
  ASSUME NEW S, NEW V, NEW f, Goes(f, S, V), NEW x \in S
  PROVE  Map(f, <<x>>) = <<f[x]>>
<1>1. <<x>> \in Seq(S) /\ Len(<<x>>) = 1 /\ <<x>>[1] = x /\ 1 \in 1 .. 1
  OBVIOUS
<1>2. /\ Map(f, <<x>>) \in Seq(V) /\ Len(Map(f, <<x>>)) = 1
      /\ Map(f, <<x>>)[1] = f[x]
  BY <1>1, MapType
<1>3. <<f[x]>> \in Seq(V) /\ Len(<<f[x]>>) = 1 /\ <<f[x]>>[1] = f[x]
  BY DEF Goes
<1>4. \A i \in 1 .. 1 : Map(f, <<x>>)[i] = <<f[x]>>[i]
  BY <1>2, <1>3
<1> QED BY <1>2, <1>3, <1>4, SeqEqual

(* A function on sequences that keeps concatenation.                        *)
Keeps(h, S, V) ==
  /\ Goes(h, Seq(S), Seq(V))
  /\ h[<<>>] = <<>>
  /\ \A x, y \in Seq(S) : h[x ++ y] = h[x] ++ h[y]

LEMMA KeepsFlatten ==
  ASSUME NEW S, NEW V, NEW h, Keeps(h, S, V), NEW s \in Seq(Seq(S))
  PROVE  h[FlattenSeq(s)] = FlattenSeq(Map(h, s))
<1>1. PICK F \in [0 .. Len(s) -> Seq(S)] : Partial(s, F)
  BY PartialExists
<1>2. h \in [Seq(S) -> Seq(V)] /\ Goes(h, Seq(S), Seq(V)) /\ Len(s) \in Nat
  BY DEF Keeps, Goes
<1>3. /\ Map(h, s) \in Seq(Seq(V)) /\ Len(Map(h, s)) = Len(s)
      /\ \A i \in 1 .. Len(s) : Map(h, s)[i] = h[s[i]]
  BY <1>2, MapType
<1> DEFINE m == Map(h, s)
           G == [i \in 0 .. Len(s) |-> h[F[i]]]
<1> HIDE DEF m
<1>4. G \in [0 .. Len(m) -> Seq(V)]
  BY <1>2, <1>3 DEF m
<1>5. ASSUME NEW i \in 1 .. Len(s) PROVE G[i] = G[i - 1] ++ m[i]
  <2>1. i \in 0 .. Len(s) /\ i - 1 \in 0 .. Len(s)
    BY <1>2
  <2>2. F[i] = F[i - 1] ++ s[i]
    BY <1>1 DEF Partial
  <2>3. F[i - 1] \in Seq(S) /\ s[i] \in Seq(S)
    <3>1. F[i - 1] \in Seq(S)
      BY <2>1
    <3> QED BY <3>1, SeqFacts
  <2>4. h[F[i - 1] ++ s[i]] = h[F[i - 1]] ++ h[s[i]]
    BY <2>3 DEF Keeps
  <2>5. m[i] = h[s[i]]
    BY <1>3 DEF m
  <2> QED BY <2>1, <2>2, <2>4, <2>5
<1>6. G[0] = <<>>
  BY <1>1, <1>2 DEF Partial, Keeps
<1>7. Partial(m, G)
  <2> HIDE DEF G
  <2> QED BY <1>3, <1>5, <1>6 DEF Partial, m
<1>8. FlattenSeq(m) = G[Len(m)]
  <2> HIDE DEF G
  <2> QED BY <1>3, <1>4, <1>7, FlattenIsPartial DEF m
<1>9. G[Len(m)] = h[F[Len(s)]]
  BY <1>2, <1>3 DEF m
<1>10. FlattenSeq(s) = F[Len(s)]
  BY <1>1, FlattenIsPartial
<1> QED BY <1>8, <1>9, <1>10 DEF m

(* Mapping and flattening is such a function.                               *)
LEMMA FlatMapCat ==
  ASSUME NEW S, NEW V, NEW f, Goes(f, S, Seq(V))
  PROVE  /\ \A s \in Seq(S) : FlattenSeq(Map(f, s)) \in Seq(V)
         /\ FlattenSeq(Map(f, <<>>)) = <<>>
         /\ \A x \in S : FlattenSeq(Map(f, <<x>>)) = f[x]
         /\ \A x, y \in Seq(S) :
              FlattenSeq(Map(f, x ++ y)) = FlattenSeq(Map(f, x)) ++ FlattenSeq(Map(f, y))
<1>1. ASSUME NEW s \in Seq(S) PROVE Map(f, s) \in Seq(Seq(V))
  BY MapType
<1>2. \A s \in Seq(S) : FlattenSeq(Map(f, s)) \in Seq(V)
  BY <1>1, FlattenType
<1>3. FlattenSeq(Map(f, <<>>)) = <<>>
  BY MapEmpty, FlattenEmpty
<1>4. ASSUME NEW x \in S PROVE FlattenSeq(Map(f, <<x>>)) = f[x]
  <2>1. Map(f, <<x>>) = <<f[x]>> /\ f[x] \in Seq(V)
    BY MapOne, ZenonT(30) DEF Goes
  <2> QED BY <2>1, FlattenOne
<1>5. ASSUME NEW x \in Seq(S), NEW y \in Seq(S)
      PROVE  FlattenSeq(Map(f, x ++ y)) = FlattenSeq(Map(f, x)) ++ FlattenSeq(Map(f, y))
  <2>1. Map(f, x ++ y) = Map(f, x) ++ Map(f, y)
    BY MapCat
  <2>2. Map(f, x) \in Seq(Seq(V)) /\ Map(f, y) \in Seq(Seq(V))
    BY <1>1
  <2> QED BY <2>1, <2>2, FlattenConcat
<1> QED BY <1>2, <1>3, <1>4, <1>5

-----------------------------------------------------------------------------
(* Characters                                                               *)

CharOf == [c \in Cells |-> c.ch]
Solid == [c \in Characters |-> IF c = "nl" THEN <<>> ELSE <<c>>]

(* The characters of cells, and those of them that are not line breaks.     *)
Chars(b) == Map(CharOf, b)
Pure(b) == Unbroken(Chars(b))

LEMMA CharsFacts ==
  /\ \A b \in Seq(Cells) :
       /\ Chars(b) \in Seq(Characters) /\ Len(Chars(b)) = Len(b)
       /\ \A k \in 1 .. Len(b) : Chars(b)[k] = b[k].ch
  /\ \A x, y \in Seq(Cells) : Chars(x ++ y) = Chars(x) ++ Chars(y)
  /\ Chars(<<>>) = <<>>
<1>1. Goes(CharOf, Cells, Characters)
  BY DEF Goes, CharOf, Cells
<1>2. ASSUME NEW b \in Seq(Cells)
      PROVE  /\ Chars(b) \in Seq(Characters) /\ Len(Chars(b)) = Len(b)
             /\ \A k \in 1 .. Len(b) : Chars(b)[k] = b[k].ch
  <2>1. /\ Chars(b) \in Seq(Characters) /\ Len(Chars(b)) = Len(b)
        /\ \A k \in 1 .. Len(b) : Chars(b)[k] = CharOf[b[k]]
    BY <1>1, MapType DEF Chars
  <2>2. \A k \in 1 .. Len(b) : b[k] \in Cells
    BY SeqFacts
  <2>3. \A k \in 1 .. Len(b) : CharOf[b[k]] = b[k].ch
    BY <2>2 DEF CharOf
  <2> QED BY <2>1, <2>3
<1>3. ASSUME NEW x \in Seq(Cells), NEW y \in Seq(Cells)
      PROVE  Chars(x ++ y) = Chars(x) ++ Chars(y)
  BY <1>1, MapCat DEF Chars
<1>4. Chars(<<>>) = <<>>
  BY MapEmpty DEF Chars
<1> QED BY <1>2, <1>3, <1>4

(* Text that is typed, with marks or without, is made of its characters.    *)
LEMMA CharsTyped ==
  ASSUME NEW s \in Seq(Characters), NEW bold \in BOOLEAN
  PROVE  Chars(Typed(s, bold)) = s /\ Chars(Plain(s)) = s
<1>1. ASSUME NEW b \in Seq(Cells), Len(b) = Len(s), \A i \in 1 .. Len(s) : b[i].ch = s[i]
      PROVE  Chars(b) = s
  <2>1. /\ Chars(b) \in Seq(Characters) /\ Len(Chars(b)) = Len(s)
        /\ \A i \in 1 .. Len(s) : Chars(b)[i] = s[i]
    BY <1>1, CharsFacts
  <2> QED BY <2>1, SeqEqual
<1>2. Chars(Typed(s, bold)) = s
  BY <1>1, TypedType
<1>3. Chars(Plain(s)) = s
  BY <1>1, PlainType
<1> QED BY <1>2, <1>3

LEMMA UnbrokenIs ==
  ASSUME NEW s \in Seq(Characters)
  PROVE  Unbroken(s) = FlattenSeq(Map(Solid, s))
<1>1. Len(s) \in Nat /\ DOMAIN s = 1 .. Len(s) /\ \A i \in 1 .. Len(s) : s[i] \in Characters
  BY SeqFacts
<1>2. \A i \in 1 .. Len(s) : Solid[s[i]] = IF s[i] = "nl" THEN <<>> ELSE <<s[i]>>
  BY <1>1 DEF Solid
<1>3. Map(Solid, s) = [i \in DOMAIN s |-> IF s[i] = "nl" THEN <<>> ELSE <<s[i]>>]
  BY <1>1, <1>2 DEF Map
<1> QED BY <1>3 DEF Unbroken

LEMMA UnbrokenFacts ==
  /\ \A s \in Seq(Characters) : Unbroken(s) \in Seq(Characters)
  /\ \A x, y \in Seq(Characters) : Unbroken(x ++ y) = Unbroken(x) ++ Unbroken(y)
  /\ Unbroken(<<>>) = <<>>
  /\ Unbroken(<<"nl">>) = <<>>
<1>1. Goes(Solid, Characters, Seq(Characters))
  BY DEF Goes, Solid
<1>2. ASSUME NEW s \in Seq(Characters) PROVE Unbroken(s) \in Seq(Characters)
  BY <1>1, FlatMapCat, UnbrokenIs
<1>3. ASSUME NEW x \in Seq(Characters), NEW y \in Seq(Characters)
      PROVE  Unbroken(x ++ y) = Unbroken(x) ++ Unbroken(y)
  <2>1. x ++ y \in Seq(Characters)
    BY CatType
  <2>2. FlattenSeq(Map(Solid, x ++ y)) = FlattenSeq(Map(Solid, x)) ++ FlattenSeq(Map(Solid, y))
    BY <1>1, FlatMapCat
  <2> QED BY <2>1, <2>2, UnbrokenIs
<1>4. Unbroken(<<>>) = <<>>
  <2>1. <<>> \in Seq(Characters)
    OBVIOUS
  <2> QED BY <1>1, <2>1, FlatMapCat, UnbrokenIs
<1>5. Unbroken(<<"nl">>) = <<>>
  <2>1. "nl" \in Characters
    BY CharactersAssumption
  <2>2. <<"nl">> \in Seq(Characters) /\ Solid["nl"] = <<>>
    BY <2>1 DEF Solid
  <2>3. FlattenSeq(Map(Solid, <<"nl">>)) = Solid["nl"]
    BY <1>1, <2>1, FlatMapCat
  <2> QED BY <2>2, <2>3, UnbrokenIs
<1> QED BY <1>2, <1>3, <1>4, <1>5

LEMMA PureFacts ==
  /\ \A b \in Seq(Cells) : Pure(b) \in Seq(Characters)
  /\ \A x, y \in Seq(Cells) : Pure(x ++ y) = Pure(x) ++ Pure(y)
  /\ Pure(<<>>) = <<>>
<1>1. ASSUME NEW b \in Seq(Cells) PROVE Pure(b) \in Seq(Characters)
  BY CharsFacts, UnbrokenFacts DEF Pure
<1>2. ASSUME NEW x \in Seq(Cells), NEW y \in Seq(Cells)
      PROVE  Pure(x ++ y) = Pure(x) ++ Pure(y)
  <2>1. /\ Chars(x ++ y) = Chars(x) ++ Chars(y)
        /\ Chars(x) \in Seq(Characters) /\ Chars(y) \in Seq(Characters)
    BY CharsFacts
  <2> QED BY <2>1, UnbrokenFacts DEF Pure
<1>3. Pure(<<>>) = <<>>
  BY CharsFacts, UnbrokenFacts DEF Pure
<1> QED BY <1>1, <1>2, <1>3

LEMMA UnbrokenFlatten ==
  ASSUME NEW s \in Seq(Seq(Characters))
  PROVE  /\ [i \in 1 .. Len(s) |-> Unbroken(s[i])] \in Seq(Seq(Characters))
         /\ Unbroken(FlattenSeq(s)) = FlattenSeq([i \in 1 .. Len(s) |-> Unbroken(s[i])])
<1> DEFINE h == [x \in Seq(Characters) |-> Unbroken(x)]
<1>1. \A x, y \in Seq(Characters) : x ++ y \in Seq(Characters)
  BY CatType
<1>2. Goes(h, Seq(Characters), Seq(Characters))
  BY UnbrokenFacts DEF Goes
<1>3. \A x \in Seq(Characters) : h[x] = Unbroken(x)
  OBVIOUS
<1>4. <<>> \in Seq(Characters)
  OBVIOUS
<1> HIDE DEF h
<1>5. Keeps(h, Characters, Characters)
  BY <1>1, <1>2, <1>3, <1>4, UnbrokenFacts, ZenonT(30) DEF Keeps
<1>6. h[FlattenSeq(s)] = FlattenSeq(Map(h, s))
  BY <1>5, KeepsFlatten
<1>7. Len(s) \in Nat /\ \A i \in 1 .. Len(s) : s[i] \in Seq(Characters)
  BY SeqFacts
<1>8. Map(h, s) = [i \in 1 .. Len(s) |-> Unbroken(s[i])]
  BY <1>3, <1>7 DEF Map
<1>9. Map(h, s) \in Seq(Seq(Characters))
  BY <1>2, MapType
<1>10. FlattenSeq(s) \in Seq(Characters)
  BY FlattenType
<1> QED BY <1>3, <1>6, <1>8, <1>9, <1>10

(* A sequence of empty sequences is empty when it is flattened.             *)
LEMMA FlattenBlank ==
  ASSUME NEW S, NEW s \in Seq(Seq(S)), \A i \in 1 .. Len(s) : s[i] = <<>>
  PROVE  FlattenSeq(s) = <<>>
<1> DEFINE F == [i \in 0 .. Len(s) |-> <<>>]
<1>1. Len(s) \in Nat /\ <<>> \in Seq(S)
  OBVIOUS
<1>2. F \in [0 .. Len(s) -> Seq(S)]
  BY <1>1
<1>3. \A i \in 0 .. Len(s) : F[i] = <<>>
  OBVIOUS
<1> HIDE DEF F
<1>4. Partial(s, F)
  <2>1. ASSUME NEW i \in 1 .. Len(s) PROVE F[i] = F[i - 1] ++ s[i]
    <3>1. i \in 0 .. Len(s) /\ i - 1 \in 0 .. Len(s)
      BY <1>1
    <3>2. F[i] = <<>> /\ F[i - 1] = <<>> /\ s[i] = <<>>
      BY <1>3, <3>1
    <3>3. <<>> ++ <<>> = <<>>
      BY <1>1, CatEmpty
    <3> QED BY <3>2, <3>3
  <2>2. 0 \in 0 .. Len(s)
    BY <1>1
  <2> QED BY <1>3, <2>1, <2>2 DEF Partial
<1>5. FlattenSeq(s) = F[Len(s)]
  BY <1>2, <1>4, FlattenIsPartial
<1> QED BY <1>1, <1>3, <1>5

(* Only one of the sequences is not empty.                                  *)
LEMMA FlattenSole ==
  ASSUME NEW S, NEW s \in Seq(Seq(S)), NEW i \in 1 .. Len(s),
         \A j \in 1 .. Len(s) : j # i => s[j] = <<>>
  PROVE  FlattenSeq(s) = s[i]
<1> DEFINE x == SubSeq(s, 1, i - 1)
           z == SubSeq(s, i + 1, Len(s))
<1>1. /\ Len(s) \in Nat /\ i \in Nat /\ i - 1 \in 0 .. Len(s) /\ i \in 0 .. Len(s)
      /\ s[i] \in Seq(S) /\ (i - 1) + 1 = i
  BY SeqFacts
<1>2. /\ x \in Seq(Seq(S)) /\ Len(x) = i - 1 /\ \A j \in 1 .. i - 1 : x[j] = s[j]
  BY <1>1, Halves
<1>3. /\ z \in Seq(Seq(S)) /\ Len(z) = Len(s) - i
      /\ \A j \in 1 .. Len(s) - i : z[j] = s[i + j]
  BY <1>1, Halves
<1>4. FlattenSeq(s) = FlattenSeq(x) ++ (s[i] ++ FlattenSeq(z))
  BY FlattenAround
<1> HIDE DEF x, z
<1>5. FlattenSeq(x) = <<>>
  <2>1. ASSUME NEW j \in 1 .. i - 1 PROVE s[j] = <<>>
    <3>1. j \in 1 .. Len(s) /\ j # i
      BY <1>1
    <3> QED BY <3>1
  <2> QED BY <1>2, <2>1, FlattenBlank
<1>6. FlattenSeq(z) = <<>>
  <2>1. ASSUME NEW j \in 1 .. Len(s) - i PROVE s[i + j] = <<>>
    <3>1. i + j \in 1 .. Len(s) /\ i + j # i
      BY <1>1
    <3> QED BY <3>1
  <2> QED BY <1>3, <2>1, FlattenBlank
<1> QED BY <1>1, <1>4, <1>5, <1>6, CatEmpty

(* The first sequence that is not empty gets x in front of it.              *)
LEMMA Prepend ==
  ASSUME NEW S, NEW a \in Seq(Seq(S)), NEW b \in Seq(Seq(S)), Len(a) = Len(b),
         NEW t \in 1 .. Len(a), NEW x \in Seq(S), a[t] = x ++ b[t],
         \A i \in 1 .. t - 1 : a[i] = <<>> /\ b[i] = <<>>,
         \A i \in t + 1 .. Len(a) : a[i] = b[i]
  PROVE  FlattenSeq(a) = x ++ FlattenSeq(b)
<1> DEFINE n == Len(a)
           a1 == SubSeq(a, 1, t - 1)
           b1 == SubSeq(b, 1, t - 1)
           a2 == SubSeq(a, t + 1, n)
           b2 == SubSeq(b, t + 1, n)
<1>1. /\ n \in Nat /\ n = Len(b) /\ t \in Nat /\ t <= n /\ t - 1 \in 0 .. n /\ t \in 0 .. n
      /\ (t - 1) + 1 = t
  OBVIOUS
<1>2. a[t] \in Seq(S) /\ b[t] \in Seq(S)
  BY SeqFacts
<1>3. /\ a1 \in Seq(Seq(S)) /\ Len(a1) = t - 1 /\ \A i \in 1 .. t - 1 : a1[i] = a[i]
  BY <1>1, Halves
<1>4. /\ b1 \in Seq(Seq(S)) /\ Len(b1) = t - 1 /\ \A i \in 1 .. t - 1 : b1[i] = b[i]
  BY <1>1, Halves
<1>5. /\ a2 \in Seq(Seq(S)) /\ Len(a2) = n - t /\ \A i \in 1 .. n - t : a2[i] = a[t + i]
  BY <1>1, Halves, SMTT(20)
<1>6. /\ b2 \in Seq(Seq(S)) /\ Len(b2) = n - t /\ \A i \in 1 .. n - t : b2[i] = b[t + i]
  BY <1>1, Halves, SMTT(20)
<1>7. FlattenSeq(a) = FlattenSeq(a1) ++ (a[t] ++ FlattenSeq(a2))
  BY FlattenAround
<1>8. FlattenSeq(b) = FlattenSeq(b1) ++ (b[t] ++ FlattenSeq(b2))
  BY <1>1, FlattenAround
<1> HIDE DEF n, a1, b1, a2, b2
<1>9. FlattenSeq(a1) = <<>> /\ FlattenSeq(b1) = <<>>
  BY <1>3, <1>4, FlattenBlank
<1>10. a2 = b2
  <2>1. ASSUME NEW i \in 1 .. n - t PROVE a2[i] = b2[i]
    <3>1. t + i \in t + 1 .. n
      BY <1>1
    <3>2. a[t + i] = b[t + i]
      BY <3>1 DEF n
    <3> QED BY <1>5, <1>6, <3>2
  <2>2. n - t \in Nat
    BY <1>1
  <2> QED BY <1>5, <1>6, <2>1, <2>2, SeqEqual
<1> DEFINE r == FlattenSeq(b2)
<1>11. r \in Seq(S)
  BY <1>6, FlattenType
<1> HIDE DEF r
<1>12. FlattenSeq(a) = (x ++ b[t]) ++ r
  <2>1. a[t] ++ r \in Seq(S)
    BY <1>2, <1>11, CatType
  <2>2. FlattenSeq(a) = a[t] ++ r
    BY <1>7, <1>9, <1>10, <2>1, CatEmpty DEF r
  <2> QED BY <2>2
<1>13. FlattenSeq(b) = b[t] ++ r
  <2>1. b[t] ++ r \in Seq(S)
    BY <1>2, <1>11, CatType
  <2> QED BY <1>8, <1>9, <2>1, CatEmpty DEF r
<1> QED BY <1>2, <1>11, <1>12, <1>13, CatAssoc

(* Sequences of one element each.                                           *)
LEMMA FlattenSingles ==
  ASSUME NEW S, NEW s \in Seq(S)
  PROVE  FlattenSeq([i \in 1 .. Len(s) |-> <<s[i]>>]) = s
<1> DEFINE e == [i \in 1 .. Len(s) |-> <<s[i]>>]
           F == [i \in 0 .. Len(s) |-> SubSeq(s, 1, i)]
<1>1. Len(s) \in Nat /\ \A i \in 1 .. Len(s) : s[i] \in S
  BY SeqFacts
<1>2. e \in [1 .. Len(s) -> Seq(S)]
  BY <1>1
<1>3. e \in Seq(Seq(S)) /\ Len(e) = Len(s)
  <2> HIDE DEF e
  <2> QED BY <1>1, <1>2, FunIsSeq
<1>4. \A i \in 1 .. Len(s) : e[i] = <<s[i]>>
  OBVIOUS
<1>5. ASSUME NEW i \in 0 .. Len(s)
      PROVE  /\ F[i] \in Seq(S) /\ Len(F[i]) = i /\ \A k \in 1 .. i : F[i][k] = s[k]
  BY Halves
<1>6. F \in [0 .. Len(s) -> Seq(S)]
  BY <1>5
<1> HIDE DEF e, F
<1>7. ASSUME NEW i \in 1 .. Len(s) PROVE F[i] = F[i - 1] ++ e[i]
  <2> DEFINE a == F[i - 1]
             b == e[i]
  <2>1. i \in 0 .. Len(s) /\ i - 1 \in 0 .. Len(s) /\ i \in Nat
    BY <1>1
  <2>2. a \in Seq(S) /\ Len(a) = i - 1 /\ \A k \in 1 .. i - 1 : a[k] = s[k]
    BY <1>5, <2>1
  <2>3. b \in Seq(S) /\ Len(b) = 1 /\ b[1] = s[i]
    <3>1. b = <<s[i]>> /\ s[i] \in S
      BY <1>1, <1>4
    <3> HIDE DEF b
    <3> QED BY <3>1
  <2> HIDE DEF a, b
  <2>4. a ++ b \in Seq(S) /\ Len(a ++ b) = i
    <3>1. a ++ b \in Seq(S) /\ Len(a ++ b) = (i - 1) + 1
      BY <2>2, <2>3, CatType, CatLen
    <3> QED BY <2>1, <3>1
  <2>5. ASSUME NEW k \in 1 .. i PROVE (a ++ b)[k] = s[k]
    <3>1. k \in 1 .. Len(a) + Len(b)
      BY <2>1, <2>2, <2>3
    <3>2. (a ++ b)[k] = IF k <= i - 1 THEN a[k] ELSE b[k - (i - 1)]
      BY <2>2, <2>3, <3>1, CatAt, ZenonT(30)
    <3>3. CASE k <= i - 1
      <4>1. k \in 1 .. i - 1
        BY <2>1, <3>3
      <4> QED BY <2>2, <3>2, <3>3, <4>1
    <3>4. CASE ~(k <= i - 1)
      <4>1. k = i /\ k - (i - 1) = 1
        BY <2>1, <3>4
      <4> QED BY <2>3, <3>2, <3>4, <4>1
    <3> QED BY <3>3, <3>4
  <2>6. F[i] \in Seq(S) /\ Len(F[i]) = i /\ \A k \in 1 .. i : F[i][k] = s[k]
    BY <1>5, <2>1
  <2>7. F[i] = a ++ b
    BY <2>4, <2>5, <2>6, SeqEqual
  <2> QED BY <2>7 DEF a, b
<1>8. F[0] = <<>>
  <2>1. 0 \in 0 .. Len(s)
    BY <1>1
  <2>2. F[0] \in Seq(S) /\ Len(F[0]) = 0
    BY <1>5, <2>1
  <2> QED BY <2>2
<1>9. Partial(e, F)
  BY <1>3, <1>7, <1>8 DEF Partial
<1>10. FlattenSeq(e) = F[Len(s)]
  BY <1>3, <1>6, <1>9, FlattenIsPartial
<1>11. F[Len(s)] = s
  <2>1. Len(s) \in 0 .. Len(s)
    BY <1>1
  <2>2. /\ F[Len(s)] \in Seq(S) /\ Len(F[Len(s)]) = Len(s)
        /\ \A k \in 1 .. Len(s) : F[Len(s)][k] = s[k]
    BY <1>5, <2>1
  <2> QED BY <2>2, SeqEqual
<1> QED BY <1>10, <1>11 DEF e

(* A partial concatenation is a prefix of every later one.                  *)
Precedes(F, i, m) == /\ Len(F[i]) <= Len(F[m])
                     /\ \A x \in 1 .. Len(F[i]) : F[m][x] = F[i][x]

LEMMA PartialPrefix ==
  ASSUME NEW S, NEW s \in Seq(Seq(S)), NEW F \in [0 .. Len(s) -> Seq(S)], Partial(s, F),
         NEW i \in 0 .. Len(s), NEW l \in i .. Len(s)
  PROVE  Precedes(F, i, l)
<1> DEFINE Q(m) == /\ Len(F[i]) <= Len(F[m])
                   /\ \A x \in 1 .. Len(F[i]) : F[m][x] = F[i][x]
           P == {k \in Nat : i + k <= Len(s) => Q(i + k)}
<1>1. Len(s) \in Nat /\ i \in Nat /\ F[i] \in Seq(S) /\ Len(F[i]) \in Nat
  <2>1. Len(s) \in Nat /\ i \in Nat /\ F[i] \in Seq(S)
    OBVIOUS
  <2> QED BY <2>1, SeqFacts
<1>2. 0 \in P
  BY <1>1
<1>3. ASSUME NEW k \in Nat, k \in P PROVE k + 1 \in P
  <2> SUFFICES ASSUME i + (k + 1) <= Len(s) PROVE Q(i + (k + 1))
    OBVIOUS
  <2> DEFINE m == i + k
             a == F[m]
             b == s[m + 1]
  <2>1. m \in 0 .. Len(s) /\ m + 1 \in 1 .. Len(s) /\ (m + 1) - 1 = m /\ i + (k + 1) = m + 1
    BY <1>1
  <2>2. Q(m)
    BY <1>1, <1>3
  <2> HIDE DEF m
  <2>3. F[m + 1] = a ++ b
    BY <1>1, <2>1 DEF Partial
  <2>4. a \in Seq(S) /\ b \in Seq(S) /\ Len(a) \in Nat /\ Len(b) \in Nat
    <3>1. a \in Seq(S)
      BY <2>1
    <3>2. b \in Seq(S)
      BY <2>1, SeqFacts
    <3> HIDE DEF a, b
    <3> QED BY <3>1, <3>2
  <2>5. Len(F[i]) <= Len(a) /\ \A x \in 1 .. Len(F[i]) : a[x] = F[i][x]
    BY <2>2
  <2> HIDE DEF a, b
  <2>6. Len(a ++ b) = Len(a) + Len(b)
    BY <2>4, CatLen
  <2>7. ASSUME NEW x \in 1 .. Len(F[i]) PROVE (a ++ b)[x] = F[i][x]
    <3>1. x \in 1 .. Len(a) + Len(b) /\ x <= Len(a)
      BY <1>1, <2>4, <2>5
    <3> QED BY <2>4, <2>5, <3>1, CatAt
  <2>8. Len(F[i]) <= Len(a ++ b)
    BY <1>1, <2>4, <2>5, <2>6
  <2> QED BY <2>1, <2>3, <2>7, <2>8
<1>4. \A k \in Nat : k \in P
  <2> HIDE DEF P
  <2> QED BY <1>2, <1>3, Induction
<1>5. l - i \in Nat /\ i + (l - i) = l /\ l <= Len(s)
  BY <1>1
<1>6. l - i \in P
  <2> HIDE DEF P
  <2> QED BY <1>4, <1>5
<1>7. Q(l)
  <2> HIDE DEF Q
  <2> QED BY <1>5, <1>6
<1> QED BY <1>7 DEF Precedes

(* The flat text: each paragraph in the range of its node, a blank line in  *)
(* front of every paragraph but the first.                                  *)
LEMMA TextParts ==
  ASSUME NEW d \in Seq(Seq(Cells)), d # <<>>
  PROVE  /\ Len(ExtractText(d)) = End(d, Len(d))
         /\ \A i \in 1 .. Len(d) : \A k \in 1 .. Len(Render(d[i])) :
              ExtractText(d)[Start(d, i) + k] = Render(d[i])[k]
         /\ \A i \in 2 .. Len(d) : /\ ExtractText(d)[Start(d, i) - 1] = "nl"
                                   /\ ExtractText(d)[Start(d, i)] = "nl"
<1> DEFINE n == Len(d)
           r == [i \in 1 .. n |-> Render(d[i])]
           J == [i \in 1 .. n |-> IF i = 1 THEN Render(d[i]) ELSE Break ++ Render(d[i])]
           T == ExtractText(d)
           S == Characters
<1>1. n \in Nat \ {0} /\ DOMAIN d = 1 .. n /\ \A i \in 1 .. n : d[i] \in Seq(Cells)
  BY SeqFacts
<1>2. \A i \in 1 .. n : Render(d[i]) \in Seq(S) /\ Len(Render(d[i])) \in Nat
  <2> SUFFICES ASSUME NEW i \in 1 .. n PROVE Render(d[i]) \in Seq(S) /\ Len(Render(d[i])) \in Nat
    OBVIOUS
  <2>1. Render(d[i]) \in Seq(S)
    BY <1>1, RenderType
  <2> QED BY <2>1, SeqFacts
<1>3. ASSUME NEW i \in 1 .. n
      PROVE /\ Break ++ Render(d[i]) \in Seq(S)
            /\ Len(Break ++ Render(d[i])) = 2 + Len(Render(d[i]))
            /\ (Break ++ Render(d[i]))[1] = "nl" /\ (Break ++ Render(d[i]))[2] = "nl"
            /\ \A k \in 1 .. Len(Render(d[i])) : (Break ++ Render(d[i]))[2 + k] = Render(d[i])[k]
  <2> DEFINE w == Render(d[i])
  <2>1. w \in Seq(S) /\ Len(w) \in Nat /\ Break \in Seq(S) /\ Len(Break) = 2
    BY <1>2, BreakType
  <2>2. Break[1] = "nl" /\ Break[2] = "nl"
    BY DEF Break
  <2> HIDE DEF w
  <2>3. Break ++ w \in Seq(S) /\ Len(Break ++ w) = 2 + Len(w)
    BY <2>1, CatType, CatLen
  <2>4. \A k \in 1 .. 2 + Len(w) : (Break ++ w)[k] = IF k <= 2 THEN Break[k] ELSE w[k - 2]
    <3>1. \A k \in 1 .. Len(Break) + Len(w) :
            (Break ++ w)[k] = IF k <= Len(Break) THEN Break[k] ELSE w[k - Len(Break)]
      BY <2>1, CatAt
    <3> QED BY <2>1, <3>1
  <2>5. ASSUME NEW k \in 1 .. Len(w) PROVE (Break ++ w)[2 + k] = w[k]
    <3>1. 2 + k \in 1 .. 2 + Len(w) /\ ~(2 + k <= 2) /\ (2 + k) - 2 = k
      BY <2>1
    <3> QED BY <2>4, <3>1
  <2>6. (Break ++ w)[1] = "nl" /\ (Break ++ w)[2] = "nl"
    <3>1. 1 \in 1 .. 2 + Len(w) /\ 2 \in 1 .. 2 + Len(w)
      BY <2>1
    <3> QED BY <2>2, <2>4, <3>1
  <2> QED BY <2>3, <2>5, <2>6 DEF w
<1>4. J \in Seq(Seq(S)) /\ Len(J) = n
  <2>1. J \in [1 .. n -> Seq(S)]
    BY <1>2, <1>3
  <2> HIDE DEF J
  <2> QED BY <1>1, <2>1, FunIsSeq
<1>5. T = FlattenSeq(J)
  <2>1. T = Joined(r)
    BY <1>1 DEF ExtractText
  <2>2. Joined(r) = FlattenSeq(J)
    BY DEF Joined, ++
  <2> QED BY <2>1, <2>2
<1>6. \A i \in 1 .. n : J[i] = IF i = 1 THEN Render(d[i]) ELSE Break ++ Render(d[i])
  OBVIOUS
<1> HIDE DEF J, r
<1>7. PICK F \in [0 .. Len(J) -> Seq(S)] : Partial(J, F)
  BY <1>4, PartialExists
<1>8. T = F[n]
  BY <1>4, <1>5, <1>7, FlattenIsPartial
<1>9. ASSUME NEW i \in 1 .. n
      PROVE  F[i] = F[i - 1] ++ J[i] /\ F[i] \in Seq(S) /\ F[i - 1] \in Seq(S)
  <2>1. i \in 0 .. n /\ i - 1 \in 0 .. n
    BY <1>1
  <2> QED BY <1>4, <1>7, <2>1 DEF Partial
<1>10. ASSUME NEW i \in 1 .. n
       PROVE  Len(F[i - 1]) = IF i = 1 THEN 0 ELSE Start(d, i) - 2
  <2> DEFINE P == {k \in Nat : k + 1 <= n =>
                     Len(F[k]) = IF k = 0 THEN 0 ELSE Start(d, k + 1) - 2}
  <2>1. 0 \in P
    BY <1>7 DEF Partial
  <2>2. ASSUME NEW k \in Nat, k \in P PROVE k + 1 \in P
    <3> SUFFICES ASSUME (k + 1) + 1 <= n
                 PROVE  Len(F[k + 1]) = Start(d, k + 2) - 2
      OBVIOUS
    <3>1. k + 1 \in 1 .. n /\ (k + 1) - 1 = k /\ k + 2 \in 2 .. n /\ (k + 2) - 1 = k + 1
      BY <1>1
    <3>2. Len(F[k]) = IF k = 0 THEN 0 ELSE Start(d, k + 1) - 2
      BY <1>1, <2>2
    <3>3. F[k + 1] = F[k] ++ J[k + 1] /\ F[k] \in Seq(S)
      BY <1>9, <3>1
    <3>4. J[k + 1] \in Seq(S)
          /\ Len(J[k + 1]) = IF k = 0 THEN Len(Render(d[k + 1])) ELSE 2 + Len(Render(d[k + 1]))
      <4>1. k + 1 = 1 <=> k = 0
        OBVIOUS
      <4> QED BY <1>2, <1>3, <1>6, <3>1, <4>1
    <3>5. Len(F[k + 1]) = Len(F[k]) + Len(J[k + 1])
      BY <3>3, <3>4, CatLen
    <3>6. /\ Start(d, k + 2) = End(d, k + 1) + 2
          /\ End(d, k + 1) = Start(d, k + 1) + Len(Render(d[k + 1]))
          /\ Start(d, k + 1) \in Nat
      BY <3>1, Bounds
    <3>7. k = 0 => Start(d, k + 1) = 0
      BY <1>1, Bounds
    <3>8. Len(Render(d[k + 1])) \in Nat
      BY <1>2, <3>1
    <3> DEFINE w == Len(Render(d[k + 1]))
               s1 == Start(d, k + 1)
    <3>9. /\ Len(F[k + 1]) = Len(F[k]) + Len(J[k + 1])
          /\ Start(d, k + 2) = s1 + w + 2 /\ s1 \in Nat /\ w \in Nat
      BY <3>5, <3>6, <3>8
    <3> HIDE DEF w, s1
    <3>10. CASE k = 0
      <4>1. Len(F[k]) = 0 /\ s1 = 0 /\ Len(J[k + 1]) = w
        BY <3>2, <3>4, <3>7, <3>10 DEF w, s1
      <4> QED BY <3>9, <4>1
    <3>11. CASE k # 0
      <4>1. Len(F[k]) = s1 - 2 /\ Len(J[k + 1]) = 2 + w
        BY <3>2, <3>4, <3>11 DEF w, s1
      <4> QED BY <3>9, <4>1
    <3> QED BY <3>10, <3>11
  <2>3. \A k \in Nat : k \in P
    <3> HIDE DEF P
    <3> QED BY <2>1, <2>2, Induction
  <2>4. i - 1 \in Nat /\ (i - 1) + 1 = i /\ i <= n /\ (i - 1 = 0 <=> i = 1)
    BY <1>1
  <2>5. i - 1 \in P
    <3> HIDE DEF P
    <3> QED BY <2>3, <2>4
  <2> QED BY <2>4, <2>5
<1>11. ASSUME NEW i \in 1 .. n
       PROVE  /\ Len(F[i]) = End(d, i)
              /\ \A k \in 1 .. Len(Render(d[i])) : F[i][Start(d, i) + k] = Render(d[i])[k]
              /\ i # 1 => F[i][Start(d, i) - 1] = "nl" /\ F[i][Start(d, i)] = "nl"
  <2> DEFINE w == Render(d[i])
             a == F[i - 1]
  <2>1. /\ End(d, i) = Start(d, i) + Len(w) /\ Start(d, i) \in Nat /\ End(d, i) \in Nat
    BY Bounds
  <2>2. w \in Seq(S) /\ Len(w) \in Nat
    BY <1>2
  <2>3. F[i] = a ++ J[i] /\ a \in Seq(S)
    BY <1>9
  <2>4. Len(a) = IF i = 1 THEN 0 ELSE Start(d, i) - 2
    BY <1>10
  <2>5. CASE i = 1
    <3>1. Start(d, i) = 0 /\ J[i] = w
      BY <1>1, <1>6, <2>5, Bounds
    <3>2. Len(F[i]) = Len(w)
      <4>1. Len(F[i]) = Len(a) + Len(w)
        <5> HIDE DEF a, w
        <5> QED BY <2>2, <2>3, <3>1, CatLen
      <4>2. Len(a) = 0
        BY <2>4, <2>5
      <4> HIDE DEF a, w
      <4> QED BY <2>2, <4>1, <4>2
    <3>3. ASSUME NEW k \in 1 .. Len(w) PROVE F[i][k] = w[k]
      <4> HIDE DEF a, w
      <4>1. k \in 1 .. Len(a) + Len(w) /\ ~(k <= Len(a)) /\ k - Len(a) = k
        BY <2>2, <2>4, <2>5
      <4> QED BY <2>2, <2>3, <3>1, <4>1, CatAt, SMTT(30)
    <3> HIDE DEF w
    <3>4. Len(F[i]) = End(d, i)
      BY <2>1, <2>2, <3>1, <3>2
    <3>5. ASSUME NEW k \in 1 .. Len(w) PROVE F[i][Start(d, i) + k] = w[k]
      <4>1. Start(d, i) + k = k
        BY <2>2, <3>1
      <4> QED BY <3>3, <4>1
    <3> QED BY <2>5, <3>4, <3>5 DEF w
  <2>6. CASE i # 1
    <3> DEFINE j == J[i]
    <3>1. /\ j \in Seq(S) /\ Len(j) = 2 + Len(w) /\ j[1] = "nl" /\ j[2] = "nl"
          /\ \A k \in 1 .. Len(w) : j[2 + k] = w[k]
      <4>1. j = Break ++ w
        BY <1>6, <2>6
      <4>2. /\ Break ++ w \in Seq(S) /\ Len(Break ++ w) = 2 + Len(w)
            /\ (Break ++ w)[1] = "nl" /\ (Break ++ w)[2] = "nl"
            /\ \A k \in 1 .. Len(w) : (Break ++ w)[2 + k] = w[k]
        BY <1>3
      <4> HIDE DEF j, w
      <4> QED BY <4>1, <4>2
    <3>2. Len(a) = Start(d, i) - 2 /\ Len(a) \in Nat
      <4>1. Len(a) \in Nat
        <5> HIDE DEF a
        <5> QED BY <2>3
      <4> QED BY <2>4, <2>6, <4>1
    <3> HIDE DEF a, w, j
    <3>3. Len(F[i]) = Len(a) + Len(j)
      BY <2>3, <3>1, CatLen DEF j
    <3>4. ASSUME NEW k \in 1 .. Len(j) PROVE F[i][Len(a) + k] = j[k]
      <4>1. /\ Len(a) + k \in 1 .. Len(a) + Len(j)
            /\ ~(Len(a) + k <= Len(a)) /\ (Len(a) + k) - Len(a) = k
        BY <2>2, <3>1, <3>2
      <4>2. j \in Seq(S) /\ F[i] = a ++ j
        BY <2>3, <3>1 DEF j
      <4> QED BY <2>3, <4>1, <4>2, CatAt
    <3>5. Len(F[i]) = End(d, i)
      BY <2>1, <2>2, <3>1, <3>2, <3>3
    <3>6. ASSUME NEW k \in 1 .. Len(w) PROVE F[i][Start(d, i) + k] = w[k]
      <4>1. 2 + k \in 1 .. Len(j) /\ Len(a) + (2 + k) = Start(d, i) + k
        BY <2>1, <2>2, <3>1, <3>2
      <4>2. F[i][Len(a) + (2 + k)] = j[2 + k]
        BY <3>4, <4>1
      <4> QED BY <3>1, <4>1, <4>2
    <3>7. F[i][Start(d, i) - 1] = "nl" /\ F[i][Start(d, i)] = "nl"
      <4>1. 1 \in 1 .. Len(j) /\ 2 \in 1 .. Len(j)
            /\ Len(a) + 1 = Start(d, i) - 1 /\ Len(a) + 2 = Start(d, i)
        <5>1. Len(j) = 2 + Len(w) /\ Len(w) \in Nat
          BY <2>2, <3>1
        <5>2. 1 \in 1 .. Len(j) /\ 2 \in 1 .. Len(j)
          BY <5>1
        <5>3. Len(a) + 1 = Start(d, i) - 1 /\ Len(a) + 2 = Start(d, i)
          BY <2>1, <3>2
        <5> QED BY <5>2, <5>3
      <4>2. F[i][Len(a) + 1] = j[1] /\ F[i][Len(a) + 2] = j[2]
        BY <3>4, <4>1
      <4> QED BY <3>1, <4>1, <4>2
    <3> QED BY <3>5, <3>6, <3>7 DEF w
  <2> QED BY <2>5, <2>6
<1>12. ASSUME NEW i \in 1 .. n, NEW x \in 1 .. End(d, i) PROVE T[x] = F[i][x]
  <2>1. i \in 0 .. Len(J) /\ n \in i .. Len(J)
    BY <1>1, <1>4
  <2>2. x \in 1 .. Len(F[i])
    BY <1>11
  <2>3. Precedes(F, i, n)
    BY <1>4, <1>7, <2>1, PartialPrefix
  <2>4. F[n][x] = F[i][x]
    BY <2>2, <2>3 DEF Precedes
  <2> QED BY <1>8, <2>4
<1>13. Len(T) = End(d, n)
  <2>1. n \in 1 .. n
    BY <1>1
  <2> QED BY <1>8, <1>11, <2>1
<1> HIDE DEF T
<1>14. ASSUME NEW i \in 1 .. n, NEW k \in 1 .. Len(Render(d[i]))
       PROVE  T[Start(d, i) + k] = Render(d[i])[k]
  <2>1. /\ End(d, i) = Start(d, i) + Len(Render(d[i])) /\ Start(d, i) \in Nat
        /\ Len(Render(d[i])) \in Nat
    BY Bounds
  <2>2. Start(d, i) + k \in 1 .. End(d, i)
    BY <2>1
  <2>3. F[i][Start(d, i) + k] = Render(d[i])[k]
    BY <1>11
  <2> QED BY <1>12, <2>2, <2>3
<1>15. ASSUME NEW i \in 2 .. n
       PROVE  T[Start(d, i) - 1] = "nl" /\ T[Start(d, i)] = "nl"
  <2>0. i \in 1 .. n /\ i # 1 /\ i - 1 \in 1 .. n
    BY <1>1
  <2>1. /\ End(d, i) = Start(d, i) + Len(Render(d[i])) /\ Start(d, i) \in Nat
        /\ Len(Render(d[i])) \in Nat /\ End(d, i - 1) \in Nat
    BY <2>0, Bounds
  <2>2. Start(d, i) = End(d, i - 1) + 2
    BY Bounds
  <2>3. Start(d, i) - 1 \in 1 .. End(d, i) /\ Start(d, i) \in 1 .. End(d, i)
    BY <2>1, <2>2, SMTT(30)
  <2>4. F[i][Start(d, i) - 1] = "nl" /\ F[i][Start(d, i)] = "nl"
    BY <1>11, <2>0
  <2> QED BY <1>12, <2>0, <2>3, <2>4
<1> QED BY <1>13, <1>14, <1>15 DEF T

-----------------------------------------------------------------------------
(* Text without marks                                                       *)

Blank == {c \in Cells : ~c.bold}

LEMMA BlankCells ==
  /\ Blank \subseteq Cells
  /\ \A b \in Seq(Blank) : b \in Seq(Cells)
  /\ \A d \in Seq(Seq(Blank)) : d \in Seq(Seq(Cells)) /\ \A i \in 1 .. Len(d) : d[i] \in Seq(Blank)
<1>1. Blank \subseteq Cells
  BY DEF Blank
<1>2. Seq(Blank) \subseteq Seq(Cells)
  BY <1>1
<1>3. Seq(Seq(Blank)) \subseteq Seq(Seq(Cells))
  BY <1>2
<1> QED BY <1>1, <1>2, <1>3, SeqFacts

LEMMA UnformattedBlank ==
  ASSUME NEW d \in Seq(Seq(Cells)), Unformatted(d)
  PROVE  d \in Seq(Seq(Blank))
<1>1. Len(d) \in Nat /\ DOMAIN d = 1 .. Len(d) /\ \A i \in 1 .. Len(d) : d[i] \in Seq(Cells)
  BY SeqFacts
<1>2. ASSUME NEW i \in 1 .. Len(d) PROVE d[i] \in Seq(Blank)
  <2> DEFINE b == d[i]
  <2>1. b \in Seq(Cells)
    BY <1>1
  <2>2. \A k \in DOMAIN b : ~b[k].bold
    BY <1>1 DEF Unformatted
  <2> HIDE DEF b
  <2>3. Len(b) \in Nat /\ DOMAIN b = 1 .. Len(b) /\ \A k \in 1 .. Len(b) : b[k] \in Blank
    BY <2>1, <2>2, SeqFacts DEF Blank
  <2>4. b = [k \in 1 .. Len(b) |-> b[k]]
    BY <2>1, LenProperties
  <2>5. b \in [1 .. Len(b) -> Blank]
    BY <2>3, <2>4
  <2>6. b \in Seq(Blank)
    BY <2>3, <2>5, FunIsSeq
  <2> QED BY <2>6 DEF b
<1>3. d = [k \in 1 .. Len(d) |-> d[k]]
  BY LenProperties
<1>4. d \in [1 .. Len(d) -> Seq(Blank)]
  BY <1>2, <1>3
<1> QED BY <1>1, <1>4, FunIsSeq

(* Without marks nothing is written but the characters.                     *)
LEMMA RenderBlank ==
  ASSUME NEW b \in Seq(Blank)
  PROVE  Render(b) = Chars(b) /\ Len(Render(b)) = Len(b)
<1>1. /\ Len(b) \in Nat /\ b \in Seq(Cells)
      /\ \A i \in 1 .. Len(b) : b[i] \in Cells /\ ~b[i].bold
  BY BlankCells, SeqFacts DEF Blank
<1>2. Chars(b) \in Seq(Characters) /\ Len(Chars(b)) = Len(b)
      /\ \A i \in 1 .. Len(b) : Chars(b)[i] = b[i].ch
  BY <1>1, CharsFacts
<1>3. ASSUME NEW i \in 1 .. Len(b) PROVE Marked(b, i) = <<Chars(b)[i]>>
  <2>1. Marked(b, i) = <<b[i].ch>>
    BY <1>1, MarkedType
  <2> QED BY <1>2, <2>1
<1>4. [i \in 1 .. Len(b) |-> Marked(b, i)] = [i \in 1 .. Len(Chars(b)) |-> <<Chars(b)[i]>>]
  BY <1>2, <1>3
<1>5. FlattenSeq([i \in 1 .. Len(Chars(b)) |-> <<Chars(b)[i]>>]) = Chars(b)
  BY <1>2, FlattenSingles
<1>6. Render(b) = FlattenSeq([i \in 1 .. Len(b) |-> Marked(b, i)])
  BY <1>1, RenderIsFlat
<1> QED BY <1>2, <1>4, <1>5, <1>6

(* Every cell is written.                                                   *)
LEMMA RenderLength ==
  ASSUME NEW b \in Seq(Cells)
  PROVE  Len(Render(b)) >= Len(b) /\ Len(Render(b)) \in Nat
<1> DEFINE e == [i \in 1 .. Len(b) |-> Marked(b, i)]
           S == Characters
<1>1. e \in Seq(Seq(S)) /\ Len(e) = Len(b) /\ Render(b) = FlattenSeq(e) /\ Len(b) \in Nat
  BY RenderIsFlat
<1>2. \A i \in 1 .. Len(b) : e[i] \in Seq(S) /\ Len(e[i]) >= 1
  BY MarkedType
<1> HIDE DEF e
<1>3. PICK F \in [0 .. Len(e) -> Seq(S)] : Partial(e, F)
  BY <1>1, PartialExists
<1> DEFINE P == {k \in Nat : k <= Len(b) => Len(F[k]) \in Nat /\ Len(F[k]) >= k}
<1>4. 0 \in P
  BY <1>3 DEF Partial
<1>5. ASSUME NEW k \in Nat, k \in P PROVE k + 1 \in P
  <2> SUFFICES ASSUME k + 1 <= Len(b) PROVE Len(F[k + 1]) \in Nat /\ Len(F[k + 1]) >= k + 1
    OBVIOUS
  <2>1. k + 1 \in 1 .. Len(b) /\ (k + 1) - 1 = k /\ k \in 0 .. Len(b) /\ k <= Len(b)
    BY <1>1
  <2>2. F[k + 1] = F[k] ++ e[k + 1]
    BY <1>1, <1>3, <2>1 DEF Partial
  <2>3. F[k] \in Seq(S) /\ e[k + 1] \in Seq(S) /\ Len(e[k + 1]) >= 1
    BY <1>1, <1>2, <2>1
  <2>4. Len(F[k + 1]) = Len(F[k]) + Len(e[k + 1])
    BY <2>2, <2>3, CatLen
  <2>5. Len(e[k + 1]) \in Nat /\ Len(F[k]) \in Nat /\ Len(F[k]) >= k
    BY <1>5, <2>1, <2>3
  <2> DEFINE x == Len(F[k])
             y == Len(e[k + 1])
  <2>6. x \in Nat /\ y \in Nat /\ x >= k /\ y >= 1 /\ Len(F[k + 1]) = x + y
    BY <2>3, <2>4, <2>5
  <2> HIDE DEF x, y
  <2>7. x + y \in Nat /\ x + y >= k + 1
    BY <2>6
  <2> QED BY <2>6, <2>7
<1>6. \A k \in Nat : k \in P
  <2> HIDE DEF P
  <2> QED BY <1>4, <1>5, Induction
<1>7. Render(b) = F[Len(b)]
  BY <1>1, <1>3, FlattenIsPartial
<1> QED BY <1>1, <1>6, <1>7

(* The flat text of a document without marks.                               *)
LEMMA TextAt ==
  ASSUME NEW d \in Seq(Seq(Blank)), d # <<>>
  PROVE  /\ Len(ExtractText(d)) = End(d, Len(d))
         /\ \A i \in 1 .. Len(d) :
              /\ Len(d[i]) \in Nat /\ d[i] \in Seq(Cells)
              /\ End(d, i) = Start(d, i) + Len(d[i])
              /\ \A k \in 1 .. Len(d[i]) : ExtractText(d)[Start(d, i) + k] = d[i][k].ch
         /\ \A i \in 2 .. Len(d) : /\ ExtractText(d)[Start(d, i) - 1] = "nl"
                                   /\ ExtractText(d)[Start(d, i)] = "nl"
<1>1. d \in Seq(Seq(Cells)) /\ \A i \in 1 .. Len(d) : d[i] \in Seq(Blank)
  BY BlankCells
<1>2. /\ Len(ExtractText(d)) = End(d, Len(d))
      /\ \A i \in 1 .. Len(d) : \A k \in 1 .. Len(Render(d[i])) :
           ExtractText(d)[Start(d, i) + k] = Render(d[i])[k]
      /\ \A i \in 2 .. Len(d) : /\ ExtractText(d)[Start(d, i) - 1] = "nl"
                                /\ ExtractText(d)[Start(d, i)] = "nl"
  BY <1>1, TextParts
<1>3. ASSUME NEW i \in 1 .. Len(d)
      PROVE  /\ Len(d[i]) \in Nat /\ d[i] \in Seq(Cells)
             /\ End(d, i) = Start(d, i) + Len(d[i])
             /\ \A k \in 1 .. Len(d[i]) : ExtractText(d)[Start(d, i) + k] = d[i][k].ch
  <2>1. d[i] \in Seq(Cells) /\ Render(d[i]) = Chars(d[i]) /\ Len(Render(d[i])) = Len(d[i])
    BY <1>1, BlankCells, RenderBlank
  <2>2. \A k \in 1 .. Len(d[i]) : Chars(d[i])[k] = d[i][k].ch
    BY <2>1, CharsFacts
  <2>3. End(d, i) = Start(d, i) + Len(Render(d[i]))
    BY <1>1, Bounds
  <2>4. Len(d[i]) \in Nat
    BY <2>1, SeqFacts
  <2>5. ASSUME NEW k \in 1 .. Len(d[i]) PROVE ExtractText(d)[Start(d, i) + k] = d[i][k].ch
    BY <1>2, <2>1, <2>2
  <2> QED BY <2>1, <2>3, <2>4, <2>5
<1> QED BY <1>2, <1>3

(* Documents that begin alike number their places alike.                    *)
LEMMA SameStarts ==
  ASSUME NEW d \in Seq(Seq(Cells)), NEW e \in Seq(Seq(Cells)), NEW t \in Nat,
         \A i \in 1 .. t : i <= Len(d) /\ i <= Len(e) /\ d[i] = e[i]
  PROVE  /\ \A i \in 1 .. t : Start(d, i) = Start(e, i) /\ End(d, i) = End(e, i)
         /\ t + 1 <= Len(d) /\ t + 1 <= Len(e) => Start(d, t + 1) = Start(e, t + 1)
<1> DEFINE P == {k \in Nat : k <= t /\ k + 1 <= Len(d) /\ k + 1 <= Len(e)
                               => Start(d, k + 1) = Start(e, k + 1)}
<1>1. Len(d) \in Nat /\ Len(e) \in Nat
  OBVIOUS
<1>2. 0 \in P
  BY <1>1, Bounds
<1>3. ASSUME NEW i \in 1 .. t, Start(d, i) = Start(e, i) PROVE End(d, i) = End(e, i)
  <2>1. i \in 1 .. Len(d) /\ i \in 1 .. Len(e) /\ d[i] = e[i]
    BY <1>1
  <2> QED BY <1>3, <2>1, Bounds
<1>4. ASSUME NEW k \in Nat, k \in P PROVE k + 1 \in P
  <2> SUFFICES ASSUME k + 1 <= t, k + 2 <= Len(d), k + 2 <= Len(e)
               PROVE  Start(d, k + 2) = Start(e, k + 2)
    OBVIOUS
  <2>1. k + 1 \in 1 .. t /\ k + 2 \in 2 .. Len(d) /\ k + 2 \in 2 .. Len(e)
        /\ (k + 2) - 1 = k + 1 /\ k <= t /\ k + 1 <= Len(d) /\ k + 1 <= Len(e)
    BY <1>1
  <2>2. Start(d, k + 1) = Start(e, k + 1)
    BY <1>4, <2>1
  <2>3. End(d, k + 1) = End(e, k + 1)
    BY <1>3, <2>1, <2>2
  <2>4. Start(d, k + 2) = End(d, k + 1) + 2 /\ Start(e, k + 2) = End(e, k + 1) + 2
    BY <2>1, Bounds
  <2> QED BY <2>3, <2>4
<1>5. \A k \in Nat : k \in P
  <2> HIDE DEF P
  <2> QED BY <1>2, <1>4, Induction
<1>6. ASSUME NEW i \in 1 .. t PROVE Start(d, i) = Start(e, i)
  <2>1. i - 1 \in Nat /\ i - 1 <= t /\ (i - 1) + 1 = i /\ i <= Len(d) /\ i <= Len(e)
    BY <1>1
  <2>2. i - 1 \in P
    <3> HIDE DEF P
    <3> QED BY <1>5, <2>1
  <2> QED BY <2>1, <2>2
<1>7. t + 1 <= Len(d) /\ t + 1 <= Len(e) => Start(d, t + 1) = Start(e, t + 1)
  <2>1. t \in P
    <3> HIDE DEF P
    <3> QED BY <1>5
  <2> QED BY <2>1
<1> QED BY <1>3, <1>6, <1>7

LEMMA SliceEnds ==
  ASSUME NEW S, NEW b \in Seq(S)
  PROVE  Slice(b, 0, Len(b)) = b /\ Slice(b, Len(b), Len(b)) = <<>>
<1>1. Len(b) \in Nat /\ 0 \in 0 .. Len(b) /\ Len(b) \in 0 .. Len(b)
  OBVIOUS
<1>2. /\ Slice(b, 0, Len(b)) \in Seq(S) /\ Len(Slice(b, 0, Len(b))) = Len(b)
      /\ \A i \in 1 .. Len(b) : Slice(b, 0, Len(b))[i] = b[i]
  BY <1>1, Parts
<1>3. Slice(b, 0, Len(b)) = b
  BY <1>2, SeqEqual
<1>4. Slice(b, Len(b), Len(b)) \in Seq(S) /\ Len(Slice(b, Len(b), Len(b))) = 0
  <2>1. Len(Slice(b, Len(b), Len(b))) = Len(b) - Len(b) /\ Slice(b, Len(b), Len(b)) \in Seq(S)
    BY <1>1, Parts
  <2> QED BY <1>1, <2>1
<1>5. Slice(b, Len(b), Len(b)) = <<>>
  BY <1>4
<1> QED BY <1>3, <1>5

LEMMA SliceFirst ==
  ASSUME NEW S, NEW b \in Seq(S), NEW o \in 1 .. Len(b)
  PROVE  Slice(b, o - 1, Len(b)) = <<b[o]>> ++ Slice(b, o, Len(b))
<1> DEFINE x == Slice(b, o - 1, Len(b))
           y == Slice(b, o, Len(b))
           n == Len(b) - o
<1>1. Len(b) \in Nat /\ o \in Nat /\ o - 1 \in 0 .. Len(b) /\ o \in 0 .. Len(b) /\ b[o] \in S
  BY SeqFacts
<1>2. /\ x \in Seq(S) /\ Len(x) = Len(b) - (o - 1)
      /\ \A i \in 1 .. Len(b) - (o - 1) : x[i] = b[(o - 1) + i]
  BY <1>1, Parts, ZenonT(30)
<1>3. y \in Seq(S) /\ Len(y) = n /\ \A i \in 1 .. n : y[i] = b[o + i]
  BY <1>1, Parts
<1>4. <<b[o]>> \in Seq(S) /\ Len(<<b[o]>>) = 1 /\ <<b[o]>>[1] = b[o]
  BY <1>1
<1>5. n \in Nat /\ Len(b) - (o - 1) = 1 + n
  BY <1>1
<1> DEFINE e == <<b[o]>>
<1> HIDE DEF x, y, n, e
<1>6. e ++ y \in Seq(S) /\ Len(e ++ y) = 1 + n
  BY <1>3, <1>4, CatType, CatLen DEF e
<1>7. ASSUME NEW i \in 1 .. 1 + n PROVE x[i] = (e ++ y)[i]
  <2>1. (e ++ y)[i] = IF i <= 1 THEN e[i] ELSE y[i - 1]
    <3>1. i \in 1 .. Len(e) + Len(y)
      BY <1>3, <1>4 DEF e
    <3> QED BY <1>3, <1>4, <3>1, CatAt DEF e
  <2>2. x[i] = b[(o - 1) + i]
    BY <1>2, <1>5
  <2>3. CASE i = 1
    <3>1. (o - 1) + i = o
      BY <1>1, <2>3
    <3> QED BY <1>4, <2>1, <2>2, <2>3, <3>1 DEF e
  <2>4. CASE i # 1
    <3>1. i - 1 \in 1 .. n /\ o + (i - 1) = (o - 1) + i /\ ~(i <= 1)
      BY <1>1, <1>5, <2>4
    <3> QED BY <1>3, <2>1, <2>2, <3>1
  <2> QED BY <2>3, <2>4
<1>8. x = e ++ y
  BY <1>2, <1>5, <1>6, <1>7, SeqEqual
<1> QED BY <1>8 DEF x, y, e

-----------------------------------------------------------------------------

(* The operations are applied from the back.  At any time the document d    *)
(* that they have made of D is D's up to a place of the flat text, the      *)
(* frontier p: up to character o of paragraph t, and what comes after that  *)
(* is R, the edited rest.                                                   *)

(* The place p of the flat text of D is o characters into paragraph t, or   *)
(* within the break in front of it.                                         *)
At(D, t, o, p) ==
  \/ p = Start(D, t) + o
  \/ o = 0 /\ t > 1 /\ p = Start(D, t) - 1

(* d is D up to character o of paragraph t; the paragraph may be gone, when *)
(* it was the last.                                                         *)
Agrees(D, d, t, o) ==
  /\ t \in 1 .. Len(D) /\ o \in 0 .. Len(D[t])
  /\ \A i \in 1 .. t - 1 : i <= Len(d) /\ d[i] = D[i]
  /\ \/ t <= Len(d) /\ o <= Len(d[t]) /\ \A k \in 1 .. o : d[t][k] = D[t][k]
     \/ Len(d) = t - 1 /\ o = 0 /\ t > 1

(* What comes after it.                                                     *)
Share(d, t, o, i) ==
  IF i < t THEN <<>> ELSE IF i = t THEN Pure(Slice(d[i], o, Len(d[i]))) ELSE Pure(d[i])
Shares(d, t, o) == [i \in 1 .. Len(d) |-> Share(d, t, o, i)]
After(d, t, o) == FlattenSeq(Shares(d, t, o))

Frontier(D, d, p, R) ==
  \E t, o \in Nat : At(D, t, o, p) /\ Agrees(D, d, t, o) /\ R = After(d, t, o)

LEMMA SharesType ==
  ASSUME NEW d \in Seq(Seq(Cells)), NEW t \in Nat, NEW o \in Nat
  PROVE  /\ Shares(d, t, o) \in Seq(Seq(Characters)) /\ Len(Shares(d, t, o)) = Len(d)
         /\ \A i \in 1 .. Len(d) : Shares(d, t, o)[i] = Share(d, t, o, i)
         /\ After(d, t, o) \in Seq(Characters)
<1>1. Len(d) \in Nat /\ \A i \in 1 .. Len(d) : d[i] \in Seq(Cells)
  BY SeqFacts
<1>2. ASSUME NEW i \in 1 .. Len(d) PROVE Share(d, t, o, i) \in Seq(Characters)
  <2>1. Slice(d[i], o, Len(d[i])) \in Seq(Cells)
    <3>1. d[i] \in Seq(Cells) /\ Len(d[i]) \in Int
      BY <1>1, SeqFacts
    <3> QED BY <3>1, SliceFacts
  <2>2. Pure(Slice(d[i], o, Len(d[i]))) \in Seq(Characters) /\ Pure(d[i]) \in Seq(Characters)
    BY <1>1, <2>1, PureFacts
  <2>3. <<>> \in Seq(Characters)
    OBVIOUS
  <2> QED BY <2>2, <2>3 DEF Share
<1>3. Shares(d, t, o) \in [1 .. Len(d) -> Seq(Characters)]
  BY <1>2 DEF Shares
<1>4. Shares(d, t, o) \in Seq(Seq(Characters)) /\ Len(Shares(d, t, o)) = Len(d)
  BY <1>1, <1>3, FunIsSeq
<1>5. After(d, t, o) \in Seq(Characters)
  BY <1>4, FlattenType DEF After
<1> QED BY <1>4, <1>5 DEF Shares

(* Documents whose paragraphs contribute the same have the same rest.       *)
LEMMA SameAfter ==
  ASSUME NEW d, NEW e, Len(d) = Len(e), NEW t, NEW o, NEW u, NEW v,
         \A i \in 1 .. Len(d) : Share(d, t, o, i) = Share(e, u, v, i)
  PROVE  After(d, t, o) = After(e, u, v)
BY DEF After, Shares

(* The end of a paragraph and the start of the next one.                    *)
LEMMA AfterBreak ==
  ASSUME NEW d \in Seq(Seq(Cells)), NEW t \in 2 .. Len(d) + 1
  PROVE  After(d, t - 1, Len(d[t - 1])) = After(d, t, 0)
<1>1. Len(d) \in Nat /\ t \in Nat /\ t - 1 \in 1 .. Len(d)
  OBVIOUS
<1>2. ASSUME NEW i \in 1 .. Len(d)
      PROVE  Share(d, t - 1, Len(d[t - 1]), i) = Share(d, t, 0, i)
  <2>1. d[i] \in Seq(Cells) /\ Slice(d[i], 0, Len(d[i])) = d[i]
        /\ Slice(d[i], Len(d[i]), Len(d[i])) = <<>>
    BY SeqFacts, SliceEnds
  <2>2. i < t - 1 \/ i = t - 1 \/ i = t \/ i > t
    BY <1>1
  <2>3. CASE i < t - 1
    BY <1>1, <2>3 DEF Share
  <2>4. CASE i = t - 1
    <3>1. i < t /\ ~(i < t - 1)
      BY <1>1, <2>4
    <3> QED BY <2>1, <2>4, <3>1, PureFacts DEF Share
  <2>5. CASE i = t
    <3>1. ~(i < t - 1) /\ i # t - 1 /\ ~(i < t)
      BY <1>1, <2>5
    <3> QED BY <2>1, <2>5, <3>1 DEF Share
  <2>6. CASE i > t
    <3>1. ~(i < t - 1) /\ i # t - 1 /\ ~(i < t) /\ i # t
      BY <1>1, <2>6
    <3> QED BY <3>1 DEF Share
  <2> QED BY <2>2, <2>3, <2>4, <2>5, <2>6
<1> QED BY <1>2, SameAfter

LEMMA AfterCell ==
  ASSUME NEW d \in Seq(Seq(Cells)), NEW t \in 1 .. Len(d), NEW o \in 1 .. Len(d[t])
  PROVE  After(d, t, o - 1) = Unbroken(<<d[t][o].ch>>) ++ After(d, t, o)
<1> DEFINE a == Shares(d, t, o - 1)
           b == Shares(d, t, o)
           x == Unbroken(<<d[t][o].ch>>)
           c == d[t][o]
<1>1. d[t] \in Seq(Cells) /\ Len(d) \in Nat /\ t \in Nat /\ o \in Nat /\ o - 1 \in Nat
  BY SeqFacts
<1>2. c \in Cells /\ c.ch \in Characters
  <2>1. c \in Cells
    BY <1>1, SeqFacts
  <2> HIDE DEF c
  <2> QED BY <2>1 DEF Cells
<1>3. Chars(<<c>>) = <<c.ch>> /\ <<c>> \in Seq(Cells) /\ <<c.ch>> \in Seq(Characters)
  <2> HIDE DEF c
  <2>1. <<c>> \in Seq(Cells) /\ Len(<<c>>) = 1 /\ <<c>>[1] = c /\ <<c.ch>> \in Seq(Characters)
        /\ Len(<<c.ch>>) = 1 /\ <<c.ch>>[1] = c.ch
    BY <1>2
  <2>2. Chars(<<c>>) \in Seq(Characters) /\ Len(Chars(<<c>>)) = 1 /\ Chars(<<c>>)[1] = c.ch
    <3> DEFINE e == <<c>>
    <3>1. e \in Seq(Cells) /\ Len(e) = 1 /\ e[1] = c
      BY <2>1
    <3> HIDE DEF e
    <3>2. /\ Chars(e) \in Seq(Characters) /\ Len(Chars(e)) = Len(e)
          /\ \A k \in 1 .. Len(e) : Chars(e)[k] = e[k].ch
      BY <3>1, CharsFacts
    <3>3. 1 \in 1 .. Len(e)
      BY <3>1
    <3> QED BY <3>1, <3>2, <3>3 DEF e
  <2>3. \A i \in 1 .. 1 : Chars(<<c>>)[i] = <<c.ch>>[i]
    BY <2>1, <2>2
  <2>4. Chars(<<c>>) = <<c.ch>>
    BY <2>1, <2>2, <2>3, SeqEqual
  <2> QED BY <2>1, <2>4
<1>4. x \in Seq(Characters) /\ Pure(<<c>>) = x
  BY <1>3, UnbrokenFacts DEF Pure
<1>5. Slice(d[t], o - 1, Len(d[t])) = <<c>> ++ Slice(d[t], o, Len(d[t]))
  BY <1>1, SliceFirst
<1>6. Slice(d[t], o, Len(d[t])) \in Seq(Cells)
  <2>1. o \in 0 .. Len(d[t])
    BY <1>1
  <2> QED BY <1>1, <2>1, Parts
<1>7. Pure(Slice(d[t], o - 1, Len(d[t]))) = x ++ Pure(Slice(d[t], o, Len(d[t])))
  <2>1. <<c>> \in Seq(Cells)
    BY <1>3
  <2> HIDE DEF c, x
  <2> QED BY <1>4, <1>5, <1>6, <2>1, PureFacts
<1> HIDE DEF x, c
<1>8. /\ a \in Seq(Seq(Characters)) /\ Len(a) = Len(d)
      /\ \A i \in 1 .. Len(d) : a[i] = Share(d, t, o - 1, i)
  BY <1>1, SharesType
<1>9. /\ b \in Seq(Seq(Characters)) /\ Len(b) = Len(d)
      /\ \A i \in 1 .. Len(d) : b[i] = Share(d, t, o, i)
  BY <1>1, SharesType
<1> HIDE DEF a, b
<1>10. a[t] = x ++ b[t]
  BY <1>1, <1>7, <1>8, <1>9 DEF Share
<1>11. ASSUME NEW i \in 1 .. t - 1 PROVE a[i] = <<>> /\ b[i] = <<>>
  <2>1. i \in 1 .. Len(d) /\ i < t
    BY <1>1
  <2> QED BY <1>8, <1>9, <2>1 DEF Share
<1>12. ASSUME NEW i \in t + 1 .. Len(a) PROVE a[i] = b[i]
  <2>1. i \in 1 .. Len(d) /\ ~(i < t) /\ i # t
    BY <1>1, <1>8
  <2> QED BY <1>8, <1>9, <2>1 DEF Share
<1>13. FlattenSeq(a) = x ++ FlattenSeq(b)
  <2>1. t \in 1 .. Len(a) /\ Len(a) = Len(b)
    BY <1>8, <1>9
  <2> QED BY <1>4, <1>8, <1>9, <1>10, <1>11, <1>12, <2>1, Prepend
<1> QED BY <1>13 DEF After, a, b, x, c

(* The frontier moves one place to the front.                               *)
LEMMA Lower ==
  ASSUME NEW D \in Seq(Seq(Blank)), NEW d \in Seq(Seq(Cells)), NEW p \in Nat \ {0},
         NEW R, Frontier(D, d, p, R)
  PROVE  Frontier(D, d, p - 1, Unbroken(<<ExtractText(D)[p]>>) ++ R)
<1> DEFINE T == ExtractText(D)
<1>1. PICK t \in Nat, o \in Nat : At(D, t, o, p) /\ Agrees(D, d, t, o) /\ R = After(d, t, o)
  BY DEF Frontier
<1>2. /\ D \in Seq(Seq(Cells)) /\ Len(D) \in Nat /\ Len(d) \in Nat
      /\ t \in 1 .. Len(D) /\ o \in 0 .. Len(D[t]) /\ D # <<>>
      /\ \A i \in 1 .. t - 1 : i <= Len(d) /\ d[i] = D[i]
      /\ \/ t <= Len(d) /\ o <= Len(d[t]) /\ \A k \in 1 .. o : d[t][k] = D[t][k]
         \/ Len(d) = t - 1 /\ o = 0 /\ t > 1
  BY <1>1, BlankCells DEF Agrees
<1>3. /\ \A i \in 1 .. Len(D) : /\ Len(D[i]) \in Nat /\ D[i] \in Seq(Cells)
                                /\ End(D, i) = Start(D, i) + Len(D[i])
                                /\ \A k \in 1 .. Len(D[i]) : T[Start(D, i) + k] = D[i][k].ch
      /\ \A i \in 2 .. Len(D) : T[Start(D, i) - 1] = "nl" /\ T[Start(D, i)] = "nl"
  BY <1>2, TextAt
<1>4. /\ \A i \in 1 .. Len(D) : Start(D, i) \in Nat
      /\ Start(D, 1) = 0
      /\ \A i \in 2 .. Len(D) : Start(D, i) = End(D, i - 1) + 2
  <2>1. Len(D) > 0
    BY <1>2
  <2> QED BY <1>2, <2>1, Bounds
<1> HIDE DEF T
<1>5. R \in Seq(Characters)
  BY <1>1, SharesType
<1>6. T[p] = "nl" => Unbroken(<<T[p]>>) ++ R = R
  BY <1>5, UnbrokenFacts, CatEmpty
<1>7. CASE o > 0
  <2>1. t <= Len(d) /\ t \in 1 .. Len(d) /\ o \in 1 .. Len(d[t]) /\ o \in 1 .. Len(D[t])
        /\ o - 1 \in Nat
    BY <1>2, <1>7
  <2>2. p = Start(D, t) + o /\ p - 1 = Start(D, t) + (o - 1)
    <3>1. p = Start(D, t) + o /\ Start(D, t) \in Nat
      BY <1>1, <1>2, <1>4, <1>7 DEF At
    <3> QED BY <1>7, <3>1
  <2>3. T[p] = d[t][o].ch
    <3>1. d[t][o] = D[t][o]
      <4>1. ~(o = 0) /\ o \in 1 .. o
        BY <1>7
      <4> QED BY <1>2, <4>1
    <3>2. T[Start(D, t) + o] = D[t][o].ch
      BY <1>2, <1>3, <2>1
    <3> QED BY <2>2, <3>1, <3>2
  <2>4. After(d, t, o - 1) = Unbroken(<<T[p]>>) ++ R
    BY <1>1, <2>1, <2>3, AfterCell
  <2>5. Agrees(D, d, t, o - 1)
    <3>1. o - 1 \in 0 .. Len(D[t]) /\ o - 1 <= Len(d[t])
      BY <1>2, <2>1, SMTT(20)
    <3>2. \A k \in 1 .. o - 1 : d[t][k] = D[t][k]
      <4>1. \A k \in 1 .. o - 1 : k \in 1 .. o
        BY <1>7
      <4> QED BY <1>2, <1>7, <4>1, SMTT(20)
    <3> QED BY <1>2, <2>1, <3>1, <3>2 DEF Agrees
  <2>6. At(D, t, o - 1, p - 1)
    BY <2>2 DEF At
  <2> QED BY <2>1, <2>4, <2>5, <2>6 DEF Frontier, T
<1>8. CASE o = 0 /\ t > 1 /\ p = Start(D, t)
  <2>1. t \in 2 .. Len(D)
    BY <1>2, <1>8
  <2>2. T[p] = "nl"
    BY <1>3, <1>8, <2>1
  <2>3. At(D, t, o, p - 1)
    BY <1>8 DEF At
  <2> QED BY <1>1, <1>6, <2>2, <2>3 DEF Frontier, T
<1>9. CASE o = 0 /\ t > 1 /\ p = Start(D, t) - 1
  <2> DEFINE u == t - 1
             v == Len(D[u])
  <2>1. t \in 2 .. Len(D) /\ u \in 1 .. Len(D) /\ u \in 1 .. t - 1
    BY <1>2, <1>9
  <2>2. T[p] = "nl"
    BY <1>3, <1>9, <2>1
  <2>3. p - 1 = Start(D, u) + v /\ v \in Nat
    <3>1. Start(D, t) = End(D, u) + 2 /\ End(D, u) = Start(D, u) + v /\ v \in Nat
          /\ Start(D, u) \in Nat
      BY <1>3, <1>4, <2>1
    <3> HIDE DEF v
    <3> QED BY <1>9, <3>1
  <2>4. d[u] = D[u] /\ u <= Len(d) /\ t \in 2 .. Len(d) + 1
    BY <1>2, <2>1
  <2>5. After(d, u, v) = R
    <3>1. After(d, t - 1, Len(d[t - 1])) = After(d, t, 0)
      BY <2>4, AfterBreak
    <3> QED BY <1>1, <1>9, <2>4, <3>1
  <2>6. At(D, u, v, p - 1)
    BY <2>3 DEF At
  <2>7. Agrees(D, d, u, v)
    <3>1. \A i \in 1 .. u - 1 : i \in 1 .. t - 1
      BY <1>2
    <3>2. v \in 0 .. Len(D[u]) /\ v <= Len(d[u])
      BY <2>3, <2>4
    <3> QED BY <1>2, <2>1, <2>4, <3>1, <3>2 DEF Agrees
  <2>8. u \in Nat
    BY <2>1
  <2> HIDE DEF u, v
  <2>9. Frontier(D, d, p - 1, R)
    BY <2>3, <2>5, <2>6, <2>7, <2>8 DEF Frontier
  <2> QED BY <1>6, <2>2, <2>9 DEF T
<1>10. \/ o > 0
       \/ o = 0 /\ t > 1 /\ p = Start(D, t)
       \/ o = 0 /\ t > 1 /\ p = Start(D, t) - 1
  <2>1. CASE o = 0 /\ t = 1
    <3>1. p = 0
      BY <1>1, <1>4, <2>1 DEF At
    <3> QED BY <3>1
  <2>2. CASE o = 0 /\ t # 1
    <3>1. t > 1 /\ Start(D, t) \in Nat
      BY <1>2, <1>4, <2>2
    <3> QED BY <1>1, <2>2, <3>1 DEF At
  <2> QED BY <2>1, <2>2
<1> QED BY <1>7, <1>8, <1>9, <1>10

(* At the end of the text nothing has been done yet.                        *)
LEMMA FirstFrontier ==
  ASSUME NEW D \in Seq(Seq(Blank)), D # <<>>
  PROVE  Frontier(D, D, Len(ExtractText(D)), <<>>)
<1> DEFINE t == Len(D)
           o == Len(D[t])
<1>1. D \in Seq(Seq(Cells)) /\ t \in Nat /\ t \in 1 .. Len(D) /\ t >= 1
  <2>1. D \in Seq(Seq(Cells))
    BY BlankCells
  <2> QED BY <2>1
<1>2. /\ Len(ExtractText(D)) = End(D, t) /\ o \in Nat /\ D[t] \in Seq(Cells)
      /\ End(D, t) = Start(D, t) + o
  BY <1>1, TextAt
<1>3. At(D, t, o, Len(ExtractText(D)))
  BY <1>2 DEF At
<1>4. Agrees(D, D, t, o)
  <2>1. \A i \in 1 .. t - 1 : i <= Len(D)
    BY <1>1
  <2>2. o \in 0 .. Len(D[t]) /\ o <= Len(D[t])
    BY <1>2
  <2> QED BY <1>1, <2>1, <2>2 DEF Agrees
<1>5. After(D, t, o) = <<>>
  <2>1. /\ Shares(D, t, o) \in Seq(Seq(Characters)) /\ Len(Shares(D, t, o)) = Len(D)
        /\ \A i \in 1 .. Len(D) : Shares(D, t, o)[i] = Share(D, t, o, i)
    BY <1>1, <1>2, SharesType
  <2>2. ASSUME NEW i \in 1 .. Len(D) PROVE Share(D, t, o, i) = <<>>
    <3>1. CASE i < t
      BY <3>1 DEF Share
    <3>2. CASE ~(i < t)
      <4>1. i = t
        BY <1>1, <3>2
      <4>2. Slice(D[i], o, Len(D[i])) = <<>>
        BY <1>2, <4>1, SliceEnds
      <4> QED BY <3>2, <4>1, <4>2, PureFacts DEF Share
    <3> QED BY <3>1, <3>2
  <2> HIDE DEF t, o
  <2> QED BY <2>1, <2>2, FlattenBlank DEF After
<1> HIDE DEF t, o
<1> QED BY <1>1, <1>2, <1>3, <1>4, <1>5 DEF Frontier

(* What stands in front and what stands behind in a concatenation.          *)
LEMMA CatParts ==
  ASSUME NEW S, NEW x \in Seq(S), NEW y \in Seq(S)
  PROVE  /\ \A i \in 1 .. Len(x) : (x ++ y)[i] = x[i]
         /\ SubSeq(x ++ y, Len(x) + 1, Len(x ++ y)) = y
         /\ Slice(x ++ y, Len(x), Len(x ++ y)) = y
<1> DEFINE z == x ++ y
           k == Len(x)
<1>1. Len(x) \in Nat /\ Len(y) \in Nat
  OBVIOUS
<1>2. z \in Seq(S) /\ Len(z) = Len(x) + Len(y)
      /\ \A i \in 1 .. Len(x) + Len(y) : z[i] = IF i <= Len(x) THEN x[i] ELSE y[i - Len(x)]
  BY <1>1, CatType, CatLen, CatAt
<1> HIDE DEF z
<1>3. k \in 0 .. Len(z) /\ Len(z) - k = Len(y)
  BY <1>1, <1>2
<1>4. \A i \in 1 .. Len(y) : z[k + i] = y[i]
  <2> SUFFICES ASSUME NEW i \in 1 .. Len(y) PROVE z[k + i] = y[i]
    OBVIOUS
  <2>1. k + i \in 1 .. Len(x) + Len(y) /\ ~(k + i <= Len(x)) /\ (k + i) - Len(x) = i
    BY <1>1
  <2> QED BY <1>2, <2>1
<1> HIDE DEF k
<1>5. SubSeq(z, k + 1, Len(z)) = y
  <2>1. /\ SubSeq(z, k + 1, Len(z)) \in Seq(S) /\ Len(SubSeq(z, k + 1, Len(z))) = Len(z) - k
        /\ \A i \in 1 .. Len(z) - k : SubSeq(z, k + 1, Len(z))[i] = z[k + i]
    BY <1>2, <1>3, Halves
  <2>2. \A i \in 1 .. Len(y) : SubSeq(z, k + 1, Len(z))[i] = y[i]
    BY <1>3, <1>4, <2>1
  <2> QED BY <1>3, <2>1, <2>2, SeqEqual
<1>6. Slice(z, k, Len(z)) = y
  <2>1. /\ Slice(z, k, Len(z)) \in Seq(S) /\ Len(Slice(z, k, Len(z))) = Len(z) - k
        /\ \A i \in 1 .. Len(z) - k : Slice(z, k, Len(z))[i] = z[k + i]
    BY <1>2, <1>3, Parts, ZenonT(30)
  <2>2. \A i \in 1 .. Len(y) : Slice(z, k, Len(z))[i] = y[i]
    BY <1>3, <1>4, <2>1
  <2> QED BY <1>3, <2>1, <2>2, SeqEqual
<1>7. \A i \in 1 .. Len(x) : z[i] = x[i]
  BY <1>1, <1>2, SMTT(20)
<1> QED BY <1>5, <1>6, <1>7 DEF z, k

(* The last sequence gets x behind it.                                      *)
LEMMA Postpend ==
  ASSUME NEW S, NEW a \in Seq(Seq(S)), NEW b \in Seq(Seq(S)), Len(a) = Len(b), Len(a) # 0,
         NEW x \in Seq(S), a[Len(a)] = b[Len(a)] ++ x,
         \A i \in 1 .. Len(a) - 1 : a[i] = b[i]
  PROVE  FlattenSeq(a) = FlattenSeq(b) ++ x
<1> DEFINE n == Len(a)
           a1 == SubSeq(a, 1, n - 1)
           b1 == SubSeq(b, 1, n - 1)
           a2 == SubSeq(a, n + 1, n)
           b2 == SubSeq(b, n + 1, n)
<1>1. /\ n \in Nat /\ n = Len(b) /\ n \in 1 .. Len(a) /\ n - 1 \in 0 .. n /\ n \in 0 .. n
      /\ (n - 1) + 1 = n /\ n - n = 0
  OBVIOUS
<1>2. a[n] \in Seq(S) /\ b[n] \in Seq(S)
  BY <1>1, SeqFacts
<1>3. /\ a1 \in Seq(Seq(S)) /\ Len(a1) = n - 1 /\ \A i \in 1 .. n - 1 : a1[i] = a[i]
  BY <1>1, Halves
<1>4. /\ b1 \in Seq(Seq(S)) /\ Len(b1) = n - 1 /\ \A i \in 1 .. n - 1 : b1[i] = b[i]
  BY <1>1, Halves
<1>5. a2 = <<>> /\ b2 = <<>>
  <2>1. a2 \in Seq(Seq(S)) /\ Len(a2) = n - n /\ b2 \in Seq(Seq(S)) /\ Len(b2) = n - n
    BY <1>1, Halves
  <2> HIDE DEF a2, b2
  <2> QED BY <1>1, <2>1
<1>6. FlattenSeq(a) = FlattenSeq(a1) ++ (a[n] ++ FlattenSeq(a2))
  BY <1>1, FlattenAround
<1>7. FlattenSeq(b) = FlattenSeq(b1) ++ (b[n] ++ FlattenSeq(b2))
  BY <1>1, FlattenAround
<1> HIDE DEF n, a1, b1, a2, b2
<1>8. a1 = b1
  <2>1. \A i \in 1 .. n - 1 : a1[i] = b1[i]
    BY <1>3, <1>4 DEF n
  <2>2. n - 1 \in Nat
    BY <1>1
  <2> QED BY <1>3, <1>4, <2>1, <2>2, SeqEqual
<1> DEFINE r == FlattenSeq(b1)
<1>9. r \in Seq(S)
  BY <1>4, FlattenType
<1> HIDE DEF r
<1>10. FlattenSeq(a) = r ++ (b[n] ++ x)
  BY <1>2, <1>5, <1>6, <1>8, FlattenEmpty, CatEmpty DEF n, r
<1>11. FlattenSeq(b) = r ++ b[n]
  BY <1>2, <1>5, <1>7, FlattenEmpty, CatEmpty DEF r
<1> QED BY <1>2, <1>9, <1>10, <1>11, CatAssoc

-----------------------------------------------------------------------------

(* The text of paragraphs, without the breaks.                              *)
PureOf == [b \in Seq(Cells) |-> Pure(b)]
PureText(d) == FlattenSeq(Map(PureOf, d))

LEMMA PureTextFacts ==
  /\ \A d \in Seq(Seq(Cells)) :
       /\ PureText(d) \in Seq(Characters)
       /\ Map(PureOf, d) \in Seq(Seq(Characters)) /\ Len(Map(PureOf, d)) = Len(d)
       /\ \A i \in 1 .. Len(d) : Map(PureOf, d)[i] = Pure(d[i])
  /\ \A x, y \in Seq(Seq(Cells)) : PureText(x ++ y) = PureText(x) ++ PureText(y)
  /\ PureText(<<>>) = <<>>
  /\ \A b \in Seq(Cells) : PureText(<<b>>) = Pure(b)
<1>1. Goes(PureOf, Seq(Cells), Seq(Characters))
  BY PureFacts DEF Goes, PureOf
<1>2. ASSUME NEW d \in Seq(Seq(Cells))
      PROVE  /\ Map(PureOf, d) \in Seq(Seq(Characters)) /\ Len(Map(PureOf, d)) = Len(d)
             /\ \A i \in 1 .. Len(d) : Map(PureOf, d)[i] = Pure(d[i])
  <2>1. /\ Map(PureOf, d) \in Seq(Seq(Characters)) /\ Len(Map(PureOf, d)) = Len(d)
        /\ \A i \in 1 .. Len(d) : Map(PureOf, d)[i] = PureOf[d[i]]
    BY <1>1, MapType
  <2>2. \A i \in 1 .. Len(d) : d[i] \in Seq(Cells)
    BY SeqFacts
  <2> QED BY <2>1, <2>2 DEF PureOf
<1>3. ASSUME NEW d \in Seq(Seq(Cells)) PROVE PureText(d) \in Seq(Characters)
  BY <1>2, FlattenType DEF PureText
<1>4. ASSUME NEW x \in Seq(Seq(Cells)), NEW y \in Seq(Seq(Cells))
      PROVE  PureText(x ++ y) = PureText(x) ++ PureText(y)
  BY <1>1, FlatMapCat DEF PureText
<1>5. PureText(<<>>) = <<>>
  BY MapEmpty, FlattenEmpty DEF PureText
<1>6. ASSUME NEW b \in Seq(Cells) PROVE PureText(<<b>>) = Pure(b)
  <2>1. FlattenSeq(Map(PureOf, <<b>>)) = PureOf[b]
    BY <1>1, FlatMapCat
  <2> QED BY <2>1 DEF PureText, PureOf
<1> QED BY <1>2, <1>3, <1>4, <1>5, <1>6

(* The rest begins with that of paragraph t.                                *)
LEMMA AfterSplit ==
  ASSUME NEW d \in Seq(Seq(Cells)), NEW t \in 1 .. Len(d), NEW o \in Nat
  PROVE  After(d, t, o) =
           Pure(Slice(d[t], o, Len(d[t]))) ++ PureText(SubSeq(d, t + 1, Len(d)))
<1> DEFINE a == Shares(d, t, o)
           n == Len(d)
           a1 == SubSeq(a, 1, t - 1)
           a2 == SubSeq(a, t + 1, n)
           r == SubSeq(d, t + 1, n)
<1>1. /\ n \in Nat /\ t \in Nat /\ t - 1 \in 0 .. n /\ t \in 0 .. n /\ (t - 1) + 1 = t
      /\ n - t \in Nat
  OBVIOUS
<1>2. /\ a \in Seq(Seq(Characters)) /\ Len(a) = n
      /\ \A i \in 1 .. n : a[i] = Share(d, t, o, i)
      /\ After(d, t, o) \in Seq(Characters)
  BY <1>1, SharesType
<1> HIDE DEF a
<1>3. /\ a1 \in Seq(Seq(Characters)) /\ Len(a1) = t - 1 /\ \A i \in 1 .. t - 1 : a1[i] = a[i]
  BY <1>1, <1>2, Halves
<1>4. /\ a2 \in Seq(Seq(Characters)) /\ Len(a2) = n - t /\ \A i \in 1 .. n - t : a2[i] = a[t + i]
  BY <1>1, <1>2, Halves
<1>5. /\ r \in Seq(Seq(Cells)) /\ Len(r) = n - t /\ \A i \in 1 .. n - t : r[i] = d[t + i]
  BY <1>1, Halves
<1>6. FlattenSeq(a) = FlattenSeq(a1) ++ (a[t] ++ FlattenSeq(a2))
  BY <1>2, FlattenAround
<1> HIDE DEF a1, a2, r
<1>7. FlattenSeq(a1) = <<>>
  <2>1. ASSUME NEW i \in 1 .. t - 1 PROVE a1[i] = <<>>
    <3>1. i \in 1 .. n /\ i < t
      BY <1>1
    <3> QED BY <1>2, <1>3, <3>1 DEF Share
  <2> QED BY <1>3, <2>1, FlattenBlank
<1>8. a2 = Map(PureOf, r)
  <2> DEFINE m == Map(PureOf, r)
  <2>1. m \in Seq(Seq(Characters)) /\ Len(m) = n - t /\ \A i \in 1 .. n - t : m[i] = Pure(r[i])
    BY <1>5, PureTextFacts
  <2> HIDE DEF m
  <2>2. ASSUME NEW i \in 1 .. n - t PROVE a2[i] = m[i]
    <3>1. t + i \in 1 .. n /\ ~(t + i < t) /\ t + i # t
      BY <1>1
    <3>2. a[t + i] = Pure(d[t + i])
      BY <1>2, <3>1 DEF Share
    <3> QED BY <1>4, <1>5, <2>1, <3>2
  <2>3. a2 = m
    BY <1>1, <1>4, <2>1, <2>2, SeqEqual
  <2> QED BY <2>3 DEF m
<1>9. a[t] = Pure(Slice(d[t], o, Len(d[t])))
  BY <1>1, <1>2 DEF Share
<1> DEFINE u == a[t]
           v == FlattenSeq(a2)
<1>10. u \in Seq(Characters) /\ v \in Seq(Characters)
  BY <1>2, <1>4, SeqFacts, FlattenType
<1> HIDE DEF u, v
<1>11. FlattenSeq(a) = u ++ v
  <2>1. u ++ v \in Seq(Characters)
    BY <1>10, CatType
  <2>2. FlattenSeq(a) = <<>> ++ (u ++ v)
    BY <1>6, <1>7 DEF u, v
  <2> QED BY <2>1, <2>2, CatEmpty
<1> QED BY <1>8, <1>9, <1>11 DEF After, PureText, a, u, v, r, n

-----------------------------------------------------------------------------

(* The text of paragraphs, each with a break in front.                      *)
LineOf == [b \in Seq(Cells) |-> Break ++ Chars(b)]
Lines(d) == FlattenSeq(Map(LineOf, d))

(* What comes behind character o of paragraph t, breaks included.           *)
Left(d, t, o) == Chars(Slice(d[t], o, Len(d[t]))) ++ Lines(SubSeq(d, t + 1, Len(d)))

LEMMA LineGoes ==
  /\ Goes(LineOf, Seq(Cells), Seq(Characters))
  /\ \A b \in Seq(Cells) : LineOf[b] = Break ++ Chars(b)
<1>1. ASSUME NEW b \in Seq(Cells) PROVE Break ++ Chars(b) \in Seq(Characters)
  <2>1. Chars(b) \in Seq(Characters) /\ Break \in Seq(Characters)
    BY CharsFacts, BreakType
  <2> QED BY <2>1, CatType
<1> QED BY <1>1 DEF Goes, LineOf

LEMMA LinesFacts ==
  /\ \A d \in Seq(Seq(Cells)) : Lines(d) \in Seq(Characters)
  /\ \A x, y \in Seq(Seq(Cells)) : Lines(x ++ y) = Lines(x) ++ Lines(y)
  /\ Lines(<<>>) = <<>>
  /\ \A b \in Seq(Cells) : Lines(<<b>>) = Break ++ Chars(b)
<1>1. Goes(LineOf, Seq(Cells), Seq(Characters))
  BY LineGoes
<1>2. /\ \A s \in Seq(Seq(Cells)) : FlattenSeq(Map(LineOf, s)) \in Seq(Characters)
      /\ FlattenSeq(Map(LineOf, <<>>)) = <<>>
      /\ \A x \in Seq(Cells) : FlattenSeq(Map(LineOf, <<x>>)) = LineOf[x]
      /\ \A x, y \in Seq(Seq(Cells)) :
           FlattenSeq(Map(LineOf, x ++ y)) =
             FlattenSeq(Map(LineOf, x)) ++ FlattenSeq(Map(LineOf, y))
  BY <1>1, FlatMapCat
<1> QED BY <1>2, LineGoes DEF Lines

LEMMA UnbrokenBreak == Unbroken(Break) = <<>>
<1> DEFINE c == <<"nl">>
<1>1. c \in Seq(Characters) /\ Unbroken(c) = <<>>
  BY CharactersAssumption, UnbrokenFacts
<1>2. Break = c \o c
  BY DEF Break
<1>3. <<>> \in Seq(Characters)
  OBVIOUS
<1> HIDE DEF c
<1>4. Unbroken(c ++ c) = <<>> ++ <<>>
  BY <1>1, UnbrokenFacts
<1> QED BY <1>2, <1>3, <1>4, CatEmpty DEF ++

LEMMA LinesPure ==
  ASSUME NEW d \in Seq(Seq(Cells))
  PROVE  Unbroken(Lines(d)) = PureText(d)
<1> DEFINE a == Map(LineOf, d)
           b == Map(PureOf, d)
           c == [i \in 1 .. Len(a) |-> Unbroken(a[i])]
<1>1. /\ a \in Seq(Seq(Characters)) /\ Len(a) = Len(d)
      /\ \A i \in 1 .. Len(d) : a[i] = LineOf[d[i]]
  BY LineGoes, MapType
<1>2. /\ b \in Seq(Seq(Characters)) /\ Len(b) = Len(d)
      /\ \A i \in 1 .. Len(d) : b[i] = Pure(d[i])
  BY PureTextFacts
<1>3. \A i \in 1 .. Len(d) : d[i] \in Seq(Cells)
  BY SeqFacts
<1> HIDE DEF a, b
<1>4. c \in Seq(Seq(Characters)) /\ Unbroken(FlattenSeq(a)) = FlattenSeq(c)
  BY <1>1, UnbrokenFlatten
<1>5. ASSUME NEW i \in 1 .. Len(d) PROVE c[i] = b[i]
  <2> DEFINE x == Chars(d[i])
  <2>1. a[i] = Break ++ x /\ x \in Seq(Characters)
    BY <1>1, <1>3, LineGoes, CharsFacts
  <2>2. b[i] = Unbroken(x)
    BY <1>2 DEF Pure
  <2> HIDE DEF x
  <2>3. Unbroken(Break ++ x) = Unbroken(Break) ++ Unbroken(x) /\ Unbroken(x) \in Seq(Characters)
    BY <2>1, BreakType, UnbrokenFacts
  <2>4. Unbroken(Break ++ x) = Unbroken(x)
    BY <2>3, UnbrokenBreak, CatEmpty
  <2>5. c[i] = Unbroken(a[i])
    BY <1>1
  <2> QED BY <2>1, <2>2, <2>4, <2>5
<1>6. Len(c) = Len(d) /\ Len(d) \in Nat
  BY <1>1
<1> HIDE DEF c
<1>7. c = b
  BY <1>2, <1>4, <1>5, <1>6, SeqEqual
<1> QED BY <1>4, <1>7 DEF Lines, PureText, a, b

LEMMA LeftParts ==
  ASSUME NEW d \in Seq(Seq(Cells)), NEW t \in 1 .. Len(d), NEW o \in Nat
  PROVE  /\ Slice(d[t], o, Len(d[t])) \in Seq(Cells)
         /\ SubSeq(d, t + 1, Len(d)) \in Seq(Seq(Cells))
         /\ Chars(Slice(d[t], o, Len(d[t]))) \in Seq(Characters)
         /\ Lines(SubSeq(d, t + 1, Len(d))) \in Seq(Characters)
         /\ Left(d, t, o) \in Seq(Characters)
<1> DEFINE x == Slice(d[t], o, Len(d[t]))
           r == SubSeq(d, t + 1, Len(d))
<1>1. r \in Seq(Seq(Cells))
  <2>1. t \in 0 .. Len(d)
    OBVIOUS
  <2> QED BY <2>1, Halves
<1>2. x \in Seq(Cells)
  <2>1. d[t] \in Seq(Cells) /\ Len(d[t]) \in Int
    BY SeqFacts
  <2> QED BY <2>1, SliceFacts
<1> HIDE DEF x, r
<1>3. Chars(x) \in Seq(Characters) /\ Lines(r) \in Seq(Characters)
  BY <1>1, <1>2, CharsFacts, LinesFacts
<1>4. Chars(x) ++ Lines(r) \in Seq(Characters)
  BY <1>3, CatType
<1> QED BY <1>1, <1>2, <1>3, <1>4 DEF Left, x, r

(* Without the breaks it is the rest.                                       *)
LEMMA LeftPure ==
  ASSUME NEW d \in Seq(Seq(Cells)), NEW t \in 1 .. Len(d), NEW o \in Nat
  PROVE  After(d, t, o) = Unbroken(Left(d, t, o))
<1> DEFINE x == Slice(d[t], o, Len(d[t]))
           r == SubSeq(d, t + 1, Len(d))
<1>1. /\ r \in Seq(Seq(Cells)) /\ Chars(x) \in Seq(Characters)
      /\ Lines(r) \in Seq(Characters)
  BY LeftParts
<1>2. After(d, t, o) = Pure(x) ++ PureText(r)
  BY AfterSplit
<1> HIDE DEF x, r
<1>3. Unbroken(Chars(x) ++ Lines(r)) = Unbroken(Chars(x)) ++ Unbroken(Lines(r))
  BY <1>1, UnbrokenFacts
<1>4. Unbroken(Lines(r)) = PureText(r)
  BY <1>1, LinesPure
<1> QED BY <1>2, <1>3, <1>4 DEF Left, Pure, x, r

-----------------------------------------------------------------------------

(* Where an insert at the frontier goes.                                    *)

(* D and d begin with the same paragraphs.                                  *)
LEMMA SameUpTo ==
  ASSUME NEW D \in Seq(Seq(Blank)), NEW d \in Seq(Seq(Cells)), NEW t \in Nat, NEW o \in Nat,
         Agrees(D, d, t, o)
  PROVE  /\ t \in 1 .. Len(D) /\ o \in 0 .. Len(D[t]) /\ D \in Seq(Seq(Cells)) /\ D # <<>>
         /\ \A i \in 1 .. t - 1 :
              /\ i \in 1 .. Len(d) /\ d[i] = D[i]
              /\ Start(d, i) = Start(D, i) /\ End(d, i) = End(D, i)
         /\ t <= Len(d) => t \in 1 .. Len(d) /\ Start(d, t) = Start(D, t)
         /\ t > Len(d) => t > 1 /\ o = 0 /\ Len(d) = t - 1
<1>1. t \in 1 .. Len(D) /\ o \in 0 .. Len(D[t]) /\ Len(D) \in Nat /\ Len(d) \in Nat
  BY DEF Agrees
<1>2. D \in Seq(Seq(Cells)) /\ D # <<>>
  BY <1>1, BlankCells
<1>3. \A i \in 1 .. t - 1 : i <= Len(d) /\ i <= Len(D) /\ d[i] = D[i]
  BY <1>1 DEF Agrees
<1>4. t - 1 \in Nat /\ (t - 1) + 1 = t
  BY <1>1
<1>5. /\ \A i \in 1 .. t - 1 : Start(d, i) = Start(D, i) /\ End(d, i) = End(D, i)
      /\ (t - 1) + 1 <= Len(d) /\ (t - 1) + 1 <= Len(D) =>
           Start(d, (t - 1) + 1) = Start(D, (t - 1) + 1)
  BY <1>2, <1>3, <1>4, SameStarts
<1>6. t <= Len(d) => t \in 1 .. Len(d) /\ Start(d, t) = Start(D, t)
  BY <1>1, <1>4, <1>5
<1>7. t > Len(d) => t > 1 /\ o = 0 /\ Len(d) = t - 1
  BY <1>1 DEF Agrees
<1>8. \A i \in 1 .. t - 1 : i \in 1 .. Len(d)
  BY <1>1, <1>3
<1> QED BY <1>1, <1>2, <1>3, <1>5, <1>6, <1>7, <1>8

LEMMA InsertPlace ==
  ASSUME NEW D \in Seq(Seq(Blank)), NEW d \in Seq(Seq(Cells)), NEW t \in Nat, NEW o \in Nat,
         NEW p \in Nat, At(D, t, o, p), Agrees(D, d, t, o), t <= Len(d)
  PROVE  Target(d, p) = t /\ Offset(d, p) = o
<1>1. /\ t \in 1 .. Len(d) /\ t \in 1 .. Len(D) /\ Start(d, t) = Start(D, t)
      /\ D \in Seq(Seq(Cells)) /\ Len(d) \in Nat
  <2>1. Len(d) \in Nat
    OBVIOUS
  <2>2. t \in 1 .. Len(D) /\ D \in Seq(Seq(Cells))
        /\ (t <= Len(d) => t \in 1 .. Len(d) /\ Start(d, t) = Start(D, t))
    BY SameUpTo
  <2> QED BY <2>1, <2>2
<1>2. o <= Len(d[t]) /\ d[t] \in Seq(Cells)
  <2>1. o <= Len(d[t])
    BY <1>1 DEF Agrees
  <2> QED BY <1>1, <2>1, SeqFacts
<1>3. o <= Len(Render(d[t])) /\ Len(d[t]) \in Nat
  BY <1>2, RenderLength
<1> DEFINE n == Len(Render(d[t]))
           s == Start(d, t)
<1>4. s \in Nat /\ n \in Nat /\ End(d, t) = s + n
  BY <1>1, Bounds
<1>5. p = s + o \/ (o = 0 /\ p = s - 1 /\ t > 1)
  BY <1>1 DEF At
<1>6. o <= n
  BY <1>3
<1>7. DOMAIN LinearizeXmlText(d) = 1 .. Len(d) /\ DOMAIN d = 1 .. Len(d)
  BY Bounds
<1>8. Owners(d, p) = {i \in 1 .. Len(d) : p <= End(d, i)}
  BY <1>7 DEF Owners, End
<1>9. t \in Owners(d, p)
  <2> HIDE DEF n, s
  <2>1. p <= End(d, t)
    BY <1>4, <1>5, <1>6
  <2> QED BY <1>1, <1>8, <2>1
<1>10. ASSUME NEW i \in Owners(d, p) PROVE t <= i
  <2>1. i \in 1 .. Len(d) /\ p <= End(d, i)
    BY <1>8
  <2>2. SUFFICES ASSUME i < t PROVE FALSE
    BY <1>1, <2>1
  <2>3. End(d, i) + 2 <= s
    BY <1>1, <2>1, <2>2, Ascending
  <2>4. End(d, i) \in Nat
    BY <2>1, Bounds
  <2> HIDE DEF s, n
  <2> QED BY <1>4, <1>5, <2>1, <2>3, <2>4
<1>11. Target(d, p) = t
  <2>0. 1 .. Len(d) \subseteq Nat
    BY <1>1
  <2>1. Owners(d, p) \in SUBSET Nat /\ Owners(d, p) # {}
    BY <1>8, <1>9, <2>0
  <2>2. Min(Owners(d, p)) \in Owners(d, p) /\ \A y \in Owners(d, p) : Min(Owners(d, p)) <= y
    BY <2>1, MinOfSome
  <2> DEFINE m == Min(Owners(d, p))
  <2>3. m \in Nat /\ m <= t /\ t <= m
    BY <1>9, <1>10, <2>1, <2>2
  <2>4. m = t
    BY <2>3
  <2> QED BY <2>1, <2>4 DEF Target
<1>12. Offset(d, p) = Clamp(p - s, 0, End(d, t) - s)
  BY <1>11 DEF Offset
<1> HIDE DEF s, n
<1>13. p - s \in Int /\ End(d, t) - s = n
  BY <1>4
<1>14. Clamp(p - s, 0, n) = IF p - s <= 0 THEN 0 ELSE IF p - s <= n THEN p - s ELSE n
  BY <1>4, <1>13, ClampValue
<1>15. Clamp(p - s, 0, n) = o
  BY <1>4, <1>5, <1>6, <1>14
<1> QED BY <1>11, <1>12, <1>13, <1>15

(* Behind the last paragraph an insert goes to its end.                     *)
LEMMA InsertBehind ==
  ASSUME NEW d \in Seq(Seq(Cells)), d # <<>>, NEW p \in Nat, p > End(d, Len(d))
  PROVE  Target(d, p) = Len(d) /\ Offset(d, p) = Len(Render(d[Len(d)]))
<1> DEFINE t == Len(d)
           n == Len(Render(d[t]))
           s == Start(d, t)
<1>1. t \in Nat /\ t \in 1 .. Len(d)
  OBVIOUS
<1>2. s \in Nat /\ n \in Nat /\ End(d, t) = s + n
  BY <1>1, Bounds
<1>3. DOMAIN LinearizeXmlText(d) = 1 .. Len(d) /\ DOMAIN d = 1 .. Len(d)
  BY Bounds
<1>4. Owners(d, p) = {i \in 1 .. Len(d) : p <= End(d, i)}
  BY <1>3 DEF Owners, End
<1>5. ASSUME NEW i \in Owners(d, p) PROVE FALSE
  <2>1. i \in 1 .. Len(d) /\ p <= End(d, i)
    BY <1>4
  <2>2. i # t
    <3>1. SUFFICES ASSUME i = t PROVE FALSE
      OBVIOUS
    <3>2. End(d, i) \in Nat /\ p > End(d, i)
      BY <2>1, <3>1, Bounds
    <3> QED BY <2>1, <3>2
  <2>3. i < t
    BY <1>1, <2>1, <2>2
  <2>4. End(d, i) + 2 <= s /\ End(d, i) \in Nat
    BY <1>1, <2>1, <2>3, Ascending, Bounds
  <2>5. p > End(d, t)
    OBVIOUS
  <2> HIDE DEF s, n, t
  <2> QED BY <1>2, <2>1, <2>4, <2>5
<1>6. Target(d, p) = t
  BY <1>5 DEF Target
<1>7. Offset(d, p) = Clamp(p - s, 0, End(d, t) - s)
  BY <1>6 DEF Offset
<1>8. p > End(d, t)
  OBVIOUS
<1> HIDE DEF s, n, t
<1>9. p - s \in Int /\ End(d, t) - s = n /\ p - s > n
  BY <1>2, <1>8
<1>10. Clamp(p - s, 0, n) = IF p - s <= 0 THEN 0 ELSE IF p - s <= n THEN p - s ELSE n
  BY <1>2, <1>9, ClampValue
<1>11. Clamp(p - s, 0, n) = n
  BY <1>2, <1>9, <1>10
<1> QED BY <1>6, <1>7, <1>9, <1>11 DEF t, n

(* What an insert of one paragraph at character o of paragraph t makes.     *)
WithTyped(d, t, o, s) == [d EXCEPT ![t] = YInsert(d[t], o, s)]

LEMMA InsertOne ==
  ASSUME NEW d \in Seq(Seq(Cells)), NEW t \in 1 .. Len(d), NEW o \in 0 .. Len(d[t]),
         NEW s \in Seq(Characters)
  PROVE  LET e == WithTyped(d, t, o, s)
         IN /\ e \in Seq(Seq(Cells)) /\ Len(e) = Len(d)
            /\ \A i \in 1 .. Len(d) : i # t => e[i] = d[i]
            /\ o <= Len(e[t]) /\ \A k \in 1 .. o : e[t][k] = d[t][k]
            /\ Len(e[t]) >= Len(d[t])
            /\ Left(e, t, o) = s ++ Left(d, t, o)
<1> DEFINE b == d[t]
           y == YInsert(b, o, s)
           e == [d EXCEPT ![t] = y]
           n == Len(d)
           bold == o > 0 /\ b[o].bold
           x0 == Slice(b, 0, o)
           x1 == Typed(s, bold)
           x2 == Slice(b, o, Len(b))
<1>1. /\ b \in Seq(Cells) /\ n \in Nat /\ o \in Nat
      /\ Len(b) \in Nat /\ o <= Len(b) /\ o \in 0 .. Len(b)
  BY SeqFacts
<1> HIDE DEF b
<1>2. y = x0 ++ x1 ++ x2 /\ bold \in BOOLEAN /\ y \in Seq(Cells)
  BY <1>1, YInsertValue
<1>3. /\ x0 \in Seq(Cells) /\ Len(x0) = o /\ \A i \in 1 .. o : x0[i] = b[i]
      /\ x2 \in Seq(Cells)
  BY <1>1, Parts
<1>4. x1 \in Seq(Cells) /\ Chars(x1) = s
  <2> HIDE DEF bold
  <2> QED BY <1>2, TypedType, CharsTyped
<1> HIDE DEF y, x0, x1, x2
<1>5. x1 ++ x2 \in Seq(Cells) /\ y = x0 ++ (x1 ++ x2)
  BY <1>2, <1>3, <1>4, CatType, CatAssoc
<1>6. /\ \A i \in 1 .. Len(x0) : y[i] = x0[i]
      /\ Slice(y, Len(x0), Len(y)) = x1 ++ x2
      /\ Len(y) = Len(x0) + Len(x1 ++ x2)
  BY <1>3, <1>5, CatParts, CatLen
<1>7. /\ o <= Len(y) /\ \A k \in 1 .. o : y[k] = b[k]
      /\ Slice(y, o, Len(y)) = x1 ++ x2
  <2>1. Len(x1 ++ x2) \in Nat
    BY <1>5, SeqFacts
  <2> QED BY <1>1, <1>3, <1>6, <2>1
<1>8. Chars(x1 ++ x2) = s ++ Chars(x2)
  BY <1>3, <1>4, CharsFacts
<1>9. /\ e \in Seq(Seq(Cells)) /\ Len(e) = n /\ e[t] = y
      /\ \A i \in 1 .. n : i # t => e[i] = d[i]
  BY <1>2
<1> HIDE DEF e
<1>10. SubSeq(e, t + 1, Len(e)) = SubSeq(d, t + 1, n)
  <2> DEFINE u == SubSeq(e, t + 1, Len(e))
             v == SubSeq(d, t + 1, n)
  <2>1. t \in 0 .. n /\ n - t \in Nat
    BY <1>1
  <2>2. u \in Seq(Seq(Cells)) /\ Len(u) = n - t /\ \A i \in 1 .. n - t : u[i] = e[t + i]
    <3>1. t \in 0 .. Len(e)
      BY <1>9, <2>1
    <3>2. /\ u \in Seq(Seq(Cells)) /\ Len(u) = Len(e) - t
          /\ \A i \in 1 .. Len(e) - t : u[i] = e[t + i]
      BY <1>9, <3>1, Halves, SMTT(20)
    <3> HIDE DEF u, n
    <3> QED BY <1>9, <3>2
  <2>3. v \in Seq(Seq(Cells)) /\ Len(v) = n - t /\ \A i \in 1 .. n - t : v[i] = d[t + i]
    BY <2>1, Halves
  <2> HIDE DEF u, v
  <2>4. ASSUME NEW i \in 1 .. n - t PROVE u[i] = v[i]
    <3>1. t + i \in 1 .. n /\ t + i # t
      BY <1>1
    <3> QED BY <1>9, <2>2, <2>3, <3>1
  <2>5. u = v
    BY <2>1, <2>2, <2>3, <2>4, SeqEqual
  <2> QED BY <2>5 DEF u, v
<1> DEFINE r == Lines(SubSeq(d, t + 1, n))
           u2 == Chars(x2)
<1>11. r \in Seq(Characters) /\ u2 \in Seq(Characters)
  <2>1. r \in Seq(Characters)
    BY <1>1, LeftParts
  <2> QED BY <1>3, <2>1, CharsFacts
<1>12. Left(d, t, o) = u2 ++ r
  BY DEF Left, b, x2
<1>13. Left(e, t, o) = Chars(x1 ++ x2) ++ r
  BY <1>7, <1>9, <1>10 DEF Left
<1> HIDE DEF r, u2
<1>14. Left(e, t, o) = s ++ Left(d, t, o)
  <2>1. Chars(x1 ++ x2) = s ++ u2
    BY <1>8 DEF u2
  <2> QED BY <1>11, <1>12, <1>13, <2>1, CatAssoc
<1>15. Len(y) >= Len(b)
  <2>1. Len(y) = Len(b) + Len(s) /\ Len(s) \in Nat
    BY <1>1, YInsertValue DEF y
  <2> QED BY <1>1, <2>1
<1>16. o <= Len(e[t]) /\ Len(e[t]) >= Len(d[t]) /\ \A k \in 1 .. o : e[t][k] = d[t][k]
  BY <1>7, <1>9, <1>15 DEF b
<1> QED BY <1>9, <1>14, <1>16 DEF WithTyped, e, y, b

-----------------------------------------------------------------------------

(* The text of several paragraphs.                                          *)
LEMMA JoinedLines ==
  ASSUME NEW s \in Seq(Seq(Characters)), s # <<>>
  PROVE  LET f == [i \in 1 .. Len(s) - 1 |-> Break ++ s[i + 1]]
         IN /\ f \in Seq(Seq(Characters)) /\ Len(f) = Len(s) - 1
            /\ Joined(s) = s[1] ++ FlattenSeq(f)
<1> DEFINE n == Len(s)
           f == [i \in 1 .. n - 1 |-> Break ++ s[i + 1]]
           j == [i \in 1 .. n |-> IF i = 1 THEN s[i] ELSE Break ++ s[i]]
           g == SubSeq(j, 2, n)
<1>1. n \in Nat /\ n # 0 /\ DOMAIN s = 1 .. n /\ \A i \in 1 .. n : s[i] \in Seq(Characters)
  BY SeqFacts
<1>2. Joined(s) = FlattenSeq(j)
  BY <1>1 DEF Joined, ++
<1> HIDE DEF n
<1>3. \A i \in 1 .. n : Break ++ s[i] \in Seq(Characters)
  BY <1>1, BreakType, CatType
<1>4. f \in Seq(Seq(Characters)) /\ Len(f) = n - 1
  <2>1. n - 1 \in Nat /\ \A i \in 1 .. n - 1 : i + 1 \in 1 .. n
    BY <1>1
  <2>2. f \in [1 .. n - 1 -> Seq(Characters)]
    BY <1>3, <2>1
  <2> HIDE DEF f
  <2> QED BY <2>1, <2>2, FunIsSeq
<1>5. j \in Seq(Seq(Characters)) /\ Len(j) = n
  <2>1. j \in [1 .. n -> Seq(Characters)]
    BY <1>1, <1>3
  <2> HIDE DEF j
  <2> QED BY <1>1, <2>1, FunIsSeq
<1>6. \A i \in 1 .. n - 1 : f[i] = Break ++ s[i + 1]
  OBVIOUS
<1>7. j[1] = s[1] /\ \A i \in 1 .. n : i # 1 => j[i] = Break ++ s[i]
  BY <1>1
<1> HIDE DEF f, j
<1>8. 0 \in 0 .. n /\ 1 \in 0 .. n /\ 1 \in 1 .. n /\ 1 + 1 = 2 /\ 1 - 1 = 0 /\ n - 1 \in Nat
  BY <1>1
<1>9. g \in Seq(Seq(Characters)) /\ Len(g) = n - 1 /\ \A i \in 1 .. n - 1 : g[i] = j[1 + i]
  BY <1>5, <1>8, Halves
<1>10. SubSeq(j, 1, 0) = <<>>
  <2>1. SubSeq(j, 1, 0) \in Seq(Seq(Characters)) /\ Len(SubSeq(j, 1, 0)) = 0
    BY <1>5, <1>8, Halves
  <2> QED BY <2>1
<1>11. FlattenSeq(j) = <<>> ++ (s[1] ++ FlattenSeq(g))
  <2>1. FlattenSeq(j) =
          FlattenSeq(SubSeq(j, 1, 1 - 1)) ++ (j[1] ++ FlattenSeq(SubSeq(j, 1 + 1, Len(j))))
    BY <1>5, <1>8, FlattenAround
  <2> QED BY <1>5, <1>7, <1>8, <1>10, <2>1, FlattenEmpty
<1> HIDE DEF g
<1>12. g = f
  <2>1. ASSUME NEW i \in 1 .. n - 1 PROVE g[i] = f[i]
    <3>1. 1 + i \in 1 .. n /\ 1 + i # 1 /\ 1 + i = i + 1
      BY <1>1
    <3> QED BY <1>6, <1>7, <1>9, <3>1
  <2> QED BY <1>4, <1>8, <1>9, <2>1, SeqEqual
<1>13. s[1] ++ FlattenSeq(f) \in Seq(Characters)
  <2>1. FlattenSeq(f) \in Seq(Characters) /\ s[1] \in Seq(Characters)
    BY <1>1, <1>4, <1>8, FlattenType
  <2> QED BY <2>1, CatType
<1>14. Joined(s) = s[1] ++ FlattenSeq(f)
  BY <1>2, <1>11, <1>12, <1>13, CatEmpty
<1> QED BY <1>4, <1>14 DEF f, n

(* The fresh paragraphs: the last one is followed by the tail.              *)
LEMMA FreshLines ==
  ASSUME NEW segments \in Texts, Len(segments) # 1, NEW tail \in Seq(Characters)
  PROVE  Joined(segments) ++ tail = segments[1] ++ Lines(Fresh(segments, tail))
<1> DEFINE n == Len(segments) - 1
           f == [i \in 1 .. n |-> Break ++ segments[i + 1]]
           F == Fresh(segments, tail)
           a == Map(LineOf, F)
           y == segments[1]
<1>1. /\ F \in Seq(Seq(Cells)) /\ Len(F) = Len(segments) - 1 /\ Len(segments) \in Nat \ {0}
      /\ y \in Seq(Characters) /\ segments \in Seq(Seq(Characters)) /\ segments # <<>>
  BY FreshType
<1>2. n \in Nat \ {0} /\ Len(segments) = n + 1
  BY <1>1
<1>3. f \in Seq(Seq(Characters)) /\ Len(f) = n /\ Joined(segments) = y ++ FlattenSeq(f)
  BY <1>1, JoinedLines
<1>4. \A i \in 1 .. n : f[i] = Break ++ segments[i + 1]
  OBVIOUS
<1>5. \A i \in 1 .. n : i + 1 \in 1 .. Len(segments) /\ segments[i + 1] \in Seq(Characters)
  BY <1>1, <1>2
<1>6. /\ a \in Seq(Seq(Characters)) /\ Len(a) = n /\ \A i \in 1 .. n : a[i] = LineOf[F[i]]
      /\ \A i \in 1 .. n : F[i] \in Seq(Cells)
  BY <1>1, LineGoes, MapType
<1>7. ASSUME NEW i \in 1 .. n - 1 PROVE a[i] = f[i]
  <2>1. i \in 1 .. n /\ i < Len(segments) - 1
    BY <1>2
  <2>2. F[i] = Plain(segments[i + 1])
    BY <2>1 DEF Fresh
  <2>3. Chars(Plain(segments[i + 1])) = segments[i + 1]
    BY <1>5, <2>1, CharsTyped
  <2> HIDE DEF F, a, f
  <2> QED BY <1>4, <1>6, <2>1, <2>2, <2>3, LineGoes
<1>8. a[n] = f[n] ++ tail
  <2> DEFINE z == segments[n + 1]
  <2>1. n \in 1 .. n /\ ~(n < Len(segments) - 1)
    BY <1>2
  <2>2. F[n] = Plain(z ++ tail)
    BY <2>1 DEF Fresh, ++
  <2>3. z \in Seq(Characters)
    BY <1>5, <2>1
  <2>4. f[n] = Break ++ z
    BY <2>1
  <2>5. a[n] = LineOf[F[n]] /\ F[n] \in Seq(Cells)
    <3> HIDE DEF a, F, n
    <3> QED BY <1>6, <2>1
  <2> HIDE DEF a, F, z, f, n
  <2>6. z ++ tail \in Seq(Characters)
    BY <2>3, CatType
  <2>7. Chars(Plain(z ++ tail)) = z ++ tail
    BY <2>6, CharsTyped
  <2>8. a[n] = Break ++ (z ++ tail)
    BY <2>2, <2>5, <2>7, LineGoes
  <2> QED BY <2>3, <2>4, <2>8, BreakType, CatAssoc
<1> HIDE DEF a, f, y, n
<1>9. FlattenSeq(a) = FlattenSeq(f) ++ tail
  <2>1. Len(a) = Len(f) /\ Len(a) # 0 /\ a[Len(a)] = f[Len(a)] ++ tail
        /\ \A i \in 1 .. Len(a) - 1 : a[i] = f[i]
    BY <1>2, <1>3, <1>6, <1>7, <1>8
  <2> QED BY <1>3, <1>6, <2>1, Postpend
<1>10. (y ++ FlattenSeq(f)) ++ tail = y ++ FlattenSeq(a)
  <2> DEFINE z == FlattenSeq(f)
  <2>1. z \in Seq(Characters)
    BY <1>3, FlattenType
  <2> HIDE DEF z
  <2>2. FlattenSeq(a) = z ++ tail
    BY <1>9 DEF z
  <2>3. (y ++ z) ++ tail = y ++ FlattenSeq(a)
    BY <1>1, <2>1, <2>2, CatAssoc
  <2> QED BY <2>3 DEF z
<1> QED BY <1>3, <1>10 DEF Lines, a, F, y

(* What an insert of several paragraphs at character o of paragraph t makes. *)
LEMMA InsertMany ==
  ASSUME NEW d \in Seq(Seq(Cells)), NEW t \in 1 .. Len(d), d[t] \in Seq(Blank),
         NEW o \in 0 .. Len(d[t]), NEW segments \in Texts, Len(segments) # 1
  PROVE  LET e == InsertBlocks(d, t, o, segments)
         IN /\ e \in Seq(Seq(Cells)) /\ t <= Len(e)
            /\ \A i \in 1 .. t - 1 : e[i] = d[i]
            /\ o <= Len(e[t]) /\ \A k \in 1 .. o : e[t][k] = d[t][k]
            /\ Left(e, t, o) = Joined(segments) ++ Left(d, t, o)
            /\ segments[1] # <<>> => Len(e[t]) > o
<1> DEFINE b == d[t]
           n == Len(d)
           e == InsertBlocks(d, t, o, segments)
           x0 == Slice(b, 0, o)
           x2 == Slice(b, o, Len(b))
           s == segments[1]
           tail == Slice(Render(b), o, Len(Render(b)))
           kept == YDelete(b, o, Len(Render(b)) - o)
           y == YInsert(kept, o, s)
           A == SubSeq(d, 1, t - 1)
           B == SubSeq(d, t + 1, n)
           F == Fresh(segments, tail)
<1>1. /\ b \in Seq(Cells) /\ n \in Nat /\ t \in Nat /\ o \in Nat /\ Len(b) \in Nat
      /\ o \in 0 .. Len(b) /\ o <= Len(b)
  BY SeqFacts
<1>2. Render(b) = Chars(b) /\ Len(Render(b)) = Len(b)
  BY RenderBlank
<1>3. /\ e = A ++ <<y>> ++ F ++ B /\ tail \in Seq(Characters) /\ kept \in Seq(Cells)
      /\ y \in Seq(Cells) /\ e \in Seq(Seq(Cells))
  <2>1. o \in 0 .. Len(Render(d[t]))
    BY <1>2
  <2> QED BY <2>1, InsertBlocksValue
<1>4. s \in Seq(Characters) /\ F \in Seq(Seq(Cells))
  BY <1>3, FreshType
<1>5. /\ x0 \in Seq(Cells) /\ Len(x0) = o /\ \A i \in 1 .. o : x0[i] = b[i]
      /\ x2 \in Seq(Cells) /\ x0 ++ x2 = b
  <2> HIDE DEF b
  <2> QED BY <1>1, Parts
<1>6. kept = x0
  <2>1. o + (Len(Render(b)) - o) = Len(b)
    <3> HIDE DEF b
    <3> QED BY <1>1, <1>2
  <2>2. kept = Slice(b, 0, o) ++ Slice(b, Len(b), Len(b))
    BY <2>1 DEF YDelete, ++
  <2>3. Slice(b, Len(b), Len(b)) = <<>>
    <3> HIDE DEF b
    <3> QED BY <1>1, SliceEnds
  <2> HIDE DEF x0, b, kept
  <2> QED BY <1>5, <2>2, <2>3, CatEmpty DEF x0
<1>7. tail = Chars(x2)
  <2>1. Chars(b) = Chars(x0) ++ Chars(x2) /\ Chars(x0) \in Seq(Characters)
        /\ Chars(x2) \in Seq(Characters) /\ Len(Chars(x0)) = o /\ Len(Chars(b)) = Len(b)
    <3> HIDE DEF b, x0, x2
    <3> QED BY <1>1, <1>5, CharsFacts
  <2> DEFINE u == Chars(x0)
             v == Chars(x2)
  <2>2. tail = Slice(u ++ v, Len(u), Len(u ++ v))
    BY <1>2, <2>1
  <2> HIDE DEF u, v
  <2>3. Slice(u ++ v, Len(u), Len(u ++ v)) = v
    BY <2>1, CatParts DEF u, v
  <2> QED BY <2>2, <2>3 DEF v
<1> HIDE DEF b, kept, x0, x2, tail, F, A, B, s
<1> DEFINE bold == o > 0 /\ x0[o].bold
           x1 == Typed(s, bold)
<1>8. y = x0 ++ x1 /\ x1 \in Seq(Cells) /\ Chars(x1) = s
  <2>1. o <= Len(x0)
    BY <1>1, <1>5
  <2>2. YInsert(x0, o, s) = Slice(x0, 0, o) ++ x1 ++ Slice(x0, o, Len(x0)) /\ bold \in BOOLEAN
    BY <1>1, <1>4, <1>5, <2>1, YInsertValue
  <2>3. Slice(x0, 0, o) = x0 /\ Slice(x0, o, Len(x0)) = <<>>
    <3>1. Slice(x0, 0, Len(x0)) = x0 /\ Slice(x0, Len(x0), Len(x0)) = <<>>
      BY <1>5, SliceEnds
    <3> QED BY <1>5, <3>1
  <2>4. x1 \in Seq(Cells) /\ Chars(x1) = s
    <3> HIDE DEF bold
    <3> QED BY <1>4, <2>2, TypedType, CharsTyped
  <2> HIDE DEF x1
  <2>5. x0 ++ x1 \in Seq(Cells)
    BY <1>5, <2>4, CatType
  <2> QED BY <1>6, <2>2, <2>3, <2>4, <2>5, CatEmpty
<1> HIDE DEF y, x1
<1>9. /\ \A k \in 1 .. o : y[k] = b[k]
      /\ o <= Len(y) /\ Slice(y, o, Len(y)) = x1 /\ (s # <<>> => Len(y) > o)
  <2>1. /\ \A i \in 1 .. Len(x0) : y[i] = x0[i]
        /\ Slice(y, Len(x0), Len(y)) = x1 /\ Len(y) = Len(x0) + Len(x1)
    BY <1>5, <1>8, CatParts, CatLen
  <2>2. Len(x1) \in Nat /\ Len(s) = Len(x1) /\ (s # <<>> => Len(s) # 0)
    BY <1>4, <1>8, CharsFacts, SeqFacts
  <2> QED BY <1>1, <1>5, <2>1, <2>2
<1>10. /\ A \in Seq(Seq(Cells)) /\ Len(A) = t - 1 /\ \A i \in 1 .. t - 1 : A[i] = d[i]
       /\ B \in Seq(Seq(Cells))
  <2>1. /\ A \in Seq(Seq(Cells)) /\ Len(A) = t - 1 /\ \A i \in 1 .. t - 1 : A[i] = d[i]
    <3>1. t - 1 \in 0 .. n
      BY <1>1
    <3> QED BY <3>1, Halves, SMTT(20) DEF A
  <2>2. B \in Seq(Seq(Cells))
    <3>1. t \in 0 .. n
      BY <1>1
    <3> QED BY <3>1, Halves DEF B
  <2> QED BY <2>1, <2>2
<1> DEFINE c == <<y>>
           X == A ++ c
           Y == F ++ B
<1>11. c \in Seq(Seq(Cells)) /\ Len(c) = 1 /\ c[1] = y
  BY <1>3
<1>12. /\ X \in Seq(Seq(Cells)) /\ Len(X) = t
       /\ X[t] = y /\ \A i \in 1 .. t - 1 : X[i] = d[i]
  <2> HIDE DEF c
  <2>1. X \in Seq(Seq(Cells)) /\ Len(X) = Len(A) + Len(c)
    BY <1>10, <1>11, CatType, CatLen
  <2>2. \A i \in 1 .. Len(A) + Len(c) : X[i] = IF i <= Len(A) THEN A[i] ELSE c[i - Len(A)]
    BY <1>10, <1>11, CatAt
  <2>3. t \in 1 .. Len(A) + Len(c) /\ ~(t <= Len(A)) /\ t - Len(A) = 1 /\ Len(A) + Len(c) = t
    BY <1>1, <1>10, <1>11
  <2>4. X[t] = y
    BY <1>11, <2>2, <2>3
  <2>5. ASSUME NEW i \in 1 .. t - 1 PROVE X[i] = d[i]
    <3>1. i \in 1 .. Len(A) + Len(c) /\ i <= Len(A)
      BY <1>1, <1>10, <1>11
    <3> QED BY <1>10, <2>2, <3>1
  <2> HIDE DEF X
  <2> QED BY <2>1, <2>3, <2>4, <2>5
<1>13. Y \in Seq(Seq(Cells))
  BY <1>4, <1>10, CatType DEF F, tail
<1>14. e = X ++ Y
  <2> HIDE DEF X, e, c
  <2>1. e = (X ++ F) ++ B
    BY <1>3 DEF X, c, F, tail, b, A, B, y, kept, s
  <2>2. F \in Seq(Seq(Cells))
    BY <1>4 DEF F, tail
  <2> QED BY <1>10, <1>12, <2>1, <2>2, CatAssoc
<1> HIDE DEF e, X
<1>15. /\ \A i \in 1 .. t : e[i] = X[i]
       /\ SubSeq(e, t + 1, Len(e)) = Y
       /\ Len(e) = t + Len(Y)
  <2> HIDE DEF Y
  <2> QED BY <1>12, <1>13, <1>14, CatParts, CatLen
<1>16. t <= Len(e) /\ t \in 1 .. Len(e) /\ e[t] = y
  <2>1. Len(Y) \in Nat
    <3> HIDE DEF Y
    <3> QED BY <1>13, SeqFacts
  <2>2. t \in 1 .. t
    BY <1>1
  <2> HIDE DEF Y
  <2> QED BY <1>1, <1>12, <1>15, <2>1, <2>2
<1>17. ASSUME NEW i \in 1 .. t - 1 PROVE e[i] = d[i]
  <2>1. i \in 1 .. t
    BY <1>1
  <2> QED BY <1>12, <1>15, <2>1
<1> DEFINE u1 == Chars(x1)
           u2 == Lines(F)
           u3 == Lines(B)
           u5 == Joined(segments)
<1>18. Left(e, t, o) = u1 ++ Lines(Y)
  BY <1>9, <1>15, <1>16 DEF Left
<1>19. Left(d, t, o) = tail ++ u3
  BY <1>7 DEF Left, b, x2, B
<1>20. F \in Seq(Seq(Cells)) /\ tail \in Seq(Characters)
  BY <1>3, <1>4 DEF F, tail
<1>21. Lines(Y) = u2 ++ u3
  BY <1>10, <1>20, LinesFacts
<1>22. u5 ++ tail = u1 ++ u2
  BY <1>8, <1>20, FreshLines DEF F, s
<1>23. /\ u1 \in Seq(Characters) /\ u2 \in Seq(Characters) /\ u3 \in Seq(Characters)
       /\ u5 \in Seq(Characters)
  <2>1. segments \in Seq(Seq(Characters))
    BY <1>20, FreshType
  <2>2. Joined(segments) \in Seq(Characters)
    BY <2>1, JoinedType
  <2> QED BY <1>4, <1>8, <1>10, <1>20, <2>2, LinesFacts
<1> HIDE DEF u1, u2, u3, u5
<1>24. Left(e, t, o) = u5 ++ Left(d, t, o)
  <2>1. u1 ++ (u2 ++ u3) = (u1 ++ u2) ++ u3
    BY <1>23, CatAssoc
  <2>2. u5 ++ (tail ++ u3) = (u5 ++ tail) ++ u3
    BY <1>20, <1>23, CatAssoc
  <2> QED BY <1>18, <1>19, <1>21, <1>22, <2>1, <2>2
<1>25. /\ o <= Len(e[t]) /\ (segments[1] # <<>> => Len(e[t]) > o)
       /\ \A k \in 1 .. o : e[t][k] = d[t][k]
  BY <1>9, <1>16 DEF b, s
<1>26. e \in Seq(Seq(Cells))
  BY <1>3 DEF e
<1> QED BY <1>16, <1>17, <1>24, <1>25, <1>26 DEF u5, e

(* Splitting a paragraph needs it without marks.                            *)
Splittable(d, segments) == Len(segments) = 1 \/ d \in Seq(Seq(Blank))

(* The document e is d with the segments inserted there.                    *)
Gains(D, e, d, t, o, segments) ==
  /\ e \in Seq(Seq(Cells)) /\ t <= Len(e) /\ Agrees(D, e, t, o)
  /\ Left(e, t, o) = Joined(segments) ++ Left(d, t, o)
  /\ (Len(segments) = 1 \/ segments[1] # <<>>) /\ Len(d[t]) > o => Len(e[t]) > o

LEMMA InsertLeft ==
  ASSUME NEW D \in Seq(Seq(Blank)), NEW d \in Seq(Seq(Cells)), NEW t \in Nat, NEW o \in Nat,
         Agrees(D, d, t, o), t <= Len(d), NEW position \in Nat, NEW segments \in Texts,
         Target(d, position) = t, Offset(d, position) = o,
         Splittable(d, segments)
  PROVE  Gains(D, InsertText(d, position, segments), d, t, o, segments)
<1> DEFINE e == InsertText(d, position, segments)
           u == Joined(segments)
<1>1. Len(d) \in Nat /\ t \in 1 .. Len(D) /\ t \in 1 .. Len(d) /\ t > 0
  BY DEF Agrees
<1>2. /\ o \in 0 .. Len(D[t]) /\ o <= Len(d[t])
      /\ \A i \in 1 .. t - 1 : i <= Len(d) /\ d[i] = D[i]
      /\ \A k \in 1 .. o : d[t][k] = D[t][k]
  <2>1. ~(Len(d) = t - 1)
    BY <1>1
  <2> QED BY <2>1 DEF Agrees
<1>3. d # <<>> /\ o \in 0 .. Len(d[t]) /\ d[t] \in Seq(Cells)
  <2>1. d[t] \in Seq(Cells) /\ Len(d[t]) \in Nat
    BY <1>1, SeqFacts
  <2> QED BY <1>1, <1>2, <2>1
<1>4. /\ segments \in Seq(Seq(Characters))
      /\ segments[1] \in Seq(Characters) /\ Len(segments) \in Nat \ {0}
  <2>1. <<>> \in Seq(Characters)
    OBVIOUS
  <2> QED BY <2>1, FreshType
<1>5. /\ e \in Seq(Seq(Cells)) /\ t <= Len(e) /\ \A i \in 1 .. t - 1 : i <= Len(e) /\ e[i] = d[i]
      /\ o <= Len(e[t]) /\ \A k \in 1 .. o : e[t][k] = d[t][k]
      /\ Left(e, t, o) = u ++ Left(d, t, o)
      /\ (Len(segments) = 1 \/ segments[1] # <<>>) /\ Len(d[t]) > o => Len(e[t]) > o
  <2>1. CASE Len(segments) = 1
    <3> DEFINE s == segments[1]
               f == WithTyped(d, t, o, s)
    <3>1. e = f
      BY <1>3, <2>1, InsertTextValue DEF WithTyped
    <3>2. /\ f \in Seq(Seq(Cells)) /\ Len(f) = Len(d)
          /\ \A i \in 1 .. Len(d) : i # t => f[i] = d[i]
          /\ o <= Len(f[t]) /\ \A k \in 1 .. o : f[t][k] = d[t][k]
          /\ Len(f[t]) >= Len(d[t])
          /\ Left(f, t, o) = s ++ Left(d, t, o)
      <4> HIDE DEF s
      <4>1. s \in Seq(Characters)
        BY <1>4 DEF s
      <4> QED BY <1>1, <1>3, <4>1, InsertOne
    <3>3. Joined(segments) = s
      <4> DEFINE j == [i \in DOMAIN segments |->
                         IF i = 1 THEN segments[i] ELSE Break \o segments[i]]
      <4>1. DOMAIN segments = 1 .. 1 /\ s \in Seq(Characters)
        BY <1>4, <2>1
      <4>2. j \in [1 .. 1 -> Seq(Characters)] /\ j[1] = s
        BY <1>4, <4>1
      <4>3. Joined(segments) = FlattenSeq(j)
        BY DEF Joined
      <4> HIDE DEF j, s
      <4>4. j \in Seq(Seq(Characters)) /\ Len(j) = 1
        BY <4>2, FunIsSeq
      <4>5. FlattenSeq(j) = j[1]
        <5>1. 1 \in 1 .. Len(j) /\ \A i \in 1 .. Len(j) : i # 1 => j[i] = <<>>
          BY <4>4
        <5> QED BY <4>4, <5>1, FlattenSole
      <4> QED BY <4>2, <4>3, <4>5
    <3> HIDE DEF e, f, s
    <3>4. \A i \in 1 .. t - 1 : i \in 1 .. Len(d) /\ i # t /\ i <= Len(d)
      BY <1>1
    <3>5. Len(d[t]) > o => Len(f[t]) > o
      <4>1. Len(f[t]) \in Nat /\ Len(d[t]) \in Nat
        BY <1>1, <1>3, <3>2, SeqFacts
      <4> QED BY <1>3, <3>2, <4>1
    <3> QED BY <1>1, <3>1, <3>2, <3>3, <3>4, <3>5
  <2>2. CASE Len(segments) # 1
    <3>1. d[t] \in Seq(Blank)
      BY <1>1, <2>2, BlankCells DEF Splittable
    <3>2. e = InsertBlocks(d, t, o, segments)
      BY <1>3, <2>2, InsertTextValue
    <3> HIDE DEF e
    <3>3. /\ e \in Seq(Seq(Cells)) /\ t <= Len(e)
          /\ \A i \in 1 .. t - 1 : e[i] = d[i]
          /\ o <= Len(e[t]) /\ \A k \in 1 .. o : e[t][k] = d[t][k]
          /\ Left(e, t, o) = u ++ Left(d, t, o)
          /\ segments[1] # <<>> => Len(e[t]) > o
      BY <1>1, <1>3, <2>2, <3>1, <3>2, InsertMany
    <3>4. \A i \in 1 .. t - 1 : i <= Len(e)
      <4>1. Len(e) \in Nat
        BY <3>3
      <4> QED BY <1>1, <3>3, <4>1
    <3> QED BY <2>2, <3>3, <3>4
  <2> QED BY <2>1, <2>2
<1> HIDE DEF e
<1>6. Agrees(D, e, t, o)
  BY <1>1, <1>2, <1>5 DEF Agrees
<1> QED BY <1>5, <1>6 DEF Gains, e, u

(* The same without the breaks.                                             *)
LEMMA InsertHere ==
  ASSUME NEW D \in Seq(Seq(Blank)), NEW d \in Seq(Seq(Cells)), NEW t \in Nat, NEW o \in Nat,
         Agrees(D, d, t, o), t <= Len(d), NEW position \in Nat, NEW segments \in Texts,
         Target(d, position) = t, Offset(d, position) = o,
         Splittable(d, segments)
  PROVE  /\ Agrees(D, InsertText(d, position, segments), t, o)
         /\ After(InsertText(d, position, segments), t, o) =
              Unbroken(Joined(segments)) ++ After(d, t, o)
<1> DEFINE e == InsertText(d, position, segments)
           u == Joined(segments)
           v == Left(d, t, o)
<1>1. /\ e \in Seq(Seq(Cells)) /\ t <= Len(e) /\ Agrees(D, e, t, o)
      /\ Left(e, t, o) = u ++ v
  <2>1. Gains(D, e, d, t, o, segments)
    BY InsertLeft
  <2> QED BY <2>1 DEF Gains
<1>2. t \in 1 .. Len(d) /\ t \in 1 .. Len(e)
  <2>1. t > 0 /\ Len(d) \in Nat
    BY DEF Agrees
  <2> HIDE DEF e
  <2> QED BY <1>1, <2>1
<1>3. u \in Seq(Characters) /\ v \in Seq(Characters)
  <2>1. segments \in Seq(Seq(Characters))
    BY TextsAssumption
  <2> QED BY <1>2, <2>1, JoinedType, LeftParts
<1>4. After(d, t, o) = Unbroken(v)
  BY <1>2, LeftPure
<1> HIDE DEF e, u, v
<1>5. After(e, t, o) = Unbroken(u ++ v)
  BY <1>1, <1>2, LeftPure
<1>6. After(e, t, o) = Unbroken(u) ++ After(d, t, o)
  BY <1>3, <1>4, <1>5, UnbrokenFacts
<1> QED BY <1>1, <1>6 DEF e, u

(* Applying an insert at the frontier puts its text in front of the rest.   *)
(* When the paragraph there is gone, the text goes to the end of the one    *)
(* before, and the frontier with it.                                        *)
Fallback(D, p, q) == \E i \in 2 .. Len(D) : q = End(D, i - 1) /\ q < p /\ p <= Start(D, i)

LEMMA InsertLands ==
  ASSUME NEW D \in Seq(Seq(Blank)), NEW d \in Seq(Seq(Cells)), NEW p \in Nat,
         NEW R, Frontier(D, d, p, R), NEW position \in Nat, NEW segments \in Texts,
         \/ position = p
         \/ d = D /\ p = Len(ExtractText(D)) /\ position >= p,
         Splittable(d, segments)
  PROVE  \E q \in Nat :
           /\ Frontier(D, InsertText(d, position, segments), q, Unbroken(Joined(segments)) ++ R)
           /\ q = p \/ (position = p /\ Fallback(D, p, q))
<1> DEFINE e == InsertText(d, position, segments)
           u == Unbroken(Joined(segments))
<1>1. PICK t \in Nat, o \in Nat : At(D, t, o, p) /\ Agrees(D, d, t, o) /\ R = After(d, t, o)
  BY DEF Frontier
<1>2. Len(d) \in Nat /\ Len(D) \in Nat
  OBVIOUS
<1>3. /\ t \in 1 .. Len(D) /\ o \in 0 .. Len(D[t]) /\ D \in Seq(Seq(Cells)) /\ D # <<>>
      /\ \A i \in 1 .. t - 1 :
           /\ i \in 1 .. Len(d) /\ d[i] = D[i]
           /\ Start(d, i) = Start(D, i) /\ End(d, i) = End(D, i)
      /\ t > Len(d) => t > 1 /\ o = 0 /\ Len(d) = t - 1
  BY <1>1, SameUpTo
<1>4. \A i \in 1 .. Len(D) : /\ Len(D[i]) \in Nat /\ D[i] \in Seq(Blank)
                             /\ End(D, i) = Start(D, i) + Len(D[i]) /\ Start(D, i) \in Nat
                             /\ End(D, i) \in Nat
  BY <1>3, TextAt, BlankCells, Bounds
<1>5. CASE t <= Len(d)
  <2>1. Target(d, position) = t /\ Offset(d, position) = o
    <3>1. CASE position = p
      BY <1>1, <1>5, <3>1, InsertPlace
    <3>2. CASE position # p
      <4>1. d = D /\ p = End(D, Len(D)) /\ position > p
        <5>1. d = D /\ p = Len(ExtractText(D)) /\ position >= p
          BY <3>2
        <5>2. position > p
          BY <3>2, <5>1
        <5>3. Len(ExtractText(D)) = End(D, Len(D))
          BY <1>3, TextAt
        <5> QED BY <5>1, <5>2, <5>3
      <4> DEFINE l == Len(D)
      <4>2. l \in 1 .. Len(D) /\ l \in Nat
        BY <1>2, <1>3
      <4>3. Target(d, position) = l /\ Offset(d, position) = Len(Render(D[l]))
        BY <1>3, <4>1, InsertBehind
      <4>4. Len(Render(D[l])) = Len(D[l])
        <5> HIDE DEF l
        <5>1. D[l] \in Seq(Blank)
          BY <1>4, <4>2
        <5> QED BY <5>1, RenderBlank
      <4>5. p = Start(D, l) + Len(D[l]) /\ Start(D, l) \in Nat /\ Len(D[l]) \in Nat
        BY <1>4, <4>1, <4>2
      <4>6. /\ Start(D, t) \in Nat /\ Len(D[t]) \in Nat /\ End(D, t) = Start(D, t) + Len(D[t])
            /\ o \in Nat /\ o <= Len(D[t]) /\ t <= l
        BY <1>3, <1>4, <4>2
      <4>7. t < l => End(D, t) + 2 <= Start(D, l)
        BY <1>3, <4>2, Ascending
      <4>8. p = Start(D, t) + o \/ p = Start(D, t) - 1
        BY <1>1 DEF At
      <4> DEFINE x == Start(D, t)
                 y == Start(D, l)
                 v == Len(D[t])
                 w == Len(D[l])
      <4>9. ~(t < l)
        <5>1. p = y + w /\ y \in Nat /\ w \in Nat
          BY <4>5
        <5>2. x \in Nat /\ v \in Nat /\ End(D, t) = x + v /\ o <= v
          BY <4>6
        <5>3. p = x + o \/ p = x - 1
          BY <4>8
        <5> HIDE DEF x, y, v, w, l
        <5>4. t < l => (x + v) + 2 <= y
          BY <4>7, <5>2 DEF y
        <5> QED BY <5>1, <5>2, <5>3, <5>4
      <4> HIDE DEF l, x, y, v, w
      <4>10. t = l
        BY <1>3, <4>2, <4>6, <4>9
      <4>11. o = Len(D[l])
        BY <4>5, <4>6, <4>8, <4>10
      <4> QED BY <4>3, <4>4, <4>10, <4>11
    <3> QED BY <3>1, <3>2
  <2>2. Agrees(D, e, t, o) /\ After(e, t, o) = u ++ After(d, t, o)
    BY <1>1, <1>5, <2>1, InsertHere
  <2> HIDE DEF e, u
  <2>3. Frontier(D, e, p, u ++ R)
    BY <1>1, <2>2 DEF Frontier
  <2> QED BY <2>3 DEF e, u
<1>6. CASE t > Len(d)
  <2> DEFINE l == t - 1
             m == Len(D[l])
  <2>1. /\ t > 1 /\ o = 0 /\ Len(d) = l /\ l \in Nat /\ l \in 1 .. Len(D) /\ l \in 1 .. t - 1
        /\ l \in 1 .. Len(d) /\ t \in 2 .. Len(d) + 1 /\ d # <<>> /\ t \in 2 .. Len(D)
    BY <1>2, <1>3, <1>6
  <2>2. position = p
    BY <1>2, <1>3, <1>6
  <2>3. m \in Nat /\ D[l] \in Seq(Blank) /\ End(D, l) = Start(D, l) + m
    BY <1>4, <2>1
  <2>4. Start(D, t) = End(D, l) + 2 /\ End(D, l) \in Nat
    BY <1>3, <1>4, <2>1, Bounds
  <2>5. p = Start(D, t) \/ p = Start(D, t) - 1
    <3>1. Start(D, t) \in Nat
      BY <1>3, <1>4
    <3> QED BY <1>1, <2>1, <3>1 DEF At
  <2>6. p > End(D, l) /\ p <= Start(D, t)
    <3> HIDE DEF l
    <3> QED BY <2>4, <2>5
  <2>7. d[l] = D[l] /\ End(d, l) = End(D, l)
    BY <1>3, <2>1
  <2>8. Len(Render(D[l])) = m
    <3> HIDE DEF l
    <3> QED BY <2>3, RenderBlank
  <2>9. Target(d, position) = l /\ Offset(d, position) = m
    <3>1. position > End(d, Len(d))
      BY <2>1, <2>2, <2>6, <2>7
    <3>2. Target(d, position) = Len(d) /\ Offset(d, position) = Len(Render(d[Len(d)]))
      BY <2>1, <3>1, InsertBehind
    <3> QED BY <2>1, <2>7, <2>8, <3>2
  <2>10. Agrees(D, d, l, m)
    <3>1. l \in 1 .. Len(D) /\ m \in 0 .. Len(D[l])
      BY <2>1, <2>3
    <3>2. \A i \in 1 .. l - 1 : i \in 1 .. t - 1
      BY <1>3
    <3>3. \A i \in 1 .. l - 1 : i <= Len(d) /\ d[i] = D[i]
      BY <1>2, <1>3, <3>2
    <3>4. l <= Len(d) /\ m <= Len(d[l]) /\ \A k \in 1 .. m : d[l][k] = D[l][k]
      <4> HIDE DEF l
      <4> QED BY <2>1, <2>3, <2>7
    <3> HIDE DEF l, m
    <3> QED BY <3>1, <3>3, <3>4 DEF Agrees
  <2>11. After(d, l, m) = R
    <3>1. After(d, t - 1, Len(d[t - 1])) = After(d, t, 0)
      BY <2>1, AfterBreak
    <3> QED BY <1>1, <2>1, <2>7, <3>1
  <2>12. Agrees(D, e, l, m) /\ After(e, l, m) = u ++ After(d, l, m)
    <3> HIDE DEF l, m
    <3>1. l <= Len(d) /\ l \in Nat /\ m \in Nat
      BY <2>1, <2>3
    <3> QED BY <2>9, <2>10, <3>1, InsertHere
  <2> DEFINE q == End(D, l)
  <2>13. Frontier(D, e, q, u ++ R)
    <3>1. At(D, l, m, q)
      BY <2>3 DEF At
    <3> HIDE DEF e, u, q, l, m
    <3> QED BY <2>1, <2>3, <2>11, <2>12, <3>1 DEF Frontier
  <2>14. Fallback(D, p, q)
    BY <2>1, <2>6 DEF Fallback
  <2>15. q \in Nat
    BY <2>4
  <2> HIDE DEF e, u, q
  <2> QED BY <2>2, <2>13, <2>14, <2>15 DEF e, u
<1> QED BY <1>2, <1>3, <1>5, <1>6

-----------------------------------------------------------------------------

(* A range that starts at the frontier.                                     *)

LEMMA OverlapFrom ==
  ASSUME NEW D \in Seq(Seq(Blank)), NEW d \in Seq(Seq(Cells)), NEW t \in Nat, NEW o \in Nat,
         NEW start \in Nat, NEW end \in Nat, At(D, t, o, start), Agrees(D, d, t, o)
  PROVE  \A i \in DOMAIN Overlaps(d, start, end) :
           /\ i \in t .. Len(d)
           /\ i = t => Overlaps(d, start, end)[i].offset = o
<1> SUFFICES ASSUME NEW i \in DOMAIN Overlaps(d, start, end)
             PROVE  i \in t .. Len(d) /\ (i = t => Overlaps(d, start, end)[i].offset = o)
  OBVIOUS
<1> DEFINE x == From(d, start, i)
           y == Upto(d, end, i)
           f == Overlaps(d, start, end)[i].offset
<1>1. i \in 1 .. Len(d) /\ x < y /\ f = x - Start(d, i) /\ Len(d) \in Nat
  <2>0. DOMAIN Overlaps(d, start, end) =
          {j \in 1 .. Len(d) : From(d, start, j) < Upto(d, end, j)}
    BY OverlapsValue
  <2>1. i \in 1 .. Len(d) /\ x < y
    BY <2>0
  <2>2. f = x - Start(d, i)
    BY OverlapsValue
  <2>3. Len(d) \in Nat
    OBVIOUS
  <2> HIDE DEF x, y, f
  <2> QED BY <2>1, <2>2, <2>3
<1>2. Start(d, i) \in Nat /\ End(d, i) \in Nat
  BY <1>1, Bounds
<1>3. /\ t \in 1 .. Len(D) /\ o \in 0 .. Len(D[t]) /\ D \in Seq(Seq(Cells)) /\ D # <<>>
      /\ \A j \in 1 .. t - 1 : Start(d, j) = Start(D, j) /\ End(d, j) = End(D, j)
  BY SameUpTo
<1>4. t <= Len(d) => t \in 1 .. Len(d) /\ Start(d, t) = Start(D, t)
  BY SameUpTo
<1>5. Start(D, t) \in Nat /\ (start = Start(D, t) + o \/ (o = 0 /\ start = Start(D, t) - 1))
  BY <1>3, Bounds DEF At
<1>6. start >= Start(d, i) => x = start
  BY DEF From
<1>7. ~(start >= Start(d, i)) => x = Start(d, i)
  BY DEF From
<1>8. y <= End(d, i) /\ x \in Nat
  <2>1. y \in Int /\ y <= End(d, i)
    BY <1>2 DEF Upto
  <2> HIDE DEF x, y
  <2> QED BY <1>2, <1>6, <1>7, <2>1
<1> HIDE DEF x, y, f
<1>9. ~(i < t)
  <2> SUFFICES ASSUME i < t PROVE FALSE
    OBVIOUS
  <2>1. i \in 1 .. t - 1 /\ i \in 1 .. Len(D)
    BY <1>1, <1>3
  <2>2. End(d, i) = End(D, i) /\ End(D, i) + 2 <= Start(D, t)
    BY <1>3, <2>1, Ascending
  <2>3. start <= x
    BY <1>2, <1>6, <1>7
  <2>4. y \in Int
    BY <1>2 DEF y, Upto
  <2>5. start >= Start(D, t) - 1
    BY <1>5
  <2>6. x < y /\ x \in Nat /\ y <= End(d, i) /\ End(d, i) \in Nat /\ Start(D, t) \in Nat
    BY <1>1, <1>2, <1>5, <1>8
  <2>7. End(d, i) + 2 <= Start(D, t)
    BY <2>2
  <2> DEFINE z == End(d, i)
             w == Start(D, t)
  <2> HIDE DEF z, w
  <2>8. z \in Nat /\ w \in Nat /\ y <= z /\ z + 2 <= w /\ start >= w - 1
    BY <2>5, <2>6, <2>7 DEF z, w
  <2> QED BY <2>3, <2>4, <2>6, <2>8
<1>10. i \in t .. Len(d)
  BY <1>1, <1>9
<1>11. ASSUME i = t PROVE f = o
  <2>1. Start(d, i) = Start(D, t)
    BY <1>1, <1>4, <1>11
  <2> QED BY <1>1, <1>2, <1>5, <1>6, <1>7, <1>8, <2>1, SMTT(30)
<1> QED BY <1>10, <1>11 DEF f

(* Formatting leaves alone what comes before, and the characters.           *)
LEMMA YFormatKeeps ==
  ASSUME NEW b \in Seq(Cells), NEW offset \in Nat, NEW length \in Nat
  PROVE  LET z == YFormat(b, offset, length)
         IN /\ z \in Seq(Cells) /\ Len(z) >= Len(b)
            /\ \A k \in 1 .. Len(b) : k <= offset => z[k] = b[k]
            /\ \A o \in 0 .. Len(b) : Pure(Slice(z, o, Len(z))) = Pure(Slice(b, o, Len(b)))
            /\ offset + length <= Len(b) =>
                 /\ Len(z) = Len(b)
                 /\ \A o \in 0 .. Len(b) : Chars(Slice(z, o, Len(z))) = Chars(Slice(b, o, Len(b)))
<1> DEFINE z == YFormat(b, offset, length)
           short == Max({0, offset + length - Len(b)})
           x == [i \in DOMAIN b |-> IF offset < i /\ i <= offset + length
                                      THEN [b[i] EXCEPT !.bold = TRUE] ELSE b[i]]
           n == Min({short, length})
           y == [i \in 1 .. n |-> [ch |-> "nl", bold |-> TRUE]]
<1>1. Len(b) \in Nat /\ DOMAIN b = 1 .. Len(b) /\ \A i \in 1 .. Len(b) : b[i] \in Cells
  BY SeqFacts
<1>2. short \in Nat
  BY <1>1, MaxPair
<1>3. n \in Nat
  <2> HIDE DEF short
  <2> QED BY <1>2, MinPair
<1>4. x \in [1 .. Len(b) -> Cells]
  BY <1>1 DEF Cells
<1>5. \A i \in 1 .. Len(b) : x[i].ch = b[i].ch /\ (i <= offset => x[i] = b[i])
  <2> SUFFICES ASSUME NEW i \in 1 .. Len(b)
               PROVE x[i].ch = b[i].ch /\ (i <= offset => x[i] = b[i])
    OBVIOUS
  <2>1. b[i] \in Cells /\ i \in DOMAIN b /\ i \in Nat
    BY <1>1
  <2>2. [b[i] EXCEPT !.bold = TRUE].ch = b[i].ch
    BY <2>1 DEF Cells
  <2> QED BY <2>1, <2>2
<1>6. \A i \in 1 .. n : y[i].ch = "nl"
  OBVIOUS
<1>7. z = x ++ y
  BY DEF YFormat, ++
<1>15. offset + length <= Len(b) => n = 0
  <2> SUFFICES ASSUME offset + length <= Len(b) PROVE n = 0
    OBVIOUS
  <2>1. offset + length - Len(b) \in Int /\ offset + length - Len(b) <= 0
    BY <1>1
  <2>2. short = 0
    BY <2>1, MaxPair
  <2> HIDE DEF short
  <2> QED BY <2>2, MinPair
<1> HIDE DEF n, x, z
<1>8. x \in Seq(Cells) /\ Len(x) = Len(b)
  BY <1>1, <1>4, FunIsSeq
<1>9. y \in Seq(Cells) /\ Len(y) = n
  <2>1. y \in [1 .. n -> Cells]
    BY CharactersAssumption DEF Cells
  <2> HIDE DEF y
  <2> QED BY <1>3, <2>1, FunIsSeq
<1> HIDE DEF y
<1>10. Pure(y) = <<>>
  <2> DEFINE c == Chars(y)
             m == Map(Solid, c)
  <2>1. c \in Seq(Characters) /\ Len(c) = n /\ \A i \in 1 .. n : c[i] = "nl"
    BY <1>6, <1>9, CharsFacts
  <2>2. "nl" \in Characters /\ Solid["nl"] = <<>>
    BY CharactersAssumption DEF Solid
  <2>3. Goes(Solid, Characters, Seq(Characters))
    BY DEF Goes, Solid
  <2> HIDE DEF c
  <2>4. m \in Seq(Seq(Characters)) /\ Len(m) = n /\ \A i \in 1 .. n : m[i] = Solid[c[i]]
    BY <2>1, <2>3, MapType
  <2> HIDE DEF m
  <2>5. \A i \in 1 .. Len(m) : m[i] = <<>>
    BY <2>1, <2>2, <2>4
  <2>6. FlattenSeq(m) = <<>>
    BY <2>4, <2>5, FlattenBlank
  <2> QED BY <2>1, <2>6, UnbrokenIs DEF Pure, m, c
<1>11. z \in Seq(Cells) /\ Len(z) = Len(b) + n /\ \A i \in 1 .. Len(b) : z[i] = x[i]
  BY <1>7, <1>8, <1>9, CatType, CatLen, CatParts
<1>12. ASSUME NEW o \in 0 .. Len(b)
       PROVE  /\ Pure(Slice(z, o, Len(z))) = Pure(Slice(b, o, Len(b)))
              /\ n = 0 => Chars(Slice(z, o, Len(z))) = Chars(Slice(b, o, Len(b)))
  <2> DEFINE x1 == Slice(x, 0, o)
             x2 == Slice(x, o, Len(x))
             b2 == Slice(b, o, Len(b))
             m == Len(b) - o
  <2>1. o \in 0 .. Len(x) /\ m \in Nat /\ Len(x) - o = m /\ \A i \in 1 .. m : o + i \in 1 .. Len(b)
    BY <1>1, <1>8
  <2>2. /\ x1 \in Seq(Cells) /\ Len(x1) = o /\ x2 \in Seq(Cells) /\ Len(x2) = m
        /\ x1 ++ x2 = x /\ \A i \in 1 .. m : x2[i] = x[o + i]
    BY <1>8, <2>1, Parts, SMTT(30)
  <2>3. b2 \in Seq(Cells) /\ Len(b2) = m /\ \A i \in 1 .. m : b2[i] = b[o + i]
    BY Parts
  <2> HIDE DEF x1, x2, b2, m
  <2>4. x2 ++ y \in Seq(Cells) /\ z = x1 ++ (x2 ++ y)
    BY <1>7, <1>9, <2>2, CatType, CatAssoc
  <2>5. Slice(z, Len(x1), Len(z)) = x2 ++ y
    BY <2>2, <2>4, CatParts
  <2>6. Pure(x2 ++ y) = Pure(x2)
    <3>1. Pure(x2 ++ y) = Pure(x2) ++ <<>> /\ Pure(x2) \in Seq(Characters)
      BY <1>9, <1>10, <2>2, PureFacts
    <3> QED BY <3>1, CatEmpty
  <2>7. Chars(x2) = Chars(b2)
    <3> DEFINE u == Chars(x2)
               v == Chars(b2)
    <3>1. u \in Seq(Characters) /\ Len(u) = m /\ \A i \in 1 .. m : u[i] = x2[i].ch
      BY <2>2, CharsFacts
    <3>2. v \in Seq(Characters) /\ Len(v) = m /\ \A i \in 1 .. m : v[i] = b2[i].ch
      BY <2>3, CharsFacts
    <3>3. \A i \in 1 .. m : u[i] = v[i]
      <4> SUFFICES ASSUME NEW i \in 1 .. m PROVE u[i] = v[i]
        OBVIOUS
      <4>1. x2[i] = x[o + i] /\ b2[i] = b[o + i] /\ x[o + i].ch = b[o + i].ch
        BY <1>5, <2>1, <2>2, <2>3
      <4> HIDE DEF u, v
      <4> QED BY <3>1, <3>2, <4>1
    <3> HIDE DEF u, v
    <3>4. u = v
      BY <2>1, <3>1, <3>2, <3>3, SeqEqual
    <3> QED BY <3>4 DEF u, v
  <2>8. ASSUME n = 0 PROVE x2 ++ y = x2
    <3>1. y = <<>>
      BY <1>9, <2>8
    <3> QED BY <2>2, <3>1, CatEmpty
  <2> QED BY <2>2, <2>5, <2>6, <2>7, <2>8 DEF Pure, b2
<1>13. Len(z) >= Len(b)
  BY <1>1, <1>3, <1>11
<1>14. \A k \in 1 .. Len(b) : k <= offset => z[k] = b[k]
  BY <1>5, <1>11
<1>16. ASSUME offset + length <= Len(b)
       PROVE  /\ Len(z) = Len(b)
              /\ \A o \in 0 .. Len(b) : Chars(Slice(z, o, Len(z))) = Chars(Slice(b, o, Len(b)))
  BY <1>1, <1>11, <1>12, <1>15, <1>16
<1> QED BY <1>11, <1>12, <1>13, <1>14, <1>16 DEF z

(* So what a format at the frontier does is not seen.                       *)
LEMMA FormatLands ==
  ASSUME NEW D \in Seq(Seq(Blank)), NEW d \in Seq(Seq(Cells)), NEW p \in Nat, NEW R,
         Frontier(D, d, p, R), NEW end \in Nat
  PROVE  Frontier(D, FormatText(d, p, end), p, R)
<1> DEFINE e == FormatText(d, p, end)
           v == Overlaps(d, p, end)
<1>1. PICK t \in Nat, o \in Nat : At(D, t, o, p) /\ Agrees(D, d, t, o) /\ R = After(d, t, o)
  BY DEF Frontier
<1>2. /\ t \in 1 .. Len(D) /\ o \in 0 .. Len(D[t])
      /\ t <= Len(d) => t \in 1 .. Len(d)
  BY <1>1, SameUpTo
<1>3. \/ t <= Len(d) /\ o <= Len(d[t]) /\ \A k \in 1 .. o : d[t][k] = D[t][k]
      \/ Len(d) = t - 1 /\ o = 0 /\ t > 1
  BY <1>1 DEF Agrees
<1>4. \A i \in 1 .. t - 1 : i <= Len(d) /\ d[i] = D[i]
  BY <1>1 DEF Agrees
<1>5. Len(d) \in Nat /\ DOMAIN d = 1 .. Len(d) /\ \A i \in 1 .. Len(d) : d[i] \in Seq(Cells)
  BY SeqFacts
<1>6. \A i \in 1 .. Len(d) :
        e[i] = IF i \in DOMAIN v THEN YFormat(d[i], v[i].offset, v[i].length) ELSE d[i]
  BY <1>5 DEF FormatText
<1>7. e \in Seq(Seq(Cells)) /\ Len(e) = Len(d)
  BY FormatTextType
<1>8. \A i \in DOMAIN v : /\ i \in t .. Len(d) /\ (i = t => v[i].offset = o)
                          /\ v[i].offset \in Nat /\ v[i].length \in Nat
  <2>1. ASSUME NEW i \in DOMAIN v PROVE i \in t .. Len(d) /\ (i = t => v[i].offset = o)
    BY <1>1, OverlapFrom
  <2>2. ASSUME NEW i \in DOMAIN v PROVE v[i].offset \in Nat /\ v[i].length \in Nat
    BY OverlapsValue
  <2> HIDE DEF v
  <2> QED BY <2>1, <2>2
<1> HIDE DEF e, v
<1>9. ASSUME NEW i \in 1 .. Len(d), i < t PROVE e[i] = d[i]
  <2>1. i \notin t .. Len(d)
    BY <1>2, <1>9
  <2> QED BY <1>6, <1>8, <2>1
<1>10. ASSUME NEW i \in 1 .. Len(d)
       PROVE  \A k \in 0 .. Len(d[i]) :
                Pure(Slice(e[i], k, Len(e[i]))) = Pure(Slice(d[i], k, Len(d[i])))
  <2>1. CASE i \notin DOMAIN v
    BY <1>6, <2>1
  <2>2. CASE i \in DOMAIN v
    <3>1. e[i] = YFormat(d[i], v[i].offset, v[i].length) /\ d[i] \in Seq(Cells)
          /\ v[i].offset \in Nat /\ v[i].length \in Nat
      BY <1>5, <1>6, <1>8, <2>2
    <3> QED BY <3>1, YFormatKeeps
  <2> QED BY <2>1, <2>2
<1>11. ASSUME NEW i \in 1 .. Len(d) PROVE Share(e, t, o, i) = Share(d, t, o, i)
  <2>1. d[i] \in Seq(Cells) /\ e[i] \in Seq(Cells)
    BY <1>5, <1>7
  <2>2. CASE i < t
    BY <2>2 DEF Share
  <2>3. CASE i = t
    <3>1. t <= Len(d)
      BY <1>5, <2>3
    <3>2. o <= Len(d[t])
      BY <1>2, <1>3, <1>5, <3>1
    <3>3. o \in 0 .. Len(d[i])
      BY <2>1, <2>3, <3>2
    <3>4. Pure(Slice(e[i], o, Len(e[i]))) = Pure(Slice(d[i], o, Len(d[i])))
      BY <1>10, <3>3
    <3> QED BY <1>2, <2>3, <3>4 DEF Share
  <2>4. CASE i > t
    <3>1. 0 \in 0 .. Len(d[i])
      BY <2>1
    <3>2. Pure(Slice(e[i], 0, Len(e[i]))) = Pure(Slice(d[i], 0, Len(d[i])))
      BY <1>10, <3>1
    <3>3. Slice(e[i], 0, Len(e[i])) = e[i] /\ Slice(d[i], 0, Len(d[i])) = d[i]
      BY <2>1, SliceEnds
    <3>4. ~(i < t) /\ i # t
      BY <1>2, <2>4
    <3> QED BY <3>2, <3>3, <3>4 DEF Share
  <2> QED BY <1>2, <2>2, <2>3, <2>4
<1>12. After(e, t, o) = R
  <2>1. \A i \in 1 .. Len(d) : Share(d, t, o, i) = Share(e, t, o, i)
    BY <1>11
  <2> QED BY <1>1, <1>7, <2>1, SameAfter
<1>13. Agrees(D, e, t, o)
  <2>1. ASSUME t <= Len(d) PROVE o <= Len(e[t]) /\ \A k \in 1 .. o : e[t][k] = d[t][k]
    <3>1. t \in 1 .. Len(d) /\ o <= Len(d[t]) /\ d[t] \in Seq(Cells) /\ Len(d[t]) \in Nat
      BY <1>2, <1>3, <1>5, <2>1
    <3>2. CASE t \notin DOMAIN v
      BY <1>6, <3>1, <3>2
    <3>3. CASE t \in DOMAIN v
      <4>1. e[t] = YFormat(d[t], o, v[t].length) /\ v[t].length \in Nat
        BY <1>6, <1>8, <3>1, <3>3
      <4>2. e[t] \in Seq(Cells) /\ Len(e[t]) >= Len(d[t])
            /\ \A k \in 1 .. Len(d[t]) : k <= o => e[t][k] = d[t][k]
        <5> DEFINE z == YFormat(d[t], o, v[t].length)
        <5>1. z \in Seq(Cells) /\ Len(z) >= Len(d[t])
          BY <3>1, <4>1, YFormatKeeps
        <5>2. \A k \in 1 .. Len(d[t]) : k <= o => z[k] = d[t][k]
          BY <3>1, <4>1, YFormatKeeps
        <5>3. e[t] = z
          BY <4>1
        <5> HIDE DEF z
        <5> QED BY <5>1, <5>2, <5>3
      <4>3. Len(e[t]) \in Nat /\ \A k \in 1 .. o : k \in 1 .. Len(d[t]) /\ k <= o
        BY <3>1, <4>2
      <4> QED BY <3>1, <4>2, <4>3
    <3> QED BY <3>2, <3>3
  <2>2. \A i \in 1 .. t - 1 : i <= Len(e) /\ e[i] = D[i]
    <3>1. \A i \in 1 .. t - 1 : i \in 1 .. Len(d) /\ i < t
      BY <1>2, <1>4, <1>5
    <3> QED BY <1>4, <1>7, <1>9, <3>1
  <2>3. \/ t <= Len(e) /\ o <= Len(e[t]) /\ \A k \in 1 .. o : e[t][k] = D[t][k]
        \/ Len(e) = t - 1 /\ o = 0 /\ t > 1
    <3>1. CASE t <= Len(d)
      <4>1. \A k \in 1 .. o : d[t][k] = D[t][k]
        BY <1>2, <1>3, <1>5, <3>1
      <4> QED BY <1>7, <2>1, <3>1, <4>1
    <3>2. CASE ~(t <= Len(d))
      BY <1>3, <1>7, <3>2
    <3> QED BY <3>1, <3>2
  <2> QED BY <1>2, <2>2, <2>3 DEF Agrees
<1> QED BY <1>1, <1>12, <1>13 DEF Frontier, e

-----------------------------------------------------------------------------

(* What a range edit covers of paragraph i, when it starts at character o1  *)
(* of paragraph t1 and ends at character o2 of paragraph t2.                *)
Lo(t1, o1, i) == IF i = t1 THEN o1 ELSE 0
Hi(d, t2, o2, i) == IF i = t2 THEN o2 ELSE Len(d[i])

(* The ends of the range within paragraph i of the document.                *)
Spans(d, start, end, lo, hi, i) ==
  /\ lo \in 0 .. hi /\ hi \in 0 .. Len(d[i])
  /\ i \in DOMAIN Overlaps(d, start, end) =>
       /\ Overlaps(d, start, end)[i].offset = lo
       /\ Overlaps(d, start, end)[i].offset + Overlaps(d, start, end)[i].length = hi
  /\ i \notin DOMAIN Overlaps(d, start, end) => lo = hi

LEMMA PlaceOrder ==
  ASSUME NEW D \in Seq(Seq(Blank)), NEW t1 \in 1 .. Len(D), NEW o1 \in 0 .. Len(D[t1]),
         NEW t2 \in 1 .. Len(D), NEW o2 \in 0 .. Len(D[t2]), NEW start \in Nat, NEW end \in Nat,
         start < end, At(D, t1, o1, start), At(D, t2, o2, end)
  PROVE  t1 <= t2 /\ (t1 = t2 => o1 <= o2)
<1> DEFINE s1 == Start(D, t1)
           s2 == Start(D, t2)
           n2 == Len(D[t2])
<1>1. D \in Seq(Seq(Cells)) /\ D # <<>> /\ t1 \in Nat /\ t2 \in Nat
  BY BlankCells
<1>2. s1 \in Nat /\ s2 \in Nat /\ n2 \in Nat /\ End(D, t2) = s2 + n2
  BY <1>1, Bounds, TextAt
<1>3. t2 < t1 => End(D, t2) + 2 <= s1
  BY <1>1, Ascending
<1>4. start = s1 + o1 \/ (o1 = 0 /\ start = s1 - 1)
  BY DEF At
<1>5. end = s2 + o2 \/ (o2 = 0 /\ end = s2 - 1)
  BY DEF At
<1>6. t1 = t2 => s1 = s2
  OBVIOUS
<1>7. o1 \in Nat /\ o2 \in Nat /\ o2 <= n2
  BY <1>2
<1> HIDE DEF s1, s2, n2
<1>8. ~(t2 < t1)
  BY <1>2, <1>3, <1>4, <1>5, <1>7
<1>9. t1 = t2 => o1 <= o2
  BY <1>2, <1>4, <1>5, <1>6, <1>7
<1> QED BY <1>1, <1>8, <1>9

LEMMA OverlapSpan ==
  ASSUME NEW D \in Seq(Seq(Blank)), NEW d \in Seq(Seq(Cells)),
         NEW t1 \in Nat, NEW o1 \in Nat, NEW t2 \in Nat, NEW o2 \in Nat,
         NEW start \in Nat, NEW end \in Nat, start < end,
         At(D, t1, o1, start), Agrees(D, d, t1, o1), At(D, t2, o2, end), Agrees(D, d, t2, o2),
         NEW i \in 1 .. Len(d)
  PROVE  /\ i \in DOMAIN Overlaps(d, start, end) => i \in t1 .. t2
         /\ i \in t1 .. t2 => Spans(d, start, end, Lo(t1, o1, i), Hi(d, t2, o2, i), i)
<1> DEFINE x == From(d, start, i)
           y == Upto(d, end, i)
           s == Start(d, i)
           e == End(d, i)
           n == Len(Render(d[i]))
           m == Len(d[i])
           lo == Lo(t1, o1, i)
           hi == Hi(d, t2, o2, i)
           v == Overlaps(d, start, end)
<1>1. /\ t1 \in 1 .. Len(D) /\ o1 \in 0 .. Len(D[t1]) /\ D \in Seq(Seq(Cells)) /\ D # <<>>
      /\ \A j \in 1 .. t1 - 1 : d[j] = D[j] /\ Start(d, j) = Start(D, j) /\ End(d, j) = End(D, j)
  BY SameUpTo
<1>2. /\ t2 \in 1 .. Len(D) /\ o2 \in 0 .. Len(D[t2])
      /\ \A j \in 1 .. t2 - 1 : d[j] = D[j] /\ Start(d, j) = Start(D, j) /\ End(d, j) = End(D, j)
  BY SameUpTo
<1>3. t2 <= Len(d) => t2 \in 1 .. Len(d) /\ Start(d, t2) = Start(D, t2)
  BY SameUpTo
<1>4. t1 <= t2 /\ (t1 = t2 => o1 <= o2)
  BY <1>1, <1>2, PlaceOrder
<1>5. Len(d) \in Nat /\ d[i] \in Seq(Cells) /\ m \in Nat /\ i \in Nat
  BY SeqFacts
<1>6. s \in Nat /\ n \in Nat /\ e = s + n /\ n >= m
  BY <1>5, Bounds, RenderLength
<1>7. i \in DOMAIN v <=> x < y
  <2>1. DOMAIN v = {j \in 1 .. Len(d) : From(d, start, j) < Upto(d, end, j)}
    BY OverlapsValue, ZenonT(30)
  <2> QED BY <2>1
<1>8. ASSUME i \in DOMAIN v
      PROVE  v[i].offset = x - s /\ v[i].offset + v[i].length = y - s
  <2>1. v[i].offset = x - s /\ v[i].length = y - x
    BY <1>8, OverlapsValue, ZenonT(30)
  <2>2. x \in Int /\ y \in Int
    BY <1>6 DEF From, Upto
  <2> DEFINE a == v[i].offset
             b == v[i].length
  <2> HIDE DEF x, y, s, a, b
  <2>3. a = x - s /\ b = y - x
    BY <2>1 DEF a, b
  <2>4. a + b = y - s
    BY <1>6, <2>2, <2>3
  <2> QED BY <2>3, <2>4 DEF a, b
<1>9. (start >= s => x = start) /\ (~(start >= s) => x = s)
  BY DEF From
<1>10. (end <= e => y = end) /\ (~(end <= e) => y = e)
  BY DEF Upto
<1>11. i < t2 => s = Start(D, i) /\ m = n
  <2> SUFFICES ASSUME i < t2 PROVE s = Start(D, i) /\ m = n
    OBVIOUS
  <2>1. i \in 1 .. t2 - 1 /\ i \in 1 .. Len(D)
    BY <1>2, <1>5
  <2>2. D[i] \in Seq(Blank) /\ d[i] = D[i] /\ s = Start(D, i)
    BY <1>2, <2>1, BlankCells
  <2> QED BY <2>2, RenderBlank
<1>12. i = t2 => s = Start(D, i) /\ o2 <= m
  <2> SUFFICES ASSUME i = t2 PROVE s = Start(D, i) /\ o2 <= m
    OBVIOUS
  <2>1. t2 <= Len(d)
    BY <1>5
  <2>2. o2 <= m
    BY <1>5, <2>1 DEF Agrees
  <2> QED BY <1>3, <2>1, <2>2
<1> DEFINE s1 == Start(D, t1)
           n1 == Len(D[t1])
           s2 == Start(D, t2)
<1>13. s1 \in Nat /\ s2 \in Nat /\ n1 \in Nat /\ End(D, t1) = s1 + n1
  BY <1>1, <1>2, Bounds, TextAt
<1>14. start = s1 + o1 \/ (o1 = 0 /\ start = s1 - 1)
  BY DEF At
<1>15. end = s2 + o2 \/ (o2 = 0 /\ end = s2 - 1)
  BY DEF At
<1>16. o1 <= n1 /\ o1 \in Nat /\ o2 \in Nat
  BY <1>1, <1>13
<1>17. i < t1 => e + 2 <= s1
  <2> SUFFICES ASSUME i < t1 PROVE e + 2 <= s1
    OBVIOUS
  <2>1. i \in 1 .. t1 - 1 /\ i \in 1 .. Len(D)
    BY <1>1, <1>5
  <2>2. e = End(D, i) /\ End(D, i) + 2 <= s1
    BY <1>1, <2>1, Ascending
  <2> QED BY <2>2
<1>18. i < t2 => e + 2 <= s2
  <2> SUFFICES ASSUME i < t2 PROVE e + 2 <= s2
    OBVIOUS
  <2>1. i \in 1 .. t2 - 1 /\ i \in 1 .. Len(D)
    BY <1>2, <1>5
  <2>2. e = End(D, i) /\ End(D, i) + 2 <= s2
    BY <1>1, <1>2, <2>1, Ascending
  <2> QED BY <2>2
<1>19. i > t2 => end < s
  <2> SUFFICES ASSUME i > t2 PROVE end < s
    OBVIOUS
  <2>1. t2 <= Len(d) /\ t2 \in 1 .. Len(d) /\ d[t2] \in Seq(Cells)
    BY <1>2, <1>5, SeqFacts, SMTT(30)
  <2> DEFINE e2 == End(d, t2)
             n2 == Len(Render(d[t2]))
             m2 == Len(d[t2])
  <2>2. e2 + 2 <= s /\ e2 = s2 + n2 /\ n2 \in Nat
    BY <1>3, <1>5, <2>1, Ascending, Bounds
  <2>3. n2 >= m2 /\ m2 \in Nat
    <3>1. d[t2] \in Seq(Cells)
      BY <2>1
    <3>2. n2 >= m2
      BY <3>1, RenderLength
    <3>3. m2 \in Nat
      BY <3>1, SeqFacts
    <3> QED BY <3>2, <3>3
  <2>4. o2 <= m2
    BY <1>5, <2>1 DEF Agrees
  <2> HIDE DEF e2, n2, m2, s2, s
  <2> QED BY <1>6, <1>13, <1>15, <1>16, <2>2, <2>3, <2>4, SMTT(30)
<1>20. i > t1 /\ i <= t2 => s1 + n1 + 2 <= s
  <2> SUFFICES ASSUME i > t1, i <= t2 PROVE s1 + n1 + 2 <= s
    OBVIOUS
  <2>1. i \in 1 .. Len(D) /\ s = Start(D, i)
    BY <1>2, <1>5, <1>11, <1>12
  <2>2. End(D, t1) + 2 <= Start(D, i)
    BY <1>1, <2>1, Ascending
  <2> QED BY <1>13, <2>1, <2>2
<1>21. i = t1 /\ i <= t2 => s = s1
  BY <1>1, <1>2, <1>5, <1>11, <1>12
<1>22. i = t2 => s = s2
  BY <1>12
<1>23. i = t1 => n1 = Len(D[i])
  OBVIOUS
<1>24. i < t2 => m = Len(D[i])
  <2> SUFFICES ASSUME i < t2 PROVE m = Len(D[i])
    OBVIOUS
  <2>1. i \in 1 .. t2 - 1
    BY <1>2, <1>5
  <2> QED BY <1>2, <2>1
<1>25. (i = t1 => lo = o1) /\ (i # t1 => lo = 0)
  BY DEF Lo
<1>26. (i = t2 => hi = o2) /\ (i # t2 => hi = m)
  BY DEF Hi
<1>27. t1 \in Nat /\ t2 \in Nat
  OBVIOUS
<1> DEFINE k == Len(D[i])
<1> HIDE DEF x, y, s, e, n, m, lo, hi, s1, n1, s2, k
<1>28. ASSUME i < t1 PROVE ~(x < y)
  BY <1>5, <1>6, <1>9, <1>10, <1>13, <1>14, <1>16, <1>17, <1>28
<1>29. ASSUME i > t2 PROVE ~(x < y)
  BY <1>5, <1>6, <1>9, <1>10, <1>19, <1>29
<1>30. i \in DOMAIN v => i \in t1 .. t2
  BY <1>5, <1>7, <1>27, <1>28, <1>29
<1>31. ASSUME i \in t1 .. t2 PROVE Spans(d, start, end, lo, hi, i)
  <2>1. i >= t1 /\ i <= t2
    BY <1>31
  <2>2. x = s + lo
    <3>1. CASE i = t1
      <4>1. s = s1 /\ lo = o1
        BY <1>21, <1>25, <2>1, <3>1
      <4>2. s \in Nat /\ o1 \in Nat
        BY <1>6, <1>16
      <4>3. CASE start = s1 + o1
        <5>1. start >= s
          BY <4>1, <4>2, <4>3
        <5> QED BY <1>9, <4>1, <4>3, <5>1
      <4>4. CASE o1 = 0 /\ start = s1 - 1
        <5>1. ~(start >= s)
          BY <4>1, <4>2, <4>4
        <5> QED BY <1>9, <4>1, <4>2, <4>4, <5>1
      <4> QED BY <1>14, <4>3, <4>4
    <3>2. CASE i # t1
      <4>1. s1 + n1 + 2 <= s /\ lo = 0
        BY <1>5, <1>20, <1>25, <1>27, <2>1, <3>2
      <4> QED BY <1>6, <1>9, <1>13, <1>14, <1>16, <4>1
    <3> QED BY <3>1, <3>2
  <2>3. y = s + hi \/ (hi = 0 /\ y = s - 1)
    <3>1. CASE i = t2
      <4>1. s = s2 /\ hi = o2 /\ o2 <= m
        BY <1>12, <1>22, <1>26, <3>1 DEF m
      <4>2. end <= e
        BY <1>5, <1>6, <1>15, <1>16, <4>1
      <4> QED BY <1>10, <1>15, <4>1, <4>2
    <3>2. CASE i # t2
      <4>1. e + 2 <= s2 /\ hi = m /\ m = n
        BY <1>5, <1>11, <1>18, <1>26, <1>27, <2>1, <3>2 DEF m, n
      <4>2. y = e
        BY <1>6, <1>10, <1>13, <1>15, <1>16, <4>1
      <4> QED BY <1>6, <4>1, <4>2
    <3> QED BY <3>1, <3>2
  <2>4. lo \in Nat /\ hi \in Nat /\ lo <= hi /\ hi <= m
    <3>1. CASE i = t2
      <4>1. hi = o2 /\ o2 <= m
        BY <1>12, <1>26, <3>1 DEF m
      <4>2. lo \in Nat /\ lo <= o2
        BY <1>4, <1>16, <1>25, <3>1
      <4> QED BY <1>16, <4>1, <4>2
    <3>2. CASE i # t2
      <4>1. hi = m /\ m = k
        BY <1>5, <1>24, <1>26, <1>27, <2>1, <3>2 DEF k, m
      <4>2. i = t1 => n1 = k
        BY <1>23 DEF k
      <4> QED BY <1>5, <1>16, <1>25, <4>1, <4>2
    <3> QED BY <3>1, <3>2
  <2>5. ASSUME i \notin DOMAIN v PROVE lo = hi
    <3>1. ~(x < y)
      BY <1>7, <2>5
    <3> QED BY <1>6, <2>2, <2>3, <2>4, <3>1
  <2>6. ASSUME i \in DOMAIN v PROVE v[i].offset = lo /\ v[i].offset + v[i].length = hi
    <3>1. x < y
      BY <1>7, <2>6
    <3>2. x - s = lo /\ y - s = hi
      BY <1>6, <2>2, <2>3, <2>4, <3>1
    <3> QED BY <1>8, <2>6, <3>2
  <2>7. lo \in 0 .. hi /\ hi \in 0 .. Len(d[i])
    BY <1>5, <2>4 DEF m
  <2> QED BY <2>5, <2>6, <2>7 DEF Spans
<1> QED BY <1>30, <1>31 DEF lo, hi

(* c is b without what is between lo and hi.                                *)
Cut(c, b, lo, hi) ==
  /\ lo \in Nat /\ hi \in 0 .. Len(b)
  /\ lo <= Len(c) /\ \A k \in 1 .. lo : c[k] = b[k]
  /\ Slice(c, lo, Len(c)) = Slice(b, hi, Len(b))

LEMMA ClearedParts ==
  ASSUME NEW D \in Seq(Seq(Blank)), NEW d \in Seq(Seq(Cells)),
         NEW t1 \in Nat, NEW o1 \in Nat, NEW t2 \in Nat, NEW o2 \in Nat,
         NEW start \in Nat, NEW end \in Nat, start < end,
         At(D, t1, o1, start), Agrees(D, d, t1, o1), At(D, t2, o2, end), Agrees(D, d, t2, o2),
         NEW i \in 1 .. Len(d)
  PROVE  /\ i \notin t1 .. t2 => Cleared(d, start, end)[i] = d[i]
         /\ i \in t1 .. t2 =>
              Cut(Cleared(d, start, end)[i], d[i], Lo(t1, o1, i), Hi(d, t2, o2, i))
<1> DEFINE v == Overlaps(d, start, end)
           c == Cleared(d, start, end)[i]
           lo == Lo(t1, o1, i)
           hi == Hi(d, t2, o2, i)
           b == d[i]
<1>1. b \in Seq(Cells) /\ DOMAIN d = 1 .. Len(d) /\ Len(b) \in Nat
  BY SeqFacts
<1>2. c = IF i \in DOMAIN v THEN YDelete(b, v[i].offset, v[i].length) ELSE b
  BY <1>1 DEF Cleared
<1>3. /\ i \in DOMAIN v => i \in t1 .. t2
      /\ i \in t1 .. t2 => Spans(d, start, end, lo, hi, i)
  BY OverlapSpan
<1> HIDE DEF c, lo, hi
<1>4. ASSUME i \notin t1 .. t2 PROVE c = b
  BY <1>2, <1>3, <1>4
<1>5. ASSUME i \in t1 .. t2
      PROVE  Cut(c, b, lo, hi)
  <2>1. Spans(d, start, end, lo, hi, i)
    BY <1>3, <1>5
  <2>2. lo \in 0 .. hi /\ hi \in 0 .. Len(b)
    BY <2>1 DEF Spans
  <2>3. i \in DOMAIN v => v[i].offset = lo /\ v[i].offset + v[i].length = hi
    BY <2>1 DEF Spans
  <2>4. i \notin DOMAIN v => lo = hi
    BY <2>1 DEF Spans
  <2> HIDE DEF v, b
  <2>5. lo \in Nat /\ lo \in 0 .. Len(b)
    BY <1>1, <2>2
  <2> DEFINE x == Slice(b, 0, lo)
             y == Slice(b, hi, Len(b))
  <2>6. /\ x \in Seq(Cells) /\ Len(x) = lo /\ \A k \in 1 .. lo : x[k] = b[k]
        /\ x ++ Slice(b, lo, Len(b)) = b
    BY <1>1, <2>5, Parts
  <2>7. y \in Seq(Cells)
    BY <1>1, <2>2, Parts
  <2> HIDE DEF x, y
  <2>8. c = x ++ y
    <3>1. CASE i \in DOMAIN v
      BY <1>2, <2>3, <3>1 DEF YDelete, ++, x, y
    <3>2. CASE i \notin DOMAIN v
      BY <1>2, <2>4, <2>6, <3>2 DEF y
    <3> QED BY <3>1, <3>2
  <2>9. /\ \A k \in 1 .. Len(x) : c[k] = x[k]
        /\ Slice(c, Len(x), Len(c)) = y /\ Len(c) = Len(x) + Len(y)
    BY <2>6, <2>7, <2>8, CatParts, CatLen
  <2>10. Len(y) \in Nat
    BY <2>7, SeqFacts
  <2>11. lo <= Len(c)
    BY <2>5, <2>6, <2>9, <2>10
  <2>12. \A k \in 1 .. lo : c[k] = b[k]
    BY <2>6, <2>9
  <2>13. Slice(c, lo, Len(c)) = y
    BY <2>6, <2>9
  <2> QED BY <2>2, <2>5, <2>11, <2>12, <2>13 DEF y, Cut
<1> QED BY <1>4, <1>5 DEF c, lo, hi, b

(* The range from character o1 of paragraph t1 to o2 of t2.                 *)
Reaches(D, d, start, end, t1, o1, t2, o2) ==
  /\ At(D, t1, o1, start) /\ Agrees(D, d, t1, o1)
  /\ At(D, t2, o2, end) /\ Agrees(D, d, t2, o2)

SameRest(e, t1, o1, d, t2, o2) == After(e, t1, o1) = After(d, t2, o2)

(* Paragraphs of d from t on.                                               *)
Beyond(affected, d, t) == affected \subseteq t .. Len(d)

(* The document before paragraphs are removed.                              *)
LEMMA ClearedLands ==
  ASSUME NEW D \in Seq(Seq(Blank)), NEW d \in Seq(Seq(Cells)),
         NEW t1 \in Nat, NEW o1 \in Nat, NEW t2 \in Nat, NEW o2 \in Nat,
         NEW start \in Nat, NEW end \in Nat, start < end,
         Reaches(D, d, start, end, t1, o1, t2, o2)
  PROVE  /\ Agrees(D, Cleared(d, start, end), t1, o1)
         /\ SameRest(Cleared(d, start, end), t1, o1, d, t2, o2)
         /\ Beyond(DOMAIN Overlaps(d, start, end), Cleared(d, start, end), t1)
<1>0. /\ At(D, t1, o1, start) /\ Agrees(D, d, t1, o1)
      /\ At(D, t2, o2, end) /\ Agrees(D, d, t2, o2)
  BY DEF Reaches
<1> DEFINE c == Cleared(d, start, end)
<1>1. c \in Seq(Seq(Cells)) /\ Len(c) = Len(d) /\ Len(d) \in Nat
  BY ClearedType
<1> HIDE DEF c
<1>2. t1 \in 1 .. Len(D) /\ o1 \in 0 .. Len(D[t1]) /\ t2 \in 1 .. Len(D) /\ o2 \in 0 .. Len(D[t2])
  BY <1>0 DEF Agrees
<1>3. t1 <= t2 /\ (t1 = t2 => o1 <= o2)
  BY <1>0, <1>2, PlaceOrder
<1>4. \A i \in 1 .. t1 - 1 : i <= Len(d) /\ d[i] = D[i]
  BY <1>0 DEF Agrees
<1>5. \/ t1 <= Len(d) /\ o1 <= Len(d[t1]) /\ \A k \in 1 .. o1 : d[t1][k] = D[t1][k]
      \/ Len(d) = t1 - 1 /\ o1 = 0 /\ t1 > 1
  BY <1>0 DEF Agrees
<1>6. ASSUME NEW i \in 1 .. Len(d), i \notin t1 .. t2 PROVE c[i] = d[i]
  <2>1. i \in DOMAIN Overlaps(d, start, end) => i \in t1 .. t2
    BY <1>0, OverlapSpan
  <2>2. DOMAIN d = 1 .. Len(d)
    OBVIOUS
  <2> QED BY <1>6, <2>1, <2>2 DEF c, Cleared
<1>7. ASSUME NEW i \in 1 .. Len(d), i \in t1 .. t2
      PROVE  /\ Lo(t1, o1, i) <= Len(c[i])
             /\ \A k \in 1 .. Lo(t1, o1, i) : c[i][k] = d[i][k]
             /\ Slice(c[i], Lo(t1, o1, i), Len(c[i])) =
                  Slice(d[i], Hi(d, t2, o2, i), Len(d[i]))
  <2>1. Cut(Cleared(d, start, end)[i], d[i], Lo(t1, o1, i), Hi(d, t2, o2, i))
    BY <1>0, <1>7, ClearedParts
  <2> QED BY <2>1 DEF c, Cut
<1>8. Agrees(D, c, t1, o1)
  <2>1. \A i \in 1 .. t1 - 1 : i <= Len(c) /\ c[i] = D[i]
    <3> SUFFICES ASSUME NEW i \in 1 .. t1 - 1 PROVE i <= Len(c) /\ c[i] = D[i]
      OBVIOUS
    <3>1. i \in 1 .. Len(d) /\ i \notin t1 .. t2
      BY <1>1, <1>4
    <3>2. c[i] = d[i] /\ d[i] = D[i]
      BY <1>4, <1>6, <3>1
    <3> QED BY <1>1, <3>1, <3>2
  <2>2. \/ t1 <= Len(c) /\ o1 <= Len(c[t1]) /\ \A k \in 1 .. o1 : c[t1][k] = D[t1][k]
        \/ Len(c) = t1 - 1 /\ o1 = 0 /\ t1 > 1
    <3>1. CASE t1 <= Len(d)
      <4>1. t1 \in 1 .. Len(d) /\ t1 \in t1 .. t2 /\ Lo(t1, o1, t1) = o1
        BY <1>1, <1>2, <1>3, <3>1 DEF Lo
      <4>2. o1 <= Len(c[t1]) /\ \A k \in 1 .. o1 : c[t1][k] = d[t1][k]
        BY <1>7, <4>1
      <4>3. \A k \in 1 .. o1 : d[t1][k] = D[t1][k]
        <5>1. ~(Len(d) = t1 - 1)
          BY <1>1, <3>1
        <5> QED BY <1>5, <5>1
      <4> QED BY <1>1, <3>1, <4>2, <4>3
    <3>2. CASE ~(t1 <= Len(d))
      BY <1>1, <1>5, <3>2
    <3> QED BY <3>1, <3>2
  <2> QED BY <1>2, <2>1, <2>2 DEF Agrees
<1>9. ASSUME NEW i \in 1 .. Len(d) PROVE Share(c, t1, o1, i) = Share(d, t2, o2, i)
  <2>0. d[i] \in Seq(Cells) /\ c[i] \in Seq(Cells) /\ i \in Nat
    BY <1>1, SeqFacts
  <2>1. CASE i < t1
    <3>1. i < t2
      BY <1>3, <2>0, <2>1
    <3> QED BY <2>1, <3>1 DEF Share
  <2>2. CASE i > t2
    <3>1. i \notin t1 .. t2 /\ ~(i < t1) /\ ~(i < t2) /\ i # t1 /\ i # t2
      BY <1>3, <2>0, <2>2
    <3>2. c[i] = d[i]
      BY <1>6, <3>1
    <3> QED BY <3>1, <3>2 DEF Share
  <2>3. CASE i \in t1 .. t2
    <3> DEFINE lo == Lo(t1, o1, i)
               hi == Hi(d, t2, o2, i)
    <3>1. Slice(c[i], lo, Len(c[i])) = Slice(d[i], hi, Len(d[i]))
      BY <1>7, <2>3
    <3>2. ~(i < t1) /\ ~(i > t2)
      BY <2>3
    <3>3. Share(c, t1, o1, i) = Pure(Slice(c[i], lo, Len(c[i])))
      <4>1. CASE i = t1
        BY <3>2, <4>1 DEF Share, Lo
      <4>2. CASE i # t1
        <5>1. Slice(c[i], 0, Len(c[i])) = c[i]
          BY <2>0, SliceEnds
        <5>2. lo = 0
          BY <4>2 DEF Lo
        <5> QED BY <3>2, <4>2, <5>1, <5>2 DEF Share
      <4> QED BY <4>1, <4>2
    <3>4. Share(d, t2, o2, i) = Pure(Slice(d[i], hi, Len(d[i])))
      <4>1. CASE i = t2
        <5>1. ~(i < t2) /\ hi = o2
          BY <1>3, <4>1 DEF Hi
        <5> QED BY <4>1, <5>1 DEF Share
      <4>2. CASE i # t2
        <5>1. i < t2 /\ hi = Len(d[i])
          BY <2>0, <3>2, <4>2 DEF Hi
        <5>2. Slice(d[i], Len(d[i]), Len(d[i])) = <<>>
          BY <2>0, SliceEnds
        <5> QED BY <5>1, <5>2, PureFacts DEF Share
      <4> QED BY <4>1, <4>2
    <3> QED BY <3>1, <3>3, <3>4
  <2>4. i < t1 \/ i > t2 \/ i \in t1 .. t2
    BY <2>0
  <2> QED BY <2>1, <2>2, <2>3, <2>4
<1>10. After(c, t1, o1) = After(d, t2, o2)
  BY <1>1, <1>9, SameAfter
<1>11. DOMAIN Overlaps(d, start, end) \subseteq t1 .. Len(c)
  <2>1. ASSUME NEW i \in DOMAIN Overlaps(d, start, end) PROVE i \in t1 .. Len(d)
    BY <1>0, OverlapFrom
  <2> QED BY <1>1, <2>1
<1> QED BY <1>8, <1>10, <1>11 DEF c, Beyond, SameRest

-----------------------------------------------------------------------------

(* Removing empty paragraphs is not seen.                                   *)

LEMMA AfterNone ==
  ASSUME NEW d \in Seq(Seq(Cells)), NEW t \in 1 .. Len(d) + 1
  PROVE  After(d, t, 0) = PureText(SubSeq(d, t, Len(d)))
<1> DEFINE n == Len(d)
<1>1. n \in Nat /\ t \in Nat /\ t - 1 \in 0 .. n /\ (t - 1) + 1 = t
  OBVIOUS
<1>2. /\ Shares(d, t, 0) \in Seq(Seq(Characters)) /\ Len(Shares(d, t, 0)) = n
      /\ \A i \in 1 .. n : Shares(d, t, 0)[i] = Share(d, t, 0, i)
  BY <1>1, SharesType
<1>3. CASE t = n + 1
  <2>1. \A i \in 1 .. n : i < t
    BY <1>1, <1>3
  <2>2. \A i \in 1 .. Len(Shares(d, t, 0)) : Shares(d, t, 0)[i] = <<>>
    BY <1>2, <2>1 DEF Share
  <2>3. After(d, t, 0) = <<>>
    BY <1>2, <2>2, FlattenBlank DEF After
  <2>4. SubSeq(d, t, n) = <<>>
    <3>1. n \in 0 .. n /\ n - n = 0
      BY <1>1
    <3>2. SubSeq(d, n + 1, n) \in Seq(Seq(Cells)) /\ Len(SubSeq(d, n + 1, n)) = n - n
      BY <3>1, Halves
    <3> DEFINE z == SubSeq(d, n + 1, n)
    <3> HIDE DEF z
    <3>3. z = <<>>
      BY <3>1, <3>2 DEF z
    <3> QED BY <1>3, <3>3 DEF z
  <2> QED BY <2>3, <2>4, PureTextFacts
<1>4. CASE t # n + 1
  <2>1. t \in 1 .. n /\ 0 \in Nat
    BY <1>1, <1>4
  <2> DEFINE b == d[t]
             c == <<b>>
             r == SubSeq(d, t + 1, n)
  <2>2. After(d, t, 0) = Pure(Slice(b, 0, Len(b))) ++ PureText(r)
    BY <2>1, AfterSplit
  <2>3. b \in Seq(Cells) /\ r \in Seq(Seq(Cells))
    <3>1. t \in 0 .. n
      BY <1>1, <2>1
    <3> QED BY <2>1, <3>1, SeqFacts, Halves
  <2>4. Slice(b, 0, Len(b)) = b
    <3> HIDE DEF b
    <3> QED BY <2>3, SliceEnds
  <2>5. c \in Seq(Seq(Cells)) /\ PureText(c) = Pure(b)
    <3> HIDE DEF b
    <3> QED BY <2>3, PureTextFacts
  <2>6. SubSeq(d, t, n) = c ++ r
    <3> DEFINE z == SubSeq(d, t, n)
               m == n - t
    <3>1. /\ z \in Seq(Seq(Cells)) /\ Len(z) = n - (t - 1)
          /\ \A i \in 1 .. n - (t - 1) : z[i] = d[(t - 1) + i]
      <4>1. /\ SubSeq(d, (t - 1) + 1, n) \in Seq(Seq(Cells))
            /\ Len(SubSeq(d, (t - 1) + 1, n)) = n - (t - 1)
            /\ \A i \in 1 .. n - (t - 1) : SubSeq(d, (t - 1) + 1, n)[i] = d[(t - 1) + i]
        BY <1>1, Halves
      <4> QED BY <1>1, <4>1
    <3>2. Len(r) = m /\ \A i \in 1 .. m : r[i] = d[t + i]
      <4>1. t \in 0 .. n
        BY <1>1, <2>1
      <4> QED BY <4>1, Halves
    <3>3. Len(c) = 1 /\ c[1] = b
      OBVIOUS
    <3>4. m \in Nat /\ n - (t - 1) = 1 + m
      BY <1>1, <2>1
    <3> HIDE DEF z, m, r, c
    <3>5. c ++ r \in Seq(Seq(Cells)) /\ Len(c ++ r) = 1 + m
      BY <2>3, <2>5, <3>2, <3>3, CatType, CatLen
    <3>6. ASSUME NEW i \in 1 .. 1 + m PROVE z[i] = (c ++ r)[i]
      <4>1. (c ++ r)[i] = IF i <= 1 THEN c[i] ELSE r[i - 1]
        <5>1. i \in 1 .. Len(c) + Len(r)
          BY <3>2, <3>3
        <5> QED BY <2>3, <2>5, <3>3, <5>1, CatAt
      <4>2. z[i] = d[(t - 1) + i]
        BY <3>1, <3>4
      <4>3. CASE i = 1
        <5>1. (t - 1) + i = t
          BY <1>1, <4>3
        <5> QED BY <3>3, <4>1, <4>2, <4>3, <5>1
      <4>4. CASE i # 1
        <5>1. i - 1 \in 1 .. m /\ t + (i - 1) = (t - 1) + i /\ ~(i <= 1)
          BY <1>1, <3>4, <4>4
        <5> QED BY <3>2, <4>1, <4>2, <5>1
      <4> QED BY <4>3, <4>4
    <3>7. z = c ++ r
      BY <3>1, <3>4, <3>5, <3>6, SeqEqual
    <3> QED BY <3>7 DEF z
  <2>7. PureText(SubSeq(d, t, n)) = PureText(c) ++ PureText(r)
    <3> HIDE DEF c, r
    <3> QED BY <2>3, <2>5, <2>6, PureTextFacts
  <2> QED BY <2>2, <2>4, <2>5, <2>7
<1> QED BY <1>3, <1>4

(* The paragraphs up to m stay, behind them some that are empty may go.     *)
LEMMA PruneBehind ==
  ASSUME NEW c \in Seq(Seq(Cells)), NEW z \in Seq(Seq(Seq(Cells))), Len(z) = Len(c),
         NEW m \in 0 .. Len(c), \A i \in 1 .. m : z[i] = <<c[i]>>,
         \A i \in 1 .. Len(c) : z[i] = <<c[i]>> \/ (z[i] = <<>> /\ c[i] = <<>>)
  PROVE  LET e == FlattenSeq(z)
         IN /\ e \in Seq(Seq(Cells)) /\ m <= Len(e)
            /\ \A i \in 1 .. m : e[i] = c[i]
            /\ PureText(SubSeq(e, m + 1, Len(e))) = PureText(SubSeq(c, m + 1, Len(c)))
<1> DEFINE n == Len(c)
           e == FlattenSeq(z)
           z1 == SubSeq(z, 1, m)
           z2 == SubSeq(z, m + 1, n)
           c1 == SubSeq(c, 1, m)
           c2 == SubSeq(c, m + 1, n)
           y == FlattenSeq(z2)
<1>1. n \in Nat /\ m \in Nat /\ m \in 0 .. Len(z) /\ n - m \in Nat /\ Len(z) = n
  OBVIOUS
<1>2. e \in Seq(Seq(Cells))
  BY FlattenType
<1>3. z1 \in Seq(Seq(Seq(Cells))) /\ Len(z1) = m /\ \A i \in 1 .. m : z1[i] = z[i]
  BY <1>1, Halves
<1>4. z2 \in Seq(Seq(Seq(Cells))) /\ Len(z2) = n - m /\ \A i \in 1 .. n - m : z2[i] = z[m + i]
  BY <1>1, Halves
<1>5. c1 \in Seq(Seq(Cells)) /\ Len(c1) = m /\ \A i \in 1 .. m : c1[i] = c[i]
  BY <1>1, Halves
<1>6. c2 \in Seq(Seq(Cells)) /\ Len(c2) = n - m /\ \A i \in 1 .. n - m : c2[i] = c[m + i]
  BY <1>1, Halves
<1>7. e = FlattenSeq(z1) ++ y
  BY <1>1, FlattenHalves
<1> HIDE DEF n, e, z1, z2, c1, c2
<1>8. FlattenSeq(z1) = c1
  <2> DEFINE s == [i \in 1 .. Len(c1) |-> <<c1[i]>>]
  <2>1. FlattenSeq(s) = c1
    BY <1>5, FlattenSingles
  <2>2. s \in [1 .. m -> Seq(Seq(Cells))] /\ \A i \in 1 .. m : s[i] = <<c1[i]>>
    <3>1. \A i \in 1 .. m : c1[i] \in Seq(Cells)
      BY <1>5, SeqFacts
    <3> QED BY <1>5, <3>1
  <2> HIDE DEF s
  <2>3. s \in Seq(Seq(Seq(Cells))) /\ Len(s) = m
    BY <1>1, <2>2, FunIsSeq
  <2>4. \A i \in 1 .. m : z1[i] = s[i]
    BY <1>3, <1>5, <2>2
  <2>5. z1 = s
    BY <1>1, <1>3, <2>3, <2>4, SeqEqual
  <2> QED BY <2>1, <2>5
<1>9. y \in Seq(Seq(Cells))
  BY <1>4, FlattenType
<1> HIDE DEF y
<1>10. e = c1 ++ y
  BY <1>7, <1>8
<1>11. /\ m <= Len(e) /\ \A i \in 1 .. m : e[i] = c[i]
       /\ SubSeq(e, m + 1, Len(e)) = y
  <2>1. /\ \A i \in 1 .. Len(c1) : e[i] = c1[i]
        /\ SubSeq(e, Len(c1) + 1, Len(e)) = y /\ Len(e) = Len(c1) + Len(y)
    BY <1>5, <1>9, <1>10, CatParts, CatLen
  <2>2. Len(y) \in Nat
    BY <1>9, SeqFacts
  <2>3. m <= Len(e)
    BY <1>1, <1>5, <2>1, <2>2
  <2>4. \A i \in 1 .. m : e[i] = c[i]
    BY <1>5, <2>1
  <2> QED BY <1>5, <2>1, <2>3, <2>4
<1>12. PureText(y) = PureText(c2)
  <2> DEFINE h == [x \in Seq(Seq(Cells)) |-> PureText(x)]
             a == Map(h, z2)
             b == Map(PureOf, c2)
             k == n - m
  <2>1. \A x \in Seq(Seq(Cells)) : h[x] = PureText(x)
    OBVIOUS
  <2>2. Goes(h, Seq(Seq(Cells)), Seq(Characters))
    BY PureTextFacts DEF Goes
  <2>3. <<>> \in Seq(Seq(Cells)) /\ \A u, v \in Seq(Seq(Cells)) : u ++ v \in Seq(Seq(Cells))
    BY CatType
  <2> HIDE DEF h
  <2>4. Keeps(h, Seq(Cells), Characters)
    <3>1. h[<<>>] = <<>>
      BY <2>1, <2>3, PureTextFacts
    <3>2. ASSUME NEW u \in Seq(Seq(Cells)), NEW v \in Seq(Seq(Cells))
          PROVE  h[u ++ v] = h[u] ++ h[v]
      <4>1. u ++ v \in Seq(Seq(Cells)) /\ PureText(u ++ v) = PureText(u) ++ PureText(v)
        BY <2>3, PureTextFacts
      <4> QED BY <2>1, <4>1
    <3> QED BY <2>2, <3>1, <3>2 DEF Keeps
  <2>5. h[y] = FlattenSeq(a)
    BY <1>4, <2>4, KeepsFlatten DEF y
  <2>6. a \in Seq(Seq(Characters)) /\ Len(a) = k /\ \A i \in 1 .. k : a[i] = h[z2[i]]
    BY <1>4, <2>2, MapType
  <2>7. b \in Seq(Seq(Characters)) /\ Len(b) = k /\ \A i \in 1 .. k : b[i] = Pure(c2[i])
    BY <1>6, PureTextFacts
  <2>8. ASSUME NEW i \in 1 .. k PROVE a[i] = b[i]
    <3>1. m + i \in 1 .. n
      BY <1>1
    <3> DEFINE x == c[m + i]
    <3>2. x \in Seq(Cells)
      BY <3>1, SeqFacts DEF n
    <3>3. z2[i] = <<x>> \/ (z2[i] = <<>> /\ x = <<>>)
      BY <1>4, <3>1 DEF n
    <3>4. b[i] = Pure(x)
      BY <1>6, <2>7
    <3>5. a[i] = PureText(z2[i])
      <4>1. z2[i] \in Seq(Seq(Cells))
        BY <1>4, SeqFacts
      <4> HIDE DEF a, x
      <4> QED BY <2>1, <2>6, <4>1
    <3> HIDE DEF a, b, x
    <3>6. CASE z2[i] = <<x>>
      <4>1. PureText(<<x>>) = Pure(x)
        BY <3>2, PureTextFacts
      <4> QED BY <3>4, <3>5, <3>6, <4>1
    <3>7. CASE z2[i] = <<>> /\ x = <<>>
      <4>1. PureText(<<>>) = <<>> /\ Pure(<<>>) = <<>>
        BY PureTextFacts, PureFacts
      <4> QED BY <3>4, <3>5, <3>7, <4>1
    <3> QED BY <3>3, <3>6, <3>7
  <2> HIDE DEF a, b, k
  <2>9. k \in Nat
    BY <1>1 DEF k
  <2>10. a = b
    BY <2>6, <2>7, <2>8, <2>9, SeqEqual
  <2> QED BY <1>9, <2>1, <2>5, <2>10 DEF PureText, b
<1>13. PureText(SubSeq(e, m + 1, Len(e))) = PureText(c2)
  BY <1>11, <1>12
<1> QED BY <1>2, <1>11, <1>13 DEF e, c2, n

LEMMA PruneLands ==
  ASSUME NEW D \in Seq(Seq(Blank)), NEW c \in Seq(Seq(Cells)), c # <<>>,
         NEW t \in Nat, NEW o \in Nat, Agrees(D, c, t, o),
         NEW affected, Beyond(affected, c, t)
  PROVE  /\ Agrees(D, PruneEmptyBlocks(c, affected), t, o)
         /\ After(PruneEmptyBlocks(c, affected), t, o) = After(c, t, o)
<1> DEFINE gone == Gone(c, affected)
           z == [i \in 1 .. Len(c) |-> IF i \in gone THEN <<>> ELSE <<c[i]>>]
           e == PruneEmptyBlocks(c, affected)
           n == Len(c)
<1>1. n \in Nat /\ n # 0 /\ t \in 1 .. Len(D) /\ o \in 0 .. Len(D[t])
  BY DEF Agrees
<1>2. \A i \in 1 .. t - 1 : i <= n /\ c[i] = D[i]
  BY DEF Agrees
<1>3. \/ t <= n /\ o <= Len(c[t]) /\ \A k \in 1 .. o : c[t][k] = D[t][k]
      \/ n = t - 1 /\ o = 0 /\ t > 1
  BY DEF Agrees
<1>4. affected \in SUBSET (1 .. n)
  BY <1>1 DEF Beyond
<1>5. z \in Seq(Seq(Seq(Cells))) /\ Len(z) = n /\ e = FlattenSeq(z) /\ e # <<>>
  BY <1>4, PruneType
<1>6. \A i \in gone : i \in t .. Len(c) /\ c[i] = <<>>
  BY DEF Gone, Beyond
<1>7. \A i \in 1 .. n : z[i] = IF i \in gone THEN <<>> ELSE <<c[i]>>
  OBVIOUS
<1> HIDE DEF gone, z, e, n
<1>8. \A i \in 1 .. n : z[i] = <<c[i]>> \/ (z[i] = <<>> /\ c[i] = <<>>)
  BY <1>6, <1>7
<1>9. \A i \in 1 .. n : i < t => z[i] = <<c[i]>>
  <2> SUFFICES ASSUME NEW i \in 1 .. n, i < t PROVE z[i] = <<c[i]>>
    OBVIOUS
  <2>1. i \notin t .. Len(c)
    BY <1>1
  <2>2. i \notin gone
    BY <1>6, <2>1
  <2> QED BY <1>7, <2>2
<1>10. CASE t <= n /\ t \notin gone
  <2>1. \A i \in 1 .. t : z[i] = <<c[i]>>
    <3> SUFFICES ASSUME NEW i \in 1 .. t PROVE z[i] = <<c[i]>>
      OBVIOUS
    <3>1. i \in 1 .. n
      BY <1>1, <1>10
    <3>2. CASE i = t
      BY <1>7, <1>10, <3>1, <3>2
    <3>3. CASE i # t
      <4>1. i < t
        BY <1>1, <3>3
      <4> QED BY <1>9, <3>1, <4>1
    <3> QED BY <3>2, <3>3
  <2>2. t \in 0 .. Len(c)
    BY <1>1, <1>10 DEF n
  <2>3. /\ e \in Seq(Seq(Cells)) /\ t <= Len(e) /\ \A i \in 1 .. t : e[i] = c[i]
        /\ PureText(SubSeq(e, t + 1, Len(e))) = PureText(SubSeq(c, t + 1, n))
    BY <1>5, <1>8, <2>1, <2>2, PruneBehind DEF n
  <2>4. t \in 1 .. Len(e) /\ t \in 1 .. n /\ t \in 1 .. t /\ e[t] = c[t]
    <3>1. Len(e) \in Nat
      BY <2>3
    <3> QED BY <1>1, <1>10, <2>3, <3>1
  <2>5. After(e, t, o) = After(c, t, o)
    <3>1. After(e, t, o) = Pure(Slice(e[t], o, Len(e[t]))) ++ PureText(SubSeq(e, t + 1, Len(e)))
      BY <2>3, <2>4, AfterSplit
    <3>2. After(c, t, o) = Pure(Slice(c[t], o, Len(c[t]))) ++ PureText(SubSeq(c, t + 1, n))
      BY <2>4, AfterSplit DEF n
    <3> QED BY <2>3, <2>4, <3>1, <3>2
  <2>6. \A i \in 1 .. t - 1 : i <= Len(e) /\ e[i] = D[i]
    <3> SUFFICES ASSUME NEW i \in 1 .. t - 1 PROVE i <= Len(e) /\ e[i] = D[i]
      OBVIOUS
    <3>1. i \in 1 .. t /\ i < t /\ Len(e) \in Nat
      BY <1>1, <2>3
    <3> QED BY <1>2, <2>3, <3>1
  <2>7. o <= Len(c[t]) /\ \A k \in 1 .. o : c[t][k] = D[t][k]
    <3>1. ~(n = t - 1)
      BY <1>1, <1>10
    <3> QED BY <1>3, <3>1
  <2>8. Agrees(D, e, t, o)
    BY <1>1, <2>3, <2>4, <2>6, <2>7 DEF Agrees
  <2> QED BY <2>5, <2>8 DEF e
<1>11. CASE ~(t <= n /\ t \notin gone)
  <2>1. o = 0
    <3>1. CASE t <= n
      <4>1. c[t] = <<>> /\ ~(n = t - 1)
        BY <1>1, <1>6, <1>11, <3>1
      <4>2. o <= Len(c[t]) /\ Len(c[t]) = 0
        BY <1>3, <4>1
      <4> QED BY <4>2
    <3>2. CASE ~(t <= n)
      BY <1>3, <3>2
    <3> QED BY <3>1, <3>2
  <2> DEFINE m == t - 1
  <2>2. m \in Nat /\ m <= n /\ m + 1 = t
    BY <1>1, <1>3
  <2>3. m \in 0 .. Len(c)
    BY <1>1, <2>2 DEF n
  <2>4. \A i \in 1 .. m : z[i] = <<c[i]>>
    <3>1. \A i \in 1 .. m : i \in 1 .. n /\ i < t
      BY <1>1, <2>2
    <3> QED BY <1>9, <3>1
  <2> HIDE DEF m
  <2>5. /\ e \in Seq(Seq(Cells)) /\ m <= Len(e) /\ \A i \in 1 .. m : e[i] = c[i]
        /\ PureText(SubSeq(e, m + 1, Len(e))) = PureText(SubSeq(c, m + 1, n))
    BY <1>5, <1>8, <2>3, <2>4, PruneBehind DEF n
  <2>6. Len(e) \in Nat /\ Len(e) # 0
    BY <1>5, <2>5
  <2>7. t \in 1 .. Len(e) + 1 /\ t \in 1 .. Len(c) + 1
    BY <1>1, <2>2, <2>5, <2>6 DEF n
  <2>8. After(e, t, 0) = After(c, t, 0)
    <3>1. After(e, t, 0) = PureText(SubSeq(e, t, Len(e)))
      BY <2>5, <2>7, AfterNone
    <3>2. After(c, t, 0) = PureText(SubSeq(c, t, n))
      BY <2>7, AfterNone DEF n
    <3> QED BY <2>2, <2>5, <3>1, <3>2
  <2>9. \A i \in 1 .. t - 1 : i <= Len(e) /\ e[i] = D[i]
    <3> SUFFICES ASSUME NEW i \in 1 .. t - 1 PROVE i <= Len(e) /\ e[i] = D[i]
      OBVIOUS
    <3>1. i \in 1 .. m /\ i <= Len(e)
      BY <1>1, <2>2, <2>5, <2>6
    <3> QED BY <1>2, <2>5, <3>1
  <2>10. \/ t <= Len(e) /\ 0 <= Len(e[t]) /\ \A k \in 1 .. 0 : e[t][k] = D[t][k]
         \/ Len(e) = t - 1 /\ t > 1
    <3>1. CASE t <= Len(e)
      <4>1. t \in 1 .. Len(e)
        BY <1>1, <2>6, <3>1
      <4>2. Len(e[t]) \in Nat
        BY <2>5, <4>1, SeqFacts
      <4> QED BY <3>1, <4>2
    <3>2. CASE ~(t <= Len(e))
      BY <2>2, <2>5, <2>6, <3>2
    <3> QED BY <3>1, <3>2
  <2>11. Agrees(D, e, t, o)
    BY <1>1, <2>1, <2>9, <2>10 DEF Agrees
  <2> QED BY <2>1, <2>8, <2>11 DEF e
<1> QED BY <1>10, <1>11

-----------------------------------------------------------------------------

LEMMA LowerSome ==
  ASSUME NEW D \in Seq(Seq(Blank)), NEW d \in Seq(Seq(Cells)), NEW p \in Nat, NEW R,
         Frontier(D, d, p, R), NEW q \in 0 .. p
  PROVE  \E r : Frontier(D, d, q, r)
<1> DEFINE P == {k \in Nat : k <= p => \E r : Frontier(D, d, p - k, r)}
<1>1. 0 \in P
  <2>1. p - 0 = p
    OBVIOUS
  <2> QED BY <2>1
<1>2. ASSUME NEW k \in Nat, k \in P PROVE k + 1 \in P
  <2> SUFFICES ASSUME k + 1 <= p PROVE \E r : Frontier(D, d, p - (k + 1), r)
    OBVIOUS
  <2>1. PICK r : Frontier(D, d, p - k, r)
    BY <1>2
  <2>2. p - k \in Nat \ {0} /\ (p - k) - 1 = p - (k + 1)
    OBVIOUS
  <2>3. Frontier(D, d, (p - k) - 1, Unbroken(<<ExtractText(D)[p - k]>>) ++ r)
    BY <2>1, <2>2, Lower
  <2> QED BY <2>2, <2>3
<1>3. \A k \in Nat : k \in P
  <2> HIDE DEF P
  <2> QED BY <1>1, <1>2, Induction
<1>4. p - q \in Nat /\ p - q <= p /\ p - (p - q) = q
  OBVIOUS
<1>5. p - q \in P
  <2> HIDE DEF P
  <2> QED BY <1>3, <1>4
<1> QED BY <1>4, <1>5

(* Deleting up to the frontier moves it to the start of the range.          *)
LEMMA DeleteLands ==
  ASSUME NEW D \in Seq(Seq(Blank)), NEW d \in Seq(Seq(Cells)), NEW end \in Nat, NEW R,
         Frontier(D, d, end, R), NEW start \in Nat, start < end
  PROVE  Frontier(D, DeleteText(d, start, end), start, R)
<1> DEFINE c == Cleared(d, start, end)
           affected == DOMAIN Overlaps(d, start, end)
<1>1. PICK t2 \in Nat, o2 \in Nat :
        At(D, t2, o2, end) /\ Agrees(D, d, t2, o2) /\ R = After(d, t2, o2)
  BY DEF Frontier
<1>2. \E r : Frontier(D, d, start, r)
  <2>1. start \in 0 .. end
    OBVIOUS
  <2> QED BY <2>1, LowerSome
<1>3. PICK t1 \in Nat, o1 \in Nat : At(D, t1, o1, start) /\ Agrees(D, d, t1, o1)
  BY <1>2 DEF Frontier
<1>4. Agrees(D, c, t1, o1) /\ After(c, t1, o1) = After(d, t2, o2) /\ Beyond(affected, c, t1)
  <2>1. Reaches(D, d, start, end, t1, o1, t2, o2)
    BY <1>1, <1>3 DEF Reaches
  <2>2. Agrees(D, Cleared(d, start, end), t1, o1)
    BY <2>1, ClearedLands
  <2>3. SameRest(Cleared(d, start, end), t1, o1, d, t2, o2)
    BY <2>1, ClearedLands
  <2>4. Beyond(DOMAIN Overlaps(d, start, end), Cleared(d, start, end), t1)
    BY <2>1, ClearedLands
  <2> QED BY <2>2, <2>3, <2>4 DEF SameRest
<1>5. /\ c \in Seq(Seq(Cells)) /\ Len(c) = Len(d)
      /\ DeleteText(d, start, end) = PruneEmptyBlocks(c, affected)
  BY ClearedType
<1> HIDE DEF c, affected
<1>6. c # <<>>
  <2>1. /\ t1 \in 1 .. Len(D)
        /\ \/ t1 <= Len(c)
           \/ Len(c) = t1 - 1 /\ t1 > 1
    BY <1>4 DEF Agrees
  <2>2. Len(c) # 0
    BY <2>1
  <2> QED BY <1>5, <2>2
<1>7. Agrees(D, DeleteText(d, start, end), t1, o1) /\ After(DeleteText(d, start, end), t1, o1) = R
  <2>1. /\ Agrees(D, PruneEmptyBlocks(c, affected), t1, o1)
        /\ After(PruneEmptyBlocks(c, affected), t1, o1) = After(c, t1, o1)
    BY <1>4, <1>5, <1>6, PruneLands
  <2> QED BY <1>1, <1>4, <1>5, <2>1
<1> QED BY <1>3, <1>7 DEF Frontier

-----------------------------------------------------------------------------

(* The edited text in pieces: what is inserted at a place, and the          *)
(* character behind it unless it is deleted; by the operations of O with a  *)
(* number in K only.                                                        *)
Point(op, n) == IF IsInsert(op) THEN Min({op.position, n}) ELSE op.start

Adds(O, n, K, q, i) ==
  IF i \in K /\ IsInsert(O[i]) /\ Point(O[i], n) = q THEN Joined(O[i].text) ELSE <<>>
InsertedBy(O, n, K, q) == FlattenSeq([i \in 1 .. Len(O) |-> Adds(O, n, K, q, i)])
DeletedBy(O, K, q) ==
  \E i \in K : O[i].type = "delete" /\ O[i].start <= q /\ q < O[i].end
KeptBy(O, T, K, j) == IF j > Len(T) \/ DeletedBy(O, K, j - 1) THEN <<>> ELSE <<T[j]>>
Piece(O, T, K, j) == InsertedBy(O, Len(T), K, j - 1) ++ KeptBy(O, T, K, j)

(* What comes behind place q, and the same without the breaks.              *)
Pieces(O, T, K, q) ==
  [j \in 1 .. Len(T) + 1 |-> IF j <= q THEN <<>> ELSE Piece(O, T, K, j)]
Remains(O, T, K, q) == FlattenSeq(Pieces(O, T, K, q))
Rest(O, T, K, q) == Unbroken(Remains(O, T, K, q))

(* All operations of K are behind place q.                                  *)
Behind(O, n, K, q) == \A i \in K : Point(O[i], n) >= q

(* Operations whose range does not start in front of the text.              *)
PlacedRanges == {op \in [type : {"delete", "format"}, start : Nat, end : Nat,
                         expected : Seq(Characters) \ {<<>>}] : op.start < op.end}
Placed == PlacedRanges \cup Insertions

LEMMA PlacedFacts ==
  ASSUME NEW op \in Placed
  PROVE  /\ op \in TextOps /\ Place(op) \in Nat
         /\ IsInsert(op) => op \in Insertions /\ Place(op) = op.position
         /\ ~IsInsert(op) => op \in PlacedRanges /\ Place(op) = op.start
BY DEF Placed, PlacedRanges, TextOps, RangeEdits, Insertions, Place, IsInsert

LEMMA PlacedApply ==
  ASSUME NEW d, NEW op \in Placed
  PROVE  /\ op.type = "insert" => Apply(d, op) = InsertText(d, op.position, op.text)
         /\ op.type = "delete" => Apply(d, op) = DeleteText(d, op.start, op.end)
         /\ op.type = "format" => Apply(d, op) = FormatText(d, op.start, op.end)
         /\ op.type \in {"insert", "delete", "format"}
BY PlacedFacts, ApplyValue

LEMMA PlacedSeq ==
  ASSUME NEW s \in Seq(Placed)
  PROVE  s \in Seq(TextOps)
<1>1. \A i \in 1 .. Len(s) : s[i] \in TextOps
  BY SeqFacts, PlacedFacts
<1>2. Len(s) \in Nat /\ s \in [1 .. Len(s) -> TextOps]
  BY <1>1
<1> QED BY <1>2, FunIsSeq

LEMMA OpText ==
  ASSUME NEW op \in Placed, IsInsert(op)
  PROVE  /\ op.text \in Texts /\ op.text \in Seq(Seq(Characters))
         /\ Joined(op.text) \in Seq(Characters)
<1>1. op.text \in Texts
  BY PlacedFacts DEF Insertions
<1>2. op.text \in Seq(Seq(Characters))
  BY <1>1, TextsAssumption
<1> QED BY <1>1, <1>2, JoinedType

LEMMA InsertedType ==
  ASSUME NEW O \in Seq(Placed), NEW n, NEW K, NEW q
  PROVE  LET s == [i \in 1 .. Len(O) |-> Adds(O, n, K, q, i)]
         IN /\ s \in Seq(Seq(Characters)) /\ Len(s) = Len(O)
            /\ InsertedBy(O, n, K, q) \in Seq(Characters)
<1> DEFINE s == [i \in 1 .. Len(O) |-> Adds(O, n, K, q, i)]
<1>1. Len(O) \in Nat /\ \A i \in 1 .. Len(O) : O[i] \in Placed
  BY SeqFacts
<1>2. ASSUME NEW i \in 1 .. Len(O) PROVE Adds(O, n, K, q, i) \in Seq(Characters)
  <2>1. <<>> \in Seq(Characters)
    OBVIOUS
  <2>2. IsInsert(O[i]) => Joined(O[i].text) \in Seq(Characters)
    BY <1>1, OpText
  <2> QED BY <2>1, <2>2 DEF Adds
<1>3. s \in [1 .. Len(O) -> Seq(Characters)]
  BY <1>2
<1> HIDE DEF s
<1>4. s \in Seq(Seq(Characters)) /\ Len(s) = Len(O)
  BY <1>1, <1>3, FunIsSeq
<1>5. FlattenSeq(s) \in Seq(Characters)
  BY <1>4, FlattenType
<1> QED BY <1>4, <1>5 DEF InsertedBy, s

LEMMA RestType ==
  ASSUME NEW O \in Seq(Placed), NEW T \in Seq(Characters), NEW K, NEW q
  PROVE  /\ \A j \in 1 .. Len(T) + 1 :
              KeptBy(O, T, K, j) \in Seq(Characters) /\ Piece(O, T, K, j) \in Seq(Characters)
         /\ Pieces(O, T, K, q) \in Seq(Seq(Characters)) /\ Len(Pieces(O, T, K, q)) = Len(T) + 1
         /\ \A j \in 1 .. Len(T) + 1 :
              Pieces(O, T, K, q)[j] = IF j <= q THEN <<>> ELSE Piece(O, T, K, j)
         /\ Remains(O, T, K, q) \in Seq(Characters) /\ Rest(O, T, K, q) \in Seq(Characters)
<1> DEFINE s == Pieces(O, T, K, q)
<1>1. Len(T) \in Nat /\ Len(T) + 1 \in Nat /\ <<>> \in Seq(Characters)
  OBVIOUS
<1>2. ASSUME NEW j \in 1 .. Len(T) + 1
      PROVE  KeptBy(O, T, K, j) \in Seq(Characters) /\ Piece(O, T, K, j) \in Seq(Characters)
  <2>1. ~(j > Len(T)) => <<T[j]>> \in Seq(Characters)
    <3> SUFFICES ASSUME ~(j > Len(T)) PROVE <<T[j]>> \in Seq(Characters)
      OBVIOUS
    <3>1. j \in 1 .. Len(T)
      BY <1>1
    <3>2. T[j] \in Characters
      BY <3>1
    <3> QED BY <3>2
  <2>2. KeptBy(O, T, K, j) \in Seq(Characters)
    BY <1>1, <2>1 DEF KeptBy
  <2>3. InsertedBy(O, Len(T), K, j - 1) \in Seq(Characters)
    BY InsertedType
  <2> QED BY <2>2, <2>3, CatType DEF Piece
<1>4. s \in [1 .. Len(T) + 1 -> Seq(Characters)]
  BY <1>1, <1>2 DEF Pieces
<1>5. \A j \in 1 .. Len(T) + 1 : s[j] = IF j <= q THEN <<>> ELSE Piece(O, T, K, j)
  BY DEF Pieces
<1> HIDE DEF s
<1>6. s \in Seq(Seq(Characters)) /\ Len(s) = Len(T) + 1
  BY <1>1, <1>4, FunIsSeq
<1>7. FlattenSeq(s) \in Seq(Characters)
  BY <1>6, FlattenType
<1>8. Unbroken(FlattenSeq(s)) \in Seq(Characters)
  BY <1>7, UnbrokenFacts
<1> QED BY <1>2, <1>5, <1>6, <1>7, <1>8 DEF s, Rest, Remains

(* Where the operations of K and L do the same, the rests are the same.     *)
Alike(O, T, K, p, L, q) ==
  \A j \in 1 .. Len(T) + 1 : Pieces(O, T, K, p)[j] = Pieces(O, T, L, q)[j]

LEMMA SameRemains ==
  ASSUME NEW O \in Seq(Placed), NEW T \in Seq(Characters), NEW K, NEW L, NEW p, NEW q,
         Alike(O, T, K, p, L, q)
  PROVE  Remains(O, T, K, p) = Remains(O, T, L, q)
<1> DEFINE x == Pieces(O, T, K, p)
           y == Pieces(O, T, L, q)
<1>1. x \in Seq(Seq(Characters)) /\ Len(x) = Len(T) + 1
  BY RestType
<1>2. y \in Seq(Seq(Characters)) /\ Len(y) = Len(T) + 1
  BY RestType
<1>3. \A j \in 1 .. Len(T) + 1 : x[j] = y[j]
  BY DEF Alike
<1> HIDE DEF x, y
<1>4. x = y
  BY <1>1, <1>2, <1>3, SeqEqual
<1> QED BY <1>4 DEF Remains, x, y

LEMMA NoneInserted ==
  ASSUME NEW O \in Seq(Placed), NEW n, NEW K, NEW q,
         \A i \in 1 .. Len(O) : i \in K => ~(IsInsert(O[i]) /\ Point(O[i], n) = q)
  PROVE  InsertedBy(O, n, K, q) = <<>>
<1> DEFINE s == [i \in 1 .. Len(O) |-> Adds(O, n, K, q, i)]
<1>1. s \in Seq(Seq(Characters)) /\ Len(s) = Len(O)
  BY InsertedType
<1>2. \A i \in 1 .. Len(O) : s[i] = <<>>
  BY DEF Adds
<1> HIDE DEF s
<1>3. FlattenSeq(s) = <<>>
  BY <1>1, <1>2, FlattenBlank
<1> QED BY <1>3 DEF InsertedBy, s

LEMMA RestNone ==
  ASSUME NEW O \in Seq(Placed), NEW T \in Seq(Characters)
  PROVE  Remains(O, T, {}, Len(T)) = <<>> /\ Rest(O, T, {}, Len(T)) = <<>>
<1> DEFINE s == Pieces(O, T, {}, Len(T))
<1>1. /\ s \in Seq(Seq(Characters)) /\ Len(s) = Len(T) + 1
      /\ \A j \in 1 .. Len(T) + 1 :
           s[j] = IF j <= Len(T) THEN <<>> ELSE Piece(O, T, {}, j)
  BY RestType
<1> HIDE DEF s
<1>2. ASSUME NEW j \in 1 .. Len(s) PROVE s[j] = <<>>
  <2>1. j \in 1 .. Len(T) + 1
    BY <1>1
  <2>2. CASE j <= Len(T)
    BY <1>1, <2>1, <2>2
  <2>3. CASE ~(j <= Len(T))
    <3>1. j > Len(T)
      BY <2>1, <2>3
    <3>2. InsertedBy(O, Len(T), {}, j - 1) = <<>>
      BY NoneInserted
    <3>3. <<>> \in Seq(Characters)
      OBVIOUS
    <3>4. Piece(O, T, {}, j) = <<>>
      BY <3>1, <3>2, <3>3, CatEmpty DEF Piece, KeptBy
    <3> QED BY <1>1, <2>1, <2>3, <3>4
  <2> QED BY <2>2, <2>3
<1>3. FlattenSeq(s) = <<>>
  BY <1>1, <1>2, FlattenBlank
<1> QED BY <1>3, UnbrokenFacts DEF Rest, Remains, s

(* One character more, which none of the operations touches.                *)
LEMMA RestLower ==
  ASSUME NEW O \in Seq(Placed), NEW T \in Seq(Characters), NEW K \in SUBSET (1 .. Len(O)),
         NEW q \in 1 .. Len(T), Behind(O, Len(T), K, q)
  PROVE  /\ Remains(O, T, K, q - 1) = <<T[q]>> ++ Remains(O, T, K, q)
         /\ Rest(O, T, K, q - 1) = Unbroken(<<T[q]>>) ++ Rest(O, T, K, q)
<1> DEFINE a == Pieces(O, T, K, q - 1)
           b == Pieces(O, T, K, q)
           n == Len(T) + 1
           c == <<T[q]>>
<1>1. Len(T) \in Nat /\ q \in 1 .. n /\ q \in Nat
  OBVIOUS
<1>2. /\ a \in Seq(Seq(Characters)) /\ Len(a) = n
      /\ \A j \in 1 .. n : a[j] = IF j <= q - 1 THEN <<>> ELSE Piece(O, T, K, j)
  BY RestType
<1>3. /\ b \in Seq(Seq(Characters)) /\ Len(b) = n
      /\ \A j \in 1 .. n : b[j] = IF j <= q THEN <<>> ELSE Piece(O, T, K, j)
  BY RestType
<1>4. c \in Seq(Characters)
  OBVIOUS
<1>6. Piece(O, T, K, q) = c
  <2>1. ASSUME NEW i \in K PROVE Point(O[i], Len(T)) >= q
    BY DEF Behind
  <2>2. ASSUME NEW i \in 1 .. Len(O), i \in K
        PROVE  ~(IsInsert(O[i]) /\ Point(O[i], Len(T)) = q - 1)
    <3>1. Point(O[i], Len(T)) >= q
      BY <2>1, <2>2
    <3> QED BY <1>1, <3>1
  <2>3. InsertedBy(O, Len(T), K, q - 1) = <<>>
    BY <2>2, NoneInserted
  <2>4. ~DeletedBy(O, K, q - 1)
    <3> SUFFICES ASSUME NEW i \in K, O[i].type = "delete", O[i].start <= q - 1 PROVE FALSE
      BY DEF DeletedBy
    <3>1. Point(O[i], Len(T)) = O[i].start
      BY DEF Point, IsInsert
    <3>2. O[i] \in Placed
      BY SeqFacts
    <3>3. O[i].start \in Nat
      BY <3>2 DEF Placed, PlacedRanges, Insertions
    <3> QED BY <1>1, <2>1, <3>1, <3>3
  <2>5. KeptBy(O, T, K, q) = c
    BY <1>1, <2>4 DEF KeptBy
  <2> QED BY <1>4, <2>3, <2>5, CatEmpty DEF Piece
<1> HIDE DEF a, b
<1>7. a[q] = c /\ b[q] = <<>>
  <2>1. ~(q <= q - 1)
    BY <1>1
  <2>2. b[q] = <<>>
    BY <1>1, <1>3
  <2>3. a[q] = Piece(O, T, K, q)
    BY <1>1, <1>2, <2>1
  <2> QED BY <1>6, <2>2, <2>3
<1>8. a[q] = c ++ b[q]
  BY <1>4, <1>7, CatEmpty
<1>9. \A i \in 1 .. q - 1 : a[i] = <<>> /\ b[i] = <<>>
  <2> SUFFICES ASSUME NEW i \in 1 .. q - 1 PROVE a[i] = <<>> /\ b[i] = <<>>
    OBVIOUS
  <2>1. i \in 1 .. n /\ i <= q - 1 /\ i <= q
    BY <1>1
  <2> QED BY <1>2, <1>3, <2>1
<1>10. \A i \in q + 1 .. Len(a) : a[i] = b[i]
  <2> SUFFICES ASSUME NEW i \in q + 1 .. n PROVE a[i] = b[i]
    BY <1>2
  <2>1. i \in 1 .. n /\ ~(i <= q - 1) /\ ~(i <= q)
    BY <1>1
  <2> QED BY <1>2, <1>3, <2>1
<1>11. q \in 1 .. Len(a)
  BY <1>1, <1>2
<1> DEFINE z == FlattenSeq(b)
<1> HIDE DEF c
<1>12. FlattenSeq(a) = c ++ z
  BY <1>2, <1>3, <1>4, <1>8, <1>9, <1>10, <1>11, Prepend
<1>13. z \in Seq(Characters)
  BY <1>3, FlattenType
<1> HIDE DEF z
<1>14. Unbroken(FlattenSeq(a)) = Unbroken(c) ++ Unbroken(z)
  BY <1>4, <1>12, <1>13, UnbrokenFacts
<1> QED BY <1>12, <1>14 DEF Rest, Remains, a, b, c, z

-----------------------------------------------------------------------------

AddsOnly(O, n, K, q, a, J) ==
  \A i \in 1 .. Len(O) : Adds(O, n, K, q, i) = IF i = a THEN J ELSE <<>>

LEMMA OneInserted ==
  ASSUME NEW O \in Seq(Placed), NEW n, NEW K, NEW q, NEW a \in 1 .. Len(O), NEW J,
         AddsOnly(O, n, K, q, a, J)
  PROVE  InsertedBy(O, n, K, q) = J
<1> DEFINE s == [i \in 1 .. Len(O) |-> Adds(O, n, K, q, i)]
<1>1. s \in Seq(Seq(Characters)) /\ Len(s) = Len(O)
  BY InsertedType
<1>2. \A i \in 1 .. Len(O) : s[i] = IF i = a THEN J ELSE <<>>
  BY DEF AddsOnly
<1> HIDE DEF s
<1>3. FlattenSeq(s) = s[a]
  BY <1>1, <1>2, FlattenSole
<1>4. FlattenSeq(s) = J
  BY <1>2, <1>3
<1> QED BY <1>4 DEF InsertedBy, s

LEMMA FrontType ==
  ASSUME NEW op \in Placed, NEW n \in Nat
  PROVE  /\ Point(op, n) \in Nat
         /\ IsInsert(op) => Point(op, n) = IF op.position <= n THEN op.position ELSE n
         /\ ~IsInsert(op) => Point(op, n) = op.start /\ op.start \in Nat /\ op.end \in Nat
<1>1. CASE IsInsert(op)
  <2>1. op.position \in Nat
    BY <1>1, PlacedFacts DEF Insertions
  <2>2. Min({op.position, n}) = IF op.position <= n THEN op.position ELSE n
    BY <2>1, MinPair
  <2> QED BY <1>1, <2>1, <2>2 DEF Point
<1>2. CASE ~IsInsert(op)
  <2>1. op.start \in Nat /\ op.end \in Nat
    BY <1>2, PlacedFacts DEF PlacedRanges
  <2> QED BY <1>2, <2>1 DEF Point
<1> QED BY <1>1, <1>2

(* An insert at place q, where nothing was inserted before.                 *)
LEMMA RestInsert ==
  ASSUME NEW O \in Seq(Placed), NEW T \in Seq(Characters), NEW K \in SUBSET (1 .. Len(O)),
         NEW q \in 0 .. Len(T), NEW a \in 1 .. Len(O), a \notin K,
         IsInsert(O[a]), Point(O[a], Len(T)) = q,
         \A i \in K : ~(IsInsert(O[i]) /\ Point(O[i], Len(T)) = q)
  PROVE  /\ Remains(O, T, K \cup {a}, q) = Joined(O[a].text) ++ Remains(O, T, K, q)
         /\ Rest(O, T, K \cup {a}, q) = Unbroken(Joined(O[a].text)) ++ Rest(O, T, K, q)
<1> DEFINE n == Len(T)
           L == K \cup {a}
           t == q + 1
           A == Pieces(O, T, L, q)
           B == Pieces(O, T, K, q)
           J == Joined(O[a].text)
<1>1. n \in Nat /\ q \in Nat /\ q <= n /\ t \in 1 .. n + 1 /\ t - 1 = q /\ ~(t <= q)
  OBVIOUS
<1>2. /\ A \in Seq(Seq(Characters)) /\ Len(A) = n + 1
      /\ \A j \in 1 .. n + 1 : A[j] = IF j <= q THEN <<>> ELSE Piece(O, T, L, j)
  BY RestType
<1>3. /\ B \in Seq(Seq(Characters)) /\ Len(B) = n + 1
      /\ \A j \in 1 .. n + 1 : B[j] = IF j <= q THEN <<>> ELSE Piece(O, T, K, j)
  BY RestType
<1>4. O[a] \in Placed
  BY SeqFacts
<1>5. J \in Seq(Characters)
  BY <1>4, OpText
<1>6. \A j : KeptBy(O, T, L, j) = KeptBy(O, T, K, j)
  <2> SUFFICES ASSUME NEW j PROVE DeletedBy(O, L, j - 1) = DeletedBy(O, K, j - 1)
    BY DEF KeptBy
  <2>1. O[a].type # "delete"
    BY DEF IsInsert
  <2> QED BY <2>1 DEF DeletedBy
<1>7. \A j \in 1 .. n + 1 : j # t => Piece(O, T, L, j) = Piece(O, T, K, j)
  <2> SUFFICES ASSUME NEW j \in 1 .. n + 1, j # t PROVE Piece(O, T, L, j) = Piece(O, T, K, j)
    OBVIOUS
  <2>1. j - 1 # q
    BY <1>1
  <2>2. \A i \in 1 .. Len(O) : Adds(O, n, L, j - 1, i) = Adds(O, n, K, j - 1, i)
    BY <2>1 DEF Adds
  <2>3. InsertedBy(O, n, L, j - 1) = InsertedBy(O, n, K, j - 1)
    BY <2>2 DEF InsertedBy
  <2> QED BY <1>6, <2>3 DEF Piece
<1>8. InsertedBy(O, n, K, q) = <<>>
  BY NoneInserted
<1>9. InsertedBy(O, n, L, q) = J
  <2>1. AddsOnly(O, n, L, q, a, J)
    BY DEF Adds, AddsOnly
  <2> HIDE DEF J, L, n
  <2> QED BY <2>1, OneInserted
<1> DEFINE kept == KeptBy(O, T, K, t)
<1>10. kept \in Seq(Characters)
  BY <1>1, RestType
<1>11. Piece(O, T, L, t) = J ++ kept
  BY <1>1, <1>6, <1>9 DEF Piece
<1>12. Piece(O, T, K, t) = kept
  <2>1. Piece(O, T, K, t) = <<>> ++ kept
    BY <1>1, <1>8 DEF Piece
  <2> HIDE DEF kept
  <2> QED BY <2>1, <1>10, CatEmpty
<1> HIDE DEF A, B, J, kept
<1>14. A[t] = J ++ B[t]
  <2>1. A[t] = J ++ kept
    BY <1>1, <1>2, <1>11
  <2>2. B[t] = kept
    BY <1>1, <1>3, <1>12
  <2> QED BY <2>1, <2>2
<1>15. \A i \in 1 .. t - 1 : A[i] = <<>> /\ B[i] = <<>>
  <2> SUFFICES ASSUME NEW i \in 1 .. t - 1 PROVE A[i] = <<>> /\ B[i] = <<>>
    OBVIOUS
  <2>1. i \in 1 .. n + 1 /\ i <= q
    BY <1>1
  <2> QED BY <1>2, <1>3, <2>1
<1>16. \A i \in t + 1 .. Len(A) : A[i] = B[i]
  <2> SUFFICES ASSUME NEW i \in t + 1 .. n + 1 PROVE A[i] = B[i]
    BY <1>2
  <2>1. i \in 1 .. n + 1 /\ i # t
    BY <1>1
  <2> QED BY <1>2, <1>3, <1>7, <2>1
<1> DEFINE z == FlattenSeq(B)
<1>17. FlattenSeq(A) = J ++ z
  <2>1. t \in 1 .. Len(A) /\ Len(A) = Len(B)
    BY <1>1, <1>2, <1>3
  <2> QED BY <1>2, <1>3, <1>5, <1>14, <1>15, <1>16, <2>1, Prepend
<1>18. z \in Seq(Characters)
  BY <1>3, FlattenType
<1> HIDE DEF z
<1>19. Unbroken(FlattenSeq(A)) = Unbroken(J) ++ Unbroken(z)
  BY <1>5, <1>17, <1>18, UnbrokenFacts
<1> QED BY <1>17, <1>19 DEF Rest, Remains, A, B, J, z

(* A format changes nothing.                                                *)
LEMMA RestFormat ==
  ASSUME NEW O \in Seq(Placed), NEW T \in Seq(Characters), NEW K, NEW q,
         NEW a \in 1 .. Len(O), O[a].type = "format"
  PROVE  /\ Remains(O, T, K \cup {a}, q) = Remains(O, T, K, q)
         /\ Rest(O, T, K \cup {a}, q) = Rest(O, T, K, q)
<1> DEFINE L == K \cup {a}
<1>1. ~IsInsert(O[a]) /\ O[a].type # "delete"
  BY DEF IsInsert
<1>2. ASSUME NEW j \in 1 .. Len(T) + 1 PROVE Pieces(O, T, L, q)[j] = Pieces(O, T, K, q)[j]
  <2>1. \A i \in 1 .. Len(O) : Adds(O, Len(T), L, j - 1, i) = Adds(O, Len(T), K, j - 1, i)
    BY <1>1 DEF Adds
  <2>2. InsertedBy(O, Len(T), L, j - 1) = InsertedBy(O, Len(T), K, j - 1)
    BY <2>1 DEF InsertedBy
  <2>3. DeletedBy(O, L, j - 1) = DeletedBy(O, K, j - 1)
    BY <1>1 DEF DeletedBy
  <2>4. Piece(O, T, L, j) = Piece(O, T, K, j)
    BY <2>2, <2>3 DEF Piece, KeptBy
  <2> QED BY <2>4 DEF Pieces
<1>3. Alike(O, T, L, q, K, q)
  BY <1>2 DEF Alike
<1> HIDE DEF L
<1>4. Remains(O, T, L, q) = Remains(O, T, K, q)
  BY <1>3, SameRemains
<1> QED BY <1>4 DEF L, Rest

(* A delete takes what no other operation touches.                          *)
LEMMA RestDelete ==
  ASSUME NEW O \in Seq(Placed), NEW T \in Seq(Characters), NEW K \in SUBSET (1 .. Len(O)),
         NEW a \in 1 .. Len(O), O[a].type = "delete",
         O[a].start < O[a].end, O[a].end <= Len(T), Behind(O, Len(T), K, O[a].end)
  PROVE  /\ Remains(O, T, K \cup {a}, O[a].start) = Remains(O, T, K, O[a].end)
         /\ Rest(O, T, K \cup {a}, O[a].start) = Rest(O, T, K, O[a].end)
<1> DEFINE L == K \cup {a}
           start == O[a].start
           end == O[a].end
           n == Len(T)
<1>1. ~IsInsert(O[a]) /\ O[a] \in Placed
  BY SeqFacts DEF IsInsert
<1>2. start \in Nat /\ end \in Nat /\ n \in Nat /\ start < end /\ end <= n
  <2>1. n \in Nat
    OBVIOUS
  <2>2. start \in Nat /\ end \in Nat
    BY <1>1, <2>1, FrontType
  <2> QED BY <2>1, <2>2
<1>3. \A i \in K : Point(O[i], n) \in Nat /\ Point(O[i], n) >= end
  BY <1>2, FrontType, SeqFacts DEF Behind
<1>4. ASSUME NEW j \in 1 .. n + 1 PROVE Pieces(O, T, L, start)[j] = Pieces(O, T, K, end)[j]
  <2> DEFINE x == Piece(O, T, L, j)
             y == Piece(O, T, K, j)
  <2>1. Pieces(O, T, L, start)[j] = IF j <= start THEN <<>> ELSE x
    BY DEF Pieces
  <2>2. Pieces(O, T, K, end)[j] = IF j <= end THEN <<>> ELSE y
    BY DEF Pieces
  <2>3. CASE j <= start
    <3>1. j <= end
      BY <1>2, <2>3
    <3> QED BY <2>1, <2>2, <2>3, <3>1
  <2>4. CASE ~(j <= start) /\ j <= end
    <3>1. j - 1 < end /\ start <= j - 1
      BY <1>2, <2>4
    <3>2. \A i \in 1 .. Len(O) : i \in L => ~(IsInsert(O[i]) /\ Point(O[i], n) = j - 1)
      <4> SUFFICES ASSUME NEW i \in K PROVE Point(O[i], n) # j - 1
        BY <1>1
      <4> HIDE DEF n, start, end
      <4> QED BY <1>2, <1>3, <3>1
    <3>3. InsertedBy(O, n, L, j - 1) = <<>>
      BY <3>2, NoneInserted
    <3>4. DeletedBy(O, L, j - 1)
      BY <3>1 DEF DeletedBy
    <3>5. KeptBy(O, T, L, j) = <<>> /\ <<>> \in Seq(Characters)
      BY <3>4 DEF KeptBy
    <3>6. x = <<>>
      BY <3>3, <3>5, CatEmpty DEF Piece
    <3> QED BY <2>1, <2>2, <2>4, <3>6
  <2>5. CASE ~(j <= end)
    <3>1. ~(j - 1 < end) /\ ~(j <= start)
      BY <1>2, <2>5
    <3>2. \A i \in 1 .. Len(O) : Adds(O, n, L, j - 1, i) = Adds(O, n, K, j - 1, i)
      BY <1>1 DEF Adds
    <3>3. InsertedBy(O, n, L, j - 1) = InsertedBy(O, n, K, j - 1)
      BY <3>2 DEF InsertedBy
    <3>4. DeletedBy(O, L, j - 1) = DeletedBy(O, K, j - 1)
      BY <3>1 DEF DeletedBy
    <3>5. x = y
      BY <3>3, <3>4 DEF Piece, KeptBy
    <3> QED BY <2>1, <2>2, <2>5, <3>1, <3>5
  <2> QED BY <2>3, <2>4, <2>5
<1>5. Alike(O, T, L, start, K, end)
  BY <1>4 DEF Alike
<1> HIDE DEF L, start, end
<1>6. Remains(O, T, L, start) = Remains(O, T, K, end)
  BY <1>5, SameRemains
<1> QED BY <1>6 DEF L, start, end, Rest

(* All operations, from the start of the text.                              *)
LEMMA RestAll ==
  ASSUME NEW O \in Seq(Placed), NEW T \in Seq(Characters)
  PROVE  /\ Remains(O, T, 1 .. Len(O), 0) = Edited(T, O)
         /\ Rest(O, T, 1 .. Len(O), 0) = Unbroken(Edited(T, O))
<1> DEFINE K == 1 .. Len(O)
           n == Len(T)
           inserted(p) == FlattenSeq([i \in DOMAIN O |->
              IF IsInsert(O[i]) /\ Min({O[i].position, n}) = p THEN Joined(O[i].text) ELSE <<>>])
           deleted(p) == \E i \in DOMAIN O :
              O[i].type = "delete" /\ O[i].start <= p /\ p < O[i].end
           s == [j \in 1 .. n + 1 |-> Piece(O, T, K, j)]
<1>1. n \in Nat /\ n + 1 \in Nat /\ DOMAIN O = K
  OBVIOUS
<1>4. \A p : inserted(p) = InsertedBy(O, n, K, p)
  <2> SUFFICES ASSUME NEW p PROVE inserted(p) = InsertedBy(O, n, K, p)
    OBVIOUS
  <2>1. \A i \in K : Adds(O, n, K, p, i) =
          IF IsInsert(O[i]) /\ Min({O[i].position, n}) = p THEN Joined(O[i].text) ELSE <<>>
    BY DEF Adds, Point
  <2>2. [i \in K |-> Adds(O, n, K, p, i)] = [i \in DOMAIN O |->
          IF IsInsert(O[i]) /\ Min({O[i].position, n}) = p THEN Joined(O[i].text) ELSE <<>>]
    BY <1>1, <2>1
  <2> QED BY <2>2 DEF InsertedBy
<1>5. \A p : deleted(p) = DeletedBy(O, K, p)
  BY <1>1 DEF DeletedBy
<1>6. Edited(T, O) = FlattenSeq([j \in 1 .. n + 1 |->
         inserted(j - 1) \o IF j > n \/ deleted(j - 1) THEN <<>> ELSE <<T[j]>>])
  BY DEF Edited
<1> HIDE DEF inserted, deleted
<1>7. ASSUME NEW j \in 1 .. n + 1
      PROVE  (inserted(j - 1) \o IF j > n \/ deleted(j - 1) THEN <<>> ELSE <<T[j]>>)
               = Piece(O, T, K, j)
  BY <1>4, <1>5 DEF Piece, KeptBy, ++
<1>8. Edited(T, O) = FlattenSeq(s)
  BY <1>6, <1>7
<1>9. Pieces(O, T, K, 0) = s
  <2>1. \A j \in 1 .. n + 1 : ~(j <= 0)
    BY <1>1
  <2> QED BY <2>1 DEF Pieces
<1> HIDE DEF s
<1> QED BY <1>8, <1>9 DEF Rest, Remains

-----------------------------------------------------------------------------

(* d carries out the operations of O with a number in K: it is D up to      *)
(* place q, and what comes behind it is as it should be.                    *)
Lands(D, d, O, K, q) ==
  /\ q \in 0 .. Len(ExtractText(D))
  /\ Frontier(D, d, q, Rest(O, ExtractText(D), K, q))
  /\ Behind(O, Len(ExtractText(D)), K, q)

LEMMA BehindLower ==
  ASSUME NEW O \in Seq(Placed), NEW n \in Nat, NEW K \in SUBSET (1 .. Len(O)), NEW q \in Nat,
         Behind(O, n, K, q), NEW r \in 0 .. q
  PROVE  Behind(O, n, K, r)
<1> SUFFICES ASSUME NEW i \in K PROVE Point(O[i], n) >= r
  BY DEF Behind
<1>1. Point(O[i], n) >= q
  BY DEF Behind
<1>2. O[i] \in Placed
  BY SeqFacts
<1>3. Point(O[i], n) \in Nat
  BY <1>2, FrontType
<1> QED BY <1>1, <1>3

LEMMA LandsLower ==
  ASSUME NEW D \in Seq(Seq(Blank)), NEW d \in Seq(Seq(Cells)), NEW O \in Seq(Placed),
         NEW K \in SUBSET (1 .. Len(O)), NEW q \in Nat, Lands(D, d, O, K, q), q # 0
  PROVE  Lands(D, d, O, K, q - 1)
<1> DEFINE T == ExtractText(D)
           R == Rest(O, T, K, q)
<1>1. D \in Seq(Seq(Cells))
  BY BlankCells
<1>2. T \in Seq(Characters)
  BY <1>1, ExtractTextType
<1>3. q \in 0 .. Len(T) /\ Frontier(D, d, q, R) /\ Behind(O, Len(T), K, q)
  BY DEF Lands
<1>4. Frontier(D, d, q - 1, Unbroken(<<T[q]>>) ++ R)
  BY <1>3, Lower
<1> HIDE DEF T
<1>5. Len(T) \in Nat /\ q \in 1 .. Len(T) /\ q - 1 \in 0 .. q /\ q - 1 \in 0 .. Len(T)
  BY <1>2, <1>3
<1>6. Rest(O, T, K, q - 1) = Unbroken(<<T[q]>>) ++ R
  BY <1>2, <1>3, <1>5, RestLower
<1>7. Behind(O, Len(T), K, q - 1)
  BY <1>3, <1>5, BehindLower
<1>8. Frontier(D, d, q - 1, Rest(O, T, K, q - 1))
  BY <1>4, <1>6
<1> QED BY <1>5, <1>7, <1>8 DEF Lands, T

LEMMA LandsTo ==
  ASSUME NEW D \in Seq(Seq(Blank)), NEW d \in Seq(Seq(Cells)), NEW O \in Seq(Placed),
         NEW K \in SUBSET (1 .. Len(O)), NEW q \in Nat, Lands(D, d, O, K, q), NEW r \in 0 .. q
  PROVE  Lands(D, d, O, K, r)
<1> DEFINE P == {j \in Nat : j <= q => Lands(D, d, O, K, q - j)}
<1>1. 0 \in P
  OBVIOUS
<1>2. ASSUME NEW j \in Nat, j \in P PROVE j + 1 \in P
  <2> SUFFICES ASSUME j + 1 <= q PROVE Lands(D, d, O, K, q - (j + 1))
    OBVIOUS
  <2>1. Lands(D, d, O, K, q - j)
    BY <1>2
  <2>2. q - j \in Nat /\ q - j # 0
    OBVIOUS
  <2> DEFINE i == q - j
  <2>3. q - (j + 1) = i - 1
    OBVIOUS
  <2> HIDE DEF i
  <2>4. i \in Nat /\ i # 0 /\ Lands(D, d, O, K, i)
    BY <2>1, <2>2 DEF i
  <2>5. Lands(D, d, O, K, i - 1)
    BY <2>4, LandsLower
  <2> QED BY <2>3, <2>5
<1> HIDE DEF P
<1>3. \A j \in Nat : j \in P
  BY <1>1, <1>2, Induction
<1>4. q - r \in Nat /\ q - r <= q /\ q - (q - r) = r
  OBVIOUS
<1> QED BY <1>3, <1>4 DEF P

LEMMA LandsFormat ==
  ASSUME NEW D \in Seq(Seq(Blank)), NEW d \in Seq(Seq(Cells)), NEW O \in Seq(Placed),
         NEW K \in SUBSET (1 .. Len(O)), NEW q \in Nat, Lands(D, d, O, K, q),
         NEW a \in 1 .. Len(O), O[a].type = "format", O[a].start <= q
  PROVE  Lands(D, FormatText(d, O[a].start, O[a].end), O, K \cup {a}, O[a].start)
<1> DEFINE T == ExtractText(D)
           start == O[a].start
           end == O[a].end
           e == FormatText(d, start, end)
           R == Rest(O, T, K, start)
<1>1. D \in Seq(Seq(Cells)) /\ T \in Seq(Characters)
  BY BlankCells, ExtractTextType
<1>2. ~IsInsert(O[a]) /\ O[a] \in Placed
  BY SeqFacts DEF IsInsert
<1>3. Len(T) \in Nat
  BY <1>1
<1>4. start \in Nat /\ end \in Nat /\ Point(O[a], Len(T)) = start
  BY <1>2, <1>3, FrontType
<1>5. start \in 0 .. q
  BY <1>4
<1>6. Lands(D, d, O, K, start)
  BY <1>5, LandsTo
<1>7. start \in 0 .. Len(T) /\ Frontier(D, d, start, R) /\ Behind(O, Len(T), K, start)
  BY <1>6 DEF Lands
<1>8. Frontier(D, e, start, R)
  BY <1>4, <1>7, FormatLands
<1>9. Rest(O, T, K \cup {a}, start) = R
  <2> HIDE DEF T, start
  <2> QED BY <1>1, RestFormat DEF R
<1>10. Behind(O, Len(T), K \cup {a}, start)
  BY <1>4, <1>7 DEF Behind
<1> QED BY <1>7, <1>8, <1>9, <1>10 DEF Lands

LEMMA LandsDelete ==
  ASSUME NEW D \in Seq(Seq(Blank)), NEW d \in Seq(Seq(Cells)), NEW O \in Seq(Placed),
         NEW K \in SUBSET (1 .. Len(O)), NEW q \in Nat, Lands(D, d, O, K, q),
         NEW a \in 1 .. Len(O), O[a].type = "delete", O[a].start < O[a].end, O[a].end <= q
  PROVE  Lands(D, DeleteText(d, O[a].start, O[a].end), O, K \cup {a}, O[a].start)
<1> DEFINE T == ExtractText(D)
           start == O[a].start
           end == O[a].end
           e == DeleteText(d, start, end)
           R == Rest(O, T, K, end)
<1>1. D \in Seq(Seq(Cells)) /\ T \in Seq(Characters)
  BY BlankCells, ExtractTextType
<1>2. ~IsInsert(O[a]) /\ O[a] \in Placed
  BY SeqFacts DEF IsInsert
<1>3. Len(T) \in Nat
  BY <1>1
<1>4. start \in Nat /\ end \in Nat /\ Point(O[a], Len(T)) = start
  BY <1>2, <1>3, FrontType
<1>5. end \in 0 .. q
  BY <1>4
<1>6. Lands(D, d, O, K, end)
  BY <1>5, LandsTo
<1>7. end \in 0 .. Len(T) /\ Frontier(D, d, end, R) /\ Behind(O, Len(T), K, end)
  BY <1>6 DEF Lands
<1>8. Frontier(D, e, start, R)
  BY <1>4, <1>7, DeleteLands
<1>9. Rest(O, T, K \cup {a}, start) = R
  <2>1. end <= Len(T)
    BY <1>7
  <2> QED BY <1>1, <1>7, <2>1, RestDelete
<1>10. start \in 0 .. end
  BY <1>4
<1>11. Behind(O, Len(T), K, start)
  BY <1>3, <1>4, <1>7, <1>10, BehindLower
<1>12. Behind(O, Len(T), K \cup {a}, start)
  BY <1>4, <1>11 DEF Behind
<1>13. start \in 0 .. Len(T)
  BY <1>4, <1>7
<1> QED BY <1>8, <1>9, <1>12, <1>13 DEF Lands

-----------------------------------------------------------------------------

LEMMA RestBreak ==
  ASSUME NEW O \in Seq(Placed), NEW T \in Seq(Characters), NEW K \in SUBSET (1 .. Len(O)),
         NEW q \in 1 .. Len(T), Behind(O, Len(T), K, q), T[q] = "nl"
  PROVE  Rest(O, T, K, q - 1) = Rest(O, T, K, q)
<1> DEFINE R == Rest(O, T, K, q)
<1>1. Rest(O, T, K, q - 1) = Unbroken(<<T[q]>>) ++ R
  BY RestLower
<1>2. Unbroken(<<T[q]>>) = <<>>
  BY UnbrokenFacts
<1>3. R \in Seq(Characters)
  BY RestType
<1> HIDE DEF R
<1>4. <<>> ++ R = R
  BY <1>3, CatEmpty
<1> QED BY <1>1, <1>2, <1>4 DEF R

(* From the start of a paragraph to the end of the one before.              *)
LEMMA RestFallback ==
  ASSUME NEW D \in Seq(Seq(Blank)), NEW O \in Seq(Placed), NEW K \in SUBSET (1 .. Len(O)),
         NEW p \in 0 .. Len(ExtractText(D)), Behind(O, Len(ExtractText(D)), K, p),
         NEW q \in Nat, Fallback(D, p, q)
  PROVE  /\ Rest(O, ExtractText(D), K, q) = Rest(O, ExtractText(D), K, p)
         /\ Behind(O, Len(ExtractText(D)), K, q)
         /\ q < p
<1> DEFINE T == ExtractText(D)
           n == Len(T)
<1>1. D \in Seq(Seq(Cells)) /\ T \in Seq(Characters)
  BY BlankCells, ExtractTextType
<1>2. PICK i \in 2 .. Len(D) : q = End(D, i - 1) /\ q < p /\ p <= Start(D, i)
  BY DEF Fallback
<1>3. D # <<>>
  BY <1>2
<1>4. Start(D, i) = q + 2
  BY <1>1, <1>2, Bounds
<1>5. T[Start(D, i) - 1] = "nl" /\ T[Start(D, i)] = "nl"
  BY <1>2, <1>3, TextAt
<1>6. T[q + 1] = "nl" /\ T[q + 2] = "nl"
  BY <1>4, <1>5
<1> HIDE DEF T
<1>7. n \in Nat /\ p \in Nat /\ p <= n
  BY <1>1 DEF T
<1>8. p = q + 1 \/ p = q + 2
  <2> DEFINE s == Start(D, i)
  <2>1. s = q + 2 /\ q < p /\ p <= s
    BY <1>2, <1>4
  <2> HIDE DEF s
  <2> QED BY <1>7, <2>1
<1>9. ASSUME NEW r \in 0 .. p PROVE Behind(O, n, K, r)
  BY <1>7, BehindLower DEF T
<1>10. ASSUME NEW r \in 1 .. p, T[r] = "nl" PROVE Rest(O, T, K, r - 1) = Rest(O, T, K, r)
  <2>1. r \in 1 .. Len(T) /\ r \in 0 .. p
    BY <1>7
  <2>2. Behind(O, Len(T), K, r)
    BY <1>9, <2>1
  <2> QED BY <1>1, <1>10, <2>1, <2>2, RestBreak
<1>11. Rest(O, T, K, q) = Rest(O, T, K, p)
  <2>1. CASE p = q + 1
    <3>1. p \in 1 .. p /\ p - 1 = q
      BY <1>7, <2>1
    <3>2. T[p] = "nl"
      BY <1>6, <2>1
    <3> QED BY <1>10, <3>1, <3>2
  <2>2. CASE p = q + 2
    <3>1. p \in 1 .. p /\ p - 1 = q + 1 /\ p - 1 \in 1 .. p /\ (p - 1) - 1 = q
      BY <1>7, <2>2
    <3>2. T[p] = "nl" /\ T[p - 1] = "nl"
      BY <1>6, <2>2, <3>1
    <3>3. Rest(O, T, K, p - 1) = Rest(O, T, K, p)
      BY <1>10, <3>1, <3>2
    <3>4. Rest(O, T, K, (p - 1) - 1) = Rest(O, T, K, p - 1)
      BY <1>10, <3>1, <3>2
    <3> QED BY <3>1, <3>3, <3>4
  <2> QED BY <1>8, <2>1, <2>2
<1>12. q \in 0 .. p
  BY <1>2, <1>7
<1> QED BY <1>2, <1>9, <1>11, <1>12 DEF T

(* The document e with insert a, which went to place p or fell back.         *)
Falls(D, e, O, L, a, p) ==
  \E q \in Nat : Lands(D, e, O, L, q) /\ (q = p \/ (O[a].position = p /\ Fallback(D, p, q)))

NoneAt(O, n, K, p) == \A i \in K : ~(IsInsert(O[i]) /\ Point(O[i], n) = p)

LEMMA LandsInsert ==
  ASSUME NEW D \in Seq(Seq(Blank)), NEW d \in Seq(Seq(Cells)), NEW O \in Seq(Placed),
         NEW K \in SUBSET (1 .. Len(O)), NEW p \in Nat, Lands(D, d, O, K, p),
         NEW a \in 1 .. Len(O), a \notin K, IsInsert(O[a]), Point(O[a], Len(ExtractText(D))) = p,
         NoneAt(O, Len(ExtractText(D)), K, p),
         O[a].position = p \/ (d = D /\ p = Len(ExtractText(D)) /\ O[a].position >= p),
         Splittable(d, O[a].text)
  PROVE  Falls(D, InsertText(d, O[a].position, O[a].text), O, K \cup {a}, a, p)
<1> DEFINE T == ExtractText(D)
           n == Len(T)
           L == K \cup {a}
           e == InsertText(d, O[a].position, O[a].text)
           U == Unbroken(Joined(O[a].text))
           R == Rest(O, T, K, p)
<1>1. D \in Seq(Seq(Cells)) /\ T \in Seq(Characters)
  BY BlankCells, ExtractTextType
<1>2. O[a] \in Placed
  BY SeqFacts
<1>3. O[a].position \in Nat /\ O[a].text \in Texts
  BY <1>2, PlacedFacts DEF Insertions
<1>4. p \in 0 .. n /\ Frontier(D, d, p, R) /\ Behind(O, n, K, p)
  BY DEF Lands
<1>5. PICK q \in Nat : /\ Frontier(D, e, q, U ++ R)
                       /\ q = p \/ (O[a].position = p /\ Fallback(D, p, q))
  <2> HIDE DEF R
  <2>1. Frontier(D, d, p, R)
    BY <1>4
  <2> QED BY <1>3, <2>1, InsertLands
<1>6. Rest(O, T, L, p) = U ++ R
  BY <1>1, <1>4, RestInsert DEF NoneAt
<1>7. L \in SUBSET (1 .. Len(O))
  OBVIOUS
<1>8. Behind(O, n, L, p)
  BY <1>4 DEF Behind
<1>9. CASE q = p
  <2>1. Frontier(D, e, p, Rest(O, T, L, p))
    BY <1>5, <1>6, <1>9
  <2>2. Lands(D, e, O, L, p)
    BY <1>4, <1>8, <2>1 DEF Lands
  <2> QED BY <1>9, <2>2 DEF Falls
<1>10. CASE O[a].position = p /\ Fallback(D, p, q)
  <2> HIDE DEF L
  <2>1. Rest(O, T, L, q) = Rest(O, T, L, p) /\ Behind(O, n, L, q) /\ q < p
    BY <1>4, <1>7, <1>8, <1>10, RestFallback
  <2>2. Frontier(D, e, q, Rest(O, T, L, q))
    BY <1>5, <1>6, <2>1
  <2>3. q \in 0 .. n
    BY <1>4, <2>1
  <2>4. Lands(D, e, O, L, q)
    BY <2>1, <2>2, <2>3 DEF Lands
  <2> QED BY <1>10, <2>4 DEF L, Falls
<1> QED BY <1>5, <1>9, <1>10

-----------------------------------------------------------------------------

(* The end of what an operation touches in a text of n characters.          *)
Reach(op, n) == IF IsInsert(op) THEN Point(op, n) ELSE op.end

(* Every range is one, and within the text.                                 *)
Fit(O, n) ==
  \A i \in 1 .. Len(O) : ~IsInsert(O[i]) => O[i].start < O[i].end /\ O[i].end <= n

LEMMA ReachType ==
  ASSUME NEW op \in Placed, NEW n \in Nat
  PROVE  Reach(op, n) \in Nat /\ Point(op, n) \in Nat
BY FrontType DEF Reach

(* What is applied later touches nothing behind what is applied before it.  *)
LEMMA LaterIsBefore ==
  ASSUME NEW O \in Seq(Placed), NEW n \in Nat, Apart(O, n), Fit(O, n),
         NEW a \in 1 .. Len(O), NEW i \in 1 .. Len(O), a # i, Sooner(O, a, i)
  PROVE  Reach(O[i], n) <= Point(O[a], n)
<1> DEFINE x == O[a]
           y == O[i]
<1>1. x \in Placed /\ y \in Placed
  BY SeqFacts
<1>2. /\ Place(x) > Place(y) \/ Place(x) = Place(y)
      /\ IsInsert(x) /\ ~IsInsert(y) => Place(x) > Place(y)
  <2>1. Place(x) \in Nat /\ Place(y) \in Nat
    BY <1>1, PlacedFacts
  <2>2. \/ Place(x) > Place(y)
        \/ Place(x) = Place(y) /\ ~IsInsert(x) /\ IsInsert(y)
        \/ Place(x) = Place(y) /\ (IsInsert(x) <=> IsInsert(y))
    BY DEF Sooner
  <2> HIDE DEF x, y
  <2>3. Place(x) > Place(y) \/ Place(x) = Place(y)
    BY <2>2
  <2>4. IsInsert(x) /\ ~IsInsert(y) => Place(x) > Place(y)
    BY <2>2
  <2> QED BY <2>3, <2>4
<1>3. CASE ~IsInsert(x)
  <2>1. x.start \in Nat /\ x.end \in Nat /\ Place(x) = x.start /\ Point(x, n) = x.start
    BY <1>1, <1>3, FrontType DEF Place
  <2>2. x.start < x.end /\ x.end <= n
    BY <1>3 DEF Fit
  <2>3. CASE ~IsInsert(y)
    <3>1. y.start \in Nat /\ y.end \in Nat /\ Place(y) = y.start /\ Reach(y, n) = y.end
      BY <1>1, <2>3, FrontType DEF Place, Reach
    <3>2. x.end <= y.start \/ y.end <= x.start
      <4>1. DOMAIN O = 1 .. Len(O)
        OBVIOUS
      <4> QED BY <1>3, <2>3, <4>1 DEF Apart
    <3>3. x.start >= y.start
      <4> HIDE DEF x, y
      <4> QED BY <1>2, <2>1, <3>1
    <3> HIDE DEF x, y
    <3>4. y.end <= x.start
      BY <2>1, <2>2, <3>1, <3>2, <3>3
    <3>5. Reach(y, n) <= Point(x, n)
      BY <2>1, <3>1, <3>4
    <3> QED BY <3>5 DEF x, y
  <2>4. CASE IsInsert(y)
    <3>1. y.position \in Nat /\ Place(y) = y.position
      BY <1>1, <2>4, PlacedFacts DEF Insertions
    <3>2. Reach(y, n) = IF y.position <= n THEN y.position ELSE n
      BY <1>1, <2>4, FrontType DEF Reach
    <3> HIDE DEF x, y
    <3>3. Reach(y, n) <= Point(x, n)
      BY <1>2, <2>1, <2>2, <3>1, <3>2
    <3> QED BY <3>3 DEF x, y
  <2> QED BY <2>3, <2>4
<1>4. CASE IsInsert(x)
  <2>1. x.position \in Nat /\ Place(x) = x.position
    BY <1>1, <1>4, PlacedFacts DEF Insertions
  <2>2. Point(x, n) = IF x.position <= n THEN x.position ELSE n
    BY <1>1, <1>4, FrontType
  <2>3. CASE ~IsInsert(y)
    <3>1. y.start \in Nat /\ y.end \in Nat /\ Place(y) = y.start /\ Reach(y, n) = y.end
      BY <1>1, <2>3, FrontType DEF Place, Reach
    <3>2. x.position <= y.start \/ x.position >= y.end
      <4>1. DOMAIN O = 1 .. Len(O)
        OBVIOUS
      <4> QED BY <1>4, <2>3, <4>1 DEF Apart
    <3>3. y.end <= n
      BY <2>3 DEF Fit
    <3> HIDE DEF x, y
    <3>4. Reach(y, n) <= Point(x, n)
      BY <1>2, <1>4, <2>1, <2>2, <2>3, <3>1, <3>2, <3>3
    <3> QED BY <3>4 DEF x, y
  <2>4. CASE IsInsert(y)
    <3>1. y.position \in Nat /\ Place(y) = y.position
      BY <1>1, <2>4, PlacedFacts DEF Insertions
    <3>2. Reach(y, n) = IF y.position <= n THEN y.position ELSE n
      BY <1>1, <2>4, FrontType DEF Reach
    <3> HIDE DEF x, y
    <3>3. Reach(y, n) <= Point(x, n)
      BY <1>2, <2>1, <2>2, <3>1, <3>2
    <3> QED BY <3>3 DEF x, y
  <2> QED BY <2>3, <2>4
<1> QED BY <1>3, <1>4

(* Only the first operation may insert past the end.                        *)
LEMMA PastTheEnd ==
  ASSUME NEW O \in Seq(Placed), NEW n \in Nat, Apart(O, n), Fit(O, n),
         NEW a \in 1 .. Len(O), NEW i \in 1 .. Len(O), a # i, Sooner(O, i, a), IsInsert(O[a])
  PROVE  O[a].position <= n /\ Point(O[a], n) = O[a].position
<1> DEFINE x == O[a]
           y == O[i]
<1>1. x \in Placed /\ y \in Placed
  BY SeqFacts
<1>2. x.position \in Nat /\ Place(x) = x.position
  BY <1>1, PlacedFacts DEF Insertions
<1>3. Point(x, n) = IF x.position <= n THEN x.position ELSE n
  BY <1>1, FrontType
<1>4. Place(y) \in Nat /\ Place(y) >= x.position
  <2>1. Place(y) \in Nat
    BY <1>1, PlacedFacts
  <2>2. Place(y) > Place(x) \/ Place(y) = Place(x)
    BY DEF Sooner
  <2> HIDE DEF x, y
  <2> QED BY <1>2, <2>1, <2>2
<1>5. CASE ~IsInsert(y)
  <2>1. y.start \in Nat /\ y.end \in Nat /\ Place(y) = y.start
    BY <1>1, <1>5, FrontType DEF Place
  <2>2. y.start < y.end /\ y.end <= n
    BY <1>5 DEF Fit
  <2> HIDE DEF x, y
  <2>3. x.position <= n
    BY <1>2, <1>4, <2>1, <2>2
  <2>4. Point(x, n) = x.position
    BY <1>3, <2>3
  <2> QED BY <2>3, <2>4 DEF x
<1>6. CASE IsInsert(y)
  <2>1. y.position \in Nat /\ Place(y) = y.position
    BY <1>1, <1>6, PlacedFacts DEF Insertions
  <2>2. Min({x.position, n}) # Min({y.position, n})
    <3>1. DOMAIN O = 1 .. Len(O)
      OBVIOUS
    <3> QED BY <1>6, <3>1 DEF Apart
  <2>3. /\ Min({x.position, n}) = IF x.position <= n THEN x.position ELSE n
        /\ Min({y.position, n}) = IF y.position <= n THEN y.position ELSE n
    BY <1>2, <2>1, MinPair
  <2> HIDE DEF x, y
  <2>4. x.position <= n
    BY <1>2, <1>4, <2>1, <2>2, <2>3
  <2>5. Point(x, n) = x.position
    BY <1>3, <2>4
  <2> QED BY <2>4, <2>5 DEF x
<1> QED BY <1>5, <1>6

-----------------------------------------------------------------------------

(* What is left to do touches nothing behind the place up to which the      *)
(* document is as it was.                                                   *)
Done(D, d, O, K) ==
  \E q \in Nat : /\ Lands(D, d, O, K, q)
                 /\ \A i \in (1 .. Len(O)) \ K : Reach(O[i], Len(ExtractText(D))) <= q

(* Operation a comes next.                                                  *)
IsNext(O, K, a) ==
  /\ a \in (1 .. Len(O)) \ K
  /\ \A i \in K : Sooner(O, i, a)
  /\ \A i \in (1 .. Len(O)) \ (K \cup {a}) : Sooner(O, a, i)

Proper(D, O) ==
  /\ Apart(O, Len(ExtractText(D))) /\ Fit(O, Len(ExtractText(D))) /\ ApartAtBreaks(D, O)

LEMMA AtBreakIs ==
  ASSUME NEW D \in Seq(Seq(Cells)), NEW place
  PROVE  AtBreak(D, place) = {i \in 2 .. Len(D) : End(D, i - 1) < place /\ place <= Start(D, i)}
BY DEF AtBreak, Start, End

(* What falls back to the paragraph before is still behind what is left.    *)
LEMMA FallbackClear ==
  ASSUME NEW D \in Seq(Seq(Cells)), NEW O \in Seq(Placed), NEW n \in Nat,
         Apart(O, n), Fit(O, n), ApartAtBreaks(D, O),
         NEW a \in 1 .. Len(O), IsInsert(O[a]), NEW q \in Nat, Fallback(D, O[a].position, q),
         NEW i \in 1 .. Len(O), a # i, Sooner(O, a, i), Point(O[a], n) = O[a].position
  PROVE  Reach(O[i], n) <= q
<1> DEFINE p == O[a].position
           r == Reach(O[i], n)
<1>1. O[a] \in Placed /\ O[i] \in Placed
  BY SeqFacts
<1>2. r \in Nat /\ p \in Nat
  BY <1>1, ReachType, PlacedFacts DEF Insertions
<1>3. r <= p
  BY LaterIsBefore
<1>4. PICK j \in 2 .. Len(D) : q = End(D, j - 1) /\ q < p /\ p <= Start(D, j)
  BY DEF Fallback
<1>5. r = IF IsInsert(O[i]) THEN O[i].position ELSE O[i].end
  BY PastTheEnd DEF Reach
<1>6. AtBreak(D, p) \cap AtBreak(D, r) = {}
  <2>1. DOMAIN O = 1 .. Len(O)
    OBVIOUS
  <2> HIDE DEF r
  <2> QED BY <1>5, <2>1 DEF ApartAtBreaks
<1>7. j \in AtBreak(D, p)
  <2> HIDE DEF p
  <2> QED BY <1>4, AtBreakIs
<1>8. r > q => j \in AtBreak(D, r)
  <2> SUFFICES ASSUME r > q PROVE j \in AtBreak(D, r)
    OBVIOUS
  <2>1. D \in Seq(Seq(Cells)) /\ Start(D, j) \in Nat
    BY Bounds
  <2> HIDE DEF p, r
  <2>2. End(D, j - 1) < r /\ r <= Start(D, j)
    BY <1>2, <1>3, <1>4, <2>1
  <2> QED BY <2>2, AtBreakIs
<1> HIDE DEF p, r
<1>9. ~(r > q)
  BY <1>6, <1>7, <1>8
<1>10. r <= q
  BY <1>2, <1>9
<1> QED BY <1>10 DEF r

LEMMA InsertDone ==
  ASSUME NEW D \in Seq(Seq(Blank)), NEW d \in Seq(Seq(Cells)), NEW O \in Seq(Placed),
         NEW K \in SUBSET (1 .. Len(O)), NEW a, IsNext(O, K, a), Proper(D, O),
         Done(D, d, O, K), K = {} => d = D, IsInsert(O[a]), Splittable(d, O[a].text)
  PROVE  Done(D, InsertText(d, O[a].position, O[a].text), O, K \cup {a})
<1> DEFINE n == Len(ExtractText(D))
           p == Point(O[a], n)
           e == InsertText(d, O[a].position, O[a].text)
<1>1. D \in Seq(Seq(Cells)) /\ n \in Nat
  BY BlankCells, ExtractTextType
<1>2. a \in 1 .. Len(O) /\ a \notin K /\ O[a] \in Placed
  BY SeqFacts DEF IsNext
<1>3. Apart(O, n) /\ Fit(O, n) /\ ApartAtBreaks(D, O)
  BY DEF Proper
<1>4. p \in Nat /\ p <= n /\ O[a].position \in Nat
      /\ p = (IF O[a].position <= n THEN O[a].position ELSE n)
  <2>1. O[a].position \in Nat
    BY <1>2, PlacedFacts DEF Insertions
  <2>2. p = IF O[a].position <= n THEN O[a].position ELSE n
    BY <1>1, <1>2, FrontType
  <2> HIDE DEF p, n
  <2> QED BY <1>1, <2>1, <2>2
<1>5. PICK q \in Nat : Lands(D, d, O, K, q) /\ \A i \in (1 .. Len(O)) \ K : Reach(O[i], n) <= q
  BY DEF Done
<1>6. p <= q
  BY <1>2, <1>5 DEF Reach
<1>7. p \in 0 .. q
  <2> HIDE DEF p
  <2> QED BY <1>4, <1>6
<1>8. Lands(D, d, O, K, p)
  BY <1>5, <1>7, LandsTo
<1>9. \A i \in K : ~(IsInsert(O[i]) /\ Point(O[i], n) = p)
  <2> SUFFICES ASSUME NEW i \in K, IsInsert(O[i]), Point(O[i], n) = p PROVE FALSE
    OBVIOUS
  <2>1. i # a /\ DOMAIN O = 1 .. Len(O) /\ i \in 1 .. Len(O)
    BY <1>2
  <2>2. Min({O[i].position, n}) # Min({O[a].position, n})
    BY <1>2, <1>3, <2>1 DEF Apart
  <2> QED BY <2>2 DEF Point
<1>10. O[a].position = p \/ (d = D /\ p = n /\ O[a].position >= p)
  <2>1. CASE K = {}
    BY <1>1, <1>4, <2>1
  <2>2. CASE K # {}
    <3>1. PICK i \in K : TRUE
      BY <2>2
    <3>2. i \in 1 .. Len(O) /\ i # a /\ Sooner(O, i, a)
      BY <1>2, <3>1 DEF IsNext
    <3> QED BY <1>1, <1>2, <1>3, <3>2, PastTheEnd
  <2> QED BY <2>1, <2>2
<1>11. PICK r \in Nat : /\ Lands(D, e, O, K \cup {a}, r)
                        /\ r = p \/ (O[a].position = p /\ Fallback(D, p, r))
  <2>1. Point(O[a], Len(ExtractText(D))) = p
    OBVIOUS
  <2>2. NoneAt(O, Len(ExtractText(D)), K, p)
    BY <1>9 DEF NoneAt
  <2> HIDE DEF p
  <2>3. p \in Nat
    BY <1>4
  <2>4. Falls(D, InsertText(d, O[a].position, O[a].text), O, K \cup {a}, a, p)
    BY <1>2, <1>8, <1>10, <2>1, <2>2, <2>3, LandsInsert
  <2> QED BY <2>4 DEF Falls
<1>12. \A i \in (1 .. Len(O)) \ (K \cup {a}) : Reach(O[i], n) <= r
  <2> SUFFICES ASSUME NEW i \in (1 .. Len(O)) \ (K \cup {a}) PROVE Reach(O[i], n) <= r
    OBVIOUS
  <2>1. i \in 1 .. Len(O) /\ i # a /\ Sooner(O, a, i)
    BY DEF IsNext
  <2>2. CASE r = p
    BY <1>1, <1>2, <1>3, <2>1, <2>2, LaterIsBefore
  <2>3. CASE O[a].position = p /\ Fallback(D, p, r)
    BY <1>1, <1>2, <1>3, <2>1, <2>3, FallbackClear
  <2> QED BY <1>11, <2>2, <2>3
<1> QED BY <1>11, <1>12 DEF Done

LEMMA RangeDone ==
  ASSUME NEW D \in Seq(Seq(Blank)), NEW d \in Seq(Seq(Cells)), NEW O \in Seq(Placed),
         NEW K \in SUBSET (1 .. Len(O)), NEW a, IsNext(O, K, a), Proper(D, O),
         Done(D, d, O, K), ~IsInsert(O[a])
  PROVE  Done(D, Apply(d, O[a]), O, K \cup {a})
<1> DEFINE n == Len(ExtractText(D))
           start == O[a].start
           end == O[a].end
<1>1. D \in Seq(Seq(Cells)) /\ n \in Nat
  BY BlankCells, ExtractTextType
<1>2. a \in 1 .. Len(O) /\ a \notin K /\ O[a] \in Placed
  BY SeqFacts DEF IsNext
<1>3. Apart(O, n) /\ Fit(O, n)
  BY DEF Proper
<1>4. start \in Nat /\ end \in Nat /\ start < end /\ Point(O[a], n) = start
  BY <1>1, <1>2, <1>3, FrontType DEF Fit
<1>5. PICK q \in Nat : Lands(D, d, O, K, q) /\ \A i \in (1 .. Len(O)) \ K : Reach(O[i], n) <= q
  BY DEF Done
<1>6. end <= q /\ start <= q
  <2>1. end <= q
    BY <1>2, <1>5 DEF Reach
  <2> HIDE DEF start, end
  <2> QED BY <1>4, <2>1
<1>7. Lands(D, Apply(d, O[a]), O, K \cup {a}, start)
  <2>1. CASE O[a].type = "delete"
    <3>1. Lands(D, DeleteText(d, start, end), O, K \cup {a}, start)
      BY <1>2, <1>4, <1>5, <1>6, <2>1, LandsDelete
    <3> QED BY <1>2, <2>1, <3>1, PlacedApply
  <2>2. CASE O[a].type = "format"
    <3>1. Lands(D, FormatText(d, start, end), O, K \cup {a}, start)
      BY <1>2, <1>5, <1>6, <2>2, LandsFormat
    <3> QED BY <1>2, <2>2, <3>1, PlacedApply
  <2> QED BY <1>2, <2>1, <2>2, PlacedApply DEF IsInsert
<1>8. \A i \in (1 .. Len(O)) \ (K \cup {a}) : Reach(O[i], n) <= start
  <2> SUFFICES ASSUME NEW i \in (1 .. Len(O)) \ (K \cup {a}) PROVE Reach(O[i], n) <= start
    OBVIOUS
  <2>1. i \in 1 .. Len(O) /\ i # a /\ Sooner(O, a, i)
    BY DEF IsNext
  <2>2. Reach(O[i], n) <= Point(O[a], n)
    BY <1>1, <1>2, <1>3, <2>1, LaterIsBefore
  <2> QED BY <1>4, <2>2
<1> QED BY <1>4, <1>7, <1>8 DEF Done

-----------------------------------------------------------------------------

(* Without a format no mark appears.                                        *)
LEMMA TypedBare ==
  ASSUME NEW s \in Seq(Characters)
  PROVE  Typed(s, FALSE) \in Seq(Blank) /\ Plain(s) \in Seq(Blank)
<1>1. Typed(s, FALSE) \in [1 .. Len(s) -> Blank]
  BY DEF Typed, Blank, Cells
<1>2. Plain(s) \in [1 .. Len(s) -> Blank]
  BY DEF Plain, Blank, Cells
<1>3. Len(s) \in Nat
  OBVIOUS
<1> QED BY <1>1, <1>2, <1>3, FunIsSeq

LEMMA YInsertBare ==
  ASSUME NEW b \in Seq(Blank), NEW offset \in Nat, NEW s \in Seq(Characters)
  PROVE  YInsert(b, offset, s) \in Seq(Blank)
<1> DEFINE k == IF offset <= Len(b) THEN offset ELSE Len(b)
           bold == k > 0 /\ b[k].bold
<1>1. b \in Seq(Cells)
  BY BlankCells
<1>2. /\ YInsert(b, offset, s) = Slice(b, 0, k) ++ Typed(s, bold) ++ Slice(b, k, Len(b))
      /\ bold \in BOOLEAN
  BY <1>1, YInsertValue
<1>3. k \in 0 .. Len(b)
  OBVIOUS
<1>4. bold = FALSE
  <2> HIDE DEF k
  <2>1. k > 0 => b[k] \in Blank
    BY <1>3
  <2> QED BY <1>2, <2>1 DEF Blank
<1>5. Slice(b, 0, k) \in Seq(Blank) /\ Slice(b, k, Len(b)) \in Seq(Blank)
  BY <1>3, Parts
<1>6. Typed(s, bold) \in Seq(Blank)
  BY <1>4, TypedBare
<1> DEFINE x == Slice(b, 0, k)
           y == Typed(s, bold)
           z == Slice(b, k, Len(b))
<1> HIDE DEF x, y, z
<1>7. x \in Seq(Blank) /\ y \in Seq(Blank) /\ z \in Seq(Blank)
  BY <1>5, <1>6 DEF x, y, z
<1>8. x ++ y ++ z \in Seq(Blank)
  BY <1>7, CatType
<1> QED BY <1>2, <1>8 DEF x, y, z

LEMMA YDeleteBare ==
  ASSUME NEW b \in Seq(Blank), NEW offset \in Nat, NEW length \in Nat
  PROVE  YDelete(b, offset, length) \in Seq(Blank)
<1> DEFINE x == Slice(b, 0, offset)
           y == Slice(b, offset + length, Len(b))
<1>1. x \in Seq(Blank)
  BY SliceFacts
<1>2. offset + length \in Nat /\ Len(b) \in Int
  OBVIOUS
<1>3. y \in Seq(Blank)
  BY <1>2, SliceFacts
<1> HIDE DEF x, y
<1>4. x ++ y \in Seq(Blank)
  BY <1>1, <1>3, CatType
<1> QED BY <1>4 DEF x, y, YDelete, ++

LEMMA FreshBare ==
  ASSUME NEW segments \in Texts, NEW tail \in Seq(Characters)
  PROVE  Fresh(segments, tail) \in Seq(Seq(Blank))
<1> DEFINE m == Len(segments) - 1
<1>1. m \in Nat /\ segments \in Seq(Seq(Characters))
  BY FreshType
<1>2. ASSUME NEW i \in 1 .. m PROVE Fresh(segments, tail)[i] \in Seq(Blank)
  <2> DEFINE c == segments[i + 1]
             x == IF i < m THEN c ELSE c ++ tail
  <2>1. Fresh(segments, tail)[i] = Plain(x)
    BY DEF Fresh, ++
  <2>2. c \in Seq(Characters)
    BY <1>1
  <2> HIDE DEF c
  <2>3. x \in Seq(Characters)
    BY <2>2, CatType
  <2> HIDE DEF x
  <2> QED BY <2>1, <2>3, TypedBare
<1>3. Fresh(segments, tail) = [i \in 1 .. m |-> Fresh(segments, tail)[i]]
  BY DEF Fresh
<1> HIDE DEF m
<1>4. Fresh(segments, tail) \in [1 .. m -> Seq(Blank)]
  BY <1>2, <1>3
<1> QED BY <1>1, <1>4, FunIsSeq

LEMMA InsertTextBare ==
  ASSUME NEW d \in Seq(Seq(Blank)), NEW position \in Nat, NEW segments \in Texts
  PROVE  InsertText(d, position, segments) \in Seq(Seq(Blank))
<1> DEFINE t == Target(d, position)
           o == Offset(d, position)
<1>1. d \in Seq(Seq(Cells)) /\ segments \in Seq(Seq(Characters)) /\ segments[1] \in Seq(Characters)
  <2>1. d \in Seq(Seq(Cells))
    BY BlankCells
  <2>2. <<>> \in Seq(Characters)
    OBVIOUS
  <2>3. segments \in Seq(Seq(Characters)) /\ segments[1] \in Seq(Characters)
    BY <2>2, FreshType
  <2> QED BY <2>1, <2>3
<1>2. CASE d = <<>>
  <2>1. Paragraphs(segments) \in [1 .. Len(segments) -> Seq(Blank)]
    <3>1. ASSUME NEW i \in 1 .. Len(segments) PROVE Plain(segments[i]) \in Seq(Blank)
      <4>1. segments[i] \in Seq(Characters)
        BY <1>1
      <4> QED BY <4>1, TypedBare
    <3> QED BY <3>1 DEF Paragraphs
  <2>2. Len(segments) \in Nat
    BY <1>1
  <2>3. Paragraphs(segments) \in Seq(Seq(Blank))
    BY <2>1, <2>2, FunIsSeq
  <2>4. InsertText(d, position, segments) = Paragraphs(segments)
    BY <1>1, <1>2, InsertTextValue, ZenonT(30)
  <2> QED BY <2>3, <2>4
<1>3. CASE d # <<>>
  <2>1. t \in 1 .. Len(d) /\ o \in 0 .. Len(Render(d[t]))
    BY <1>1, <1>3, TargetType
  <2>2. d[t] \in Seq(Blank)
    BY <2>1
  <2> HIDE DEF t, o
  <2> DEFINE b == d[t]
             l == Len(Render(b))
  <2>3. b \in Seq(Blank) /\ b \in Seq(Cells) /\ o \in Nat
    BY <2>1, <2>2, BlankCells
  <2>4. l \in Nat /\ o <= l
    BY <2>1, <2>3, RenderLength
  <2>5. CASE Len(segments) = 1
    <3>1. YInsert(b, o, segments[1]) \in Seq(Blank)
      BY <1>1, <2>3, YInsertBare
    <3>2. [d EXCEPT ![t] = YInsert(b, o, segments[1])] \in Seq(Seq(Blank))
      BY <2>1, <3>1, ExceptSeq
    <3>3. InsertText(d, position, segments) = [d EXCEPT ![t] = YInsert(b, o, segments[1])]
      BY <1>1, <1>3, <2>5, InsertTextValue DEF t, o
    <3> QED BY <3>2, <3>3
  <2>6. CASE Len(segments) # 1
    <3> DEFINE tail == Slice(Render(d[t]), o, Len(Render(d[t])))
               kept == YDelete(d[t], o, Len(Render(d[t])) - o)
               w == YInsert(kept, o, segments[1])
               f == Fresh(segments, tail)
               x == SubSeq(d, 1, t - 1)
               y == SubSeq(d, t + 1, Len(d))
    <3>1. InsertBlocks(d, t, o, segments) = x ++ <<w>> ++ f ++ y /\ tail \in Seq(Characters)
      BY <1>1, <2>1, InsertBlocksValue
    <3>2. kept \in Seq(Blank)
      <4>1. l - o \in Nat
        BY <2>3, <2>4
      <4> QED BY <2>3, <4>1, YDeleteBare
    <3>3. w \in Seq(Blank)
      <4> HIDE DEF kept
      <4> QED BY <1>1, <2>3, <3>2, YInsertBare
    <3>4. f \in Seq(Seq(Blank))
      <4> HIDE DEF tail
      <4> QED BY <3>1, FreshBare
    <3>5. x \in Seq(Seq(Blank)) /\ y \in Seq(Seq(Blank))
      BY <2>1, SubSeqProperties
    <3> DEFINE v == <<w>>
    <3>6. v \in Seq(Seq(Blank))
      BY <3>3
    <3> HIDE DEF v, f, x, y
    <3>7. x ++ v ++ f ++ y \in Seq(Seq(Blank))
      BY <3>4, <3>5, <3>6, CatType
    <3>8. InsertBlocks(d, t, o, segments) \in Seq(Seq(Blank))
      BY <3>1, <3>7 DEF v, f, x, y
    <3> QED BY <1>1, <1>3, <2>6, <3>8, InsertTextValue DEF t, o
  <2> QED BY <2>5, <2>6
<1> QED BY <1>2, <1>3

LEMMA DeleteTextBare ==
  ASSUME NEW d \in Seq(Seq(Blank)), NEW start \in Nat, NEW end \in Nat
  PROVE  DeleteText(d, start, end) \in Seq(Seq(Blank))
<1> DEFINE c == Cleared(d, start, end)
           o == Overlaps(d, start, end)
           affected == DOMAIN o
<1>1. d \in Seq(Seq(Cells)) /\ Len(d) \in Nat /\ DOMAIN d = 1 .. Len(d)
  BY BlankCells
<1>2. /\ c \in Seq(Seq(Cells)) /\ Len(c) = Len(d)
      /\ DeleteText(d, start, end) = PruneEmptyBlocks(c, affected)
  BY <1>1, ClearedType
<1>3. affected \in SUBSET (1 .. Len(c))
  <2>1. affected = {i \in 1 .. Len(d) : From(d, start, i) < Upto(d, end, i)}
    BY <1>1, OverlapsValue
  <2> QED BY <1>2, <2>1
<1>4. ASSUME NEW i \in 1 .. Len(d) PROVE c[i] \in Seq(Blank)
  <2>1. d[i] \in Seq(Blank)
    OBVIOUS
  <2>2. CASE i \in affected
    <3>1. o[i].offset \in Nat /\ o[i].length \in Nat
      BY <1>1, <2>2, OverlapsValue
    <3>2. YDelete(d[i], o[i].offset, o[i].length) \in Seq(Blank)
      BY <2>1, <3>1, YDeleteBare
    <3>3. c[i] = YDelete(d[i], o[i].offset, o[i].length)
      BY <1>1, <2>2 DEF Cleared
    <3> QED BY <3>2, <3>3
  <2>3. CASE i \notin affected
    <3>1. c[i] = d[i]
      BY <1>1, <2>3 DEF Cleared
    <3> QED BY <2>1, <3>1
  <2> QED BY <2>2, <2>3
<1> HIDE DEF c, affected
<1> DEFINE s == [i \in 1 .. Len(c) |-> IF i \in Gone(c, affected) THEN <<>> ELSE <<c[i]>>]
<1>5. PruneEmptyBlocks(c, affected) = FlattenSeq(s)
  BY <1>2, <1>3, PruneType
<1>6. s \in [1 .. Len(c) -> Seq(Seq(Blank))]
  <2>1. ASSUME NEW i \in 1 .. Len(c) PROVE <<c[i]>> \in Seq(Seq(Blank))
    <3>1. c[i] \in Seq(Blank)
      BY <1>2, <1>4
    <3> QED BY <3>1
  <2> QED BY <2>1
<1> HIDE DEF s
<1>7. s \in Seq(Seq(Seq(Blank)))
  BY <1>1, <1>2, <1>6, FunIsSeq
<1>8. FlattenSeq(s) \in Seq(Seq(Blank))
  BY <1>7, FlattenType
<1> QED BY <1>2, <1>5, <1>8

-----------------------------------------------------------------------------

(* The text of a document is what comes behind its start.                   *)
LEMMA PlainLeft ==
  ASSUME NEW d \in Seq(Seq(Cells)), d # <<>>
  PROVE  PlainText(d) = Left(d, 1, 0)
<1> DEFINE s == Map([b \in Seq(Cells) |-> Chars(b)], d)
<1>1. Len(d) \in Nat \ {0} /\ DOMAIN d = 1 .. Len(d) /\ \A i \in 1 .. Len(d) : d[i] \in Seq(Cells)
  BY SeqFacts
<1>2. s = [i \in DOMAIN d |-> [k \in DOMAIN d[i] |-> d[i][k].ch]]
  <2>1. ASSUME NEW i \in 1 .. Len(d)
        PROVE  s[i] = [k \in DOMAIN d[i] |-> d[i][k].ch]
    <3>1. s[i] = Chars(d[i])
      BY <1>1 DEF Map
    <3>2. Chars(d[i]) = [k \in DOMAIN d[i] |-> d[i][k].ch]
      <4>1. d[i] \in Seq(Cells)
        BY <1>1
      <4>2. \A k \in 1 .. Len(d[i]) : d[i][k] \in Cells
        BY <4>1
      <4>3. DOMAIN d[i] = 1 .. Len(d[i])
        BY <4>1
      <4> QED BY <4>2, <4>3 DEF Chars, Map, CharOf
    <3> QED BY <3>1, <3>2
  <2>2. s = [i \in 1 .. Len(d) |-> s[i]]
    BY DEF Map
  <2> HIDE DEF s
  <2> QED BY <1>1, <2>1, <2>2
<1>3. ASSUME NEW i \in 1 .. Len(d)
      PROVE  s[i] \in Seq(Characters) /\ s[i] = Chars(d[i])
  <2>1. s[i] = Chars(d[i])
    BY <1>1 DEF Map
  <2> HIDE DEF s
  <2> QED BY <1>1, <2>1, CharsFacts
<1>4. s \in [1 .. Len(d) -> Seq(Characters)]
  <2>1. s = [i \in 1 .. Len(d) |-> s[i]]
    BY DEF Map
  <2> HIDE DEF s
  <2> QED BY <1>3, <2>1
<1>5. PlainText(d) = Joined(s)
  BY <1>2 DEF PlainText
<1> HIDE DEF s
<1>6. s \in Seq(Seq(Characters)) /\ Len(s) = Len(d) /\ s # <<>>
  BY <1>1, <1>4, FunIsSeq
<1> DEFINE f == [i \in 1 .. Len(s) - 1 |-> Break ++ s[i + 1]]
           r == SubSeq(d, 2, Len(d))
           g == Map(LineOf, r)
           n == Len(d) - 1
<1>7. f \in Seq(Seq(Characters)) /\ Len(f) = n /\ Joined(s) = s[1] ++ FlattenSeq(f)
  BY <1>6, JoinedLines
<1>8. r \in Seq(Seq(Cells)) /\ Len(r) = n /\ \A i \in 1 .. n : r[i] = d[1 + i]
  <2>1. 1 \in 0 .. Len(d) /\ 1 + 1 = 2
    BY <1>1
  <2>2. /\ SubSeq(d, 1 + 1, Len(d)) \in Seq(Seq(Cells))
        /\ Len(SubSeq(d, 1 + 1, Len(d))) = Len(d) - 1
        /\ \A i \in 1 .. Len(d) - 1 : SubSeq(d, 1 + 1, Len(d))[i] = d[1 + i]
    BY <2>1, Halves, ZenonT(30)
  <2> QED BY <2>1, <2>2
<1> HIDE DEF r
<1>9. g \in Seq(Seq(Characters)) /\ Len(g) = n /\ \A i \in 1 .. n : g[i] = LineOf[r[i]]
  BY <1>8, LineGoes, MapType
<1>10. \A i \in 1 .. n : f[i] = g[i]
  <2> SUFFICES ASSUME NEW i \in 1 .. n PROVE f[i] = g[i]
    OBVIOUS
  <2>1. f[i] = Break ++ s[i + 1] /\ i + 1 \in 1 .. Len(d) /\ 1 + i = i + 1
    BY <1>1, <1>6
  <2>2. g[i] = LineOf[d[i + 1]]
    BY <1>8, <1>9, <2>1
  <2> HIDE DEF f, g
  <2> QED BY <1>1, <1>3, <2>1, <2>2, LineGoes
<1> HIDE DEF f, g
<1>11. f = g
  <2>1. n \in Nat
    BY <1>1
  <2> HIDE DEF n
  <2> QED BY <1>7, <1>9, <1>10, <2>1, SeqEqual
<1>12. Slice(d[1], 0, Len(d[1])) = d[1] /\ s[1] = Chars(d[1])
  BY <1>1, <1>3, SliceEnds
<1> QED BY <1>5, <1>7, <1>11, <1>12 DEF Left, Lines, g, r

LEMMA PlainPure ==
  ASSUME NEW d \in Seq(Seq(Cells))
  PROVE  Unbroken(PlainText(d)) = PureText(d)
<1>1. CASE d = <<>>
  <2> DEFINE s == [i \in DOMAIN d |-> [k \in DOMAIN d[i] |-> d[i][k].ch]]
  <2>1. s = <<>> /\ PlainText(d) = Joined(s)
    BY <1>1 DEF PlainText
  <2>2. Joined(<<>>) = <<>>
    BY FlattenEmpty DEF Joined
  <2> QED BY <1>1, <2>1, <2>2, UnbrokenFacts, PureTextFacts
<1>2. CASE d # <<>>
  <2>1. 1 \in 1 .. Len(d) /\ 1 \in 1 .. Len(d) + 1
    BY <1>2
  <2>2. Unbroken(PlainText(d)) = After(d, 1, 0)
    BY <1>2, <2>1, PlainLeft, LeftPure
  <2>3. After(d, 1, 0) = PureText(SubSeq(d, 1, Len(d))) /\ SubSeq(d, 1, Len(d)) = d
    BY <2>1, AfterNone, SubSeqFull
  <2> QED BY <2>2, <2>3
<1> QED BY <1>1, <1>2

(* The document up to place 0: all of it comes behind.                      *)
LEMMA FrontierAll ==
  ASSUME NEW D \in Seq(Seq(Blank)), NEW d \in Seq(Seq(Cells)), NEW R, Frontier(D, d, 0, R)
  PROVE  PureText(d) = R
<1>1. PICK t \in Nat, o \in Nat : At(D, t, o, 0) /\ Agrees(D, d, t, o) /\ R = After(d, t, o)
  BY DEF Frontier
<1>2. t \in 1 .. Len(D) /\ D \in Seq(Seq(Cells)) /\ D # <<>>
  BY <1>1, SameUpTo
<1>3. t > 1 => Start(D, t) >= 2
  <2> SUFFICES ASSUME t > 1 PROVE Start(D, t) >= 2
    OBVIOUS
  <2>1. t \in 2 .. Len(D) /\ t - 1 \in 1 .. Len(D)
    BY <1>2
  <2>2. Start(D, t) = End(D, t - 1) + 2 /\ End(D, t - 1) \in Nat
    BY <1>2, <2>1, Bounds
  <2> QED BY <2>2
<1>4. Start(D, t) \in Nat
  BY <1>2, Bounds
<1>5. t = 1 /\ o = 0
  BY <1>1, <1>2, <1>3, <1>4 DEF At
<1>6. 1 \in 1 .. Len(d)
  BY <1>1, <1>5 DEF Agrees
<1>7. After(d, 1, 0) = PureText(SubSeq(d, 1, Len(d)))
  <2>1. 1 \in 1 .. Len(d) + 1
    BY <1>6
  <2> QED BY <2>1, AfterNone
<1>8. SubSeq(d, 1, Len(d)) = d
  BY SubSeqFull
<1> QED BY <1>1, <1>5, <1>7, <1>8

-----------------------------------------------------------------------------

(* Without a format the document stays without marks; with one, no insert   *)
(* splits a paragraph.                                                      *)
Bare(O, d) == (\E i \in 1 .. Len(O) : O[i].type = "format") \/ d \in Seq(Seq(Blank))

OneSegment(O) ==
  \A i, j \in 1 .. Len(O) : O[i].type = "format" /\ IsInsert(O[j]) => Len(O[j].text) = 1

LEMMA ApplyBare ==
  ASSUME NEW d \in Seq(Seq(Cells)), NEW O \in Seq(Placed), Bare(O, d), NEW a \in 1 .. Len(O)
  PROVE  Bare(O, Apply(d, O[a]))
<1>1. O[a] \in Placed
  BY SeqFacts
<1>2. CASE \E i \in 1 .. Len(O) : O[i].type = "format"
  BY <1>2 DEF Bare
<1>3. CASE ~\E i \in 1 .. Len(O) : O[i].type = "format"
  <2>1. d \in Seq(Seq(Blank)) /\ O[a].type # "format"
    BY <1>3 DEF Bare
  <2>2. CASE O[a].type = "insert"
    <3>1. O[a].position \in Nat /\ O[a].text \in Texts
      BY <1>1, <2>2, PlacedFacts DEF Insertions, IsInsert
    <3>2. InsertText(d, O[a].position, O[a].text) \in Seq(Seq(Blank))
      BY <2>1, <3>1, InsertTextBare
    <3> QED BY <1>1, <2>2, <3>2, PlacedApply DEF Bare
  <2>3. CASE O[a].type = "delete"
    <3>1. O[a].start \in Nat /\ O[a].end \in Nat
      BY <1>1, <2>3, PlacedFacts DEF PlacedRanges, IsInsert
    <3>2. DeleteText(d, O[a].start, O[a].end) \in Seq(Seq(Blank))
      BY <2>1, <3>1, DeleteTextBare
    <3> QED BY <1>1, <2>3, <3>2, PlacedApply DEF Bare
  <2> QED BY <1>1, <2>1, <2>2, <2>3, PlacedApply
<1> QED BY <1>2, <1>3

LEMMA ApplyDone ==
  ASSUME NEW D \in Seq(Seq(Blank)), NEW d \in Seq(Seq(Cells)), NEW O \in Seq(Placed),
         NEW K \in SUBSET (1 .. Len(O)), NEW a, IsNext(O, K, a), Proper(D, O), OneSegment(O),
         Done(D, d, O, K), K = {} => d = D, Bare(O, d)
  PROVE  Done(D, Apply(d, O[a]), O, K \cup {a})
<1>1. a \in 1 .. Len(O)
  BY DEF IsNext
<1>2. O[a] \in Placed
  BY <1>1, SeqFacts
<1>3. CASE ~IsInsert(O[a])
  BY <1>3, RangeDone
<1>4. CASE IsInsert(O[a])
  <2>1. Splittable(d, O[a].text)
    BY <1>1, <1>4 DEF Splittable, Bare, OneSegment
  <2>2. Done(D, InsertText(d, O[a].position, O[a].text), O, K \cup {a})
    BY <1>4, <2>1, InsertDone
  <2>3. Apply(d, O[a]) = InsertText(d, O[a].position, O[a].text)
    BY <1>2, <1>4, PlacedApply DEF IsInsert
  <2> QED BY <2>2, <2>3
<1> QED BY <1>3, <1>4

LEMMA ReachAll ==
  ASSUME NEW D \in Seq(Seq(Blank)), NEW O \in Seq(Placed), Proper(D, O),
         NEW i \in 1 .. Len(O)
  PROVE  Reach(O[i], Len(ExtractText(D))) <= Len(ExtractText(D))
<1> DEFINE n == Len(ExtractText(D))
<1>1. n \in Nat
  BY BlankCells, ExtractTextType
<1>2. O[i] \in Placed
  BY SeqFacts
<1>3. CASE IsInsert(O[i])
  <2>1. O[i].position \in Nat
    BY <1>2, <1>3, PlacedFacts DEF Insertions
  <2>2. Reach(O[i], n) = IF O[i].position <= n THEN O[i].position ELSE n
    BY <1>1, <1>2, <1>3, FrontType DEF Reach
  <2> HIDE DEF n
  <2>3. Reach(O[i], n) <= n
    BY <1>1, <2>1, <2>2
  <2> QED BY <2>3 DEF n
<1>4. CASE ~IsInsert(O[i])
  BY <1>4 DEF Reach, Proper, Fit
<1> QED BY <1>3, <1>4

LEMMA DoneFirst ==
  ASSUME NEW D \in Seq(Seq(Blank)), D # <<>>, NEW O \in Seq(Placed), Proper(D, O)
  PROVE  Done(D, D, O, {})
<1> DEFINE T == ExtractText(D)
           n == Len(T)
<1>1. D \in Seq(Seq(Cells)) /\ T \in Seq(Characters) /\ n \in Nat
  BY BlankCells, ExtractTextType
<1>2. Frontier(D, D, n, <<>>)
  BY FirstFrontier
<1>3. Rest(O, T, {}, n) = <<>>
  BY <1>1, RestNone
<1>4. Behind(O, n, {}, n)
  BY DEF Behind
<1>5. Lands(D, D, O, {}, n)
  <2>1. n \in 0 .. n
    BY <1>1
  <2> QED BY <1>2, <1>3, <1>4, <2>1 DEF Lands
<1>6. \A i \in (1 .. Len(O)) \ {} : Reach(O[i], n) <= n
  BY ReachAll
<1> QED BY <1>1, <1>5, <1>6 DEF Done

LEMMA DoneLast ==
  ASSUME NEW D \in Seq(Seq(Blank)), NEW d \in Seq(Seq(Cells)), NEW O \in Seq(Placed),
         Done(D, d, O, 1 .. Len(O))
  PROVE  Unbroken(PlainText(d)) = Unbroken(Edited(ExtractText(D), O))
<1> DEFINE T == ExtractText(D)
           K == 1 .. Len(O)
           R == Rest(O, T, K, 0)
<1>1. D \in Seq(Seq(Cells)) /\ T \in Seq(Characters)
  BY BlankCells, ExtractTextType
<1>2. PICK q \in Nat : Lands(D, d, O, K, q)
  BY DEF Done
<1>3. K \in SUBSET (1 .. Len(O)) /\ 0 \in 0 .. q
  OBVIOUS
<1>4. Lands(D, d, O, K, 0)
  BY <1>2, <1>3, LandsTo
<1>5. Frontier(D, d, 0, R)
  BY <1>4 DEF Lands
<1>6. PureText(d) = R
  <2> HIDE DEF R
  <2> QED BY <1>5, FrontierAll
<1>7. R = Unbroken(Edited(T, O))
  BY <1>1, RestAll
<1>8. Unbroken(PlainText(d)) = PureText(d)
  BY PlainPure
<1> QED BY <1>6, <1>7, <1>8

-----------------------------------------------------------------------------

FirstOf(p, k) == {p[j] : j \in 1 .. k}

LEMMA NextInOrder ==
  ASSUME NEW O \in Seq(Placed), NEW p, OneToOne(p, Len(O)),
         \A k, l \in 1 .. Len(O) : k < l => Sooner(O, p[k], p[l]),
         NEW k \in 1 .. Len(O)
  PROVE  /\ IsNext(O, FirstOf(p, k - 1), p[k])
         /\ FirstOf(p, k) = FirstOf(p, k - 1) \cup {p[k]}
         /\ FirstOf(p, k - 1) \in SUBSET (1 .. Len(O))
<1> DEFINE n == Len(O)
<1>1. n \in Nat /\ k \in Nat /\ k <= n /\ k >= 1
  OBVIOUS
<1>2. /\ p \in [1 .. n -> 1 .. n]
      /\ \A j, l \in 1 .. n : p[j] = p[l] => j = l
      /\ \A i \in 1 .. n : \E l \in 1 .. n : p[l] = i
  BY DEF OneToOne
<1>3. \A j \in 1 .. k - 1 : j \in 1 .. n /\ j < k
  BY <1>1
<1>4. FirstOf(p, k - 1) \in SUBSET (1 .. n)
  <2> SUFFICES ASSUME NEW j \in 1 .. k - 1 PROVE p[j] \in 1 .. n
    BY DEF FirstOf
  <2>1. j \in 1 .. n
    BY <1>3
  <2> QED BY <1>2, <2>1
<1>5. FirstOf(p, k) = FirstOf(p, k - 1) \cup {p[k]}
  <2>1. 1 .. k = (1 .. k - 1) \cup {k}
    BY <1>1
  <2> QED BY <2>1 DEF FirstOf
<1>6. p[k] \in (1 .. n) \ FirstOf(p, k - 1)
  <2>1. \A j \in 1 .. k - 1 : p[j] # p[k]
    BY <1>1, <1>2, <1>3
  <2> QED BY <1>2, <2>1 DEF FirstOf
<1>7. \A i \in FirstOf(p, k - 1) : Sooner(O, i, p[k])
  <2> SUFFICES ASSUME NEW j \in 1 .. k - 1 PROVE Sooner(O, p[j], p[k])
    BY DEF FirstOf
  <2> QED BY <1>3
<1>8. \A i \in (1 .. n) \ (FirstOf(p, k - 1) \cup {p[k]}) : Sooner(O, p[k], i)
  <2> SUFFICES ASSUME NEW i \in 1 .. n, i \notin FirstOf(p, k) PROVE Sooner(O, p[k], i)
    BY <1>5
  <2>1. PICK l \in 1 .. n : p[l] = i
    BY <1>2
  <2>2. l \notin 1 .. k
    BY <2>1 DEF FirstOf
  <2>3. k < l
    BY <1>1, <2>2
  <2> QED BY <2>1, <2>3
<1> QED BY <1>4, <1>5, <1>6, <1>7, <1>8 DEF IsNext

LEMMA AllInOrder ==
  ASSUME NEW n \in Nat, NEW p, OneToOne(p, n)
  PROVE  FirstOf(p, n) = 1 .. n /\ FirstOf(p, 0) = {} /\ \A k \in Nat : FirstOf(p, k) = {} => k = 0
<1>1. \A k \in Nat : k # 0 => p[1] \in FirstOf(p, k)
  <2> SUFFICES ASSUME NEW k \in Nat, k # 0 PROVE 1 \in 1 .. k
    BY DEF FirstOf
  <2> QED OBVIOUS
<1>2. \A k \in Nat : FirstOf(p, k) = {} => k = 0
  BY <1>1
<1>3. FirstOf(p, 0) = {}
  BY DEF FirstOf
<1>4. FirstOf(p, n) = 1 .. n
  <2>1. \A j \in 1 .. n : p[j] \in 1 .. n
    BY DEF OneToOne
  <2>2. \A i \in 1 .. n : \E k \in 1 .. n : p[k] = i
    BY DEF OneToOne
  <2> QED BY <2>1, <2>2 DEF FirstOf
<1> QED BY <1>2, <1>3, <1>4

(* What holds of a document and the operations it carries out, when it      *)
(* holds at first and every next operation keeps it, holds in the end.      *)
Kept(P, O) ==
  \A d \in TextDocs : \A K \in SUBSET (1 .. Len(O)) : \A a \in (1 .. Len(O)) \ K :
    <<d, K>> \in P /\ IsNext(O, K, a) => <<Apply(d, O[a]), K \cup {a}>> \in P

LEMMA AppliedInOrder ==
  ASSUME NEW D \in TextDocs, NEW O \in Seq(Placed), HasRangeEdit(O) \/ Len(O) = 1,
         NEW P, <<D, {}>> \in P, Kept(P, O)
  PROVE  <<ComputeAfter(D, O), 1 .. Len(O)>> \in P
<1> DEFINE n == Len(O)
           s == OrderOpsForApplication(O)
<1>1. n \in Nat
  OBVIOUS
<1>2. PICK p \in [1 .. n -> 1 .. n] :
        /\ OneToOne(p, n)
        /\ s = [k \in 1 .. n |-> O[p[k]]]
        /\ HasRangeEdit(O) => \A k, l \in 1 .. n : k < l => Sooner(O, p[k], p[l])
  BY PlacedSeq, OrderFacts
<1>3. \A k, l \in 1 .. n : k < l => Sooner(O, p[k], p[l])
  <2>1. CASE HasRangeEdit(O)
    BY <1>2, <2>1
  <2>2. CASE n = 1
    <3>1. \A k, l \in 1 .. n : ~(k < l)
      BY <2>2
    <3> QED BY <3>1
  <2> QED BY <2>1, <2>2
<1>4. s \in Seq(TextOps) /\ Len(s) = n
  BY PlacedSeq, OrderType
<1>5. \A k \in 1 .. n : s[k] = O[p[k]]
  BY <1>2
<1> HIDE DEF s
<1>6. PICK g \in [0 .. n -> TextDocs] : Stages(g, D, s) /\ FoldLeft(Apply, D, s) = g[n]
  <2>1. \E g \in [0 .. Len(s) -> TextDocs] :
          Stages(g, D, s) /\ FoldLeft(Apply, D, s) = g[Len(s)]
    BY <1>4, FoldApply
  <2> QED BY <1>4, <2>1
<1>7. g[0] = D /\ \A k \in 1 .. n : g[k] = Apply(g[k - 1], s[k])
  BY <1>4, <1>6 DEF Stages
<1>8. FirstOf(p, n) = 1 .. n /\ FirstOf(p, 0) = {}
  BY <1>1, <1>2, AllInOrder
<1> DEFINE Q == {k \in Nat : k <= n => <<g[k], FirstOf(p, k)>> \in P}
<1>9. 0 \in Q
  BY <1>7, <1>8
<1>10. ASSUME NEW j \in Nat, j \in Q PROVE j + 1 \in Q
  <2> DEFINE k == j + 1
  <2> SUFFICES ASSUME k <= n PROVE <<g[k], FirstOf(p, k)>> \in P
    OBVIOUS
  <2>1. k \in 1 .. n /\ k - 1 = j /\ j \in 0 .. n /\ j <= n
    BY <1>1
  <2> DEFINE d == g[j]
             K == FirstOf(p, j)
             a == p[k]
  <2>2. <<d, K>> \in P
    BY <1>10, <2>1
  <2> HIDE DEF Q, k
  <2>3. IsNext(O, K, a) /\ FirstOf(p, k) = K \cup {a} /\ K \in SUBSET (1 .. Len(O))
    BY <1>2, <1>3, <2>1, NextInOrder, ZenonT(30)
  <2>4. d \in TextDocs
    BY <1>6, <2>1
  <2>5. a \in (1 .. Len(O)) \ K
    BY <2>3 DEF IsNext
  <2>6. g[k] = Apply(d, O[a])
    BY <1>5, <1>7, <2>1
  <2> HIDE DEF d, K, a
  <2>7. <<Apply(d, O[a]), K \cup {a}>> \in P
    BY <2>2, <2>3, <2>4, <2>5 DEF Kept
  <2> QED BY <2>3, <2>6, <2>7
<1> HIDE DEF Q
<1>11. \A k \in Nat : k \in Q
  BY <1>9, <1>10, Induction
<1>12. <<g[n], 1 .. n>> \in P
  <2>1. n \in Q /\ n <= n
    BY <1>1, <1>11
  <2> QED BY <1>8, <2>1 DEF Q
<1>13. ComputeAfter(D, O) = g[n]
  BY <1>6 DEF ComputeAfter, s
<1> QED BY <1>12, <1>13

LEMMA AppliedInPlace ==
  ASSUME NEW D \in Seq(Seq(Blank)), D # <<>>, NEW O \in Seq(Placed),
         Proper(D, O), OneSegment(O), HasRangeEdit(O) \/ Len(O) = 1
  PROVE  Unbroken(PlainText(ComputeAfter(D, O))) = Unbroken(Edited(ExtractText(D), O))
<1> DEFINE Fine(d, K) == Done(D, d, O, K) /\ Bare(O, d) /\ (K = {} => d = D)
           P == {r \in TextDocs \X SUBSET (1 .. Len(O)) : Fine(r[1], r[2])}
<1>1. D \in TextDocs
  BY BlankCells DEF TextDocs
<1>2. <<D, {}>> \in P
  <2>1. Done(D, D, O, {})
    BY DoneFirst
  <2>2. Bare(O, D)
    BY DEF Bare
  <2> QED BY <1>1, <2>1, <2>2
<1>3. ASSUME NEW d \in TextDocs, NEW K \in SUBSET (1 .. Len(O)), NEW a \in (1 .. Len(O)) \ K,
             <<d, K>> \in P, IsNext(O, K, a)
      PROVE  <<Apply(d, O[a]), K \cup {a}>> \in P
  <2>1. Done(D, d, O, K) /\ Bare(O, d) /\ (K = {} => d = D)
    BY <1>3
  <2>2. d \in Seq(Seq(Cells)) /\ O[a] \in Placed /\ a \in 1 .. Len(O)
    BY SeqFacts DEF TextDocs
  <2>3. Done(D, Apply(d, O[a]), O, K \cup {a})
    BY <1>3, <2>1, <2>2, ApplyDone
  <2>4. Bare(O, Apply(d, O[a]))
    BY <2>1, <2>2, ApplyBare
  <2>5. Apply(d, O[a]) \in TextDocs /\ K \cup {a} \in SUBSET (1 .. Len(O)) /\ K \cup {a} # {}
    BY <2>2, PlacedFacts, ApplyType
  <2>6. Fine(Apply(d, O[a]), K \cup {a})
    BY <2>3, <2>4, <2>5
  <2> HIDE DEF Fine
  <2> QED BY <2>5, <2>6
<1> HIDE DEF P
<1>4. Kept(P, O)
  BY <1>3 DEF Kept
<1>5. <<ComputeAfter(D, O), 1 .. Len(O)>> \in P
  BY <1>1, <1>2, <1>4, AppliedInOrder
<1>6. ComputeAfter(D, O) \in Seq(Seq(Cells)) /\ Done(D, ComputeAfter(D, O), O, 1 .. Len(O))
  BY <1>5 DEF P, TextDocs
<1> QED BY <1>6, DoneLast

-----------------------------------------------------------------------------

(* The first text of an empty document.                                     *)
LEMMA ParagraphsText ==
  ASSUME NEW segments \in Texts
  PROVE  PlainText(Paragraphs(segments)) = Joined(segments)
<1> DEFINE d == Paragraphs(segments)
           n == Len(segments)
<1>1. /\ n \in Nat /\ DOMAIN segments = 1 .. n /\ DOMAIN d = 1 .. n
      /\ \A i \in 1 .. n : segments[i] \in Seq(Characters)
      /\ segments = [i \in 1 .. n |-> segments[i]]
  BY TextsAssumption DEF Paragraphs
<1>2. ASSUME NEW i \in 1 .. n
      PROVE  [k \in DOMAIN d[i] |-> d[i][k].ch] = segments[i]
  <2> DEFINE x == segments[i]
  <2>1. d[i] = Plain(x)
    BY DEF Paragraphs
  <2>2. x \in Seq(Characters)
    BY <1>1
  <2> HIDE DEF x
  <2>3. /\ Plain(x) \in Seq(Cells) /\ Len(Plain(x)) = Len(x)
        /\ \A k \in 1 .. Len(x) : Plain(x)[k].ch = x[k]
    BY <2>2, PlainType
  <2>4. DOMAIN Plain(x) = 1 .. Len(x) /\ x = [k \in 1 .. Len(x) |-> x[k]]
    BY <2>2, <2>3
  <2>5. [k \in DOMAIN Plain(x) |-> Plain(x)[k].ch] = x
    BY <2>3, <2>4
  <2>6. [k \in DOMAIN d[i] |-> d[i][k].ch] = x
    BY <2>1, <2>5
  <2> QED BY <2>6 DEF x
<1> HIDE DEF d
<1>3. [i \in DOMAIN d |-> [k \in DOMAIN d[i] |-> d[i][k].ch]] = segments
  BY <1>1, <1>2
<1> QED BY <1>3 DEF PlainText, d

LEMMA EmptyText == ExtractText(<<>>) = <<>>
<1> DEFINE s == [i \in DOMAIN <<>> |-> Render(<<>>[i])]
<1>1. s = <<>>
  OBVIOUS
<1>2. ExtractText(<<>>) = Joined(s)
  BY DEF ExtractText
<1>3. Joined(<<>>) = <<>>
  BY FlattenEmpty DEF Joined
<1> QED BY <1>1, <1>2, <1>3

LEMMA FirstInsert ==
  ASSUME NEW O \in Seq(Placed), Len(O) = 1, IsInsert(O[1])
  PROVE  Unbroken(PlainText(ComputeAfter(<<>>, O))) = Unbroken(Edited(<<>>, O))
<1> DEFINE U == Joined(O[1].text)
           s == OrderOpsForApplication(O)
           R == Rest(O, <<>>, {}, 0)
<1>1. 1 \in 1 .. Len(O) /\ O[1] \in Placed /\ 1 .. Len(O) = {} \cup {1}
  BY SeqFacts
<1>2. O[1].position \in Nat /\ O[1].text \in Texts
  BY <1>1, PlacedFacts DEF Insertions
<1>3. U \in Seq(Characters)
  BY <1>1, OpText
<1>4. PICK p \in [1 .. Len(O) -> 1 .. Len(O)] : s = [k \in 1 .. Len(O) |-> O[p[k]]]
  BY PlacedSeq, OrderFacts
<1>5. s[1] = O[1]
  <2>1. p[1] = 1
    BY <1>1, <1>4
  <2> QED BY <1>1, <1>4, <2>1
<1>6. s \in Seq(TextOps) /\ Len(s) = 1
  BY PlacedSeq, OrderType
<1> HIDE DEF s
<1>7. <<>> \in TextDocs
  BY DEF TextDocs
<1>8. PICK g \in [0 .. Len(s) -> TextDocs] :
        Stages(g, <<>>, s) /\ FoldLeft(Apply, <<>>, s) = g[Len(s)]
  BY <1>6, <1>7, FoldApply
<1>9. g[1] = Apply(<<>>, O[1])
  <2>1. g[0] = <<>> /\ 1 \in 1 .. Len(s) /\ 1 - 1 = 0
    BY <1>6, <1>8 DEF Stages
  <2> QED BY <1>5, <1>8, <2>1 DEF Stages
<1>10. Apply(<<>>, O[1]) = Paragraphs(O[1].text)
  <2>1. Apply(<<>>, O[1]) = InsertText(<<>>, O[1].position, O[1].text)
    BY <1>1, PlacedApply DEF IsInsert
  <2>2. <<>> \in Seq(Seq(Cells))
    OBVIOUS
  <2>3. InsertText(<<>>, O[1].position, O[1].text) = Paragraphs(O[1].text)
    BY <1>2, <2>2, InsertTextValue
  <2> QED BY <2>1, <2>3
<1>11. PlainText(ComputeAfter(<<>>, O)) = U
  <2>1. ComputeAfter(<<>>, O) = Paragraphs(O[1].text)
    BY <1>6, <1>8, <1>9, <1>10 DEF ComputeAfter, s
  <2> QED BY <1>2, <2>1, ParagraphsText
<1>12. <<>> \in Seq(Characters) /\ Len(<<>>) = 0 /\ 0 \in 0 .. Len(<<>>)
  OBVIOUS
<1>13. Point(O[1], Len(<<>>)) = 0
  BY <1>1, <1>2, <1>12, FrontType
<1>14. R = <<>>
  <2>1. Rest(O, <<>>, {}, Len(<<>>)) = <<>>
    BY <1>12, RestNone
  <2> QED BY <1>12, <2>1
<1>15. Rest(O, <<>>, {} \cup {1}, 0) = Unbroken(U) ++ R
  <2> HIDE DEF R, U
  <2>1. {} \in SUBSET (1 .. Len(O)) /\ 1 \notin {}
    OBVIOUS
  <2>2. \A i \in {} : ~(IsInsert(O[i]) /\ Point(O[i], Len(<<>>)) = 0)
    OBVIOUS
  <2> QED BY <1>1, <1>12, <1>13, <2>1, <2>2, RestInsert DEF R, U
<1>16. Rest(O, <<>>, 1 .. Len(O), 0) = Unbroken(Edited(<<>>, O))
  BY <1>12, RestAll
<1>17. Unbroken(U) ++ <<>> = Unbroken(U)
  <2>1. Unbroken(U) \in Seq(Characters)
    BY <1>3, UnbrokenFacts
  <2> QED BY <2>1, CatEmpty
<1> HIDE DEF U, R
<1> QED BY <1>1, <1>11, <1>14, <1>15, <1>16, <1>17

LEMMA OrderlyFacts ==
  ASSUME NEW D \in TextDocs, NEW O \in Seq(TextOps), Orderly(D, O)
  PROVE  /\ D \in Seq(Seq(Blank)) /\ Proper(D, O) /\ OneSegment(O)
         /\ O \in Seq(Placed)
         /\ HasRangeEdit(O) \/ Len(O) = 1
<1> DEFINE n == Len(ExtractText(D))
<1>1. D \in Seq(Seq(Cells)) /\ Len(O) \in Nat /\ DOMAIN O = 1 .. Len(O)
  BY DEF TextDocs
<1>2. D \in Seq(Seq(Blank))
  BY <1>1, UnformattedBlank DEF Orderly
<1>3. ASSUME NEW i \in 1 .. Len(O), ~IsInsert(O[i])
      PROVE  /\ O[i] \in RangeEdits /\ O[i].start >= 0
             /\ O[i].start < O[i].end /\ O[i].end <= n
  <2>1. O[i] \in RangeEdits
    BY <1>3, SeqFacts, OpFacts
  <2>2. O[i].start >= 0 /\ O[i].end <= n
    BY <1>1, <1>3 DEF Orderly
  <2> QED BY <2>1, <2>2 DEF RangeEdits
<1>4. OneSegment(O)
  BY <1>1 DEF Orderly, OneSegment
<1>5. HasRangeEdit(O) \/ Len(O) = 1
  BY DEF Orderly
<1>6. Proper(D, O)
  BY <1>3 DEF Orderly, Proper, Fit
<1>7. ASSUME NEW i \in 1 .. Len(O) PROVE O[i] \in Placed
  <2>1. CASE IsInsert(O[i])
    BY <2>1, SeqFacts, OpFacts DEF Placed
  <2>2. CASE ~IsInsert(O[i])
    BY <1>3, <2>2 DEF RangeEdits, Placed, PlacedRanges
  <2> QED BY <2>1, <2>2
<1>8. O \in Seq(Placed)
  <2>1. O \in [1 .. Len(O) -> Placed]
    BY <1>1, <1>7
  <2> QED BY <1>1, <2>1, FunIsSeq
<1> QED BY <1>2, <1>4, <1>5, <1>6, <1>8

LEMMA OrderlyApplied ==
  ASSUME NEW D \in TextDocs, NEW O \in Seq(TextOps), Orderly(D, O)
  PROVE  Unbroken(PlainText(ComputeAfter(D, O))) = Unbroken(Edited(ExtractText(D), O))
<1> DEFINE T == ExtractText(D)
           n == Len(T)
<1>1. /\ D \in Seq(Seq(Blank)) /\ Proper(D, O) /\ OneSegment(O) /\ DOMAIN O = 1 .. Len(O)
      /\ O \in Seq(Placed)
      /\ HasRangeEdit(O) \/ Len(O) = 1
  BY OrderlyFacts
<1>2. CASE D # <<>>
  BY <1>1, <1>2, AppliedInPlace
<1>3. CASE D = <<>>
  <2>1. T = <<>> /\ n = 0
    BY <1>3, EmptyText
  <2>2. \A i \in 1 .. Len(O) : IsInsert(O[i])
    <3> SUFFICES ASSUME NEW i \in 1 .. Len(O), ~IsInsert(O[i]) PROVE FALSE
      OBVIOUS
    <3>1. O[i] \in Placed
      BY <1>1, SeqFacts
    <3>2. O[i].start \in Nat /\ O[i].end \in Nat
      BY <3>1, PlacedFacts DEF PlacedRanges
    <3>3. O[i].start < O[i].end /\ O[i].end <= 0
      BY <1>1, <2>1 DEF Fit, Proper
    <3> QED BY <3>2, <3>3
  <2>3. Len(O) = 1
    BY <1>1, <2>2 DEF HasRangeEdit
  <2>4. IsInsert(O[1])
    BY <2>2, <2>3
  <2>5. Unbroken(PlainText(ComputeAfter(<<>>, O))) = Unbroken(Edited(<<>>, O))
    BY <1>1, <2>3, <2>4, FirstInsert
  <2> QED BY <1>3, <2>1, <2>5
<1> QED BY <1>2, <1>3

-----------------------------------------------------------------------------

(* What a checked answer leaves: the document is that before with the       *)
(* operations applied, and each range holds the text it was meant for.      *)
AppliedAsFound ==
  at = "applied" =>
    /\ doc = ComputeAfter(before, applied)
    /\ \A i \in 1 .. Len(applied) : Found(applied[i], ExtractText(before))

TextIInv == TextTypeOK /\ AppliedAsFound

LEMMA AppliedInit == TextInit => AppliedAsFound
BY DEF TextInit, AppliedAsFound

LEMMA ApplyOpsAsFound ==
  ASSUME NEW s, ApplyOps(s, "applied"),
         \A i \in 1 .. Len(s) : Found(s[i], ExtractText(doc))
  PROVE  AppliedAsFound'
BY DEF ApplyOps, AppliedAsFound

LEMMA CheckedAsFound ==
  ASSUME TextTypeOK
  PROVE  LET valid == CheckContentExistence(ops, ExtractText(doc)).valid
         IN \A i \in 1 .. Len(valid) : Found(valid[i], ExtractText(doc))
<1>1. CheckContentExistence(ops, ExtractText(doc)) \in Checks(ExtractText(doc))
  BY CheckedType
<1> QED BY <1>1 DEF Checks

LEMMA TextNextAsFound ==
  ASSUME TextTypeOK, AppliedAsFound, [TextNext]_textVars
  PROVE  AppliedAsFound'
<1> DEFINE valid == CheckContentExistence(ops, ExtractText(doc)).valid
<1>1. \A i \in 1 .. Len(valid) : Found(valid[i], ExtractText(doc))
  BY CheckedAsFound
<1>2. CASE Generate
  BY <1>2 DEF Generate, AppliedAsFound
<1>3. CASE Chat
  <2>1. ApplyOps(valid, "applied")
    BY <1>3 DEF Chat
  <2> HIDE DEF valid
  <2> QED BY <1>1, <2>1, ApplyOpsAsFound
<1>4. CASE StageProposal
  BY <1>4 DEF StageProposal, AppliedAsFound
<1>5. CASE Edit
  BY <1>5 DEF Edit, AppliedAsFound
<1>6. CASE AcceptProposal
  <2>1. ApplyOps(valid, "applied")
    BY <1>6 DEF AcceptProposal
  <2> HIDE DEF valid
  <2> QED BY <1>1, <2>1, ApplyOpsAsFound
<1>7. CASE AcceptConfirmed
  BY <1>7 DEF AcceptConfirmed, ApplyOps, AppliedAsFound
<1>8. CASE Refuse
  BY <1>8 DEF Refuse, AppliedAsFound
<1>9. CASE UNCHANGED textVars
  BY <1>9 DEF textVars, AppliedAsFound
<1> QED BY <1>2, <1>3, <1>4, <1>5, <1>6, <1>7, <1>8, <1>9 DEF TextNext

LEMMA InPlace ==
  ASSUME TextTypeOK, AppliedAsFound
  PROVE  EditsLandInPlace
<1> SUFFICES ASSUME at = "applied"
             PROVE  /\ \A i \in DOMAIN applied : ~IsInsert(applied[i]) /\ applied[i].start >= 0 =>
                         Normalized(applied[i].expected) =
                           Normalized(Slice(ExtractText(before), applied[i].start,
                                            applied[i].end))
                    /\ Orderly(before, applied) =>
                         Unbroken(PlainText(doc)) =
                           Unbroken(Edited(ExtractText(before), applied))
  BY DEF EditsLandInPlace
<1>1. before \in TextDocs /\ applied \in Seq(TextOps)
  BY DEF TextTypeOK
<1>2. DOMAIN applied = 1 .. Len(applied)
  BY <1>1
<1>3. /\ doc = ComputeAfter(before, applied)
      /\ \A i \in 1 .. Len(applied) : Found(applied[i], ExtractText(before))
  BY DEF AppliedAsFound
<1>4. Orderly(before, applied) =>
        Unbroken(PlainText(doc)) = Unbroken(Edited(ExtractText(before), applied))
  BY <1>1, <1>3, OrderlyApplied
<1>5. ASSUME NEW i \in DOMAIN applied, ~IsInsert(applied[i]), applied[i].start >= 0
      PROVE  Normalized(applied[i].expected) =
               Normalized(Slice(ExtractText(before), applied[i].start, applied[i].end))
  BY <1>2, <1>3, <1>5 DEF Found
<1> QED BY <1>4, <1>5

LEMMA AsFoundKept == TextIInv /\ [TextNext]_textVars => TextIInv'
<1> SUFFICES ASSUME TextTypeOK, AppliedAsFound, [TextNext]_textVars
             PROVE  TextTypeOK' /\ AppliedAsFound'
  BY DEF TextIInv
<1>1. TextTypeOK'
  BY TextNextType
<1>2. AppliedAsFound'
  BY TextNextAsFound
<1> QED BY <1>1, <1>2

(* Whatever the documents, the texts to insert, the answers of the model    *)
(* and what others typed meanwhile: a range edit that does not start in     *)
(* front of the text works on what it quotes; and an answer whose ranges    *)
(* lie in the text, whose operations keep apart, and which is applied from  *)
(* the back has the effect of its operations made all at once.              *)
THEOREM EditsLand == TextSpec => []EditsLandInPlace
<1>1. TextInit => TextIInv
  BY TextInitType, AppliedInit DEF TextIInv
<1>2. TextIInv /\ [TextNext]_textVars => TextIInv'
  BY AsFoundKept
<1>3. TextIInv => EditsLandInPlace
  BY InPlace DEF TextIInv
<1> QED BY <1>1, <1>2, <1>3, PTL DEF TextSpec

-----------------------------------------------------------------------------

(* Operations within paragraphs: breaks included, what comes behind the     *)
(* place up to which the document is as it was is what it should be.        *)

LEMMA PlaceIn ==
  ASSUME NEW D \in Seq(Seq(Blank)), NEW t \in 1 .. Len(D), NEW o \in 0 .. Len(D[t])
  PROVE  /\ Start(D, t) \in Nat /\ Len(D[t]) \in Nat /\ End(D, t) = Start(D, t) + Len(D[t])
         /\ Start(D, t) + o \in 0 .. Len(ExtractText(D))
<1> DEFINE l == Len(D)
           x == Start(D, t)
           v == Len(D[t])
<1>1. D \in Seq(Seq(Cells)) /\ D # <<>> /\ l \in Nat /\ l \in 1 .. Len(D) /\ t <= l
  BY BlankCells
<1>2. Len(ExtractText(D)) = End(D, l) /\ v \in Nat /\ End(D, t) = x + v
  BY <1>1, TextAt
<1>3. x \in Nat /\ End(D, l) \in Nat /\ Start(D, l) \in Nat /\ End(D, l) >= Start(D, l)
  BY <1>1, Bounds, SMTT(20)
<1>4. t < l => x + v + 2 <= Start(D, l)
  BY <1>1, <1>2, Ascending
<1> HIDE DEF x, v, l
<1>5. o \in Nat /\ o <= v /\ t \in Nat
  BY <1>2 DEF v
<1>6. x + o \in 0 .. Len(ExtractText(D))
  <2>1. CASE t < l
    BY <1>2, <1>3, <1>4, <1>5, <2>1
  <2>2. CASE t = l
    BY <1>2, <1>3, <1>5, <2>2
  <2> QED BY <1>1, <1>5, <2>1, <2>2
<1> QED BY <1>2, <1>3, <1>6 DEF x, v

LEMMA LeftCell ==
  ASSUME NEW d \in Seq(Seq(Cells)), NEW t \in 1 .. Len(d), NEW o \in 1 .. Len(d[t])
  PROVE  Left(d, t, o - 1) = <<d[t][o].ch>> ++ Left(d, t, o)
<1> DEFINE b == d[t]
           c == <<b[o]>>
           x == Slice(b, o, Len(b))
           r == Lines(SubSeq(d, t + 1, Len(d)))
           u == <<b[o].ch>>
<1>1. b \in Seq(Cells) /\ o \in Nat /\ b[o] \in Cells
  BY SeqFacts
<1>2. x \in Seq(Cells) /\ Chars(x) \in Seq(Characters) /\ r \in Seq(Characters)
  BY <1>1, LeftParts
<1>3. Slice(b, o - 1, Len(b)) = c ++ x
  BY <1>1, SliceFirst
<1>4. c \in Seq(Cells) /\ Chars(c) = u /\ u \in Seq(Characters)
  <2> DEFINE a == b[o]
  <2> HIDE DEF b
  <2>1. a \in Cells /\ a.ch \in Characters
    BY <1>1 DEF Cells
  <2> HIDE DEF a
  <2>2. <<a>> \in Seq(Cells) /\ <<a.ch>> \in Seq(Characters)
    BY <2>1
  <2>3. Chars(<<a>>) = <<CharOf[a]>>
    <3>1. Goes(CharOf, Cells, Characters)
      BY DEF Goes, CharOf, Cells
    <3> QED BY <2>1, <3>1, MapOne DEF Chars
  <2> QED BY <2>1, <2>2, <2>3 DEF a, CharOf
<1>5. Left(d, t, o - 1) = Chars(Slice(b, o - 1, Len(b))) ++ r /\ Left(d, t, o) = Chars(x) ++ r
  BY DEF Left
<1> HIDE DEF b, c, x, r, u
<1>6. Chars(c ++ x) = u ++ Chars(x)
  BY <1>2, <1>4, CharsFacts
<1>7. Left(d, t, o - 1) = u ++ Left(d, t, o)
  BY <1>2, <1>3, <1>4, <1>5, <1>6, CatAssoc
<1> QED BY <1>7 DEF u, b

LEMMA LeftBreak ==
  ASSUME NEW d \in Seq(Seq(Cells)), NEW t \in 2 .. Len(d)
  PROVE  Left(d, t - 1, Len(d[t - 1])) = Break ++ Left(d, t, 0)
<1> DEFINE n == Len(d)
           a == d[t - 1]
           b == d[t]
           r == SubSeq(d, t + 1, n)
           c == <<b>>
<1>1. /\ n \in Nat /\ t \in 1 .. n /\ t \in Nat /\ (t - 1) + 1 = t /\ t \in 0 .. n
      /\ a \in Seq(Cells) /\ b \in Seq(Cells)
  <2>1. t - 1 \in 1 .. n /\ t \in 1 .. n
    OBVIOUS
  <2> QED BY <2>1, SeqFacts
<1>2. r \in Seq(Seq(Cells)) /\ c \in Seq(Seq(Cells))
  BY <1>1, Halves
<1>3. SubSeq(d, t, n) = c ++ r
  <2>1. Slice(d, t - 1, n) = <<d[t]>> ++ Slice(d, t, n)
    BY <1>1, SliceFirst
  <2>2. Min({n, n}) = n
    <3> HIDE DEF n
    <3> QED BY <1>1, MinPair
  <2>3. Slice(d, t - 1, n) = SubSeq(d, t, n) /\ Slice(d, t, n) = r
    BY <1>1, <2>2 DEF Slice
  <2> QED BY <2>1, <2>3
<1>4. Slice(a, Len(a), Len(a)) = <<>> /\ Slice(b, 0, Len(b)) = b
  <2> HIDE DEF a, b
  <2> QED BY <1>1, SliceEnds
<1>5. Left(d, t - 1, Len(a)) = Chars(<<>>) ++ Lines(c ++ r)
  BY <1>1, <1>3, <1>4 DEF Left
<1>6. Left(d, t, 0) = Chars(b) ++ Lines(r)
  BY <1>4 DEF Left
<1> HIDE DEF a, b, r, c
<1> DEFINE x == Chars(b)
           y == Lines(r)
<1>7. x \in Seq(Characters) /\ y \in Seq(Characters) /\ Chars(<<>>) = <<>>
  BY <1>1, <1>2, CharsFacts, LinesFacts
<1>8. Lines(c ++ r) = (Break ++ x) ++ y
  BY <1>1, <1>2, LinesFacts DEF c
<1> HIDE DEF x, y
<1>9. Lines(c ++ r) = Break ++ (x ++ y) /\ Break ++ (x ++ y) \in Seq(Characters)
  <2>1. (Break ++ x) ++ y = Break ++ (x ++ y)
    BY <1>7, BreakType, CatAssoc
  <2>2. x ++ y \in Seq(Characters)
    BY <1>7, CatType
  <2>3. Break ++ (x ++ y) \in Seq(Characters)
    BY <2>2, BreakType, CatType
  <2> QED BY <1>8, <2>1, <2>3
<1> DEFINE z == Break ++ (x ++ y)
<1>10. Left(d, t, 0) = x ++ y
  BY <1>6 DEF x, y
<1>11. <<>> ++ z = z
  <2> HIDE DEF z
  <2> QED BY <1>9, CatEmpty DEF z
<1> QED BY <1>5, <1>7, <1>9, <1>10, <1>11 DEF a

(* The characters of paragraph t behind o are deleted.                      *)
Lost(D, O, K, t, o) == \A k \in o + 1 .. Len(D[t]) : DeletedBy(O, K, Start(D, t) + (k - 1))

(* d carries out the operations of O with a number in K: it is D up to      *)
(* character o of paragraph t, which is still there, and what comes behind  *)
(* it is as it should be.                                                   *)
Exact(D, d, O, K, t, o) ==
  /\ Agrees(D, d, t, o) /\ t <= Len(d)
  /\ Left(d, t, o) = Remains(O, ExtractText(D), K, Start(D, t) + o)
  /\ Behind(O, Len(ExtractText(D)), K, Start(D, t) + o)
  /\ Len(d[t]) > o \/ Lost(D, O, K, t, o)

(* What is known of the place.                                              *)
Stands(D, d, t, o) ==
  /\ t \in 1 .. Len(D) /\ t \in 1 .. Len(d) /\ o \in 0 .. Len(D[t])
  /\ o \in 0 .. Len(d[t]) /\ Len(d[t]) \in Nat /\ d[t] \in Seq(Cells)
  /\ \A i \in 1 .. t - 1 : i \in 1 .. Len(d) /\ d[i] = D[i]
  /\ \A k \in 1 .. o : d[t][k] = D[t][k]
  /\ Len(D[t]) \in Nat /\ Start(D, t) \in Nat /\ Len(D) \in Nat
  /\ Start(D, t) + o \in 0 .. Len(ExtractText(D)) /\ Len(ExtractText(D)) \in Nat
  /\ ExtractText(D) \in Seq(Characters) /\ D \in Seq(Seq(Cells)) /\ D # <<>>

LEMMA ExactPlace ==
  ASSUME NEW D \in Seq(Seq(Blank)), NEW d \in Seq(Seq(Cells)), NEW O, NEW K,
         NEW t \in Nat, NEW o \in Nat, Exact(D, d, O, K, t, o)
  PROVE  Stands(D, d, t, o)
<1>1. Agrees(D, d, t, o) /\ t <= Len(d)
  BY DEF Exact
<1>2. /\ t \in 1 .. Len(D) /\ o \in 0 .. Len(D[t]) /\ D \in Seq(Seq(Cells)) /\ D # <<>>
      /\ \A i \in 1 .. t - 1 : i \in 1 .. Len(d) /\ d[i] = D[i]
      /\ t \in 1 .. Len(d)
  BY <1>1, SameUpTo
<1>3. o <= Len(d[t]) /\ \A k \in 1 .. o : d[t][k] = D[t][k]
  <2>1. ~(Len(d) = t - 1)
    BY <1>1
  <2> QED BY <1>1, <2>1 DEF Agrees
<1>4. d[t] \in Seq(Cells) /\ Len(d[t]) \in Nat /\ Len(D) \in Nat
  BY <1>2, SeqFacts
<1>5. /\ Len(D[t]) \in Nat /\ Start(D, t) \in Nat
      /\ Start(D, t) + o \in 0 .. Len(ExtractText(D))
  BY <1>2, PlaceIn
<1>6. ExtractText(D) \in Seq(Characters) /\ Len(ExtractText(D)) \in Nat
  BY <1>2, ExtractTextType, SeqFacts
<1>7. o \in 0 .. Len(d[t])
  <2> DEFINE m == Len(d[t])
  <2>1. m \in Nat /\ o <= m
    BY <1>3, <1>4
  <2> HIDE DEF m
  <2>2. o \in 0 .. m
    BY <2>1
  <2> QED BY <2>2 DEF m
<1> QED BY <1>2, <1>3, <1>4, <1>5, <1>6, <1>7 DEF Stands

LEMMA ExactLower ==
  ASSUME NEW D \in Seq(Seq(Blank)), NEW d \in Seq(Seq(Cells)), NEW O \in Seq(Placed),
         NEW K \in SUBSET (1 .. Len(O)), NEW t \in Nat, NEW o \in Nat,
         Exact(D, d, O, K, t, o), o # 0
  PROVE  Exact(D, d, O, K, t, o - 1)
<1> DEFINE T == ExtractText(D)
           q == Start(D, t) + o
           n == Len(T)
<1>1. /\ t \in 1 .. Len(D) /\ t \in 1 .. Len(d) /\ o \in 0 .. Len(D[t])
      /\ o \in 0 .. Len(d[t]) /\ Len(d[t]) \in Nat
      /\ \A i \in 1 .. t - 1 : i \in 1 .. Len(d) /\ d[i] = D[i]
      /\ \A k \in 1 .. o : d[t][k] = D[t][k]
      /\ Len(D[t]) \in Nat /\ Start(D, t) \in Nat /\ q \in 0 .. n /\ n \in Nat
      /\ T \in Seq(Characters) /\ D # <<>>
  <2>1. Stands(D, d, t, o)
    BY ExactPlace
  <2> QED BY <2>1 DEF Stands
<1>2. /\ Left(d, t, o) = Remains(O, T, K, q) /\ Behind(O, n, K, q) /\ t <= Len(d)
  BY DEF Exact
<1>3. o \in 1 .. Len(D[t]) /\ o \in 1 .. Len(d[t]) /\ o \in 1 .. o
  BY <1>1
<1>4. T[q] = d[t][o].ch
  <2>1. T[Start(D, t) + o] = D[t][o].ch
    <3> HIDE DEF T
    <3> QED BY <1>1, <1>3, TextAt DEF T
  <2> QED BY <1>1, <1>3, <2>1
<1>5. Left(d, t, o - 1) = <<T[q]>> ++ Left(d, t, o)
  BY <1>1, <1>3, <1>4, LeftCell
<1>6. q \in 1 .. n /\ q - 1 = Start(D, t) + (o - 1) /\ q \in Nat /\ n \in Nat /\ q - 1 \in 0 .. q
  <2> DEFINE w == Start(D, t)
  <2>1. q = w + o /\ w \in Nat /\ q \in 0 .. n /\ n \in Nat
    BY <1>1
  <2> HIDE DEF n, w, q
  <2>2. q \in 1 .. n /\ q - 1 = w + (o - 1) /\ q \in Nat /\ n \in Nat /\ q - 1 \in 0 .. q
    BY <2>1
  <2> QED BY <2>2 DEF w
<1> HIDE DEF T, q, n
<1>7. Remains(O, T, K, q - 1) = <<T[q]>> ++ Remains(O, T, K, q)
  BY <1>1, <1>2, <1>6, RestLower DEF n
<1>8. Behind(O, n, K, q - 1)
  BY <1>2, <1>6, BehindLower
<1>9. Agrees(D, d, t, o - 1)
  <2> DEFINE l == Len(D[t])
             m == Len(d[t])
  <2>1. l \in Nat /\ m \in Nat /\ o <= l /\ o <= m
    BY <1>1
  <2> HIDE DEF l, m
  <2>2. o - 1 \in 0 .. l /\ o - 1 <= m
    BY <2>1
  <2>3. \A k \in 1 .. o - 1 : d[t][k] = D[t][k]
    <3>1. \A k \in 1 .. o - 1 : k \in 1 .. o
      OBVIOUS
    <3> QED BY <1>1, <3>1
  <2>4. \A i \in 1 .. t - 1 : i <= Len(d) /\ d[i] = D[i]
    BY <1>1
  <2> QED BY <1>1, <1>2, <2>2, <2>3, <2>4 DEF Agrees, l, m
<1>10. Len(d[t]) > o - 1
  BY <1>1
<1>11. Left(d, t, o - 1) = Remains(O, T, K, q - 1)
  BY <1>2, <1>5, <1>7
<1> QED BY <1>2, <1>6, <1>8, <1>9, <1>10, <1>11 DEF Exact, T, n

LEMMA ExactBreak ==
  ASSUME NEW D \in Seq(Seq(Blank)), NEW d \in Seq(Seq(Cells)), NEW O \in Seq(Placed),
         NEW K \in SUBSET (1 .. Len(O)), NEW t \in Nat, Exact(D, d, O, K, t, 0), t > 1
  PROVE  Exact(D, d, O, K, t - 1, Len(D[t - 1]))
<1> DEFINE T == ExtractText(D)
           q == Start(D, t)
           n == Len(T)
           u == t - 1
           v == Len(D[u])
           c == <<"nl">>
<1>1. /\ t \in 1 .. Len(D) /\ t \in 1 .. Len(d)
      /\ \A i \in 1 .. t - 1 : i \in 1 .. Len(d) /\ d[i] = D[i]
      /\ q \in Nat /\ q + 0 \in 0 .. n /\ n \in Nat
      /\ T \in Seq(Characters) /\ D # <<>> /\ D \in Seq(Seq(Cells))
  <2>1. 0 \in Nat
    OBVIOUS
  <2>2. Stands(D, d, t, 0)
    BY <2>1, ExactPlace
  <2> QED BY <2>2 DEF Stands
<1>2. /\ Left(d, t, 0) = Remains(O, T, K, q + 0) /\ Behind(O, n, K, q + 0)
  BY DEF Exact
<1>3. q + 0 = q
  BY <1>1
<1>4. /\ t \in 2 .. Len(D) /\ t \in 2 .. Len(d) /\ u \in 1 .. Len(D) /\ u \in 1 .. t - 1
      /\ u \in 1 .. Len(d) /\ d[u] = D[u] /\ u \in Nat
  BY <1>1
<1>5. T[q] = "nl" /\ T[q - 1] = "nl"
  BY <1>1, <1>4, TextAt
<1>6. q = End(D, u) + 2 /\ End(D, u) = Start(D, u) + v /\ v \in Nat /\ Start(D, u) \in Nat
  <2>1. q = End(D, u) + 2
    BY <1>1, <1>4, Bounds
  <2>2. u \in 1 .. Len(D) /\ 0 \in 0 .. Len(D[u])
    BY <1>1, <1>4, TextAt, SMTT(20)
  <2> QED BY <2>1, <2>2, PlaceIn
<1> DEFINE w == Start(D, u)
<1>7. /\ q \in 1 .. n /\ q - 1 \in 1 .. n /\ (q - 1) - 1 = w + v /\ q \in Nat /\ n \in Nat
      /\ q - 1 \in 0 .. q /\ (q - 1) - 1 \in 0 .. q /\ q - 1 \in Nat
  <2>1. n \in Nat
    BY <1>1
  <2>2. q = w + v + 2 /\ v \in Nat /\ w \in Nat /\ q <= n
    <3> HIDE DEF n
    <3> QED BY <1>1, <1>6, <2>1
  <2> HIDE DEF n, v, w, q, u
  <2> QED BY <2>1, <2>2
<1> HIDE DEF n, v, w, q, T, u
<1>8. Behind(O, n, K, q) /\ Behind(O, n, K, q - 1) /\ Behind(O, n, K, (q - 1) - 1)
  <2>1. Behind(O, n, K, q)
    BY <1>2, <1>3
  <2> QED BY <1>7, <2>1, BehindLower
<1> DEFINE R == Remains(O, T, K, q)
           R1 == Remains(O, T, K, q - 1)
           R2 == Remains(O, T, K, (q - 1) - 1)
<1>9. R1 = <<T[q]>> ++ R
  BY <1>1, <1>7, <1>8, RestLower DEF n
<1>10. R2 = <<T[q - 1]>> ++ R1
  <2> DEFINE p == q - 1
  <2>1. p \in 1 .. Len(T) /\ Behind(O, Len(T), K, p)
    BY <1>7, <1>8 DEF n
  <2> HIDE DEF p
  <2>2. Remains(O, T, K, p - 1) = <<T[p]>> ++ Remains(O, T, K, p)
    BY <1>1, <2>1, RestLower
  <2> QED BY <2>2 DEF p
<1>11. R \in Seq(Characters) /\ c \in Seq(Characters) /\ Break = c ++ c
  BY <1>1, CharactersAssumption, RestType DEF Break, ++
<1> HIDE DEF R, R1, R2, c
<1>12. R2 = Break ++ R
  <2>1. R1 = c ++ R /\ R2 = c ++ R1
    BY <1>5, <1>9, <1>10 DEF c
  <2> QED BY <1>11, <2>1, CatAssoc
<1>13. Left(d, u, v) = Break ++ Left(d, t, 0)
  BY <1>4, LeftBreak DEF u, v
<1>14. Left(d, u, v) = Remains(O, T, K, w + v)
  BY <1>2, <1>3, <1>7, <1>12, <1>13 DEF R, R2
<1>15. Agrees(D, d, u, v)
  <2>1. \A i \in 1 .. u - 1 : i \in 1 .. t - 1
    BY <1>4
  <2>2. v \in 0 .. Len(D[u]) /\ v <= Len(d[u])
    BY <1>4, <1>6 DEF v
  <2>3. \A i \in 1 .. u - 1 : i <= Len(d) /\ d[i] = D[i]
    BY <1>1, <2>1
  <2>4. u <= Len(d) /\ \A k \in 1 .. v : d[u][k] = D[u][k]
    BY <1>4
  <2> QED BY <1>4, <2>2, <2>3, <2>4 DEF Agrees
<1>16. Lost(D, O, K, u, v)
  <2>1. \A k \in v + 1 .. v : FALSE
    BY <1>6
  <2> QED BY <2>1 DEF Lost, v
<1>17. Exact(D, d, O, K, u, v)
  BY <1>4, <1>7, <1>8, <1>14, <1>15, <1>16 DEF Exact, T, n, w
<1> QED BY <1>17 DEF u, v

LEMMA ExactWithin ==
  ASSUME NEW D \in Seq(Seq(Blank)), NEW d \in Seq(Seq(Cells)), NEW O \in Seq(Placed),
         NEW K \in SUBSET (1 .. Len(O)), NEW t \in Nat, NEW o \in Nat,
         Exact(D, d, O, K, t, o), NEW r \in 0 .. o
  PROVE  Exact(D, d, O, K, t, r)
<1> DEFINE P == {k \in Nat : k <= o => Exact(D, d, O, K, t, o - k)}
<1>1. 0 \in P
  <2>1. o - 0 = o
    OBVIOUS
  <2> QED BY <2>1
<1>2. ASSUME NEW k \in Nat, k \in P PROVE k + 1 \in P
  <2> SUFFICES ASSUME k + 1 <= o PROVE Exact(D, d, O, K, t, o - (k + 1))
    OBVIOUS
  <2>1. k <= o /\ o - k \in Nat /\ o - k # 0 /\ (o - k) - 1 = o - (k + 1)
    OBVIOUS
  <2>2. Exact(D, d, O, K, t, o - k)
    BY <1>2, <2>1
  <2> DEFINE x == o - k
  <2> HIDE DEF P, x
  <2>3. Exact(D, d, O, K, t, x - 1)
    BY <2>1, <2>2, ExactLower DEF x
  <2> QED BY <2>1, <2>3 DEF x
<1> HIDE DEF P
<1>3. \A k \in Nat : k \in P
  BY <1>1, <1>2, Induction
<1>4. o - r \in Nat /\ o - r <= o /\ o - (o - r) = r
  OBVIOUS
<1> QED BY <1>3, <1>4 DEF P

LEMMA ExactBefore ==
  ASSUME NEW D \in Seq(Seq(Blank)), NEW d \in Seq(Seq(Cells)), NEW O \in Seq(Placed),
         NEW K \in SUBSET (1 .. Len(O)), NEW t \in Nat, NEW o \in Nat,
         Exact(D, d, O, K, t, o), NEW i \in 1 .. t - 1
  PROVE  Exact(D, d, O, K, i, Len(D[i]))
<1> DEFINE u(k) == (t - 1) - k
           P == {k \in Nat : k < t - 1 => Exact(D, d, O, K, u(k), Len(D[u(k)]))}
<1>1. ASSUME NEW s \in Nat, NEW z \in Nat, Exact(D, d, O, K, s, z), s > 1
      PROVE  Exact(D, d, O, K, s - 1, Len(D[s - 1]))
  <2>1. 0 \in 0 .. z /\ 0 \in Nat
    OBVIOUS
  <2>2. Exact(D, d, O, K, s, 0)
    BY <1>1, <2>1, ExactWithin
  <2> QED BY <1>1, <2>2, ExactBreak
<1>2. 0 \in P
  <2> SUFFICES ASSUME 0 < t - 1 PROVE Exact(D, d, O, K, u(0), Len(D[u(0)]))
    OBVIOUS
  <2>1. t > 1 /\ u(0) = t - 1
    OBVIOUS
  <2> HIDE DEF u
  <2> QED BY <1>1, <2>1
<1>3. ASSUME NEW k \in Nat, k \in P PROVE k + 1 \in P
  <2> SUFFICES ASSUME k + 1 < t - 1 PROVE Exact(D, d, O, K, u(k + 1), Len(D[u(k + 1)]))
    OBVIOUS
  <2>1. k < t - 1 /\ u(k) \in Nat /\ u(k) > 1 /\ u(k + 1) = u(k) - 1 /\ u(k) \in 1 .. t - 1
    OBVIOUS
  <2>2. Exact(D, d, O, K, u(k), Len(D[u(k)]))
    BY <1>3, <2>1
  <2>3. Len(D[u(k)]) \in Nat
    <3>1. Stands(D, d, t, o)
      BY ExactPlace
    <3>2. u(k) \in 1 .. Len(D)
      <4> HIDE DEF u, P
      <4> QED BY <2>1, <3>1 DEF Stands
    <3> HIDE DEF u
    <3>3. D[u(k)] \in Seq(Blank)
      BY <3>2
    <3> QED BY <3>3
  <2> DEFINE s == u(k)
             z == Len(D[s])
  <2> HIDE DEF P
  <2>4. u(k + 1) = s - 1
    BY <2>1
  <2> HIDE DEF u, s, z
  <2>5. s \in Nat /\ s > 1 /\ z \in Nat /\ Exact(D, d, O, K, s, z)
    BY <2>1, <2>2, <2>3 DEF s, z
  <2>6. Exact(D, d, O, K, s - 1, Len(D[s - 1]))
    BY <1>1, <2>5
  <2> QED BY <2>4, <2>6
<1> HIDE DEF P
<1>4. \A k \in Nat : k \in P
  BY <1>2, <1>3, Induction
<1>5. (t - 1) - i \in Nat /\ (t - 1) - i < t - 1 /\ u((t - 1) - i) = i
  OBVIOUS
<1> HIDE DEF u
<1> QED BY <1>4, <1>5 DEF P

(* Any place further to the front will do as well.                          *)
LEMMA ExactTo ==
  ASSUME NEW D \in Seq(Seq(Blank)), NEW d \in Seq(Seq(Cells)), NEW O \in Seq(Placed),
         NEW K \in SUBSET (1 .. Len(O)), NEW t \in Nat, NEW o \in Nat,
         Exact(D, d, O, K, t, o), NEW i \in 1 .. Len(D), NEW r \in 0 .. Len(D[i]),
         Start(D, i) + r <= Start(D, t) + o
  PROVE  Exact(D, d, O, K, i, r)
<1> DEFINE x == Start(D, t)
           y == Start(D, i)
           v == Len(D[t])
<1>1. /\ t \in 1 .. Len(D) /\ o \in 0 .. v /\ v \in Nat /\ x \in Nat /\ Len(D) \in Nat
      /\ D \in Seq(Seq(Cells))
  <2>1. Stands(D, d, t, o)
    BY ExactPlace
  <2> QED BY <2>1 DEF Stands
<1>2. /\ y \in Nat /\ Len(D[i]) \in Nat /\ End(D, t) = x + v /\ i \in Nat /\ r \in Nat
      /\ y + r <= x + o
  <2>1. Start(D, i) \in Nat /\ Len(D[i]) \in Nat
    BY PlaceIn
  <2>2. t \in 1 .. Len(D) /\ o \in 0 .. Len(D[t])
    BY <1>1
  <2>3. End(D, t) = Start(D, t) + Len(D[t])
    BY <2>2, PlaceIn
  <2>4. i \in Nat /\ r \in Nat
    <3> DEFINE w == Len(D[i])
    <3> HIDE DEF x, y, v
    <3>1. Len(D) \in Nat /\ w \in Nat /\ r \in 0 .. w
      BY <1>1, <2>1
    <3> HIDE DEF w
    <3> QED BY <3>1
  <2> QED BY <2>1, <2>3, <2>4
<1>3. t < i => End(D, t) + 2 <= y
  BY <1>1, Ascending
<1> HIDE DEF x, y, v
<1>4. ~(t < i)
  BY <1>1, <1>2, <1>3
<1>5. CASE i = t
  <2>1. r \in 0 .. o
    BY <1>1, <1>2, <1>5 DEF x, y
  <2> QED BY <1>5, <2>1, ExactWithin
<1>6. CASE i < t
  <2>1. i \in 1 .. t - 1 /\ Len(D[i]) \in Nat /\ i \in Nat
    BY <1>2, <1>6
  <2>2. Exact(D, d, O, K, i, Len(D[i]))
    BY <2>1, ExactBefore
  <2> QED BY <2>1, <2>2, ExactWithin
<1> QED BY <1>2, <1>4, <1>5, <1>6

-----------------------------------------------------------------------------

(* z begins with the first o cells of b.                                    *)
Begins(z, b, o) == o <= Len(z) /\ \A k \in 1 .. o : z[k] = b[k]

(* The document d with z in place of paragraph t.                           *)
Put(d, t, z) == [d EXCEPT ![t] = z]

(* What is known of it.                                                     *)
Replaces(D, e, d, t, o, z) ==
  /\ e \in Seq(Seq(Cells)) /\ Len(e) = Len(d) /\ e[t] = z
  /\ Agrees(D, e, t, o) /\ t <= Len(e)
  /\ Left(e, t, o) = Chars(Slice(z, o, Len(z))) ++ Lines(SubSeq(d, t + 1, Len(d)))

LEMMA Replaced ==
  ASSUME NEW D \in Seq(Seq(Blank)), NEW d \in Seq(Seq(Cells)), NEW t \in Nat, NEW o \in Nat,
         Agrees(D, d, t, o), t <= Len(d), NEW z \in Seq(Cells), Begins(z, d[t], o)
  PROVE  Replaces(D, Put(d, t, z), d, t, o, z)
<1> DEFINE e == [d EXCEPT ![t] = z]
           n == Len(d)
<1>1. /\ t \in 1 .. Len(D) /\ o \in 0 .. Len(D[t]) /\ t \in 1 .. n /\ n \in Nat
      /\ \A i \in 1 .. t - 1 : i \in 1 .. n /\ d[i] = D[i]
  <2>1. /\ t \in 1 .. Len(D) /\ o \in 0 .. Len(D[t])
        /\ \A i \in 1 .. t - 1 : i \in 1 .. Len(d) /\ d[i] = D[i]
        /\ t \in 1 .. Len(d)
    BY SameUpTo
  <2> QED BY <2>1
<1>2. \A k \in 1 .. o : d[t][k] = D[t][k]
  <2>1. ~(Len(d) = t - 1)
    BY <1>1
  <2> QED BY <2>1 DEF Agrees
<1>3. /\ e \in Seq(Seq(Cells)) /\ Len(e) = n /\ e[t] = z
      /\ \A i \in 1 .. n : i # t => e[i] = d[i]
  BY <1>1
<1> HIDE DEF e
<1>4. Agrees(D, e, t, o)
  <2>1. \A i \in 1 .. t - 1 : i <= Len(e) /\ e[i] = D[i]
    <3> SUFFICES ASSUME NEW i \in 1 .. t - 1 PROVE i <= Len(e) /\ e[i] = D[i]
      OBVIOUS
    <3>1. i \in 1 .. n /\ d[i] = D[i] /\ i # t
      <4>1. \A j \in 1 .. t - 1 : j \in 1 .. n /\ d[j] = D[j]
        BY <1>1
      <4> HIDE DEF n
      <4>2. i \in 1 .. n /\ d[i] = D[i]
        BY <4>1
      <4>3. i # t
        OBVIOUS
      <4> QED BY <4>2, <4>3
    <3>2. i <= Len(e)
      <4>1. i <= n
        BY <1>1, <3>1
      <4>2. Len(e) = n
        BY <1>3
      <4> HIDE DEF n
      <4> QED BY <4>1, <4>2
    <3>3. e[i] = D[i]
      <4>1. e[i] = d[i] /\ d[i] = D[i]
        BY <1>3, <3>1
      <4> QED BY <4>1
    <3> QED BY <3>2, <3>3
  <2>2. t <= Len(e) /\ o <= Len(e[t]) /\ \A k \in 1 .. o : e[t][k] = D[t][k]
    BY <1>1, <1>2, <1>3 DEF Begins
  <2> QED BY <1>1, <2>1, <2>2 DEF Agrees
<1>5. SubSeq(e, t + 1, Len(e)) = SubSeq(d, t + 1, n)
  <2> DEFINE u == SubSeq(e, t + 1, Len(e))
             v == SubSeq(d, t + 1, n)
  <2>1. t \in 0 .. n /\ n - t \in Nat
    BY <1>1
  <2>2. u \in Seq(Seq(Cells)) /\ Len(u) = n - t /\ \A i \in 1 .. n - t : u[i] = e[t + i]
    <3>1. t \in 0 .. Len(e)
      BY <1>3, <2>1
    <3>2. /\ u \in Seq(Seq(Cells)) /\ Len(u) = Len(e) - t
          /\ \A i \in 1 .. Len(e) - t : u[i] = e[t + i]
      BY <1>3, <3>1, Halves, SMTT(20)
    <3>3. Len(e) = n
      BY <1>3
    <3> HIDE DEF u, n
    <3>4. Len(u) = n - t
      BY <3>2, <3>3
    <3>5. \A i \in 1 .. n - t : u[i] = e[t + i]
      <4>1. \A i \in 1 .. Len(e) - t : u[i] = e[t + i]
        BY <3>2
      <4> QED BY <3>3, <4>1
    <3> QED BY <3>2, <3>4, <3>5
  <2>3. v \in Seq(Seq(Cells)) /\ Len(v) = n - t /\ \A i \in 1 .. n - t : v[i] = d[t + i]
    BY <2>1, Halves
  <2> HIDE DEF u, v
  <2>4. ASSUME NEW i \in 1 .. n - t PROVE u[i] = v[i]
    <3>1. t + i \in 1 .. n /\ t + i # t
      <4>1. n \in Nat
        BY <1>1
      <4> HIDE DEF n
      <4> QED BY <4>1
    <3>2. e[t + i] = d[t + i]
      BY <1>3, <3>1
    <3>3. u[i] = e[t + i] /\ v[i] = d[t + i]
      BY <2>2, <2>3
    <3> QED BY <3>2, <3>3
  <2>5. u = v
    BY <2>1, <2>2, <2>3, <2>4, SeqEqual
  <2> QED BY <2>5 DEF u, v
<1>6. Left(e, t, o) = Chars(Slice(z, o, Len(z))) ++ Lines(SubSeq(d, t + 1, n))
  BY <1>3, <1>5 DEF Left
<1> QED BY <1>1, <1>3, <1>4, <1>6 DEF Replaces, Put, e

(* The range from character o1 to character o2 of paragraph t.              *)
Inside(D, d, start, end, t, o1, o2) ==
  /\ Agrees(D, d, t, o1) /\ Agrees(D, d, t, o2) /\ t <= Len(d) /\ o1 < o2
  /\ start = Start(D, t) + o1 /\ end = Start(D, t) + o2

LEMMA InsideOverlap ==
  ASSUME NEW D \in Seq(Seq(Blank)), NEW d \in Seq(Seq(Cells)), NEW t \in Nat,
         NEW o1 \in Nat, NEW o2 \in Nat, NEW start \in Nat, NEW end \in Nat,
         Inside(D, d, start, end, t, o1, o2)
  PROVE  /\ DOMAIN Overlaps(d, start, end) = {t}
         /\ Overlaps(d, start, end)[t].offset = o1
         /\ Overlaps(d, start, end)[t].length = o2 - o1
         /\ o2 <= Len(d[t]) /\ t \in 1 .. Len(d)
<1> DEFINE v == Overlaps(d, start, end)
<1>1. /\ Agrees(D, d, t, o1) /\ Agrees(D, d, t, o2) /\ t <= Len(d) /\ o1 < o2
      /\ start = Start(D, t) + o1 /\ end = Start(D, t) + o2
  BY DEF Inside
<1>2. t \in 1 .. Len(D) /\ t \in 1 .. Len(d) /\ D \in Seq(Seq(Cells))
  BY <1>1, SameUpTo
<1>3. Start(D, t) \in Nat
  BY <1>2, Bounds
<1>4. start < end /\ At(D, t, o1, start) /\ At(D, t, o2, end)
  <2> DEFINE w == Start(D, t)
  <2>1. start < end
    <3>1. w \in Nat /\ start = w + o1 /\ end = w + o2 /\ o1 < o2
      BY <1>1, <1>3
    <3> HIDE DEF w
    <3> QED BY <3>1
  <2> QED BY <1>1, <2>1 DEF At
<1>5. \A i \in DOMAIN v : i \in 1 .. Len(d)
  <2>1. DOMAIN v = {i \in 1 .. Len(d) : From(d, start, i) < Upto(d, end, i)}
    BY OverlapsValue
  <2> QED BY <2>1
<1>6. ASSUME NEW i \in DOMAIN v PROVE i = t
  <2>1. i \in 1 .. Len(d)
    BY <1>5
  <2>2. i \in DOMAIN v => i \in t .. t
    BY <1>1, <1>4, <2>1, OverlapSpan
  <2> QED BY <2>2
<1>7. Spans(d, start, end, Lo(t, o1, t), Hi(d, t, o2, t), t)
  <2>1. t \in t .. t
    OBVIOUS
  <2> QED BY <1>1, <1>2, <1>4, <2>1, OverlapSpan
<1>8. Spans(d, start, end, o1, o2, t)
  BY <1>7 DEF Lo, Hi
<1>9. t \in DOMAIN v
  BY <1>1, <1>8 DEF Spans
<1>10. v[t].offset = o1 /\ v[t].offset + v[t].length = o2 /\ o2 \in 0 .. Len(d[t])
  BY <1>8, <1>9 DEF Spans
<1>11. v[t].length \in Nat
  BY <1>9, OverlapsValue
<1>12. v[t].length = o2 - o1 /\ o2 <= Len(d[t])
  <2> DEFINE x == v[t].length
             y == v[t].offset
             m == Len(d[t])
  <2>1. x \in Nat /\ y = o1 /\ y + x = o2 /\ o2 \in 0 .. m
    BY <1>10, <1>11
  <2>2. m \in Nat
    BY <1>2
  <2> HIDE DEF x, y, m
  <2>3. x = o2 - o1 /\ o2 <= m
    BY <2>1, <2>2
  <2> QED BY <2>3 DEF x, m
<1>13. DOMAIN v = {t}
  BY <1>6, <1>9
<1> QED BY <1>2, <1>10, <1>12, <1>13

LEMMA InsideFormat ==
  ASSUME NEW D \in Seq(Seq(Blank)), NEW d \in Seq(Seq(Cells)), NEW t \in Nat,
         NEW o1 \in Nat, NEW o2 \in Nat, NEW start \in Nat, NEW end \in Nat,
         Inside(D, d, start, end, t, o1, o2)
  PROVE  FormatText(d, start, end) = Put(d, t, YFormat(d[t], o1, o2 - o1))
<1> DEFINE v == Overlaps(d, start, end)
           f == YFormat(d[t], o1, o2 - o1)
<1>1. /\ DOMAIN v = {t} /\ v[t].offset = o1 /\ v[t].length = o2 - o1
      /\ t \in 1 .. Len(d)
  <2>1. /\ DOMAIN Overlaps(d, start, end) = {t}
        /\ Overlaps(d, start, end)[t].offset = o1
        /\ Overlaps(d, start, end)[t].length = o2 - o1
        /\ o2 <= Len(d[t]) /\ t \in 1 .. Len(d)
    BY InsideOverlap
  <2> QED BY <2>1
<1>2. DOMAIN d = 1 .. Len(d) /\ d = [i \in 1 .. Len(d) |-> d[i]]
  OBVIOUS
<1>3. FormatText(d, start, end) =
        [i \in DOMAIN d |->
           IF i \in DOMAIN v THEN YFormat(d[i], v[i].offset, v[i].length) ELSE d[i]]
  BY DEF FormatText
<1>4. \A i \in DOMAIN d :
        (IF i \in DOMAIN v THEN YFormat(d[i], v[i].offset, v[i].length) ELSE d[i])
          = [d EXCEPT ![t] = f][i]
  <2> HIDE DEF v
  <2> QED BY <1>1
<1> HIDE DEF v, f
<1>5. FormatText(d, start, end) = [d EXCEPT ![t] = f]
  BY <1>3, <1>4
<1> QED BY <1>5 DEF f, Put

LEMMA InsideCleared ==
  ASSUME NEW D \in Seq(Seq(Blank)), NEW d \in Seq(Seq(Cells)), NEW t \in Nat,
         NEW o1 \in Nat, NEW o2 \in Nat, NEW start \in Nat, NEW end \in Nat,
         Inside(D, d, start, end, t, o1, o2)
  PROVE  Cleared(d, start, end) = Put(d, t, YDelete(d[t], o1, o2 - o1))
<1> DEFINE v == Overlaps(d, start, end)
           f == YDelete(d[t], o1, o2 - o1)
<1>1. /\ DOMAIN v = {t} /\ v[t].offset = o1 /\ v[t].length = o2 - o1
      /\ t \in 1 .. Len(d)
  <2>1. /\ DOMAIN Overlaps(d, start, end) = {t}
        /\ Overlaps(d, start, end)[t].offset = o1
        /\ Overlaps(d, start, end)[t].length = o2 - o1
        /\ o2 <= Len(d[t]) /\ t \in 1 .. Len(d)
    BY InsideOverlap
  <2> QED BY <2>1
<1>2. DOMAIN d = 1 .. Len(d) /\ d = [i \in 1 .. Len(d) |-> d[i]]
  OBVIOUS
<1>3. Cleared(d, start, end) =
        [i \in DOMAIN d |->
           IF i \in DOMAIN v THEN YDelete(d[i], v[i].offset, v[i].length) ELSE d[i]]
  BY DEF Cleared
<1>4. \A i \in DOMAIN d :
        (IF i \in DOMAIN v THEN YDelete(d[i], v[i].offset, v[i].length) ELSE d[i])
          = [d EXCEPT ![t] = f][i]
  <2> HIDE DEF v
  <2> QED BY <1>1
<1> HIDE DEF v, f
<1>5. Cleared(d, start, end) = [d EXCEPT ![t] = f]
  BY <1>3, <1>4
<1> QED BY <1>5 DEF f, Put

(* Operation a works on the range from o1 to o2 of paragraph t.             *)
Covers(D, op, t, o1, o2) ==
  o1 < o2 /\ op.start = Start(D, t) + o1 /\ op.end = Start(D, t) + o2

LEMMA ExactInside ==
  ASSUME NEW D \in Seq(Seq(Blank)), NEW d \in Seq(Seq(Cells)), NEW O \in Seq(Placed),
         NEW K \in SUBSET (1 .. Len(O)), NEW t \in Nat, NEW o1 \in Nat, NEW o2 \in Nat,
         Exact(D, d, O, K, t, o2), NEW op, Covers(D, op, t, o1, o2)
  PROVE  /\ Exact(D, d, O, K, t, o1)
         /\ Inside(D, d, op.start, op.end, t, o1, o2)
         /\ op.start \in Nat /\ op.end \in Nat
<1>1. o1 \in 0 .. o2
  BY DEF Covers
<1>2. Exact(D, d, O, K, t, o1)
  BY <1>1, ExactWithin
<1>3. Stands(D, d, t, o2)
  BY ExactPlace
<1>4. Start(D, t) \in Nat
  BY <1>3 DEF Stands
<1>5. op.start \in Nat /\ op.end \in Nat
  <2> DEFINE w == Start(D, t)
  <2>1. w \in Nat /\ op.start = w + o1 /\ op.end = w + o2
    BY <1>4 DEF Covers
  <2> HIDE DEF w
  <2> QED BY <2>1
<1>6. Agrees(D, d, t, o1) /\ Agrees(D, d, t, o2) /\ t <= Len(d)
  BY <1>2 DEF Exact
<1> QED BY <1>2, <1>5, <1>6 DEF Inside, Covers

LEMMA LostMore ==
  ASSUME NEW D, NEW O, NEW K, NEW t, NEW o, Lost(D, O, K, t, o), NEW a
  PROVE  Lost(D, O, K \cup {a}, t, o)
BY DEF Lost, DeletedBy

LEMMA BehindMore ==
  ASSUME NEW O, NEW n, NEW K, NEW q \in Nat, Behind(O, n, K, q), NEW a, Point(O[a], n) = q
  PROVE  Behind(O, n, K \cup {a}, q)
BY DEF Behind

LEMMA ExactFormat ==
  ASSUME NEW D \in Seq(Seq(Blank)), NEW d \in Seq(Seq(Cells)), NEW O \in Seq(Placed),
         NEW K \in SUBSET (1 .. Len(O)), NEW t \in Nat, NEW o1 \in Nat, NEW o2 \in Nat,
         Exact(D, d, O, K, t, o2), NEW a \in 1 .. Len(O), O[a].type = "format",
         Covers(D, O[a], t, o1, o2)
  PROVE  Exact(D, FormatText(d, O[a].start, O[a].end), O, K \cup {a}, t, o1)
<1> DEFINE T == ExtractText(D)
           n == Len(T)
           start == O[a].start
           end == O[a].end
           b == d[t]
           z == YFormat(b, o1, o2 - o1)
           e == Put(d, t, z)
<1>1. /\ Exact(D, d, O, K, t, o1) /\ Inside(D, d, start, end, t, o1, o2)
      /\ start \in Nat /\ end \in Nat
  BY ExactInside
<1>2. Stands(D, d, t, o1)
  BY <1>1, ExactPlace
<1>3. /\ t \in 1 .. Len(d) /\ b \in Seq(Cells) /\ o1 \in 0 .. Len(b) /\ Len(b) \in Nat
      /\ T \in Seq(Characters) /\ Start(D, t) \in Nat
  BY <1>2 DEF Stands
<1>4. /\ o2 <= Len(b) /\ FormatText(d, start, end) = e
  <2> HIDE DEF start, end
  <2>1. o2 <= Len(d[t])
    BY <1>1, InsideOverlap
  <2>2. FormatText(d, start, end) = Put(d, t, YFormat(d[t], o1, o2 - o1))
    BY <1>1, InsideFormat, SMTT(30)
  <2> QED BY <2>1, <2>2
<1>5. o2 - o1 \in Nat /\ o1 + (o2 - o1) = o2
  BY DEF Covers
<1> HIDE DEF T, b
<1>6. /\ z \in Seq(Cells) /\ Len(z) = Len(b)
      /\ \A k \in 1 .. Len(b) : k <= o1 => z[k] = b[k]
      /\ \A o \in 0 .. Len(b) : Chars(Slice(z, o, Len(z))) = Chars(Slice(b, o, Len(b)))
  <2> DEFINE l == o2 - o1
  <2>1. l \in Nat /\ o1 + l <= Len(b)
    BY <1>4, <1>5
  <2> DEFINE y == YFormat(b, o1, l)
  <2>2. y = z
    OBVIOUS
  <2> HIDE DEF l, z
  <2>3. /\ y \in Seq(Cells)
        /\ \A k \in 1 .. Len(b) : k <= o1 => y[k] = b[k]
        /\ o1 + l <= Len(b) =>
             /\ Len(y) = Len(b)
             /\ \A o \in 0 .. Len(b) : Chars(Slice(y, o, Len(y))) = Chars(Slice(b, o, Len(b)))
    BY <1>3, <2>1, YFormatKeeps
  <2> QED BY <2>1, <2>2, <2>3
<1> HIDE DEF z
<1>7. Begins(z, b, o1)
  <2>1. \A k \in 1 .. o1 : k \in 1 .. Len(b) /\ k <= o1
    BY <1>3
  <2> QED BY <1>3, <1>6, <2>1 DEF Begins
<1>8. Agrees(D, d, t, o1) /\ t <= Len(d)
  BY <1>1 DEF Exact
<1>9. Replaces(D, e, d, t, o1, z)
  BY <1>6, <1>7, <1>8, Replaced DEF b
<1> HIDE DEF e
<1>10. Left(e, t, o1) = Left(d, t, o1)
  BY <1>3, <1>6, <1>9 DEF Replaces, Left, b
<1>11. Left(d, t, o1) = Remains(O, T, K, start) /\ Behind(O, n, K, start)
       /\ start = Start(D, t) + o1
  BY <1>1 DEF Exact, Inside, T
<1>12. Remains(O, T, K \cup {a}, start) = Remains(O, T, K, start)
  BY <1>3, RestFormat, ZenonT(30)
<1>13. Behind(O, n, K \cup {a}, start)
  <2>1. Point(O[a], n) = start
    BY DEF Point, IsInsert
  <2> HIDE DEF start
  <2> QED BY <1>1, <1>11, <2>1, BehindMore
<1>14. Len(e[t]) > o1 \/ Lost(D, O, K \cup {a}, t, o1)
  <2>1. Len(d[t]) > o1 \/ Lost(D, O, K, t, o1)
    BY <1>1 DEF Exact
  <2>2. e[t] = z
    BY <1>9 DEF Replaces
  <2>3. Lost(D, O, K, t, o1) => Lost(D, O, K \cup {a}, t, o1)
    BY LostMore
  <2> QED BY <1>6, <2>1, <2>2, <2>3 DEF b
<1>15. Agrees(D, e, t, o1) /\ t <= Len(e)
  BY <1>9 DEF Replaces
<1>16. Left(e, t, o1) = Remains(O, T, K \cup {a}, start)
  BY <1>10, <1>11, <1>12
<1> HIDE DEF start
<1>17. Exact(D, e, O, K \cup {a}, t, o1)
  BY <1>11, <1>13, <1>14, <1>15, <1>16 DEF Exact, T
<1> QED BY <1>4, <1>17 DEF start

LEMMA YDeleteParts ==
  ASSUME NEW b \in Seq(Cells), NEW lo \in Nat, NEW hi \in Nat, lo < hi, hi <= Len(b)
  PROVE  LET z == YDelete(b, lo, hi - lo)
         IN /\ z \in Seq(Cells) /\ Len(z) = lo + (Len(b) - hi)
            /\ Begins(z, b, lo) /\ Slice(z, lo, Len(z)) = Slice(b, hi, Len(b))
<1> DEFINE z == YDelete(b, lo, hi - lo)
           x == Slice(b, 0, lo)
           y == Slice(b, hi, Len(b))
<1>1. Len(b) \in Nat /\ lo \in 0 .. Len(b) /\ hi \in 0 .. Len(b)
  <2>1. Len(b) \in Nat
    OBVIOUS
  <2> QED BY <2>1
<1>2. x \in Seq(Cells) /\ Len(x) = lo /\ \A k \in 1 .. lo : x[k] = b[k]
  BY <1>1, Parts
<1>3. y \in Seq(Cells) /\ Len(y) = Len(b) - hi
  BY <1>1, Parts
<1>4. z = x ++ y
  <2>1. lo + (hi - lo) = hi
    OBVIOUS
  <2>2. z = Slice(b, 0, lo) \o Slice(b, lo + (hi - lo), Len(b))
    BY DEF YDelete
  <2> HIDE DEF z
  <2> QED BY <2>1, <2>2 DEF ++
<1> HIDE DEF x, y, z
<1>5. /\ \A k \in 1 .. Len(x) : z[k] = x[k]
      /\ Slice(z, Len(x), Len(z)) = y /\ Len(z) = Len(x) + Len(y)
      /\ z \in Seq(Cells)
  BY <1>2, <1>3, <1>4, CatParts, CatLen, CatType
<1>6. Len(z) = lo + (Len(b) - hi) /\ lo <= Len(z)
  <2> DEFINE m == Len(b)
             l == Len(z)
  <2>1. l = lo + (m - hi) /\ m \in Nat /\ hi <= m
    BY <1>1, <1>2, <1>3, <1>5
  <2> HIDE DEF m, l
  <2>2. l = lo + (m - hi) /\ lo <= l
    BY <2>1
  <2> QED BY <2>2 DEF m, l
<1>7. Begins(z, b, lo)
  BY <1>2, <1>5, <1>6 DEF Begins
<1>8. Slice(z, lo, Len(z)) = y
  BY <1>2, <1>5
<1> QED BY <1>5, <1>6, <1>7, <1>8 DEF y, z

LEMMA LostDelete ==
  ASSUME NEW D \in Seq(Seq(Blank)), NEW O, NEW K, NEW t \in 1 .. Len(D),
         NEW o1 \in Nat, NEW o2 \in Nat, Lost(D, O, K, t, o2),
         NEW a, O[a].type = "delete", Covers(D, O[a], t, o1, o2)
  PROVE  Lost(D, O, K \cup {a}, t, o1)
<1> DEFINE w == Start(D, t)
           m == Len(D[t])
<1>1. w \in Nat /\ m \in Nat
  <2>1. D \in Seq(Seq(Cells)) /\ D[t] \in Seq(Blank)
    BY BlankCells
  <2> QED BY <2>1, Bounds
<1>2. o1 < o2 /\ O[a].start = w + o1 /\ O[a].end = w + o2
  BY DEF Covers
<1>3. \A k \in o2 + 1 .. m : DeletedBy(O, K, w + (k - 1))
  BY DEF Lost
<1> HIDE DEF w, m
<1>4. ASSUME NEW k \in o1 + 1 .. m PROVE DeletedBy(O, K \cup {a}, w + (k - 1))
  <2>1. CASE k <= o2
    <3>1. O[a].start <= w + (k - 1) /\ w + (k - 1) < O[a].end
      BY <1>1, <1>2, <2>1
    <3> QED BY <3>1 DEF DeletedBy
  <2>2. CASE k > o2
    <3>1. k \in o2 + 1 .. m
      BY <1>1, <2>2
    <3>2. DeletedBy(O, K, w + (k - 1))
      BY <1>3, <3>1
    <3> QED BY <3>2 DEF DeletedBy
  <2> QED BY <1>1, <2>1, <2>2
<1> QED BY <1>4 DEF Lost, w, m

(* As long as no paragraph is emptied, not all of one is lost.              *)
LEMMA NoneLost ==
  ASSUME NEW D \in Seq(Seq(Blank)), NEW O \in Seq(Placed), NEW L \in SUBSET (1 .. Len(O)),
         NEW t \in 1 .. Len(D), D[t] # <<>>, ~Emptied(D, O)
  PROVE  ~Lost(D, O, L, t, 0)
<1> DEFINE w == Start(D, t)
           m == Len(D[t])
<1>1. w \in Nat /\ m \in Nat /\ End(D, t) = w + m
  <2>1. m \in Nat /\ 0 \in 0 .. m
    OBVIOUS
  <2> QED BY <2>1, PlaceIn
<1>2. DOMAIN O = 1 .. Len(O) /\ t \in DOMAIN D
  OBVIOUS
<1>3. SUFFICES ASSUME Lost(D, O, L, t, 0) PROVE FALSE
  OBVIOUS
<1>4. \A k \in 1 .. m : DeletedBy(O, L, w + (k - 1))
  BY <1>3 DEF Lost
<1>5. PICK p \in w .. End(D, t) - 1 :
        ~\E k \in DOMAIN O : O[k].type = "delete" /\ O[k].start <= p /\ p < O[k].end
  BY <1>2 DEF Emptied, Start, End
<1> HIDE DEF w, m
<1>6. p \in w .. (w + m) - 1
  BY <1>1, <1>5
<1>7. (p - w) + 1 \in 1 .. m /\ w + (((p - w) + 1) - 1) = p
  BY <1>1, <1>6
<1>8. DeletedBy(O, L, p)
  BY <1>4, <1>7
<1> QED BY <1>2, <1>5, <1>8 DEF DeletedBy

(* When the paragraph is not emptied none is removed.                       *)
LEMMA NonePruned ==
  ASSUME NEW c \in Seq(Seq(Cells)), NEW t \in 1 .. Len(c), c[t] # <<>>
  PROVE  PruneEmptyBlocks(c, {t}) = c
<1> DEFINE s == [i \in 1 .. Len(c) |-> IF i \in Gone(c, {t}) THEN <<>> ELSE <<c[i]>>]
<1>1. PruneEmptyBlocks(c, {t}) = FlattenSeq(s)
  <2>1. {t} \in SUBSET (1 .. Len(c))
    OBVIOUS
  <2> HIDE DEF s
  <2> QED BY <2>1, PruneType DEF s
<1>2. Gone(c, {t}) = {}
  BY DEF Gone
<1>3. s = [i \in 1 .. Len(c) |-> <<c[i]>>]
  BY <1>2
<1>4. FlattenSeq([i \in 1 .. Len(c) |-> <<c[i]>>]) = c
  BY FlattenSingles
<1> QED BY <1>1, <1>3, <1>4

LEMMA ExactDelete ==
  ASSUME NEW D \in Seq(Seq(Blank)), NEW d \in Seq(Seq(Cells)), NEW O \in Seq(Placed),
         NEW K \in SUBSET (1 .. Len(O)), NEW t \in Nat, NEW o1 \in Nat, NEW o2 \in Nat,
         Exact(D, d, O, K, t, o2), NEW a \in 1 .. Len(O), O[a].type = "delete",
         Covers(D, O[a], t, o1, o2), ~Emptied(D, O)
  PROVE  Exact(D, DeleteText(d, O[a].start, O[a].end), O, K \cup {a}, t, o1)
<1> DEFINE T == ExtractText(D)
           n == Len(T)
           start == O[a].start
           end == O[a].end
           b == d[t]
           z == YDelete(b, o1, o2 - o1)
           e == Put(d, t, z)
           L == K \cup {a}
<1>1. /\ Exact(D, d, O, K, t, o1) /\ Inside(D, d, start, end, t, o1, o2)
      /\ start \in Nat /\ end \in Nat
  BY ExactInside
<1>2. Stands(D, d, t, o1) /\ Stands(D, d, t, o2)
  BY <1>1, ExactPlace
<1>3. /\ t \in 1 .. Len(d) /\ b \in Seq(Cells) /\ o1 \in 0 .. Len(b) /\ Len(b) \in Nat
      /\ T \in Seq(Characters) /\ Start(D, t) \in Nat /\ n \in Nat
      /\ t \in 1 .. Len(D) /\ o2 \in 0 .. Len(D[t]) /\ Start(D, t) + o2 \in 0 .. n
  BY <1>2 DEF Stands
<1>4. o2 <= Len(b) /\ DOMAIN Overlaps(d, start, end) = {t} /\ Cleared(d, start, end) = e
  <2> HIDE DEF start, end
  <2>1. /\ DOMAIN Overlaps(d, start, end) = {t}
        /\ Overlaps(d, start, end)[t].offset = o1
        /\ Overlaps(d, start, end)[t].length = o2 - o1
        /\ o2 <= Len(d[t]) /\ t \in 1 .. Len(d)
    BY <1>1, InsideOverlap
  <2>2. Cleared(d, start, end) = Put(d, t, YDelete(d[t], o1, o2 - o1))
    BY <1>1, InsideCleared, SMTT(30)
  <2> QED BY <2>1, <2>2
<1>5. o1 < o2
  BY DEF Covers
<1> HIDE DEF T, b
<1>6. /\ z \in Seq(Cells) /\ Len(z) = o1 + (Len(b) - o2)
      /\ Begins(z, b, o1) /\ Slice(z, o1, Len(z)) = Slice(b, o2, Len(b))
  BY <1>3, <1>4, <1>5, YDeleteParts
<1> HIDE DEF z
<1>7. Agrees(D, d, t, o1) /\ t <= Len(d)
  BY <1>1 DEF Exact
<1>8. Replaces(D, e, d, t, o1, z)
  BY <1>6, <1>7, Replaced DEF b
<1> HIDE DEF e
<1>9. Left(e, t, o1) = Left(d, t, o2)
  BY <1>3, <1>6, <1>8 DEF Replaces, Left, b
<1>10. Left(d, t, o2) = Remains(O, T, K, end) /\ Behind(O, n, K, end)
       /\ start = Start(D, t) + o1 /\ end = Start(D, t) + o2 /\ Behind(O, n, K, start)
  BY <1>1 DEF Exact, Inside, T
<1>11. start < end /\ end <= n
  <2> DEFINE w == Start(D, t)
  <2>1. w \in Nat /\ n \in Nat /\ start = w + o1 /\ end = w + o2 /\ w + o2 \in 0 .. n
    BY <1>3, <1>10
  <2> HIDE DEF w, n, start, end
  <2> QED BY <1>5, <2>1
<1>12. Remains(O, T, L, start) = Remains(O, T, K, end)
  BY <1>3, <1>10, <1>11, RestDelete
<1>13. Behind(O, n, L, start)
  <2>1. Point(O[a], n) = start
    BY DEF Point, IsInsert
  <2> HIDE DEF start
  <2> QED BY <1>1, <1>10, <2>1, BehindMore
<1>14. Len(d[t]) > o2 \/ Lost(D, O, K, t, o2)
  BY DEF Exact
<1>15. Lost(D, O, K, t, o2) => Lost(D, O, L, t, o1)
  BY <1>3, LostDelete
<1>16. e[t] = z /\ e \in Seq(Seq(Cells)) /\ Len(e) = Len(d) /\ Agrees(D, e, t, o1) /\ t <= Len(e)
  BY <1>8 DEF Replaces
<1>17. Len(e[t]) > o1 \/ Lost(D, O, L, t, o1)
  <2> DEFINE m == Len(b)
             l == Len(z)
  <2>1. m > o2 \/ Lost(D, O, L, t, o1)
    BY <1>14, <1>15 DEF b
  <2>2. m \in Nat /\ o2 <= m /\ l = o1 + (m - o2)
    BY <1>3, <1>4, <1>6
  <2> HIDE DEF m, l, L
  <2>3. l > o1 \/ Lost(D, O, L, t, o1)
    BY <2>1, <2>2
  <2> QED BY <1>16, <2>3 DEF l
<1>18. z # <<>>
  <2> SUFFICES ASSUME z = <<>> PROVE FALSE
    OBVIOUS
  <2> DEFINE m == Len(b)
             l == Len(z)
  <2>1. l = 0
    OBVIOUS
  <2>2. m \in Nat /\ o2 <= m /\ l = o1 + (m - o2)
    BY <1>3, <1>4, <1>6
  <2> HIDE DEF m, l
  <2>3. o1 = 0 /\ m = o2
    BY <2>1, <2>2
  <2>4. Lost(D, O, L, t, 0)
    BY <1>14, <1>15, <2>3 DEF m, b
  <2>5. D[t] # <<>>
    <3> SUFFICES ASSUME D[t] = <<>> PROVE FALSE
      OBVIOUS
    <3>1. Len(D[t]) = 0
      OBVIOUS
    <3> DEFINE r == Len(D[t])
    <3>2. o2 \in 0 .. r /\ r = 0
      BY <1>3, <3>1
    <3> HIDE DEF r
    <3> QED BY <1>5, <3>2
  <2>6. L \in SUBSET (1 .. Len(O))
    OBVIOUS
  <2> HIDE DEF L
  <2> QED BY <1>3, <2>4, <2>5, <2>6, NoneLost
<1>19. DeleteText(d, start, end) = e
  <2>1. DeleteText(d, start, end) = PruneEmptyBlocks(e, {t})
    <3> HIDE DEF start, end
    <3>1. DeleteText(d, start, end) =
            PruneEmptyBlocks(Cleared(d, start, end), DOMAIN Overlaps(d, start, end))
      BY <1>1, ClearedType
    <3> QED BY <1>4, <3>1
  <2>2. t \in 1 .. Len(e) /\ e[t] # <<>>
    BY <1>3, <1>16, <1>18
  <2>3. PruneEmptyBlocks(e, {t}) = e
    BY <1>16, <2>2, NonePruned
  <2> QED BY <2>1, <2>3
<1>20. Left(e, t, o1) = Remains(O, T, L, start)
  BY <1>9, <1>10, <1>12
<1> HIDE DEF start, L
<1>21. Exact(D, e, O, L, t, o1)
  BY <1>10, <1>13, <1>16, <1>17, <1>20 DEF Exact, T
<1> QED BY <1>19, <1>21 DEF start, L

LEMMA ExactInsert ==
  ASSUME NEW D \in Seq(Seq(Blank)), NEW d \in Seq(Seq(Cells)), NEW O \in Seq(Placed),
         NEW K \in SUBSET (1 .. Len(O)), NEW t \in Nat, NEW o \in Nat,
         Exact(D, d, O, K, t, o), NEW a \in 1 .. Len(O), a \notin K, IsInsert(O[a]),
         O[a].position = Start(D, t) + o,
         NoneAt(O, Len(ExtractText(D)), K, O[a].position),
         Splittable(d, O[a].text), ~BreaksFirst(O[a])
  PROVE  Exact(D, InsertText(d, O[a].position, O[a].text), O, K \cup {a}, t, o)
<1> DEFINE T == ExtractText(D)
           n == Len(T)
           p == O[a].position
           s == O[a].text
           e == InsertText(d, p, s)
           L == K \cup {a}
           J == Joined(s)
<1>1. Stands(D, d, t, o)
  BY ExactPlace
<1>2. /\ t \in 1 .. Len(D) /\ t \in 1 .. Len(d) /\ T \in Seq(Characters) /\ n \in Nat
      /\ Start(D, t) + o \in 0 .. n
  BY <1>1 DEF Stands
<1>3. p \in 0 .. n /\ p \in Nat
  <2> DEFINE q == Start(D, t) + o
  <2>1. p = q /\ q \in 0 .. n /\ n \in Nat
    BY <1>2
  <2> HIDE DEF q, p, n
  <2> QED BY <2>1
<1>4. O[a] \in Placed /\ s \in Texts
  <2>1. O[a] \in Placed
    BY SeqFacts
  <2> QED BY <2>1, PlacedFacts DEF Insertions
<1>5. /\ Agrees(D, d, t, o) /\ t <= Len(d) /\ Left(d, t, o) = Remains(O, T, K, p)
      /\ Behind(O, n, K, p) /\ (Len(d[t]) > o \/ Lost(D, O, K, t, o))
  BY DEF Exact
<1>6. At(D, t, o, p)
  BY DEF At
<1> HIDE DEF T, n
<1>7. Gains(D, e, d, t, o, s)
  <2> HIDE DEF p, s, e
  <2>1. Target(d, p) = t /\ Offset(d, p) = o
    BY <1>3, <1>5, <1>6, InsertPlace
  <2>2. Splittable(d, s)
    BY DEF s
  <2> QED BY <1>3, <1>4, <1>5, <2>1, <2>2, InsertLeft DEF e
<1>8. Len(s) = 1 \/ s[1] # <<>>
  <2>1. Len(s) > 1 => s[1] # <<>>
    BY DEF BreaksFirst
  <2>2. Len(s) \in Nat /\ Len(s) # 0
    <3> HIDE DEF s
    <3> QED BY <1>4, TextsAssumption
  <2> DEFINE l == Len(s)
  <2>3. l \in Nat /\ l # 0
    BY <2>2
  <2> HIDE DEF l, s
  <2>4. l = 1 \/ l > 1
    BY <2>3
  <2> QED BY <2>1, <2>4 DEF l
<1>9. /\ e \in Seq(Seq(Cells)) /\ t <= Len(e) /\ Agrees(D, e, t, o)
      /\ Left(e, t, o) = J ++ Left(d, t, o)
      /\ Len(d[t]) > o => Len(e[t]) > o
  <2> HIDE DEF e, s
  <2> QED BY <1>7, <1>8 DEF Gains
<1>10. Point(O[a], n) = p
  <2>1. Point(O[a], n) = IF O[a].position <= n THEN O[a].position ELSE n
    BY <1>2, <1>4, FrontType DEF n
  <2> HIDE DEF p
  <2>2. p <= n /\ O[a].position = p
    BY <1>3 DEF p
  <2> QED BY <2>1, <2>2
<1>11. Remains(O, T, L, p) = J ++ Remains(O, T, K, p)
  <2>1. \A i \in K : ~(IsInsert(O[i]) /\ Point(O[i], Len(T)) = p)
    BY DEF NoneAt, T
  <2>2. Point(O[a], Len(T)) = p /\ p \in 0 .. Len(T)
    BY <1>3, <1>10 DEF n
  <2> HIDE DEF p
  <2> QED BY <1>2, <2>1, <2>2, RestInsert
<1>12. Behind(O, n, L, p)
  <2> HIDE DEF p
  <2> QED BY <1>3, <1>5, <1>10, BehindMore
<1>13. Lost(D, O, K, t, o) => Lost(D, O, L, t, o)
  BY LostMore
<1> HIDE DEF e, L, J
<1>14. Left(e, t, o) = Remains(O, T, L, p)
  BY <1>5, <1>9, <1>11
<1>15. Exact(D, e, O, L, t, o)
  BY <1>5, <1>9, <1>12, <1>13, <1>14 DEF Exact, T, n
<1> QED BY <1>15 DEF e, L

(* Where in its paragraph an operation works.                               *)
LEMMA WithinPlace ==
  ASSUME NEW D \in Seq(Seq(Blank)), NEW op \in Placed, WithinParagraph(D, op)
  PROVE  \E t \in 1 .. Len(D) :
           IF IsInsert(op) THEN \E o \in 0 .. Len(D[t]) : op.position = Start(D, t) + o
           ELSE op.start < op.end =>
                  \E o1, o2 \in 0 .. Len(D[t]) : Covers(D, op, t, o1, o2)
<1>1. PICK t \in DOMAIN D :
        IF IsInsert(op) THEN Start(D, t) <= op.position /\ op.position <= End(D, t)
        ELSE Start(D, t) <= op.start /\ op.end <= End(D, t)
  BY DEF WithinParagraph, Start, End
<1> DEFINE w == Start(D, t)
           m == Len(D[t])
<1>2. t \in 1 .. Len(D)
  BY <1>1
<1>3. w \in Nat /\ m \in Nat /\ End(D, t) = w + m
  <2>1. m \in Nat /\ 0 \in 0 .. m
    BY <1>2
  <2> HIDE DEF w, m
  <2> QED BY <1>2, <2>1, PlaceIn DEF w, m
<1> HIDE DEF w, m
<1>4. CASE IsInsert(op)
  <2>1. op.position \in Nat
    BY <1>4, PlacedFacts DEF Insertions
  <2>2. w <= op.position /\ op.position <= w + m
    BY <1>1, <1>3, <1>4 DEF w
  <2> DEFINE p == op.position
  <2>3. p - w \in 0 .. m /\ p = w + (p - w)
    <3>1. p \in Nat /\ w <= p /\ p <= w + m /\ w \in Nat /\ m \in Nat
      BY <1>3, <2>1, <2>2
    <3> HIDE DEF p
    <3> QED BY <3>1
  <2> QED BY <1>2, <1>4, <2>3 DEF w, m
<1>5. CASE ~IsInsert(op)
  <2>1. op.start \in Nat /\ op.end \in Nat
    BY <1>5, PlacedFacts DEF PlacedRanges
  <2>2. w <= op.start /\ op.end <= w + m
    BY <1>1, <1>3, <1>5 DEF w
  <2> DEFINE x1 == op.start
             x2 == op.end
             o1 == x1 - w
             o2 == x2 - w
  <2>3. ASSUME x1 < x2
        PROVE  /\ o1 \in 0 .. m /\ o2 \in 0 .. m /\ o1 < o2
               /\ x1 = w + o1 /\ x2 = w + o2
    <3>1. x1 \in Nat /\ x2 \in Nat /\ w \in Nat /\ m \in Nat /\ w <= x1 /\ x2 <= w + m
      BY <1>3, <2>1, <2>2
    <3> HIDE DEF x1, x2
    <3> QED BY <2>3, <3>1
  <2> HIDE DEF o1, o2
  <2>4. op.start < op.end => \E x, y \in 0 .. m : Covers(D, op, t, x, y)
    BY <2>3 DEF Covers, w
  <2> QED BY <1>2, <1>5, <2>4 DEF m
<1> QED BY <1>4, <1>5

-----------------------------------------------------------------------------

(* What is left to do touches nothing behind the place up to which the      *)
(* document is as it was.                                                   *)
ExactUpTo(D, d, O, K, t, o) ==
  /\ Exact(D, d, O, K, t, o)
  /\ \A i \in (1 .. Len(O)) \ K : Reach(O[i], Len(ExtractText(D))) <= Start(D, t) + o
ExactDone(D, d, O, K) == \E t, o \in Nat : ExactUpTo(D, d, O, K, t, o)

(* All operations work within paragraphs, and none is emptied.              *)
Inwards(D, O) ==
  /\ \A i \in 1 .. Len(O) : WithinParagraph(D, O[i]) /\ ~BreaksFirst(O[i])
  /\ ~Emptied(D, O)

(* The document down to the end of the next operation.                      *)
LEMMA ExactReach ==
  ASSUME NEW D \in Seq(Seq(Blank)), NEW d \in Seq(Seq(Cells)), NEW O \in Seq(Placed),
         NEW K \in SUBSET (1 .. Len(O)), NEW a \in (1 .. Len(O)) \ K,
         ExactDone(D, d, O, K), NEW t \in 1 .. Len(D), NEW o \in 0 .. Len(D[t]),
         Reach(O[a], Len(ExtractText(D))) = Start(D, t) + o
  PROVE  Exact(D, d, O, K, t, o)
<1>1. PICK u \in Nat, v \in Nat : ExactUpTo(D, d, O, K, u, v)
  BY DEF ExactDone
<1>2. Exact(D, d, O, K, u, v) /\ Start(D, t) + o <= Start(D, u) + v
  BY <1>1 DEF ExactUpTo
<1> QED BY <1>2, ExactTo

LEMMA ExactLater ==
  ASSUME NEW D \in Seq(Seq(Blank)), NEW e \in Seq(Seq(Cells)), NEW O \in Seq(Placed),
         NEW K \in SUBSET (1 .. Len(O)), NEW a, IsNext(O, K, a), Proper(D, O),
         NEW t \in Nat, NEW o \in Nat, Exact(D, e, O, K \cup {a}, t, o),
         Point(O[a], Len(ExtractText(D))) = Start(D, t) + o
  PROVE  ExactDone(D, e, O, K \cup {a})
<1> DEFINE n == Len(ExtractText(D))
<1>1. D \in Seq(Seq(Cells)) /\ n \in Nat
  BY BlankCells, ExtractTextType
<1>2. a \in 1 .. Len(O) /\ \A i \in (1 .. Len(O)) \ (K \cup {a}) : Sooner(O, a, i)
  BY DEF IsNext
<1>3. Apart(O, n) /\ Fit(O, n)
  BY DEF Proper
<1>4. ASSUME NEW i \in (1 .. Len(O)) \ (K \cup {a})
      PROVE  Reach(O[i], n) <= Start(D, t) + o
  <2>1. i \in 1 .. Len(O) /\ i # a /\ Sooner(O, a, i)
    BY <1>2
  <2>2. Reach(O[i], n) <= Point(O[a], n)
    <3> HIDE DEF n
    <3> QED BY <1>1, <1>2, <1>3, <2>1, LaterIsBefore
  <2> QED BY <2>2
<1> QED BY <1>4 DEF ExactDone, ExactUpTo

LEMMA ExactInsertDone ==
  ASSUME NEW D \in Seq(Seq(Blank)), NEW d \in Seq(Seq(Cells)), NEW O \in Seq(Placed),
         NEW K \in SUBSET (1 .. Len(O)), NEW a, IsNext(O, K, a), Proper(D, O), Inwards(D, O),
         ExactDone(D, d, O, K), IsInsert(O[a]), Splittable(d, O[a].text)
  PROVE  ExactDone(D, InsertText(d, O[a].position, O[a].text), O, K \cup {a})
<1> DEFINE n == Len(ExtractText(D))
           p == O[a].position
           e == InsertText(d, p, O[a].text)
<1>1. D \in Seq(Seq(Cells)) /\ n \in Nat
  BY BlankCells, ExtractTextType
<1>2. a \in 1 .. Len(O) /\ a \notin K
  BY DEF IsNext
<1>3. O[a] \in Placed /\ p \in Nat /\ O[a].text \in Texts
  <2>1. O[a] \in Placed
    BY <1>2, SeqFacts
  <2> QED BY <2>1, PlacedFacts DEF Insertions
<1>4. WithinParagraph(D, O[a]) /\ ~BreaksFirst(O[a])
  BY <1>2 DEF Inwards
<1>5a. PICK t \in 1 .. Len(D) : \E o \in 0 .. Len(D[t]) : p = Start(D, t) + o
  BY <1>3, <1>4, WithinPlace
<1>5. PICK o \in 0 .. Len(D[t]) : p = Start(D, t) + o
  BY <1>5a
<1>6. Start(D, t) + o \in 0 .. n /\ t \in Nat /\ o \in Nat
  <2>1. Start(D, t) + o \in 0 .. n /\ Len(D[t]) \in Nat
    BY PlaceIn
  <2> QED BY <2>1
<1>7. Point(O[a], n) = p
  <2>1. Point(O[a], n) = IF O[a].position <= n THEN O[a].position ELSE n
    <3> HIDE DEF n
    <3> QED BY <1>1, <1>3, FrontType
  <2> HIDE DEF n, p
  <2>2. p <= n
    BY <1>5, <1>6
  <2> QED BY <2>1, <2>2 DEF p
<1>8. Exact(D, d, O, K, t, o)
  <2>1. Reach(O[a], n) = p
    BY <1>7 DEF Reach
  <2> QED BY <1>2, <1>5, <2>1, ExactReach
<1>9. NoneAt(O, n, K, p)
  <2> SUFFICES ASSUME NEW i \in K, IsInsert(O[i]), Point(O[i], n) = p PROVE FALSE
    BY DEF NoneAt
  <2>1. i # a /\ DOMAIN O = 1 .. Len(O) /\ i \in 1 .. Len(O)
    BY <1>2
  <2>2. Min({O[i].position, n}) # Min({O[a].position, n})
    BY <1>2, <2>1 DEF Apart, Proper
  <2> QED BY <1>7, <2>2 DEF Point
<1>10. Exact(D, e, O, K \cup {a}, t, o)
  BY <1>2, <1>4, <1>5, <1>6, <1>8, <1>9, ExactInsert
<1>11. e \in Seq(Seq(Cells))
  BY <1>3, InsertTextType
<1>12. Point(O[a], n) = Start(D, t) + o
  BY <1>5, <1>7
<1> HIDE DEF e
<1>13. ExactDone(D, e, O, K \cup {a})
  BY <1>6, <1>10, <1>11, <1>12, ExactLater
<1> QED BY <1>13 DEF e

LEMMA ExactRangeDone ==
  ASSUME NEW D \in Seq(Seq(Blank)), NEW d \in Seq(Seq(Cells)), NEW O \in Seq(Placed),
         NEW K \in SUBSET (1 .. Len(O)), NEW a, IsNext(O, K, a), Proper(D, O), Inwards(D, O),
         ExactDone(D, d, O, K), ~IsInsert(O[a])
  PROVE  ExactDone(D, Apply(d, O[a]), O, K \cup {a})
<1> DEFINE n == Len(ExtractText(D))
           e == Apply(d, O[a])
<1>1. a \in 1 .. Len(O) /\ a \notin K
  BY DEF IsNext
<1>2. O[a] \in Placed
  BY <1>1, SeqFacts
<1>3. WithinParagraph(D, O[a]) /\ ~Emptied(D, O) /\ O[a].start < O[a].end
  BY <1>1 DEF Inwards, Proper, Fit
<1>4. PICK t \in 1 .. Len(D) :
        \E o1, o2 \in 0 .. Len(D[t]) : Covers(D, O[a], t, o1, o2)
  BY <1>2, <1>3, WithinPlace
<1>5. PICK o1 \in 0 .. Len(D[t]), o2 \in 0 .. Len(D[t]) : Covers(D, O[a], t, o1, o2)
  BY <1>4
<1>6. t \in Nat /\ o1 \in Nat /\ o2 \in Nat
  <2>1. Len(D[t]) \in Nat
    BY PlaceIn
  <2> QED BY <2>1
<1>7. Exact(D, d, O, K, t, o2)
  <2>1. Reach(O[a], n) = Start(D, t) + o2
    BY <1>5 DEF Reach, Covers
  <2> QED BY <1>1, <2>1, ExactReach
<1>8. Point(O[a], n) = Start(D, t) + o1
  BY <1>5 DEF Point, Covers
<1>9. e \in Seq(Seq(Cells))
  BY <1>2, PlacedFacts, ApplyType DEF TextDocs
<1>10. Exact(D, e, O, K \cup {a}, t, o1)
  <2>1. CASE O[a].type = "format"
    <3>1. Exact(D, FormatText(d, O[a].start, O[a].end), O, K \cup {a}, t, o1)
      BY <1>1, <1>5, <1>6, <1>7, <2>1, ExactFormat
    <3> QED BY <1>2, <2>1, <3>1, PlacedApply
  <2>2. CASE O[a].type = "delete"
    <3>1. Exact(D, DeleteText(d, O[a].start, O[a].end), O, K \cup {a}, t, o1)
      BY <1>1, <1>3, <1>5, <1>6, <1>7, <2>2, ExactDelete
    <3> QED BY <1>2, <2>2, <3>1, PlacedApply
  <2> QED BY <1>2, <2>1, <2>2, PlacedApply DEF IsInsert
<1> HIDE DEF e
<1>11. ExactDone(D, e, O, K \cup {a})
  BY <1>6, <1>8, <1>9, <1>10, ExactLater
<1> QED BY <1>11 DEF e

LEMMA ExactApply ==
  ASSUME NEW D \in Seq(Seq(Blank)), NEW d \in Seq(Seq(Cells)), NEW O \in Seq(Placed),
         NEW K \in SUBSET (1 .. Len(O)), NEW a, IsNext(O, K, a), Proper(D, O), Inwards(D, O),
         OneSegment(O), ExactDone(D, d, O, K), Bare(O, d)
  PROVE  ExactDone(D, Apply(d, O[a]), O, K \cup {a})
<1>1. a \in 1 .. Len(O)
  BY DEF IsNext
<1>2. O[a] \in Placed
  BY <1>1, SeqFacts
<1>3. CASE ~IsInsert(O[a])
  BY <1>3, ExactRangeDone
<1>4. CASE IsInsert(O[a])
  <2>1. Splittable(d, O[a].text)
    BY <1>1, <1>4 DEF Splittable, Bare, OneSegment
  <2>2. ExactDone(D, InsertText(d, O[a].position, O[a].text), O, K \cup {a})
    BY <1>4, <2>1, ExactInsertDone
  <2>3. Apply(d, O[a]) = InsertText(d, O[a].position, O[a].text)
    BY <1>2, <1>4, PlacedApply DEF IsInsert
  <2> QED BY <2>2, <2>3
<1> QED BY <1>3, <1>4

LEMMA ExactFirst ==
  ASSUME NEW D \in Seq(Seq(Blank)), D # <<>>, NEW O \in Seq(Placed), Proper(D, O)
  PROVE  ExactDone(D, D, O, {})
<1> DEFINE T == ExtractText(D)
           n == Len(T)
           t == Len(D)
           o == Len(D[t])
<1>1. D \in Seq(Seq(Cells)) /\ T \in Seq(Characters) /\ n \in Nat
  BY BlankCells, ExtractTextType
<1>2. t \in 1 .. Len(D) /\ t \in Nat
  OBVIOUS
<1>3. D[t] \in Seq(Cells) /\ o \in Nat
  <2>1. D[t] \in Seq(Cells)
    BY <1>1, <1>2
  <2> QED BY <2>1
<1>4. Start(D, t) + o = n
  <2>1. Len(ExtractText(D)) = End(D, Len(D))
    BY TextAt
  <2>2. o \in 0 .. Len(D[t])
    BY <1>3
  <2>3. End(D, t) = Start(D, t) + Len(D[t])
    <3> HIDE DEF t, o
    <3> QED BY <1>2, <2>2, PlaceIn DEF o
  <2> QED BY <2>1, <2>3
<1>5. Left(D, t, o) = <<>>
  <2>1. Slice(D[t], o, Len(D[t])) = <<>>
    <3> HIDE DEF t
    <3> QED BY <1>3, SliceEnds
  <2>2. SubSeq(D, t + 1, Len(D)) = <<>>
    BY <1>1
  <2>3. Chars(<<>>) = <<>> /\ Lines(<<>>) = <<>>
    BY CharsFacts, LinesFacts
  <2>4. <<>> ++ <<>> = <<>>
    BY DEF ++
  <2> HIDE DEF t, o
  <2>5. SubSeq(D, t + 1, Len(D)) = <<>> /\ Slice(D[t], o, Len(D[t])) = <<>>
    BY <2>1, <2>2 DEF t
  <2> QED BY <2>3, <2>4, <2>5 DEF Left
<1>6. Remains(O, T, {}, n) = <<>>
  BY <1>1, RestNone
<1>7. Agrees(D, D, t, o)
  <2>1. \A i \in 1 .. t - 1 : i <= Len(D)
    BY <1>2
  <2>2. o \in 0 .. Len(D[t]) /\ o <= Len(D[t]) /\ t <= Len(D)
    BY <1>2, <1>3
  <2> HIDE DEF t, o
  <2> QED BY <1>2, <2>1, <2>2 DEF Agrees
<1>8. Lost(D, O, {}, t, o)
  <2>1. \A k \in o + 1 .. o : FALSE
    BY <1>3
  <2> QED BY <2>1 DEF Lost
<1>9. Behind(O, n, {}, Start(D, t) + o)
  BY DEF Behind
<1>10. Exact(D, D, O, {}, t, o)
  <2>1. t <= Len(D)
    BY <1>2
  <2> HIDE DEF t, o
  <2> QED BY <1>4, <1>5, <1>6, <1>7, <1>8, <1>9, <2>1 DEF Exact
<1>11. \A i \in (1 .. Len(O)) \ {} : Reach(O[i], n) <= Start(D, t) + o
  BY <1>4, ReachAll
<1> HIDE DEF t, o
<1> QED BY <1>2, <1>3, <1>10, <1>11 DEF ExactDone, ExactUpTo

LEMMA ExactLast ==
  ASSUME NEW D \in Seq(Seq(Blank)), NEW d \in Seq(Seq(Cells)), NEW O \in Seq(Placed),
         ExactDone(D, d, O, 1 .. Len(O))
  PROVE  PlainText(d) = Edited(ExtractText(D), O)
<1> DEFINE T == ExtractText(D)
           K == 1 .. Len(O)
<1>1. PICK t \in Nat, o \in Nat : Exact(D, d, O, K, t, o)
  BY DEF ExactDone, ExactUpTo
<1>2. Stands(D, d, t, o)
  BY <1>1, ExactPlace
<1>3. /\ t \in 1 .. Len(D) /\ Len(D) \in Nat /\ D \in Seq(Seq(Cells)) /\ Start(D, t) \in Nat
      /\ T \in Seq(Characters)
  BY <1>2 DEF Stands
<1>4. 1 \in 1 .. Len(D) /\ Start(D, 1) = 0 /\ 0 \in 0 .. Len(D[1])
  <2>1. 1 \in 1 .. Len(D) /\ Len(D) > 0
    BY <1>3
  <2>2. Start(D, 1) = 0
    BY <1>3, <2>1, Bounds
  <2>3. D[1] \in Seq(Blank)
    BY <2>1
  <2>4. 0 \in 0 .. Len(D[1])
    BY <2>3
  <2> QED BY <2>1, <2>2, <2>4
<1>5. Start(D, 1) + 0 <= Start(D, t) + o /\ Start(D, 1) + 0 = 0
  BY <1>3, <1>4
<1>6. Exact(D, d, O, K, 1, 0)
  BY <1>1, <1>4, <1>5, ExactTo
<1>7. 1 <= Len(d) /\ Left(d, 1, 0) = Remains(O, T, K, 0)
  BY <1>5, <1>6 DEF Exact
<1>8. PlainText(d) = Left(d, 1, 0)
  <2>1. d # <<>>
    BY <1>7
  <2> QED BY <2>1, PlainLeft
<1>9. Remains(O, T, K, 0) = Edited(T, O)
  BY <1>3, RestAll
<1> QED BY <1>7, <1>8, <1>9

LEMMA AppliedWithin ==
  ASSUME NEW D \in Seq(Seq(Blank)), D # <<>>, NEW O \in Seq(Placed),
         Proper(D, O), OneSegment(O), HasRangeEdit(O) \/ Len(O) = 1, Inwards(D, O)
  PROVE  PlainText(ComputeAfter(D, O)) = Edited(ExtractText(D), O)
<1> DEFINE Fine(d, K) == ExactDone(D, d, O, K) /\ Bare(O, d)
           P == {r \in TextDocs \X SUBSET (1 .. Len(O)) : Fine(r[1], r[2])}
<1>1. D \in TextDocs
  BY BlankCells DEF TextDocs
<1>2. <<D, {}>> \in P
  <2>1. ExactDone(D, D, O, {})
    BY ExactFirst
  <2>2. Bare(O, D)
    BY DEF Bare
  <2> QED BY <1>1, <2>1, <2>2
<1>3. ASSUME NEW d \in TextDocs, NEW K \in SUBSET (1 .. Len(O)), NEW a \in (1 .. Len(O)) \ K,
             <<d, K>> \in P, IsNext(O, K, a)
      PROVE  <<Apply(d, O[a]), K \cup {a}>> \in P
  <2>1. ExactDone(D, d, O, K) /\ Bare(O, d)
    BY <1>3
  <2>2. d \in Seq(Seq(Cells)) /\ O[a] \in Placed /\ a \in 1 .. Len(O)
    BY SeqFacts DEF TextDocs
  <2>3. ExactDone(D, Apply(d, O[a]), O, K \cup {a})
    BY <1>3, <2>1, <2>2, ExactApply
  <2>4. Bare(O, Apply(d, O[a]))
    BY <2>1, <2>2, ApplyBare
  <2>5. Apply(d, O[a]) \in TextDocs /\ K \cup {a} \in SUBSET (1 .. Len(O))
    BY <2>2, PlacedFacts, ApplyType
  <2>6. Fine(Apply(d, O[a]), K \cup {a})
    BY <2>3, <2>4
  <2> HIDE DEF Fine
  <2> QED BY <2>5, <2>6
<1> HIDE DEF P
<1>4. Kept(P, O)
  BY <1>3 DEF Kept
<1>5. <<ComputeAfter(D, O), 1 .. Len(O)>> \in P
  BY <1>1, <1>2, <1>4, AppliedInOrder
<1>6. /\ ComputeAfter(D, O) \in Seq(Seq(Cells))
      /\ ExactDone(D, ComputeAfter(D, O), O, 1 .. Len(O))
  BY <1>5 DEF P, TextDocs
<1> QED BY <1>6, ExactLast

LEMMA Whole ==
  ASSUME TextTypeOK, AppliedAsFound
  PROVE  ParagraphsKept
<1> SUFFICES ASSUME at = "applied", Orderly(before, applied),
                    \A i \in DOMAIN applied :
                      WithinParagraph(before, applied[i]) /\ ~BreaksFirst(applied[i]),
                    ~Emptied(before, applied)
             PROVE  PlainText(doc) = Edited(ExtractText(before), applied)
  BY DEF ParagraphsKept
<1>1. before \in TextDocs /\ applied \in Seq(TextOps)
  BY DEF TextTypeOK
<1>2. DOMAIN applied = 1 .. Len(applied)
  BY <1>1
<1>3. /\ doc = ComputeAfter(before, applied)
      /\ \A i \in 1 .. Len(applied) : Found(applied[i], ExtractText(before))
  BY DEF AppliedAsFound
<1>4. /\ before \in Seq(Seq(Blank)) /\ Proper(before, applied) /\ OneSegment(applied)
      /\ applied \in Seq(Placed)
      /\ HasRangeEdit(applied) \/ Len(applied) = 1
  BY <1>1, OrderlyFacts
<1>5. Inwards(before, applied)
  BY <1>2 DEF Inwards
<1>6. before # <<>>
  <2>1. \E i \in DOMAIN applied : TRUE
    <3>1. HasRangeEdit(applied) \/ Len(applied) = 1
      BY <1>4
    <3> QED BY <1>2, <3>1 DEF HasRangeEdit
  <2>2. \E i \in DOMAIN before : TRUE
    BY <2>1 DEF WithinParagraph
  <2> QED BY <2>2
<1> QED BY <1>1, <1>3, <1>4, <1>5, <1>6, AppliedWithin

(* When all operations of such an answer work within paragraphs and empty   *)
(* none, its effect is exactly theirs made all at once: a text of several   *)
(* paragraphs becomes that many, and no other paragraph is split or joined. *)
THEOREM ParagraphsStay == TextSpec => []ParagraphsKept
<1>1. TextInit => TextIInv
  BY TextInitType, AppliedInit DEF TextIInv
<1>2. TextIInv /\ [TextNext]_textVars => TextIInv'
  BY AsFoundKept
<1>3. TextIInv => ParagraphsKept
  BY Whole DEF TextIInv
<1> QED BY <1>1, <1>2, <1>3, PTL DEF TextSpec

=============================================================================
