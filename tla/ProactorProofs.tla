--------------------------- MODULE ProactorProofs ---------------------------
(* Proofs about Proactor, for every value of its constants.                *)
EXTENDS Proactor, SequenceTheorems, TLAPS

-----------------------------------------------------------------------------
(* Sequences.                                                              *)

\* A submission splits the queue: both parts are sequences over the same set.
LEMMA SplitType ==
    ASSUME NEW S, NEW s \in Seq(S), NEW k \in 0 .. Len(s)
    PROVE  /\ SubSeq(s, 1, k) \in Seq(S) /\ Len(SubSeq(s, 1, k)) = k
           /\ SubSeq(s, k + 1, Len(s)) \in Seq(S)
           /\ Len(SubSeq(s, k + 1, Len(s))) = Len(s) - k
           /\ \A i \in 1 .. k : SubSeq(s, 1, k)[i] = s[i]
           /\ \A i \in 1 .. Len(s) - k : SubSeq(s, k + 1, Len(s))[i] = s[k + i]
<1>1. SubSeq(s, 1, k) \in Seq(S) /\ Len(SubSeq(s, 1, k)) = k
  BY SubSeqProperties
<1>2. SubSeq(s, k + 1, Len(s)) \in Seq(S) /\ Len(SubSeq(s, k + 1, Len(s))) = Len(s) - k
  BY SubSeqProperties
<1> QED
  BY <1>1, <1>2, SubSeqProperties

\* Removing an element leaves a sequence whose elements are the others.
LEMMA RemoveAtType ==
    ASSUME NEW S, NEW s \in Seq(S), NEW i \in 1 .. Len(s)
    PROVE  /\ RemoveAt(s, i) \in Seq(S)
           /\ Len(RemoveAt(s, i)) = Len(s) - 1
           /\ \A j \in 1 .. Len(s) - 1 :
                 RemoveAt(s, i)[j] = IF j < i THEN s[j] ELSE s[j + 1]
<1> DEFINE a == SubSeq(s, 1, i - 1)
           b == SubSeq(s, i + 1, Len(s))
<1>1. a \in Seq(S) /\ Len(a) = i - 1 /\ \A j \in 1 .. i - 1 : a[j] = s[j]
  BY SubSeqProperties
<1>2. b \in Seq(S) /\ Len(b) = Len(s) - i /\ \A j \in 1 .. Len(s) - i : b[j] = s[i + j]
  BY SplitType, i \in 0 .. Len(s)
<1> HIDE DEF a, b
<1>3. /\ a \o b \in Seq(S) /\ Len(a \o b) = Len(s) - 1
      /\ \A j \in 1 .. Len(s) - 1 : (a \o b)[j] = IF j < i THEN a[j] ELSE b[j - (i - 1)]
  <2>1. /\ a \o b \in Seq(S) /\ Len(a \o b) = Len(a) + Len(b)
        /\ \A j \in 1 .. Len(a) + Len(b) :
              (a \o b)[j] = IF j <= Len(a) THEN a[j] ELSE b[j - Len(a)]
    BY <1>1, <1>2, ConcatProperties
  <2>2. Len(s) \in Nat
    OBVIOUS
  <2> QED
    BY <1>1, <1>2, <2>1, <2>2
<1>4. \A j \in 1 .. Len(s) - 1 : (a \o b)[j] = IF j < i THEN s[j] ELSE s[j + 1]
  <2> SUFFICES ASSUME NEW j \in 1 .. Len(s) - 1
               PROVE  (a \o b)[j] = IF j < i THEN s[j] ELSE s[j + 1]
    OBVIOUS
  <2>1. CASE j < i
    BY <1>1, <1>3, <2>1
  <2>2. CASE ~(j < i)
    <3>1. j - (i - 1) \in 1 .. Len(s) - i /\ i + (j - (i - 1)) = j + 1
      BY <2>2
    <3> QED
      BY <1>2, <1>3, <2>2, <3>1
  <2> QED
    BY <2>1, <2>2
<1> QED
  BY <1>3, <1>4 DEF RemoveAt, a, b

-----------------------------------------------------------------------------
(* Types of the operators the actions are built from.                      *)

TableOK(c) ==
    /\ DOMAIN c \subseteq Nat
    /\ c \in [DOMAIN c -> [op : 1 .. Len(ops), fut : BOOLEAN]]

SubmitterOK ==
    /\ faults \in 0 .. MaxFaults
    /\ sq \in Seq(Sqes) /\ Len(sq) <= Entries
    /\ slots \in Seq(Sqes) /\ Len(slots) = Entries
    /\ inflight \in Seq(Sqes)

\* io_uring_submit keeps the types of the queue and of the requests in flight.
LEMMA SubmittedType ==
    ASSUME SubmitterOK, NEW k \in 0 .. Len(sq), Submitted(k)
    PROVE  /\ sq' \in Seq(Sqes) /\ Len(sq') = Len(sq) - k
           /\ inflight' \in Seq(Sqes)
<1>1. SubSeq(sq, 1, k) \in Seq(Sqes) /\ SubSeq(sq, k + 1, Len(sq)) \in Seq(Sqes)
      /\ Len(SubSeq(sq, k + 1, Len(sq))) = Len(sq) - k
  BY SplitType DEF SubmitterOK
<1> QED
  BY <1>1, ConcatProperties DEF SubmitterOK, Submitted

\* The failed and the partial calls of io_uring_submit are counted up to their bound.
LEMMA FaultsType ==
    ASSUME SubmitterOK, NEW k, Fault \/ OnceOrInParts(k)
    PROVE  faults' \in 0 .. MaxFaults /\ (faults' = 0 => faults = 0)
BY BoundsAssumption DEF SubmitterOK, Fault, OnceOrInParts

\* _prep keeps them, and never fills more slots than there are.
LEMMA PrepWithinType ==
    ASSUME SubmitterOK, NEW new \in Seq(Sqes), NEW n \in Nat, Len(new) <= n, PrepWithin(n, new)
    PROVE  SubmitterOK'
<1>1. PICK k \in 0 .. Len(sq) :
          /\ HasRoom(n, k)
          /\ sq' = SubSeq(sq, k + 1, Len(sq)) \o new
          /\ inflight' = inflight \o SubSeq(sq, 1, k)
          /\ OnceOrInParts(k)
  BY DEF PrepWithin
<1>2. /\ SubSeq(sq, 1, k) \in Seq(Sqes) /\ SubSeq(sq, k + 1, Len(sq)) \in Seq(Sqes)
      /\ Len(SubSeq(sq, k + 1, Len(sq))) = Len(sq) - k
  BY SplitType DEF SubmitterOK
<1>3. sq' \in Seq(Sqes) /\ Len(sq') = Len(sq) - k + Len(new)
  BY <1>1, <1>2, ConcatProperties
<1>4. Len(sq') <= Entries
  <2>1. Len(sq) \in Nat /\ Len(new) \in Nat
    BY DEF SubmitterOK
  <2> QED
    BY <1>1, <1>3, <2>1, EntriesAssumption DEF HasRoom
<1>5. inflight' \in Seq(Sqes)
  BY <1>1, <1>2, ConcatProperties DEF SubmitterOK
<1>6. slots' \in Seq(Sqes) /\ Len(slots') = Entries
  <2>1. CASE ~PrepErrors
    BY <2>1 DEF PrepWithin, Remember, SubmitterOK
  <2>2. CASE PrepErrors
    <3> DEFINE all == slots \o new
    <3>1. all \in Seq(Sqes) /\ Len(all) = Len(slots) + Len(new)
      BY ConcatProperties DEF SubmitterOK
    <3>2. slots' = SubSeq(all, Len(new) + 1, Len(all))
      BY <2>2, <3>1 DEF PrepWithin, Remember
    <3>3. Len(slots) \in Nat /\ Len(new) \in Nat /\ Len(new) \in 0 .. Len(all)
      BY <3>1 DEF SubmitterOK
    <3> HIDE DEF all
    <3>4. slots' \in Seq(Sqes) /\ Len(slots') = Len(all) - Len(new)
      BY <3>1, <3>2, <3>3, SplitType
    <3> QED
      BY <3>1, <3>3, <3>4 DEF SubmitterOK
  <2> QED
    BY <2>1, <2>2
<1>7. faults' \in 0 .. MaxFaults
  BY <1>1, FaultsType
<1> QED
  BY <1>3, <1>4, <1>5, <1>6, <1>7 DEF SubmitterOK

\* The same where the room is for the entries themselves.
LEMMA PrepType ==
    ASSUME SubmitterOK, NEW new \in Seq(Sqes), Prep(new)
    PROVE  SubmitterOK'
<1>1. Len(new) \in Nat /\ PrepWithin(Len(new), new)
  BY DEF Prep
<1> QED
  BY <1>1, PrepWithinType

\* So do the calls that find no room.
LEMMA NoRoomType ==
    ASSUME SubmitterOK, NEW n, NoRoom(n)
    PROVE  SubmitterOK' /\ pendingSubmit' \in BOOLEAN
<1>1. PICK k \in 0 .. Len(sq) :
          /\ Submitted(k)
          /\ pendingSubmit' = (pendingSubmit /\ k < Len(sq))
          /\ Fault \/ OnceOrInParts(k)
  BY DEF NoRoom
<1>2. sq' \in Seq(Sqes) /\ Len(sq') = Len(sq) - k /\ inflight' \in Seq(Sqes)
  BY <1>1, SubmittedType
<1>3. Len(sq') <= Entries
  BY <1>2, EntriesAssumption DEF SubmitterOK
<1>4. faults' \in 0 .. MaxFaults
  BY <1>1, FaultsType
<1> QED
  BY <1>1, <1>2, <1>3, <1>4 DEF NoRoom, SubmitterOK

\* And flush(), whether it returns or raises.
LEMMA FlushType ==
    ASSUME SubmitterOK, pendingSubmit \in BOOLEAN, Flush \/ FlushFails
    PROVE  SubmitterOK' /\ pendingSubmit' \in BOOLEAN
<1>1. PICK k \in 0 .. Len(sq) : Submitted(k) /\ (Fault \/ OnceOrInParts(k))
  BY DEF Flush, FlushFails
<1>2. sq' \in Seq(Sqes) /\ Len(sq') = Len(sq) - k /\ inflight' \in Seq(Sqes)
  BY <1>1, SubmittedType
<1>3. Len(sq') <= Entries
  BY <1>2, EntriesAssumption DEF SubmitterOK
<1>4. faults' \in 0 .. MaxFaults
  BY <1>1, FaultsType
<1> QED
  BY <1>2, <1>3, <1>4 DEF Flush, FlushFails, SubmitterOK

\* submit() adds entries for one started operation.
LEMMA RegisterType ==
    ASSUME NEW c, NEW m \in Nat, NEW o \in 1 .. m, NEW b \in BOOLEAN, NEW new \in Seq(Sqes),
           DOMAIN c \subseteq Nat, c \in [DOMAIN c -> [op : 1 .. m, fut : BOOLEAN]]
    PROVE  LET d == Register(c, new, o, b)
           IN  /\ DOMAIN d \subseteq Nat /\ DOMAIN c \subseteq DOMAIN d
               /\ d \in [DOMAIN d -> [op : 1 .. m, fut : BOOLEAN]]
<1>1. \A i \in 1 .. Len(new) : new[i].ud \in Nat
  <2>1. \A i \in 1 .. Len(new) : new[i] \in Sqes
    BY ElementOfSeq
  <2> QED
    BY <2>1 DEF Sqes
<1> QED
  BY <1>1 DEF Register

\* mark_seen and the other methods of an operation keep it an operation.
LEMMA OperationType ==
    ASSUME NEW op \in OpRecords, NEW u \in Nat, NEW res
    PROVE  /\ MarkSeen(op, u) \in OpRecords
           /\ CancelTarget(op) \in Nat
           /\ Operate(op, res) \in {"pending", "result", "exception", "cancelled"}
BY DEF OpRecords, MarkSeen, CancelTarget, GetUserData, Operate

\* fut.cancel() keeps the types, forgets no operation and removes no entry from the table.
LEMMA CancelFutureType ==
    ASSUME SubmitterOK, pendingSubmit \in BOOLEAN, nextUd \in Nat \ {0},
           ops \in Seq(OpRecords),
           NEW o \in 1 .. Len(ops), NEW op \in OpRecords, NEW c, TableOK(c),
           CancelFuture(o, op, c)
    PROVE  /\ ops' \in Seq(OpRecords) /\ Len(ops') = Len(ops)
           /\ TableOK(cache') /\ DOMAIN c \subseteq DOMAIN cache'
           /\ SubmitterOK' /\ pendingSubmit' \in BOOLEAN /\ nextUd' \in Nat \ {0}
<1>1. ops' \in Seq(OpRecords) /\ Len(ops') = Len(ops)
  <2> DEFINE new == [op EXCEPT !.fut = IF @ = "pending" THEN "cancelled" ELSE @]
  <2>1. new \in OpRecords
    BY DEF OpRecords
  <2>2. ops' = [ops EXCEPT ![o] = new]
    BY DEF CancelFuture
  <2> QED
    BY <2>1, <2>2, ExceptSeq
<1>2. CASE CancelTarget(op) = 0 /\ cache' = c /\ UNCHANGED <<nextUd, submitter, faults>>
  <2>1. SubmitterOK' /\ pendingSubmit' \in BOOLEAN /\ nextUd' \in Nat \ {0}
    BY <1>2 DEF submitter, SubmitterOK
  <2>2. TableOK(cache') /\ DOMAIN c \subseteq DOMAIN cache'
    BY <1>2
  <2> QED
    BY <1>1, <2>1, <2>2
<1>3. CASE ~(CancelTarget(op) = 0 /\ cache' = c /\ UNCHANGED <<nextUd, submitter, faults>>)
  <2> DEFINE new == <<CancelSqe(o, CancelTarget(op))>>
  <2>1. CancelSqe(o, CancelTarget(op)) \in Sqes
    BY OperationType, o \in Nat DEF CancelSqe, Sqes, NextUserData
  <2>2. new \in Seq(Sqes)
    BY <2>1
  <2>3. /\ Prep(new) /\ cache' = Register(c, new, o, FALSE)
        /\ nextUd' = nextUd + 1 /\ pendingSubmit' = TRUE
    BY <1>3 DEF CancelFuture
  <2> HIDE DEF new
  <2>4. SubmitterOK'
    BY <2>2, <2>3, PrepType
  <2>5. TableOK(cache') /\ DOMAIN c \subseteq DOMAIN cache'
    BY <2>2, <2>3, RegisterType, Len(ops) \in Nat DEF TableOK
  <2>6. nextUd' \in Nat \ {0} /\ pendingSubmit' \in BOOLEAN
    BY <2>3
  <2> QED
    BY <1>1, <2>4, <2>5, <2>6
<1> QED
  BY <1>2, <1>3

-----------------------------------------------------------------------------
(* Type correctness.                                                       *)

\* What TypeOK says of the submitter, the table and the operations.
LEMMA TypeParts ==
    ASSUME TypeOK
    PROVE  /\ SubmitterOK /\ TableOK(cache) /\ pendingSubmit \in BOOLEAN
           /\ nextUd \in Nat \ {0} /\ ops \in Seq(OpRecords) /\ Len(ops) \in Nat
           /\ \A u \in DOMAIN cache : /\ cache[u].op \in 1 .. Len(ops)
                                      /\ ops[cache[u].op] \in OpRecords
           /\ \A o \in 1 .. Len(ops) : ops[o] \in OpRecords
BY DEF TypeOK, SubmitterOK, TableOK

TypeFrame ==
    /\ stopped' \subseteq Files /\ closing' \in BOOLEAN
    /\ pc' \in {"idle", "stopping", "wait", "waitT", "drain", "cancelling", "closeloop", "closed"}
    /\ todo' \subseteq DOMAIN cache' /\ (pc' \notin {"stopping", "cancelling"} => todo' = {})
    /\ cq' \in Seq(Cqes) /\ pipe' \subseteq Nat /\ hit' \subseteq Nat /\ succeeded' \subseteq Nat

\* Reassembling TypeOK' where operations, queues and table changed in a typed way.
LEMMA TypeAgain ==
    ASSUME TypeOK, SubmitterOK', pendingSubmit' \in BOOLEAN, nextUd' \in Nat \ {0},
           ops' \in Seq(OpRecords), Len(ops') >= Len(ops),
           DOMAIN cache' \subseteq Nat,
           cache' \in [DOMAIN cache' -> [op : 1 .. Len(ops'), fut : BOOLEAN]],
           results' \subseteq 1 .. Len(ops'), TypeFrame
    PROVE  TypeOK'
BY DEF TypeOK, SubmitterOK, TypeFrame

\* Starting an operation keeps the types.
LEMMA StartType ==
    ASSUME TypeOK, NEW kind \in {"io", "accept", "sendfile"}, NEW f \in Files,
           NEW u1 \in Nat, NEW u2 \in Nat, NEW new \in Seq(Sqes),
           Prep(new), cache' = Register(cache, new, Len(ops) + 1, TRUE),
           ops' = Append(ops, Operation(kind, f, u1, u2)),
           nextUd' \in Nat \ {0}, pendingSubmit' = TRUE,
           UNCHANGED <<results, stopped, pc, closing, todo, kernel>>
    PROVE  TypeOK'
<1>1. SubmitterOK'
  BY TypeParts, PrepType
<1>2. Operation(kind, f, u1, u2) \in OpRecords
  BY DEF Operation, OpRecords
<1>3. ops' \in Seq(OpRecords) /\ Len(ops') = Len(ops) + 1 /\ Len(ops) \in Nat
  BY <1>2, TypeParts, AppendProperties
<1>4. /\ DOMAIN cache' \subseteq Nat /\ DOMAIN cache \subseteq DOMAIN cache'
      /\ cache' \in [DOMAIN cache' -> [op : 1 .. Len(ops) + 1, fut : BOOLEAN]]
  <2> DEFINE m == Len(ops) + 1
  <2>1. m \in Nat /\ m \in 1 .. m /\ 1 .. Len(ops) \subseteq 1 .. m
    BY <1>3
  <2>2. DOMAIN cache \subseteq Nat /\ cache \in [DOMAIN cache -> [op : 1 .. m, fut : BOOLEAN]]
    BY <2>1, TypeParts DEF TableOK
  <2> HIDE DEF m
  <2>3. cache' = Register(cache, new, m, TRUE)
    BY DEF m
  <2>4. LET d == Register(cache, new, m, TRUE)
        IN  /\ DOMAIN d \subseteq Nat /\ DOMAIN cache \subseteq DOMAIN d
            /\ d \in [DOMAIN d -> [op : 1 .. m, fut : BOOLEAN]]
    BY <2>1, <2>2, RegisterType
  <2> QED
    BY <2>3, <2>4 DEF m
<1>5. results' \subseteq 1 .. Len(ops') /\ Len(ops') >= Len(ops)
  BY <1>3 DEF TypeOK
<1>6. cache' \in [DOMAIN cache' -> [op : 1 .. Len(ops'), fut : BOOLEAN]]
  BY <1>3, <1>4
<1>7. TypeFrame
  BY <1>4 DEF TypeOK, TypeFrame, kernel
<1> QED
  BY <1>1, <1>3, <1>4, <1>5, <1>6, <1>7, TypeAgain

\* A step that cancels a future and consumes at most the first CQE.
LEMMA CancelType ==
    ASSUME TypeOK, NEW o \in 1 .. Len(ops), NEW op \in OpRecords, NEW c,
           TableOK(c), CancelFuture(o, op, c), todo' \subseteq DOMAIN c,
           pc' \in {"idle", "stopping", "drain", "cancelling"},
           pc' \notin {"stopping", "cancelling"} => todo' = {},
           cq' \in Seq(Cqes), UNCHANGED <<results, stopped, closing, pipe, hit, succeeded>>
    PROVE  TypeOK'
<1>1. /\ ops' \in Seq(OpRecords) /\ Len(ops') = Len(ops) /\ Len(ops) \in Nat
      /\ TableOK(cache') /\ DOMAIN c \subseteq DOMAIN cache'
      /\ SubmitterOK' /\ pendingSubmit' \in BOOLEAN /\ nextUd' \in Nat \ {0}
  BY TypeParts, CancelFutureType
<1>2. /\ DOMAIN cache' \subseteq Nat /\ results' \subseteq 1 .. Len(ops')
      /\ cache' \in [DOMAIN cache' -> [op : 1 .. Len(ops'), fut : BOOLEAN]]
      /\ Len(ops') >= Len(ops)
  BY <1>1 DEF TypeOK, TableOK
<1>3. TypeFrame
  BY <1>1 DEF TypeOK, TypeFrame
<1> QED
  BY <1>1, <1>2, <1>3, TypeAgain

\* A step that raises: the submitter may have flushed, the counter may have moved on.
LEMMA RaiseType ==
    ASSUME TypeOK, SubmitterOK', pendingSubmit' \in BOOLEAN, nextUd' \in {nextUd, nextUd + 1, nextUd + 2},
           UNCHANGED <<ops, cache, results, stopped, kernel>>, closing' \in BOOLEAN,
           pc' \in {pc, "idle"}, todo' \subseteq todo, pc' # pc => todo' = {}
    PROVE  TypeOK'
<1>1. nextUd' \in Nat \ {0}
  BY DEF TypeOK
<1>2. /\ ops' \in Seq(OpRecords) /\ Len(ops') >= Len(ops)
      /\ DOMAIN cache' \subseteq Nat /\ results' \subseteq 1 .. Len(ops')
      /\ cache' \in [DOMAIN cache' -> [op : 1 .. Len(ops'), fut : BOOLEAN]]
  BY TypeParts DEF TypeOK
<1>3. TypeFrame
  BY DEF TypeOK, TypeFrame, kernel
<1> QED
  BY <1>1, <1>2, <1>3, TypeAgain

\* _cache.pop leaves a table.
LEMMA PopType ==
    ASSUME NEW c, NEW u, TableOK(c)
    PROVE  TableOK(Pop(c, u)) /\ DOMAIN Pop(c, u) \subseteq DOMAIN c
BY DEF TableOK, Pop

\* The calls user code makes keep the types.
LEMMA TypeCall == ASSUME TypeOK, Call PROVE TypeOK'
<1>1. ASSUME NEW f \in Files, StartSendfile(f) PROVE TypeOK'
  <2> DEFINE s1 == [ud |-> NextUserData(0), opc |-> "f2p", op |-> Len(ops) + 1, target |-> 0]
             s2 == [ud |-> NextUserData(1), opc |-> "p2s", op |-> Len(ops) + 1, target |-> 0]
  <2>1. NextUserData(0) \in Nat /\ NextUserData(1) \in Nat /\ nextUd + 2 \in Nat \ {0}
    BY DEF NextUserData, TypeOK
  <2>2. s1 \in Sqes /\ s2 \in Sqes
    BY <2>1, TypeParts DEF Sqes
  <2>3. <<s1, s2>> \in Seq(Sqes)
    BY <2>2
  <2>4. /\ Prep(<<s1, s2>>) /\ cache' = Register(cache, <<s1, s2>>, Len(ops) + 1, TRUE)
        /\ ops' = Append(ops, Operation("sendfile", f, NextUserData(0), NextUserData(1)))
        /\ nextUd' = nextUd + 2 /\ pendingSubmit' = TRUE
        /\ UNCHANGED <<results, stopped, pc, closing, todo, kernel>>
    BY <1>1 DEF StartSendfile
  <2> HIDE DEF s1, s2
  <2> QED
    BY <2>1, <2>3, <2>4, StartType
<1>2. ASSUME NEW kind \in Kinds, NEW f \in Files, StartOp(kind, f) PROVE TypeOK'
  <2> DEFINE s1 == [ud |-> NextUserData(0), opc |-> "single", op |-> Len(ops) + 1, target |-> 0]
  <2>1. NextUserData(0) \in Nat /\ nextUd + 1 \in Nat \ {0}
    BY DEF NextUserData, TypeOK
  <2>2. s1 \in Sqes
    BY <2>1, TypeParts DEF Sqes
  <2>3. <<s1>> \in Seq(Sqes) /\ kind \in {"io", "accept", "sendfile"}
    BY <2>2, KindsAssumption
  <2>4. /\ Prep(<<s1>>) /\ cache' = Register(cache, <<s1>>, Len(ops) + 1, TRUE)
        /\ ops' = Append(ops, Operation(kind, f, NextUserData(0), NextUserData(0)))
        /\ nextUd' = nextUd + 1 /\ pendingSubmit' = TRUE
        /\ UNCHANGED <<results, stopped, pc, closing, todo, kernel>>
    BY <1>2 DEF StartOp, SingleCqeOperation
  <2> HIDE DEF s1
  <2> QED
    BY <2>1, <2>3, <2>4, StartType
<1>3. CASE StartRaises
  <2>1. SubmitterOK' /\ pendingSubmit' \in BOOLEAN
    BY <1>3, TypeParts, NoRoomType DEF StartRaises
  <2>2. /\ nextUd' \in {nextUd, nextUd + 1}
        /\ UNCHANGED <<ops, cache, results, stopped, kernel, pc, closing, todo>>
    BY <1>3 DEF StartRaises
  <2>3. closing' \in BOOLEAN /\ todo' \subseteq todo
    BY <2>2 DEF TypeOK
  <2> QED
    BY <2>1, <2>2, <2>3, RaiseType
<1>4. CASE StartPrepFails
  <2>1. Head(slots) \in Sqes
    BY EntriesAssumption DEF TypeOK
  <2>2. PICK n \in 1 .. 2 :
            /\ PrepWithin(n, <<Head(slots)>>)
            /\ pendingSubmit' = (pendingSubmit /\ Len(sq) + n <= Entries)
            /\ nextUd' = nextUd + n
    BY <1>4 DEF StartPrepFails
  <2>3. SubmitterOK'
    <3>1. <<Head(slots)>> \in Seq(Sqes) /\ Len(<<Head(slots)>>) = 1 /\ n \in Nat /\ 1 <= n
      BY <2>1
    <3> QED
      BY <2>2, <3>1, PrepWithinType, TypeParts
  <2>4. /\ pendingSubmit' \in BOOLEAN /\ nextUd' \in {nextUd, nextUd + 1, nextUd + 2}
        /\ UNCHANGED <<ops, cache, results, stopped, kernel, pc, closing, todo>>
    BY <1>4, <2>2 DEF StartPrepFails
  <2>5. closing' \in BOOLEAN /\ todo' \subseteq todo
    BY <2>4 DEF TypeOK
  <2> QED
    BY <2>3, <2>4, <2>5, RaiseType
<1>5. ASSUME NEW o \in 1 .. Len(ops), UserCancel(o) PROVE TypeOK'
  <2>1. /\ CancelFuture(o, ops[o], cache) /\ pc' = "idle"
        /\ UNCHANGED <<results, stopped, closing, todo, cq, pipe, hit, succeeded>>
    BY <1>5 DEF UserCancel, Idle, kernel
  <2>2. todo' = {} /\ cq' \in Seq(Cqes)
    BY <1>5, <2>1 DEF UserCancel, Idle, TypeOK
  <2> QED
    BY <2>1, <2>2, TypeParts, CancelType
<1>6. ASSUME NEW o \in 1 .. Len(ops), UserCancelRaises(o) PROVE TypeOK'
  <2>1. SubmitterOK' /\ pendingSubmit' \in BOOLEAN
    BY <1>6, TypeParts, NoRoomType DEF UserCancelRaises, CancelFutureRaises
  <2>2. /\ nextUd' \in {nextUd, nextUd + 1}
        /\ UNCHANGED <<ops, cache, results, stopped, kernel, pc, closing, todo>>
    BY <1>6 DEF UserCancelRaises, CancelFutureRaises
  <2>3. closing' \in BOOLEAN /\ todo' \subseteq todo
    BY <2>2 DEF TypeOK
  <2> QED
    BY <2>1, <2>2, <2>3, RaiseType
<1>7. ASSUME NEW f \in Files, StopServing(f) PROVE TypeOK'
  BY <1>7 DEF StopServing, TypeOK, submitter, kernel
<1>8. CASE CloseBegins
  BY <1>8 DEF CloseBegins, TypeOK, submitter, kernel
<1>9. CASE CloseAgain
  BY <1>9 DEF CloseAgain, TypeOK, vars, python, submitter, kernel
<1> QED
  BY <1>1, <1>2, <1>3, <1>4, <1>5, <1>6, <1>7, <1>8, <1>9 DEF Call

\* The steps of _stop_serving and of the first loop of close() keep the types.
LEMMA TypeLoops ==
    ASSUME TypeOK,
           \/ StopServingCancels \/ StopServingRaises \/ StopServingReturns
           \/ CloseCancels \/ CloseCancelFails \/ CloseCancelled
    PROVE  TypeOK'
<1>1. CASE StopServingCancels \/ CloseCancels
  <2>1. PICK u \in todo : /\ CancelFuture(cache[u].op, ops[cache[u].op], cache)
                          /\ todo' = {v \in todo : v > u}
    BY <1>1 DEF StopServingCancels, CloseCancels
  <2>2. /\ pc' \in {"stopping", "cancelling"}
        /\ UNCHANGED <<results, stopped, closing, cq, pipe, hit, succeeded>>
    BY <1>1 DEF StopServingCancels, CloseCancels, kernel
  <2>3. u \in DOMAIN cache /\ todo' \subseteq DOMAIN cache /\ cq' \in Seq(Cqes)
    BY <2>1, <2>2 DEF TypeOK
  <2> QED
    BY <2>1, <2>2, <2>3, TypeParts, CancelType
<1>2. CASE StopServingRaises \/ CloseCancelFails
  <2>1. SubmitterOK' /\ pendingSubmit' \in BOOLEAN /\ nextUd' = nextUd + 1
    BY <1>2, TypeParts, NoRoomType DEF StopServingRaises, CloseCancelFails, CancelFutureRaises
  <2>2. /\ UNCHANGED <<ops, cache, results, stopped, kernel>> /\ closing' \in BOOLEAN
        /\ pc' \in {pc, "idle"} /\ todo' \subseteq todo /\ (pc' # pc => todo' = {})
    BY <1>2 DEF StopServingRaises, CloseCancelFails, Unwind, TypeOK
  <2> QED
    BY <2>1, <2>2, RaiseType
<1>3. CASE StopServingReturns \/ CloseCancelled
  BY <1>3 DEF StopServingReturns, CloseCancelled, TypeOK, submitter, kernel
<1> QED
  BY <1>1, <1>2, <1>3

\* select, _poll and the second loop of close() keep the types.
LEMMA TypePoll ==
    ASSUME TypeOK,
           \/ SelectPolls \/ SelectSkipsPoll \/ SelectRaises \/ WaitTimesOut \/ DrainEnds
           \/ WaitInterrupted \/ ClosePolls \/ ClosePollRaises \/ CloseExits
    PROVE  TypeOK'
<1>1. CASE SelectPolls \/ ClosePolls
  <2>1. SubmitterOK' /\ pendingSubmit' \in BOOLEAN
    BY <1>1, TypeParts, FlushType DEF SelectPolls, ClosePolls
  <2>2. /\ UNCHANGED <<nextUd, ops, cache, results, stopped, closing, todo, kernel>>
        /\ pc \notin {"stopping", "cancelling"} /\ pc' \in {"wait", "waitT", "drain"}
    BY <1>1 DEF SelectPolls, ClosePolls
  <2> QED
    BY <2>1, <2>2 DEF TypeOK, SubmitterOK, kernel
<1>2. CASE SelectRaises \/ ClosePollRaises
  <2>1. SubmitterOK' /\ pendingSubmit' \in BOOLEAN
    BY <1>2, TypeParts, FlushType DEF SelectRaises, ClosePollRaises
  <2>2. /\ UNCHANGED <<nextUd, ops, cache, results, stopped, kernel>> /\ closing' \in BOOLEAN
        /\ pc' \in {pc, "idle"} /\ todo' \subseteq todo /\ (pc' # pc => todo' = {})
    BY <1>2 DEF SelectRaises, ClosePollRaises, Unwind, python, TypeOK
  <2> QED
    BY <2>1, <2>2, RaiseType
<1>3. CASE SelectSkipsPoll \/ CloseExits
  BY <1>3 DEF SelectSkipsPoll, CloseExits, TypeOK, submitter, kernel
<1>4. CASE WaitTimesOut \/ DrainEnds
  BY <1>4 DEF WaitTimesOut, DrainEnds, PollReturns, TypeOK, submitter, kernel
<1>5. CASE WaitInterrupted
  BY <1>5 DEF WaitInterrupted, Unwind, TypeOK, submitter, kernel
<1> QED
  BY <1>1, <1>2, <1>3, <1>4, <1>5

\* What a CQE names when its user_data is in the table.
LEMMA CqeParts ==
    ASSUME TypeOK, Reaping
    PROVE  /\ Head(cq) \in Cqes /\ Tail(cq) \in Seq(Cqes) /\ todo = {}
           /\ Known => /\ CachedOp \in 1 .. Len(ops) /\ ops[CachedOp] \in OpRecords
                       /\ MarkedOp \in OpRecords
<1>1. cq \in Seq(Cqes) /\ cq # <<>> /\ todo = {}
  BY DEF TypeOK, Reaping
<1>2. Head(cq) \in Cqes /\ Tail(cq) \in Seq(Cqes)
  BY <1>1, HeadTailProperties
<1>3. ASSUME Known PROVE /\ CachedOp \in 1 .. Len(ops) /\ ops[CachedOp] \in OpRecords
                         /\ MarkedOp \in OpRecords
  <2>1. CachedOp \in 1 .. Len(ops) /\ ops[CachedOp] \in OpRecords
    BY <1>3, TypeParts DEF Known, CachedOp
  <2>2. Head(cq).ud \in Nat
    BY <1>2 DEF Cqes
  <2> QED
    BY <2>1, <2>2, OperationType DEF MarkedOp
<1> QED
  BY <1>1, <1>2, <1>3

\* _handle_cqe keeps the types.
LEMMA TypeCqe ==
    ASSUME TypeOK, HandleCqe \/ CqeOfStoppedRaises
    PROVE  TypeOK'
<1>0. Reaping
  BY DEF HandleCqe, CqeOfStoppedRaises, CqeUnknown, CqeOfCancel, CqeOfStopped, CqeOfOperation
<1> DEFINE c == Pop(cache, Head(cq).ud)
<1>c. TableOK(c)
  BY TypeParts, PopType
<1> HIDE DEF c
<1>1. CASE CqeUnknown
  BY <1>0, <1>1, CqeParts DEF CqeUnknown, CqeSeen, TypeOK, submitter
<1>2. CASE CqeOfCancel
  <2>1. /\ cache' = c /\ cq' = Tail(cq) /\ pc' = "drain"
        /\ UNCHANGED <<nextUd, ops, results, stopped, closing, todo, submitter, faults,
                       pipe, hit, succeeded>>
    BY <1>2 DEF CqeOfCancel, CqeSeen, c
  <2> QED
    BY <1>0, <1>c, <2>1, CqeParts DEF TypeOK, TableOK, submitter
<1>3. CASE CqeOfStopped
  <2>1. /\ CancelFuture(CachedOp, MarkedOp, c) /\ Known
        /\ cq' = Tail(cq) /\ pc' = "drain"
        /\ UNCHANGED <<results, stopped, closing, todo, pipe, hit, succeeded>>
    BY <1>3 DEF CqeOfStopped, CqeSeen, ForStopped, c
  <2>2. /\ CachedOp \in 1 .. Len(ops) /\ MarkedOp \in OpRecords
        /\ cq' \in Seq(Cqes) /\ todo' = {}
    BY <1>0, <2>1, CqeParts
  <2> QED
    BY <1>c, <2>1, <2>2, CancelType
<1>4. CASE CqeOfStoppedRaises
  <2>1. /\ SubmitterOK' /\ pendingSubmit' \in BOOLEAN
    BY <1>4, TypeParts, NoRoomType DEF CqeOfStoppedRaises, CancelFutureRaises
  <2>2. /\ nextUd' = nextUd + 1 /\ ops' = [ops EXCEPT ![CachedOp] = MarkedOp] /\ cache' = c
        /\ pc' = "idle" /\ closing' = FALSE /\ todo' = {} /\ Known
        /\ UNCHANGED <<results, stopped, kernel>>
    BY <1>4 DEF CqeOfStoppedRaises, CancelFutureRaises, ForStopped, Unwind, c
  <2>3. ops' \in Seq(OpRecords) /\ Len(ops') = Len(ops)
    BY <1>0, <2>2, CqeParts, TypeParts, ExceptSeq
  <2>4. /\ nextUd' \in Nat \ {0} /\ Len(ops') >= Len(ops)
        /\ DOMAIN cache' \subseteq Nat /\ results' \subseteq 1 .. Len(ops')
        /\ cache' \in [DOMAIN cache' -> [op : 1 .. Len(ops'), fut : BOOLEAN]]
    BY <1>c, <2>2, <2>3 DEF TypeOK, TableOK
  <2>5. TypeFrame
    BY <2>2 DEF TypeOK, TypeFrame, kernel
  <2> QED
    BY <2>1, <2>3, <2>4, <2>5, TypeAgain
<1>5. CASE CqeOfOperation
  <2> DEFINE fut == IF MarkedOp.fut = "pending" THEN Operate(MarkedOp, Head(cq).res) ELSE MarkedOp.fut
             new == [MarkedOp EXCEPT !.fut = fut]
  <2>1. CachedOp \in 1 .. Len(ops) /\ MarkedOp \in OpRecords
    BY <1>0, <1>5, CqeParts DEF CqeOfOperation
  <2>2. new \in OpRecords
    <3>1. fut \in {"pending", "result", "exception", "cancelled"}
      BY <2>1, OperationType, 0 \in Nat DEF OpRecords
    <3> QED
      BY <2>1, <3>1 DEF OpRecords
  <2>3. /\ ops' = [ops EXCEPT ![CachedOp] = new] /\ cache' = c /\ cq' = Tail(cq) /\ pc' = "drain"
        /\ results' \subseteq results \cup {CachedOp}
        /\ UNCHANGED <<nextUd, stopped, closing, todo, submitter, faults, pipe, hit, succeeded>>
    BY <1>5 DEF CqeOfOperation, CqeSeen, c
  <2> HIDE DEF new
  <2>4. ops' \in Seq(OpRecords) /\ Len(ops') = Len(ops)
    BY <2>1, <2>2, <2>3, TypeParts, ExceptSeq
  <2>5. Tail(cq) \in Seq(Cqes) /\ todo = {}
    BY <1>0, CqeParts
  <2> QED
    BY <1>c, <2>1, <2>3, <2>4, <2>5 DEF TypeOK, TableOK, submitter
<1> QED
  BY <1>1, <1>2, <1>3, <1>4, <1>5 DEF HandleCqe

\* What a splice that moves data before it completes leaves alone: all but its opcode.
LEMMA MovedParts ==
    ASSUME TypeOK, NEW i \in 1 .. Len(inflight), MoveUnlinked(i)
    PROVE  LET e == inflight[i]
               m == [e EXCEPT !.opc = "moved"]
           IN  /\ e \in Sqes /\ e.opc = "f2p" /\ m \in Sqes /\ m.opc = "moved"
               /\ m.ud = e.ud /\ m.op = e.op /\ m.target = e.target
               /\ inflight' = [inflight EXCEPT ![i] = m] /\ Len(inflight') = Len(inflight)
               /\ \A j \in 1 .. Len(inflight) : inflight'[j] = IF j = i THEN m ELSE inflight[j]
               /\ pipe' = pipe \cup {e.op}
               /\ UNCHANGED <<python, pendingSubmit, sq, slots, cq, hit, succeeded, faults>>
<1> DEFINE e == inflight[i]
           m == [e EXCEPT !.opc = "moved"]
<1>1. inflight \in Seq(Sqes) /\ e \in Sqes
  BY DEF TypeOK
<1>2. m \in Sqes /\ m.opc = "moved" /\ m.ud = e.ud /\ m.op = e.op /\ m.target = e.target
  BY <1>1 DEF Sqes
<1>3. inflight' = [inflight EXCEPT ![i] = m]
  BY DEF MoveUnlinked
<1> HIDE DEF m
<1>4. /\ Len(inflight') = Len(inflight)
      /\ \A j \in 1 .. Len(inflight) : inflight'[j] = IF j = i THEN m ELSE inflight[j]
  BY <1>1, <1>2, <1>3
<1> QED
  BY <1>1, <1>2, <1>3, <1>4 DEF MoveUnlinked, m

\* It keeps the types.
LEMMA TypeMoved ==
    ASSUME TypeOK, NEW i \in 1 .. Len(inflight), MoveUnlinked(i)
    PROVE  TypeOK'
<1> DEFINE m == [inflight[i] EXCEPT !.opc = "moved"]
<1>1. /\ inflight[i] \in Sqes /\ m \in Sqes /\ inflight' = [inflight EXCEPT ![i] = m]
      /\ pipe' = pipe \cup {inflight[i].op}
      /\ UNCHANGED <<python, pendingSubmit, sq, slots, cq, hit, succeeded, faults>>
  BY MovedParts
<1> HIDE DEF m
<1>2. inflight' \in Seq(Sqes)
  BY <1>1, ExceptSeq DEF TypeOK
<1>3. pipe' \subseteq Nat
  BY <1>1 DEF Sqes, TypeOK
<1> QED
  BY <1>1, <1>2, <1>3 DEF TypeOK, python

\* The kernel keeps the types.
LEMMA TypeKernel == ASSUME TypeOK, Kernel PROVE TypeOK'
<1> SUFFICES ASSUME NEW i \in 1 .. Len(inflight),
                    ExecCancel(i) \/ \E res \in {"ok", "err"} : Complete(i, res)
             PROVE  TypeOK'
  BY TypeMoved DEF Kernel
<1>1. ExecCancel(i) \/ \E res \in {"ok", "err"} : Complete(i, res)
  OBVIOUS
<1>2. inflight[i] \in Sqes /\ inflight \in Seq(Sqes)
  BY DEF TypeOK
<1>3. /\ \E res \in {"ok", "err", "noent"} : Post(i, res)
      /\ hit' \in {hit, hit \cup {inflight[i].target}}
      /\ pipe' \in {pipe, pipe \cup {inflight[i].op}}
  BY <1>1 DEF ExecCancel, Complete, CompleteSingle, CompleteF2p, CompleteMoved, CompleteP2s
<1>4. PICK res \in {"ok", "err", "noent"} : Post(i, res)
  BY <1>3
<1>5. inflight' \in Seq(Sqes)
  BY <1>2, <1>4, RemoveAtType DEF Post
<1>6. cq' \in Seq(Cqes)
  <2>1. [ud |-> inflight[i].ud, res |-> res] \in Cqes
    BY <1>2 DEF Cqes, Sqes
  <2> QED
    BY <1>4, <2>1, AppendProperties DEF Post, TypeOK
<1>7. hit' \subseteq Nat /\ pipe' \subseteq Nat /\ succeeded' \subseteq Nat
  BY <1>2, <1>3, <1>4 DEF Post, Sqes, TypeOK
<1> QED
  BY <1>4, <1>5, <1>6, <1>7 DEF Post, TypeOK, python

\* Type correctness: the table, the queues and the operations of the proactor keep
\* their types in every behaviour, the submission queue never overflows, and the loops
\* over a copy of the table only meet entries that are still there.
THEOREM TypeCorrect == Spec => []TypeOK
<1>1. Init => TypeOK
  <2> SUFFICES ASSUME Init PROVE TypeOK
    OBVIOUS
  <2>1. slots \in Seq(Sqes) /\ Len(slots) = Entries
    <3>1. NoSqe \in Sqes
      BY DEF NoSqe, Sqes
    <3> QED
      BY <3>1, EntriesAssumption DEF Init
  <2>2. cache \in [DOMAIN cache -> [op : 1 .. Len(ops), fut : BOOLEAN]] /\ DOMAIN cache = {}
    BY DEF Init
  <2>3. Len(sq) <= Entries /\ faults \in 0 .. MaxFaults
    BY EntriesAssumption, BoundsAssumption DEF Init
  <2>4. /\ ops \in Seq(OpRecords) /\ sq \in Seq(Sqes) /\ inflight \in Seq(Sqes)
        /\ cq \in Seq(Cqes)
    BY DEF Init
  <2>5. /\ nextUd = 1 /\ results = {} /\ stopped = {} /\ pc = "idle" /\ todo = {}
        /\ pipe = {} /\ hit = {} /\ succeeded = {}
        /\ pendingSubmit \in BOOLEAN /\ closing \in BOOLEAN
    BY DEF Init
  <2> QED
    BY <2>1, <2>2, <2>3, <2>4, <2>5 DEF TypeOK
<1>2. TypeOK /\ [Next]_vars => TypeOK'
  <2> SUFFICES ASSUME TypeOK, [Next]_vars PROVE TypeOK'
    OBVIOUS
  <2>1. CASE UNCHANGED vars
    BY <2>1 DEF TypeOK, vars, python, submitter, kernel
  <2>2. CASE Call
    BY <2>2, TypeCall
  <2>3. CASE LoopStep \/ LoopRaises
    BY <2>3, TypeLoops, TypePoll, TypeCqe DEF LoopStep, LoopRaises
  <2>4. CASE Kernel
    BY <2>4, TypeKernel
  <2> QED
    BY <2>1, <2>2, <2>3, <2>4 DEF Next
<1> QED
  BY <1>1, <1>2, PTL DEF Spec

=============================================================================
