--------------------------- MODULE SelfPipeProofs ---------------------------
(* Proofs about SelfPipe, for any number of threads, calls and runs.       *)
EXTENDS SelfPipe, SequenceTheorems, TLAPS

-----------------------------------------------------------------------------
(* Queues.                                                                 *)

\* A queue that one element is put into.
LEMMA PutInto ==
    ASSUME NEW S, NEW s \in Seq(S), NEW e \in S
    PROVE  /\ Append(s, e) \in Seq(S) /\ Append(s, e) # <<>> /\ Len(s) \in Nat
           /\ Len(Append(s, e)) = Len(s) + 1
           /\ ToSet(Append(s, e)) = ToSet(s) \cup {e}
           /\ \A i \in 1 .. Len(s) : Append(s, e)[i] = s[i]
           /\ Append(s, e)[Len(s) + 1] = e
<1> DEFINE t == Append(s, e)
<1>1. /\ t \in Seq(S) /\ Len(t) = Len(s) + 1 /\ t[Len(s) + 1] = e /\ Len(s) \in Nat
      /\ \A i \in 1 .. Len(s) : t[i] = s[i]
  BY AppendProperties
<1>2. t # <<>>
  BY AppendProperties
<1> HIDE DEF t
<1>3. DOMAIN s = 1 .. Len(s) /\ DOMAIN t = 1 .. Len(t)
  BY <1>1, LenProperties
<1>4. 1 .. Len(t) = 1 .. Len(s) \cup {Len(s) + 1}
  BY <1>1
<1>5. ToSet(t) = ToSet(s) \cup {e}
  BY <1>1, <1>3, <1>4 DEF ToSet
<1> QED
  BY <1>1, <1>2, <1>5 DEF t

\* A queue that is not empty is its head and its tail.
LEMMA TakeFrom ==
    ASSUME NEW S, NEW s \in Seq(S), s # <<>>
    PROVE  /\ Head(s) \in S /\ Tail(s) \in Seq(S) /\ Len(Tail(s)) = Len(s) - 1
           /\ ToSet(s) = {Head(s)} \cup ToSet(Tail(s))
<1> DEFINE t == Tail(s)
<1>1. /\ t \in Seq(S) /\ Len(t) = Len(s) - 1 /\ Len(s) \in Nat \ {0}
      /\ \A i \in 1 .. Len(t) : t[i] = s[i + 1]
      /\ Head(s) = s[1] /\ Head(s) \in S
  BY HeadTailProperties, EmptySeq
<1> HIDE DEF t
<1>2. DOMAIN s = 1 .. Len(s) /\ DOMAIN t = 1 .. Len(t)
  BY <1>1, LenProperties
<1>3. /\ 1 \in 1 .. Len(s)
      /\ \A i \in 1 .. Len(t) : i + 1 \in 1 .. Len(s)
      /\ \A i \in 1 .. Len(s) : i = 1 \/ (i - 1 \in 1 .. Len(t) /\ (i - 1) + 1 = i)
  BY <1>1
<1>4. ToSet(s) = {s[i] : i \in 1 .. Len(s)} /\ ToSet(t) = {t[i] : i \in 1 .. Len(t)}
  BY <1>2 DEF ToSet
<1>5. ToSet(t) \subseteq ToSet(s) /\ s[1] \in ToSet(s)
  BY <1>1, <1>3, <1>4
<1>6. \A i \in 1 .. Len(s) : s[i] = s[1] \/ s[i] \in ToSet(t)
  BY <1>1, <1>3, <1>4
<1>7. ToSet(s) = {s[1]} \cup ToSet(t)
  BY <1>4, <1>5, <1>6
<1> QED
  BY <1>1, <1>7 DEF t

\* The elements of a queue; an empty one has none.
LEMMA InQueue ==
    ASSUME NEW S, NEW s \in Seq(S)
    PROVE  ToSet(s) \subseteq S /\ (s = <<>> => ToSet(s) = {}) /\ (ToSet(s) = {} => s = <<>>)
<1>1. DOMAIN s = 1 .. Len(s) /\ Len(s) \in Nat /\ \A i \in 1 .. Len(s) : s[i] \in S
  BY LenProperties
<1>2. ToSet(s) = {s[i] : i \in 1 .. Len(s)}
  BY <1>1 DEF ToSet
<1>3. s # <<>> => 1 \in 1 .. Len(s)
  OBVIOUS
<1>4. s = <<>> => 1 .. Len(s) = {}
  OBVIOUS
<1> QED
  BY <1>1, <1>2, <1>3, <1>4

-----------------------------------------------------------------------------
(* The inductive invariant.                                                *)

Handles  == {"work", "read"} \X Nat
Requests == {"recv", "cancel"} \X Nat

Types ==
    /\ pc \in {"out", "timeout", "wait", "drain", "handles"}
    /\ ready \in Seq(Handles) /\ ntodo \in Nat /\ ntodo <= Len(ready)
    /\ fut \in Seq({"pending", "result", "cancelled"}) /\ selfFut \in 0 .. Len(fut)
    /\ caller \in [Threads -> BOOLEAN] /\ bytes \in Nat
    /\ cq \in Seq(Requests) /\ queued \subseteq Requests /\ inflight \subseteq Requests

\* Requests are about reads that were started.
Started(q, i, c, n) == \A x \in q \cup i \cup ToSet(c) : x[2] \in 1 .. n

\* A callback of a read waits only when the read is over.
ReadsOver(rd, ft) ==
    \A x \in ToSet(rd) : x[1] = "read" /\ x[2] # 0 => x[2] \in 1 .. Len(ft) /\ ft[x[2]] # "pending"

\* While the loop runs, the self-pipe is going to be read: the first read is to be started,
\* or a read is over and its callback starts the next, or a read is under way.
Reading(p, sf, ft, rd, q, i, c) ==
    p # "out" =>
        \/ sf = 0 /\ <<"read", 0>> \in ToSet(rd)
        \/ sf # 0 /\ ft[sf] = "result" /\ <<"read", sf>> \in ToSet(rd)
        \/ sf # 0 /\ ft[sf] = "pending" /\ <<"recv", sf>> \in q \cup i \cup ToSet(c)

\* A loop that sleeps has submitted its read.
Sleeping ==
    pc = "wait" =>
        /\ queued = {} /\ selfFut # 0 /\ fut[selfFut] = "pending"
        /\ ready # <<>> => (\E t \in Threads : caller[t]) \/ cq # <<>> \/ bytes > 0

PipeInv ==
    /\ Types /\ OneReader
    /\ Started(queued, inflight, cq, Len(fut))
    /\ ReadsOver(ready, fut)
    /\ Reading(pc, selfFut, fut, ready, queued, inflight, cq)
    /\ Sleeping

\* The parts of the invariant that a step may disturb.
LEMMA Facts ==
    ASSUME PipeInv
    PROVE  /\ ready \in Seq(Handles) /\ ntodo \in Nat /\ Len(ready) \in Nat /\ ntodo <= Len(ready)
           /\ fut \in Seq({"pending", "result", "cancelled"}) /\ Len(fut) \in Nat
           /\ DOMAIN fut = 1 .. Len(fut)
           /\ selfFut \in Nat /\ selfFut \in 0 .. Len(fut)
           /\ \A f \in 1 .. Len(fut) : fut[f] = "pending" => f = selfFut
           /\ pc = "out" => selfFut = 0
           /\ cq \in Seq(Requests)
           /\ pc # "out" /\ selfFut # 0 => fut[selfFut] # "cancelled"
<1>1. /\ ready \in Seq(Handles) /\ ntodo \in Nat /\ ntodo <= Len(ready)
      /\ fut \in Seq({"pending", "result", "cancelled"}) /\ selfFut \in 0 .. Len(fut)
      /\ cq \in Seq(Requests)
  BY DEF PipeInv, Types
<1>2. Len(ready) \in Nat /\ Len(fut) \in Nat /\ DOMAIN fut = 1 .. Len(fut)
  BY <1>1, LenProperties
<1>3. selfFut \in Nat
  BY <1>1, <1>2
<1>4. /\ \A f \in DOMAIN fut : fut[f] = "pending" => f = selfFut
      /\ pc = "out" => selfFut = 0
  BY DEF PipeInv, OneReader
<1>5. pc # "out" /\ selfFut # 0 => fut[selfFut] # "cancelled"
  BY DEF PipeInv, Reading
<1> QED
  BY <1>1, <1>2, <1>3, <1>4, <1>5

\* Reassembling the invariant.
LEMMA Again ==
    ASSUME Types', Started(queued', inflight', cq', Len(fut')), ReadsOver(ready', fut'),
           Reading(pc', selfFut', fut', ready', queued', inflight', cq'), Sleeping',
           \A f \in 1 .. Len(fut') : fut'[f] = "pending" => f = selfFut',
           pc' = "out" => selfFut' = 0
    PROVE  PipeInv'
<1>1. fut' \in Seq({"pending", "result", "cancelled"})
  BY DEF Types
<1>2. DOMAIN fut' = 1 .. Len(fut')
  BY <1>1, LenProperties
<1>3. OneReader'
  BY <1>2 DEF OneReader
<1> QED
  BY <1>3 DEF PipeInv

-----------------------------------------------------------------------------
(* The steps.                                                              *)

\* A handle is put into the queue, of work or of a read that is over.
LEMMA Scheduled ==
    ASSUME PipeInv, NEW h \in Handles,
           h[1] = "read" /\ h[2] # 0 => h[2] \in 1 .. Len(fut') /\ fut'[h[2]] # "pending",
           ready' = Append(ready, h),
           Len(fut') = Len(fut), \A f \in 1 .. Len(fut) : fut'[f] = "pending" => fut[f] = "pending"
    PROVE  /\ ready' \in Seq(Handles) /\ ntodo <= Len(ready')
           /\ ToSet(ready') = ToSet(ready) \cup {h} /\ ReadsOver(ready', fut')
<1>1. ready \in Seq(Handles) /\ ntodo \in Nat /\ Len(ready) \in Nat /\ ntodo <= Len(ready)
  BY Facts
<1>2. /\ Append(ready, h) \in Seq(Handles) /\ Len(Append(ready, h)) = Len(ready) + 1
      /\ ToSet(Append(ready, h)) = ToSet(ready) \cup {h}
  BY <1>1, PutInto
<1>3. ntodo <= Len(ready')
  BY <1>1, <1>2
<1>4. ReadsOver(ready, fut)
  BY DEF PipeInv
<1>5. ReadsOver(ready', fut')
  BY <1>2, <1>4 DEF ReadsOver
<1> QED
  BY <1>2, <1>3, <1>5

\* run_forever starts: the first read is scheduled.
LEMMA RunForeverKeeps ==
    ASSUME PipeInv, RunForever
    PROVE  PipeInv'
<1>1. /\ pc = "out" /\ pc' = "timeout" /\ selfFut = 0 /\ ready' = Append(ready, <<"read", 0>>)
      /\ ntodo' = ntodo /\ selfFut' = selfFut /\ fut' = fut /\ caller' = caller
      /\ queued' = queued /\ inflight' = inflight /\ cq' = cq /\ bytes' = bytes
  BY DEF RunForever, Setup
<1> DEFINE h == <<"read", 0>>
<1>2. h \in Handles /\ h[2] = 0
  BY DEF Handles
<1>3. /\ ready' \in Seq(Handles) /\ ntodo <= Len(ready')
      /\ ToSet(ready') = ToSet(ready) \cup {h} /\ ReadsOver(ready', fut')
  BY <1>1, <1>2, Scheduled
<1>4. Types'
  BY <1>1, <1>3 DEF PipeInv, Types
<1>5. Started(queued', inflight', cq', Len(fut')) /\ Sleeping'
  BY <1>1 DEF PipeInv, Sleeping
<1>6. Reading(pc', selfFut', fut', ready', queued', inflight', cq')
  BY <1>1, <1>3 DEF Reading
<1>7. \A f \in 1 .. Len(fut') : fut'[f] = "pending" => f = selfFut'
  BY <1>1, Facts
<1> QED
  BY <1>1, <1>3, <1>4, <1>5, <1>6, <1>7, Again

\* select submits, and sleeps only if nothing is ready.
LEMMA SelectKeeps ==
    ASSUME PipeInv, Select
    PROVE  PipeInv'
<1>1. /\ pc = "timeout" /\ pc' = IF ready # <<>> \/ stopping THEN "drain" ELSE "wait"
      /\ queued' = {} /\ inflight' = inflight \cup queued
      /\ ready' = ready /\ ntodo' = ntodo /\ selfFut' = selfFut /\ fut' = fut
      /\ caller' = caller /\ cq' = cq /\ bytes' = bytes
  BY DEF Select
<1>2. pc' \in {"drain", "wait"} /\ (pc' = "wait" => ready = <<>>)
  BY <1>1
<1>3. Types'
  BY <1>1, <1>2 DEF PipeInv, Types
<1>4. Started(queued', inflight', cq', Len(fut')) /\ ReadsOver(ready', fut')
  BY <1>1 DEF PipeInv, Started
<1>5. /\ \/ selfFut = 0 /\ <<"read", 0>> \in ToSet(ready)
         \/ selfFut # 0 /\ fut[selfFut] = "result" /\ <<"read", selfFut>> \in ToSet(ready)
         \/ selfFut # 0 /\ fut[selfFut] = "pending" /\ <<"recv", selfFut>> \in queued \cup inflight \cup ToSet(cq)
  BY <1>1 DEF PipeInv, Reading
<1>6. Reading(pc', selfFut', fut', ready', queued', inflight', cq')
  BY <1>1, <1>5 DEF Reading
<1>7. Sleeping'
  <2>1. ASSUME pc' = "wait" PROVE selfFut # 0 /\ fut[selfFut] = "pending" /\ ready = <<>>
    <3>1. ready = <<>> /\ ToSet(ready) = {}
      BY <1>2, <2>1, Facts, InQueue
    <3> QED
      BY <1>5, <3>1
  <2> QED
    BY <1>1, <2>1 DEF Sleeping
<1>8. \A f \in 1 .. Len(fut') : fut'[f] = "pending" => f = selfFut'
  BY <1>1, Facts
<1>9. pc' = "out" => selfFut' = 0
  BY <1>2
<1> QED
  BY <1>3, <1>4, <1>6, <1>7, <1>8, <1>9, Again

\* A CQE is handled.
LEMMA CqeKeeps ==
    ASSUME PipeInv, HandleCqe
    PROVE  PipeInv'
<1> DEFINE x == Head(cq)
           f == x[2]
           h == <<"read", f>>
<1>1. /\ pc \in {"wait", "drain"} /\ cq # <<>> /\ pc' = "drain" /\ cq' = Tail(cq)
      /\ IF x[1] = "recv" /\ fut[f] = "pending"
         THEN fut' = [fut EXCEPT ![f] = "result"] /\ ready' = Append(ready, h)
         ELSE fut' = fut /\ ready' = ready
      /\ ntodo' = ntodo /\ selfFut' = selfFut /\ caller' = caller
      /\ queued' = queued /\ inflight' = inflight /\ bytes' = bytes
  BY DEF HandleCqe
<1>2. /\ x \in Requests /\ cq' \in Seq(Requests) /\ ToSet(cq) = {x} \cup ToSet(cq')
  BY <1>1, Facts, TakeFrom
<1>3. f \in 1 .. Len(fut) /\ f \in Nat /\ x = <<x[1], f>> /\ x[1] \in {"recv", "cancel"}
  BY <1>2 DEF PipeInv, Started, Requests
<1>4. /\ \/ selfFut = 0 /\ <<"read", 0>> \in ToSet(ready)
         \/ selfFut # 0 /\ fut[selfFut] = "result" /\ <<"read", selfFut>> \in ToSet(ready)
         \/ selfFut # 0 /\ fut[selfFut] = "pending" /\ <<"recv", selfFut>> \in queued \cup inflight \cup ToSet(cq)
  BY <1>1 DEF PipeInv, Reading
<1>S. Sleeping'
  BY <1>1 DEF Sleeping
<1> HIDE DEF x, f, h
<1>5. CASE x[1] = "recv" /\ fut[f] = "pending"
  <2>1. fut' = [fut EXCEPT ![f] = "result"] /\ ready' = Append(ready, h)
    BY <1>1, <1>5
  <2>2. selfFut = f /\ f # 0
    BY <1>3, <1>5, Facts
  <2>3. /\ fut' \in Seq({"pending", "result", "cancelled"}) /\ Len(fut') = Len(fut)
        /\ fut'[f] = "result" /\ \A g \in 1 .. Len(fut) : g # f => fut'[g] = fut[g]
    BY <1>3, <2>1, Facts, ExceptSeq
  <2>4. h \in Handles /\ h = <<"read", f>> /\ h[1] = "read" /\ h[2] = f
    BY <1>3 DEF Handles, h
  <2>5. /\ ready' \in Seq(Handles) /\ ntodo <= Len(ready')
        /\ ToSet(ready') = ToSet(ready) \cup {h} /\ ReadsOver(ready', fut')
    BY <1>3, <2>1, <2>3, <2>4, Scheduled
  <2>6. Types'
    BY <1>1, <1>2, <2>3, <2>5 DEF PipeInv, Types
  <2>7. Started(queued', inflight', cq', Len(fut'))
    BY <1>1, <1>2, <2>3 DEF PipeInv, Started
  <2>8. Reading(pc', selfFut', fut', ready', queued', inflight', cq')
    BY <1>1, <2>2, <2>3, <2>4, <2>5 DEF Reading
  <2>9. \A g \in 1 .. Len(fut') : fut'[g] = "pending" => g = selfFut'
    BY <1>1, <2>3, Facts
  <2> QED
    BY <1>1, <1>S, <2>5, <2>6, <2>7, <2>8, <2>9, Again
<1>6. CASE ~(x[1] = "recv" /\ fut[f] = "pending")
  <2>1. fut' = fut /\ ready' = ready
    BY <1>1, <1>6
  <2>2. Types'
    BY <1>1, <1>2, <2>1 DEF PipeInv, Types
  <2>3. Started(queued', inflight', cq', Len(fut')) /\ ReadsOver(ready', fut')
    BY <1>1, <1>2, <2>1 DEF PipeInv, Started
  <2>4. fut[selfFut] = "pending" => x # <<"recv", selfFut>>
    BY <1>3, <1>6
  <2>5. Reading(pc', selfFut', fut', ready', queued', inflight', cq')
    BY <1>1, <1>2, <1>4, <2>1, <2>4 DEF Reading
  <2>6. \A g \in 1 .. Len(fut') : fut'[g] = "pending" => g = selfFut'
    BY <1>1, <2>1, Facts
  <2> QED
    BY <1>1, <1>S, <2>2, <2>3, <2>5, <2>6, Again
<1> QED
  BY <1>5, <1>6

\* The next read is started.
LEMMA ReadStarts ==
    ASSUME PipeInv, StartRead, selfFut # 0 => fut[selfFut] # "pending",
           ToSet(ready') \subseteq ToSet(ready)
    PROVE  /\ fut' \in Seq({"pending", "result", "cancelled"}) /\ selfFut' \in 0 .. Len(fut')
           /\ queued' \subseteq Requests
           /\ Started(queued', inflight, cq, Len(fut')) /\ ReadsOver(ready', fut')
           /\ selfFut' # 0 /\ fut'[selfFut'] = "pending" /\ <<"recv", selfFut'>> \in queued'
           /\ \A f \in 1 .. Len(fut') : fut'[f] = "pending" => f = selfFut'
<1> DEFINE n == Len(fut) + 1
           q == <<"recv", n>>
<1>1. fut' = Append(fut, "pending") /\ queued' = queued \cup {q} /\ selfFut' = n
  BY DEF StartRead
<1>2. /\ fut \in Seq({"pending", "result", "cancelled"}) /\ Len(fut) \in Nat
      /\ \A f \in 1 .. Len(fut) : fut[f] = "pending" => f = selfFut
  BY Facts
<1>3. /\ fut' \in Seq({"pending", "result", "cancelled"}) /\ Len(fut') = n /\ fut'[n] = "pending"
      /\ \A f \in 1 .. Len(fut) : fut'[f] = fut[f]
  BY <1>1, <1>2, PutInto
<1>4. n \in Nat /\ n # 0 /\ n \in 1 .. n /\ n \in 0 .. n /\ \A f \in 1 .. n : f = n \/ f \in 1 .. Len(fut)
  BY <1>2
<1>5. \A f \in 1 .. Len(fut) : f \in 1 .. n /\ f # 0
  BY <1>2
<1>6. q \in Requests /\ q[2] = n
  BY <1>4 DEF Requests
<1> HIDE DEF n, q
<1>7. \A f \in 1 .. Len(fut) : fut[f] # "pending"
  BY <1>2, <1>5
<1>8. \A f \in 1 .. Len(fut') : fut'[f] = "pending" => f = selfFut'
  BY <1>1, <1>3, <1>4, <1>7
<1>9. Started(queued', inflight, cq, Len(fut'))
  BY <1>1, <1>3, <1>4, <1>5, <1>6 DEF PipeInv, Started
<1>10. ReadsOver(ready', fut')
  BY <1>3, <1>5 DEF PipeInv, ReadsOver
<1>11. queued' \subseteq Requests
  BY <1>1, <1>6 DEF PipeInv, Types
<1> QED
  BY <1>1, <1>3, <1>4, <1>8, <1>9, <1>10, <1>11 DEF q

\* A handle is run.
LEMMA HandleKeeps ==
    ASSUME PipeInv, RunHandle
    PROVE  PipeInv'
<1> DEFINE h == Head(ready)
<1>1. /\ pc = "handles" /\ ntodo > 0 /\ ntodo' = ntodo - 1 /\ ready' = Tail(ready)
      /\ \/ h[1] = "work" /\ selfFut' = selfFut /\ fut' = fut /\ queued' = queued
         \/ h[1] = "read" /\ LoopSelfReading(h[2])
      /\ pc' = pc /\ caller' = caller /\ inflight' = inflight /\ cq' = cq /\ bytes' = bytes
  BY DEF RunHandle
<1>2. ntodo \in Nat /\ Len(ready) \in Nat /\ ntodo <= Len(ready) /\ ready \in Seq(Handles)
  BY Facts
<1>3. ready # <<>>
  <2>1. Len(ready) # 0
    BY <1>1, <1>2
  <2> QED
    BY <1>2, <2>1, EmptySeq
<1>4. /\ h \in Handles /\ ready' \in Seq(Handles) /\ Len(ready') = Len(ready) - 1
      /\ ToSet(ready) = {h} \cup ToSet(ready')
  BY <1>1, <1>2, <1>3, TakeFrom
<1>5. ntodo' \in Nat /\ ntodo' <= Len(ready')
  BY <1>1, <1>2, <1>4
<1>6. h = <<h[1], h[2]>> /\ h[1] \in {"work", "read"} /\ h[2] \in Nat
  BY <1>4 DEF Handles
<1>7. /\ \/ selfFut = 0 /\ <<"read", 0>> \in ToSet(ready)
         \/ selfFut # 0 /\ fut[selfFut] = "result" /\ <<"read", selfFut>> \in ToSet(ready)
         \/ selfFut # 0 /\ fut[selfFut] = "pending" /\ <<"recv", selfFut>> \in queued \cup inflight \cup ToSet(cq)
  BY <1>1 DEF PipeInv, Reading
<1>8. Sleeping'
  BY <1>1 DEF Sleeping
<1>9. (h[1] = "read" /\ h[2] # 0) => (h[2] \in 1 .. Len(fut) /\ fut[h[2]] # "pending")
  BY <1>4 DEF PipeInv, ReadsOver
<1> HIDE DEF h
<1>10. CASE h[1] = "read" /\ h[2] = selfFut
  <2>1. selfFut # 0 => fut[selfFut] # "cancelled"
    BY <1>1, Facts
  <2>2. StartRead
    BY <1>1, <1>10, <2>1 DEF LoopSelfReading
  <2>3. selfFut # 0 => fut[selfFut] # "pending"
    BY <1>9, <1>10
  <2>4. /\ fut' \in Seq({"pending", "result", "cancelled"}) /\ selfFut' \in 0 .. Len(fut')
        /\ queued' \subseteq Requests
        /\ Started(queued', inflight, cq, Len(fut')) /\ ReadsOver(ready', fut')
        /\ selfFut' # 0 /\ fut'[selfFut'] = "pending" /\ <<"recv", selfFut'>> \in queued'
        /\ \A f \in 1 .. Len(fut') : fut'[f] = "pending" => f = selfFut'
    BY <1>4, <2>2, <2>3, ReadStarts
  <2>5. Types'
    BY <1>1, <1>4, <1>5, <2>4 DEF PipeInv, Types
  <2>6. Reading(pc', selfFut', fut', ready', queued', inflight', cq')
    BY <2>4 DEF Reading
  <2>7. pc' = "out" => selfFut' = 0
    BY <1>1
  <2> QED
    BY <1>1, <1>8, <2>4, <2>5, <2>6, <2>7, Again
<1>11. CASE ~(h[1] = "read" /\ h[2] = selfFut)
  <2>1. selfFut' = selfFut /\ fut' = fut /\ queued' = queued
    BY <1>1, <1>6, <1>11 DEF LoopSelfReading
  <2>2. h # <<"read", selfFut>>
    BY <1>6, <1>11
  <2>3. Reading(pc', selfFut', fut', ready', queued', inflight', cq')
    BY <1>1, <1>4, <1>7, <2>1, <2>2 DEF Reading
  <2>4. Types'
    BY <1>1, <1>4, <1>5, <2>1 DEF PipeInv, Types
  <2>5. Started(queued', inflight', cq', Len(fut')) /\ ReadsOver(ready', fut')
    BY <1>1, <1>4, <2>1 DEF PipeInv, Started, ReadsOver
  <2>6. \A f \in 1 .. Len(fut') : fut'[f] = "pending" => f = selfFut'
    BY <2>1, Facts
  <2>7. pc' = "out" => selfFut' = 0
    BY <1>1
  <2> QED
    BY <1>8, <2>3, <2>4, <2>5, <2>6, <2>7, Again
<1> QED
  BY <1>10, <1>11

\* run_forever is left: a pending read is cancelled.
LEMMA LeaveKeeps ==
    ASSUME PipeInv, LeaveRunForever
    PROVE  PipeInv'
<1>1. /\ pc' = "out" /\ ntodo' = 0 /\ selfFut' = 0
      /\ caller' = caller /\ inflight' = inflight /\ cq' = cq /\ bytes' = bytes
  BY DEF LeaveRunForever, Cleanup
<1>2. Sleeping' /\ Reading(pc', selfFut', fut', ready', queued', inflight', cq')
  BY <1>1 DEF Sleeping, Reading
<1>3. CASE selfFut # 0 /\ fut[selfFut] = "pending"
  <2> DEFINE f == selfFut
             h == <<"read", f>>
             q == <<"cancel", f>>
  <2>1. /\ fut' = [fut EXCEPT ![f] = "cancelled"] /\ ready' = Append(ready, h)
        /\ queued' = queued \cup {q}
    BY <1>3 DEF LeaveRunForever, Cleanup
  <2>2. /\ f \in Nat /\ f \in 0 .. Len(fut) /\ Len(fut) \in Nat
        /\ fut \in Seq({"pending", "result", "cancelled"})
        /\ \A g \in 1 .. Len(fut) : fut[g] = "pending" => g = f
    BY Facts
  <2>3. f \in 1 .. Len(fut)
    BY <1>3, <2>2
  <2>4. /\ h \in Handles /\ h[1] = "read" /\ h[2] = f /\ q \in Requests /\ q[2] = f
    BY <2>2 DEF Handles, Requests
  <2> HIDE DEF f, h, q
  <2>5. /\ fut' \in Seq({"pending", "result", "cancelled"}) /\ Len(fut') = Len(fut)
        /\ fut'[f] = "cancelled" /\ \A g \in 1 .. Len(fut) : g # f => fut'[g] = fut[g]
    BY <2>1, <2>2, <2>3, ExceptSeq
  <2>6. /\ ready' \in Seq(Handles) /\ ReadsOver(ready', fut')
    BY <2>1, <2>3, <2>4, <2>5, Scheduled
  <2>7. Types'
    <3>1. Len(ready') \in Nat
      BY <2>6
    <3>2. Len(fut') \in Nat
      BY <2>5
    <3>3. ntodo' \in Nat /\ ntodo' <= Len(ready') /\ selfFut' \in 0 .. Len(fut')
      BY <1>1, <3>1, <3>2
    <3>4. queued' \subseteq Requests
      BY <2>1, <2>4 DEF PipeInv, Types
    <3> QED
      BY <1>1, <2>5, <2>6, <3>3, <3>4 DEF PipeInv, Types
  <2>8. Started(queued', inflight', cq', Len(fut'))
    BY <1>1, <2>1, <2>3, <2>4, <2>5 DEF PipeInv, Started
  <2>9. \A g \in 1 .. Len(fut') : fut'[g] = "pending" => g = selfFut'
    BY <2>2, <2>5
  <2> QED
    BY <1>1, <1>2, <2>6, <2>7, <2>8, <2>9, Again
<1>4. CASE ~(selfFut # 0 /\ fut[selfFut] = "pending")
  <2>1. fut' = fut /\ ready' = ready /\ queued' = queued
    BY <1>4 DEF LeaveRunForever, Cleanup
  <2>2. Len(ready) \in Nat /\ Len(fut) \in Nat
    BY Facts
  <2>3. ntodo' \in Nat /\ ntodo' <= Len(ready') /\ selfFut' \in 0 .. Len(fut')
    BY <1>1, <2>1, <2>2
  <2>4. Types'
    BY <1>1, <2>1, <2>3 DEF PipeInv, Types
  <2>5. Started(queued', inflight', cq', Len(fut')) /\ ReadsOver(ready', fut')
    BY <1>1, <2>1 DEF PipeInv
  <2>6. \A g \in 1 .. Len(fut) : fut[g] = "pending" => g = selfFut /\ g # 0
    BY <2>2, Facts
  <2>7. \A g \in 1 .. Len(fut') : fut'[g] = "pending" => g = selfFut'
    BY <1>4, <2>1, <2>6
  <2> QED
    BY <1>1, <1>2, <2>4, <2>5, <2>7, Again
<1> QED
  BY <1>3, <1>4

\* A step of the loop from one place to another.
LEMMA MoveKeeps ==
    ASSUME PipeInv, SelectReturns \/ IterationEnds
    PROVE  PipeInv'
<1>1. /\ pc # "out" /\ pc' \in {"handles", "timeout"} /\ ntodo' \in {ntodo, Len(ready)}
      /\ ready' = ready /\ selfFut' = selfFut /\ fut' = fut /\ caller' = caller
      /\ queued' = queued /\ inflight' = inflight /\ cq' = cq /\ bytes' = bytes
  BY DEF SelectReturns, IterationEnds
<1>2. ntodo' \in Nat /\ ntodo' <= Len(ready')
  BY <1>1, Facts
<1>3. Types'
  BY <1>1, <1>2 DEF PipeInv, Types
<1>4. /\ Started(queued', inflight', cq', Len(fut')) /\ ReadsOver(ready', fut')
      /\ Reading(pc', selfFut', fut', ready', queued', inflight', cq')
  BY <1>1 DEF PipeInv, Reading
<1>5. Sleeping' /\ (pc' = "out" => selfFut' = 0)
  BY <1>1 DEF Sleeping
<1>6. \A f \in 1 .. Len(fut') : fut'[f] = "pending" => f = selfFut'
  BY <1>1, Facts
<1> QED
  BY <1>3, <1>4, <1>5, <1>6, Again

\* call_soon_threadsafe, its first half.
LEMMA CallKeeps ==
    ASSUME PipeInv, NEW t \in Threads, CallSoonThreadsafe(t)
    PROVE  PipeInv'
<1> DEFINE h == <<"work", 0>>
<1>1. /\ ready' = Append(ready, h) /\ caller' = [caller EXCEPT ![t] = TRUE]
      /\ pc' = pc /\ ntodo' = ntodo /\ selfFut' = selfFut /\ fut' = fut
      /\ queued' = queued /\ inflight' = inflight /\ cq' = cq /\ bytes' = bytes
  BY DEF CallSoonThreadsafe
<1>2. h \in Handles /\ h[1] # "read"
  BY DEF Handles
<1> HIDE DEF h
<1>3. /\ ready' \in Seq(Handles) /\ ntodo <= Len(ready')
      /\ ToSet(ready') = ToSet(ready) \cup {h} /\ ReadsOver(ready', fut')
  BY <1>1, <1>2, Scheduled
<1>4. caller' \in [Threads -> BOOLEAN] /\ caller'[t]
  BY <1>1 DEF PipeInv, Types
<1>5. Types'
  BY <1>1, <1>3, <1>4 DEF PipeInv, Types
<1>6. /\ Started(queued', inflight', cq', Len(fut'))
      /\ Reading(pc', selfFut', fut', ready', queued', inflight', cq')
  BY <1>1, <1>3 DEF PipeInv, Reading
<1>7. Sleeping'
  BY <1>1, <1>4 DEF PipeInv, Sleeping
<1>8. /\ \A f \in 1 .. Len(fut') : fut'[f] = "pending" => f = selfFut'
      /\ pc' = "out" => selfFut' = 0
  BY <1>1, Facts
<1> QED
  BY <1>3, <1>5, <1>6, <1>7, <1>8, Again

\* call_soon_threadsafe, its second half: the byte is written.
LEMMA WriteKeeps ==
    ASSUME PipeInv, NEW t \in Threads, WriteToSelf(t)
    PROVE  PipeInv'
<1>1. /\ caller' = [caller EXCEPT ![t] = FALSE] /\ bytes' = bytes + 1
      /\ ready' = ready /\ pc' = pc /\ ntodo' = ntodo /\ selfFut' = selfFut /\ fut' = fut
      /\ queued' = queued /\ inflight' = inflight /\ cq' = cq
  BY DEF WriteToSelf
<1>2. bytes \in Nat
  BY DEF PipeInv, Types
<1>3. bytes' \in Nat /\ bytes' > 0
  BY <1>1, <1>2
<1>4. caller' \in [Threads -> BOOLEAN]
  BY <1>1 DEF PipeInv, Types
<1>5. Types'
  BY <1>1, <1>3, <1>4 DEF PipeInv, Types
<1>6. /\ Started(queued', inflight', cq', Len(fut')) /\ ReadsOver(ready', fut')
      /\ Reading(pc', selfFut', fut', ready', queued', inflight', cq')
  BY <1>1 DEF PipeInv
<1>7. Sleeping'
  BY <1>1, <1>3 DEF PipeInv, Sleeping
<1>8. /\ \A f \in 1 .. Len(fut') : fut'[f] = "pending" => f = selfFut'
      /\ pc' = "out" => selfFut' = 0
  BY <1>1, Facts
<1> QED
  BY <1>5, <1>6, <1>7, <1>8, Again

\* The kernel moves requests from inflight to cq, which loses none.
LEMMA KernelMoves ==
    ASSUME PipeInv, cq' \in Seq(Requests), cq' # <<>>, inflight' \subseteq inflight, bytes' \in Nat,
           ToSet(cq) \subseteq ToSet(cq'),
           inflight \cup ToSet(cq) = inflight' \cup ToSet(cq'),
           UNCHANGED <<pc, ready, ntodo, selfFut, fut, caller, queued>>
    PROVE  PipeInv'
<1>1. /\ ready' = ready /\ pc' = pc /\ ntodo' = ntodo /\ selfFut' = selfFut /\ fut' = fut
      /\ queued' = queued /\ caller' = caller
  OBVIOUS
<1>2. Types'
  BY <1>1 DEF PipeInv, Types
<1>3. Started(queued', inflight', cq', Len(fut')) /\ ReadsOver(ready', fut')
  BY <1>1 DEF PipeInv, Started
<1>4. Reading(pc', selfFut', fut', ready', queued', inflight', cq')
  BY <1>1 DEF PipeInv, Reading
<1>5. Sleeping'
  BY <1>1 DEF PipeInv, Sleeping
<1>6. /\ \A f \in 1 .. Len(fut') : fut'[f] = "pending" => f = selfFut'
      /\ pc' = "out" => selfFut' = 0
  BY <1>1, Facts
<1> QED
  BY <1>2, <1>3, <1>4, <1>5, <1>6, Again

\* A read ends, or a cancellation with or without its target.
LEMMA KernelKeeps ==
    ASSUME PipeInv, KernelStep
    PROVE  PipeInv'
<1>1. PICK f \in 1 .. Len(fut) : KernelReads(f) \/ KernelCancels(f)
  BY DEF KernelStep
<1>2. cq \in Seq(Requests) /\ inflight \subseteq Requests /\ bytes \in Nat
  BY DEF PipeInv, Types
<1> DEFINE r == <<"recv", f>>
           c == <<"cancel", f>>
<1>4. CASE KernelReads(f)
  <2>1. /\ r \in inflight /\ bytes' = 0 /\ inflight' = inflight \ {r} /\ cq' = Append(cq, r)
        /\ UNCHANGED <<pc, ready, ntodo, selfFut, fut, caller, queued>>
    BY <1>4 DEF KernelReads
  <2> HIDE DEF r
  <2>2. r \in Requests
    BY <1>2, <2>1
  <2>3. /\ Append(cq, r) \in Seq(Requests) /\ Append(cq, r) # <<>>
        /\ ToSet(Append(cq, r)) = ToSet(cq) \cup {r}
    BY <1>2, <2>2, PutInto
  <2>4. bytes' \in Nat
    BY <2>1
  <2> QED
    BY <2>1, <2>3, <2>4, KernelMoves
<1>5. CASE KernelCancels(f)
  <2>1. /\ c \in inflight /\ inflight' = inflight \ {r, c} /\ bytes' = bytes
        /\ cq' = cq \o (IF r \in inflight THEN <<r>> ELSE <<>>) \o <<c>>
        /\ UNCHANGED <<pc, ready, ntodo, selfFut, fut, caller, queued>>
    BY <1>5 DEF KernelCancels
  <2> HIDE DEF r, c
  <2>0. c \in Requests
    BY <1>2, <2>1
  <2>2. CASE r \in inflight
    <3>0. r \in Requests
      BY <1>2, <2>2
    <3>1. /\ Append(cq, r) \in Seq(Requests) /\ ToSet(Append(cq, r)) = ToSet(cq) \cup {r}
      BY <1>2, <3>0, PutInto
    <3> DEFINE d == Append(cq, r)
    <3>2. d = cq \o <<r>> /\ d \in Seq(Requests)
      BY <1>2, <3>0, <3>1, AppendIsConcat
    <3> HIDE DEF d
    <3>3. /\ Append(d, c) \in Seq(Requests) /\ Append(d, c) # <<>>
          /\ ToSet(Append(d, c)) = ToSet(d) \cup {c} /\ Append(d, c) = d \o <<c>>
      <4>1. d \in Seq(Requests)
        BY <3>2
      <4>2. /\ Append(d, c) \in Seq(Requests) /\ Append(d, c) # <<>>
            /\ ToSet(Append(d, c)) = ToSet(d) \cup {c}
        BY <2>0, <4>1, PutInto
      <4>3. Append(d, c) = d \o <<c>>
        BY <2>0, <4>1, AppendIsConcat
      <4> QED
        BY <4>2, <4>3
    <3>4. cq' = Append(d, c)
      BY <2>1, <2>2, <3>2, <3>3
    <3>5. ToSet(cq') = ToSet(cq) \cup {r, c}
      BY <3>1, <3>3, <3>4 DEF d
    <3> QED
      BY <1>2, <2>1, <2>2, <3>3, <3>4, <3>5, KernelMoves
  <2>3. CASE r \notin inflight
    <3>1. cq \o <<>> = cq
      BY <1>2
    <3>2. /\ Append(cq, c) \in Seq(Requests) /\ Append(cq, c) # <<>>
          /\ ToSet(Append(cq, c)) = ToSet(cq) \cup {c} /\ Append(cq, c) = cq \o <<c>>
      BY <1>2, <2>0, PutInto, AppendIsConcat
    <3>3. cq' = Append(cq, c)
      BY <2>1, <2>3, <3>1, <3>2
    <3> QED
      BY <1>2, <2>1, <2>3, <3>2, <3>3, KernelMoves
  <2> QED
    BY <2>2, <2>3
<1> QED
  BY <1>1, <1>4, <1>5

\* A new loop.
LEMMA PipeStarts ==
    ASSUME Init
    PROVE  PipeInv
<1>1. /\ pc = "out" /\ ready = <<>> /\ ntodo = 0 /\ selfFut = 0 /\ fut = <<>>
      /\ caller = [t \in Threads |-> FALSE]
      /\ queued = {} /\ inflight = {} /\ cq = <<>> /\ bytes = 0
  BY DEF Init
<1>2. <<>> \in Seq(Handles) /\ <<>> \in Seq(Requests) /\ Len(<<>>) = 0 /\ 1 .. 0 = {}
      /\ <<>> \in Seq({"pending", "result", "cancelled"})
  OBVIOUS
<1>3. ToSet(ready) = {} /\ ToSet(cq) = {}
  BY <1>1, <1>2, InQueue
<1>4. caller \in [Threads -> BOOLEAN] /\ 0 \in 0 .. 0
  BY <1>1
<1>5. Types
  BY <1>1, <1>2, <1>4 DEF Types
<1>6. OneReader
  <2>1. DOMAIN fut = {}
    BY <1>1
  <2> QED
    BY <1>1, <2>1 DEF OneReader
<1>7. /\ Started(queued, inflight, cq, Len(fut)) /\ ReadsOver(ready, fut)
      /\ Reading(pc, selfFut, fut, ready, queued, inflight, cq) /\ Sleeping
  BY <1>1, <1>3 DEF Started, ReadsOver, Reading, Sleeping
<1> QED
  BY <1>5, <1>6, <1>7 DEF PipeInv

\* The invariant holds in every state.
LEMMA PipeInvariant == Spec => []PipeInv
<1>1. Init => PipeInv
  BY PipeStarts
<1>2. ASSUME PipeInv, [Next]_vars PROVE PipeInv'
  <2>1. CASE RunForever
    BY <1>2, <2>1, RunForeverKeeps
  <2>2. CASE LoopStep
    BY <1>2, <2>2, SelectKeeps, CqeKeeps, HandleKeeps, MoveKeeps, LeaveKeeps DEF LoopStep, Stopped
  <2>3. CASE Interrupted
    BY <1>2, <2>3, LeaveKeeps DEF Interrupted
  <2>4. CASE KernelStep
    BY <1>2, <2>4, KernelKeeps
  <2>5. CASE \E t \in Threads : CallSoonThreadsafe(t) \/ WriteToSelf(t)
    BY <1>2, <2>5, CallKeeps, WriteKeeps
  <2>6. CASE UNCHANGED vars
    BY <1>2, <2>6 DEF vars, PipeInv, Types, OneReader, Sleeping
  <2> QED
    BY <1>2, <2>1, <2>2, <2>3, <2>4, <2>5, <2>6 DEF Next
<1> QED
  BY <1>1, <1>2, PTL DEF Spec

-----------------------------------------------------------------------------
\* _self_reading_future names the only read that is neither done nor cancelled, over any
\* number of runs, and the assertion of _run_forever_setup holds.
THEOREM ReaderIsOne == Spec => []OneReader
<1>1. PipeInv => OneReader
  BY DEF PipeInv
<1> QED
  BY <1>1, PipeInvariant, PTL

\* call_soon_threadsafe wakes the loop: with any number of threads, a loop that sleeps with
\* work to do has a thread about to write, a CQE, or a byte and a read in flight for it.
THEOREM WakeupsArrive == Spec => []NoLostWakeup
<1>1. ASSUME PipeInv PROVE NoLostWakeup
  <2> SUFFICES ASSUME pc = "wait", ready # <<>>, ~(\E t \in Threads : caller[t]), cq = <<>>
               PROVE  bytes > 0 /\ \E f \in 1 .. Len(fut) : <<"recv", f>> \in inflight
    BY DEF NoLostWakeup
  <2>1. queued = {} /\ selfFut # 0 /\ fut[selfFut] = "pending" /\ bytes > 0
    BY <1>1 DEF PipeInv, Sleeping
  <2>2. ToSet(cq) = {}
    BY <1>1, Facts, InQueue
  <2>3. <<"recv", selfFut>> \in inflight
    BY <1>1, <2>1, <2>2 DEF PipeInv, Reading
  <2>4. selfFut \in 1 .. Len(fut)
    BY <1>1, <2>1, Facts
  <2> QED
    BY <2>1, <2>3, <2>4
<1> QED
  BY <1>1, PipeInvariant, PTL

=============================================================================
