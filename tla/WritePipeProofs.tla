--------------------------- MODULE WritePipeProofs ---------------------------
(* Proofs about WritePipe, for any number of bytes and callbacks.          *)
EXTENDS WritePipe, SequenceTheorems, TLAPS

-----------------------------------------------------------------------------
(* The inductive invariant.                                                *)

Callbacks == ({"pipe_closed", "loop_writing"} \X Nat)
             \cup ({"connection_lost"} \X {"closed", "aborted", "broken"})
Sends     == [st : {"pending", "done", "error", "cancelled"}, data : Seq(Nat), took : Nat]

\* A callback of _loop_writing is for the current send, which is over, or the transport was
\* closed by force.
WritingOK(x, wf, w, cl) ==
    x[1] = "loop_writing" =>
        /\ x[2] \in 1 .. Len(wf)
        /\ \/ x[2] = w /\ wf[w].st # "pending"
           \/ w = 0 /\ cl

\* connection_lost is scheduled when no send is current, and run after a select.
LosingOK(x, w, cl, soon, q) ==
    x[1] = "connection_lost" => w = 0 /\ cl /\ (soon => q = {})

Single(rd, w) ==
    w # 0 => \A i, j \in 1 .. Len(rd) :
                 rd[i][1] = "loop_writing" /\ rd[j][1] = "loop_writing" => i = j

\* What waits in the queue of the loop.
QueueOK(rd, wf, w, cl, td, q) ==
    /\ rd \in Seq(Callbacks) /\ td \in Nat /\ td <= Len(rd)
    /\ \A i \in 1 .. Len(rd) : WritingOK(rd[i], wf, w, cl) /\ LosingOK(rd[i], w, cl, i <= td, q)
    /\ Single(rd, w)

\* The sends: only the current one is pending.
SendsOK(wf, w) ==
    /\ wf \in Seq(Sends) /\ w \in 0 .. Len(wf)
    /\ \A f \in 1 .. Len(wf) : wf[f].st = "pending" => f = w

\* The poll is armed until the transport is closed.
PollOK(p, r, cl) ==
    /\ p \in {"pending", "done", "cancelled"} /\ r \in BOOLEAN /\ cl \in BOOLEAN
    /\ cl <=> ~r
    /\ ~r => p # "pending"

LostOK(l, w, cl, q) == l # "no" => w = 0 /\ cl /\ q = {}

PipeInv ==
    /\ PollOK(pollFut, readFut, closing)
    /\ SendsOK(wfut, writeFut)
    /\ LostOK(lost, writeFut, closing, queued)
    /\ QueueOK(ready, wfut, writeFut, closing, todo, queued)
    /\ ~failed

-----------------------------------------------------------------------------
(* The queue of callbacks.                                                 *)

\* One more callback.
LEMMA QueueAppend ==
    ASSUME NEW rd, NEW wf, NEW w, NEW cl, NEW td, NEW q, QueueOK(rd, wf, w, cl, td, q),
           NEW h \in Callbacks,
           h[1] = "loop_writing" =>
               /\ h[2] \in 1 .. Len(wf)
               /\ \/ /\ h[2] = w /\ wf[w].st # "pending"
                     /\ \A i \in 1 .. Len(rd) : rd[i][1] # "loop_writing"
                  \/ w = 0 /\ cl,
           h[1] = "connection_lost" => w = 0 /\ cl
    PROVE  QueueOK(Append(rd, h), wf, w, cl, td, q)
<1> DEFINE t == Append(rd, h)
           n == Len(rd)
<1>1. rd \in Seq(Callbacks) /\ td \in Nat /\ td <= Len(rd)
  BY DEF QueueOK
<1>2. /\ t \in Seq(Callbacks) /\ Len(t) = n + 1 /\ t[n + 1] = h /\ n \in Nat
      /\ \A i \in 1 .. n : t[i] = rd[i]
  BY <1>1, AppendProperties
<1>3. n \in Nat /\ td <= n
  BY <1>1
<1> HIDE DEF t, n
<1>4. /\ \A i \in 1 .. Len(t) : i \in 1 .. n \/ (i = n + 1 /\ ~(i <= td))
      /\ td <= Len(t)
  BY <1>1, <1>2, <1>3
<1>5. /\ \A i \in 1 .. n : WritingOK(rd[i], wf, w, cl) /\ LosingOK(rd[i], w, cl, i <= td, q)
      /\ Single(rd, w)
  BY DEF QueueOK, n
<1>6. WritingOK(h, wf, w, cl)
  BY DEF WritingOK
<1>7. ASSUME NEW i \in 1 .. Len(t) PROVE WritingOK(t[i], wf, w, cl) /\ LosingOK(t[i], w, cl, i <= td, q)
  <2>1. CASE i \in 1 .. n
    BY <1>2, <1>5, <2>1
  <2>2. CASE i = n + 1 /\ ~(i <= td)
    BY <1>2, <1>6, <2>2 DEF LosingOK
  <2> QED
    BY <1>4, <2>1, <2>2
<1>8. Single(t, w)
  <2>1. CASE h[1] = "loop_writing" /\ w # 0
    <3>1. \A i \in 1 .. n : rd[i][1] # "loop_writing"
      BY <2>1 DEF n
    <3> QED
      BY <1>2, <1>4, <3>1 DEF Single
  <2>2. CASE h[1] # "loop_writing" \/ w = 0
    <3>1. w # 0 => \A i, j \in 1 .. n : rd[i][1] = "loop_writing" /\ rd[j][1] = "loop_writing" => i = j
      BY <1>5 DEF Single, n
    <3> QED
      BY <1>2, <1>4, <2>2, <3>1 DEF Single
  <2> QED
    BY <2>1, <2>2
<1> QED
  BY <1>1, <1>2, <1>4, <1>7, <1>8 DEF QueueOK, t

\* A callback that is run leaves the queue.
LEMMA QueueTail ==
    ASSUME NEW rd, NEW wf, NEW w, NEW cl, NEW td, NEW q, QueueOK(rd, wf, w, cl, td, q), td > 0
    PROVE  /\ QueueOK(Tail(rd), wf, w, cl, td - 1, q)
           /\ Head(rd) \in Callbacks
           /\ WritingOK(Head(rd), wf, w, cl) /\ (Head(rd)[1] = "connection_lost" => w = 0 /\ cl /\ q = {})
           /\ Head(rd)[1] = "loop_writing" /\ w # 0
                  => \A i \in 1 .. Len(Tail(rd)) : Tail(rd)[i][1] # "loop_writing"
<1> DEFINE t == Tail(rd)
<1>1. rd \in Seq(Callbacks) /\ td \in Nat /\ td <= Len(rd) /\ Len(rd) \in Nat
  BY DEF QueueOK
<1>2. rd # <<>>
  <2>1. Len(rd) # 0
    BY <1>1
  <2> QED
    BY <1>1, <2>1, EmptySeq
<1>3. /\ t \in Seq(Callbacks) /\ Len(t) = Len(rd) - 1 /\ \A i \in 1 .. Len(t) : t[i] = rd[i + 1]
      /\ Head(rd) = rd[1] /\ Head(rd) \in Callbacks
  BY <1>1, <1>2, HeadTailProperties
<1> HIDE DEF t
<1>4. /\ \A i \in 1 .. Len(t) : i + 1 \in 1 .. Len(rd) /\ i + 1 # 1 /\ (i <= td - 1 => i + 1 <= td)
      /\ \A i, j \in 1 .. Len(t) : i + 1 = j + 1 => i = j
      /\ td - 1 \in Nat /\ td - 1 <= Len(t) /\ 1 \in 1 .. Len(rd) /\ 1 <= td
  BY <1>1, <1>3
<1>5. /\ \A i \in 1 .. Len(rd) : WritingOK(rd[i], wf, w, cl) /\ LosingOK(rd[i], w, cl, i <= td, q)
      /\ Single(rd, w)
  BY DEF QueueOK
<1>6. ASSUME NEW i \in 1 .. Len(t) PROVE WritingOK(t[i], wf, w, cl) /\ LosingOK(t[i], w, cl, i <= td - 1, q)
  <2>1. t[i] = rd[i + 1] /\ i + 1 \in 1 .. Len(rd) /\ (i <= td - 1 => i + 1 <= td)
    BY <1>3, <1>4
  <2>2. WritingOK(rd[i + 1], wf, w, cl) /\ LosingOK(rd[i + 1], w, cl, i + 1 <= td, q)
    BY <1>5, <2>1
  <2> QED
    BY <2>1, <2>2 DEF LosingOK
<1>7. Single(t, w)
  <2> SUFFICES ASSUME w # 0, NEW i \in 1 .. Len(t), NEW j \in 1 .. Len(t),
                      t[i][1] = "loop_writing", t[j][1] = "loop_writing"
               PROVE  i = j
    BY DEF Single
  <2>1. /\ i + 1 \in 1 .. Len(rd) /\ j + 1 \in 1 .. Len(rd) /\ (i + 1 = j + 1 => i = j)
        /\ t[i] = rd[i + 1] /\ t[j] = rd[j + 1]
    BY <1>3, <1>4
  <2>2. i + 1 = j + 1
    BY <1>5, <2>1 DEF Single
  <2> QED
    BY <2>1, <2>2
<1>8. WritingOK(rd[1], wf, w, cl) /\ (rd[1][1] = "connection_lost" => w = 0 /\ cl /\ q = {})
  BY <1>4, <1>5 DEF LosingOK
<1>9. ASSUME Head(rd)[1] = "loop_writing", w # 0, NEW i \in 1 .. Len(t) PROVE t[i][1] # "loop_writing"
  BY <1>3, <1>4, <1>5, <1>9 DEF Single
<1>10. QueueOK(t, wf, w, cl, td - 1, q)
  BY <1>3, <1>4, <1>6, <1>7 DEF QueueOK
<1> QED
  BY <1>3, <1>8, <1>9, <1>10 DEF t

\* No send is current any more and the transport is closing: the queue stays good.
LEMMA QueueForced ==
    ASSUME NEW rd, NEW wf, NEW w, NEW cl, NEW td, NEW q, QueueOK(rd, wf, w, cl, td, q),
           NEW wg, Len(wg) = Len(wf)
    PROVE  QueueOK(rd, wg, 0, TRUE, td, q)
<1>1. \A i \in 1 .. Len(rd) : WritingOK(rd[i], wg, 0, TRUE) /\ LosingOK(rd[i], 0, TRUE, i <= td, q)
  BY DEF QueueOK, WritingOK, LosingOK
<1>2. Single(rd, 0)
  BY DEF Single
<1> QED
  BY <1>1, <1>2 DEF QueueOK

\* The transport is closing and the current send goes on: the queue stays good.
LEMMA QueueClosing ==
    ASSUME NEW rd, NEW wf, NEW w, NEW cl, NEW td, NEW q, QueueOK(rd, wf, w, cl, td, q)
    PROVE  QueueOK(rd, wf, w, TRUE, td, q)
<1>1. \A i \in 1 .. Len(rd) : WritingOK(rd[i], wf, w, TRUE) /\ LosingOK(rd[i], w, TRUE, i <= td, q)
  BY DEF QueueOK, WritingOK, LosingOK
<1> QED
  BY <1>1 DEF QueueOK

-----------------------------------------------------------------------------
(* Closing, with r as the queue of callbacks so far.                       *)

\* The poll is cancelled.
LEMMA PollCancelled ==
    ASSUME PollOK(pollFut, readFut, closing), NEW r, NEW wf, NEW w, NEW td, NEW q,
           QueueOK(r, wf, w, TRUE, td, q), CancelPoll(r)
    PROVE  PollOK(pollFut', readFut', TRUE) /\ QueueOK(ready', wf, w, TRUE, td, q)
<1> DEFINE h == <<"pipe_closed", 0>>
<1>1. h \in Callbacks /\ h[1] = "pipe_closed"
  BY DEF Callbacks
<1> HIDE DEF h
<1>2. QueueOK(Append(r, h), wf, w, TRUE, td, q)
  BY <1>1, QueueAppend
<1>3. readFut' = FALSE
  BY DEF CancelPoll
<1>4. CASE readFut /\ pollFut = "pending"
  <2>1. pollFut' = "cancelled" /\ ready' = Append(r, h)
    BY <1>4 DEF CancelPoll, h
  <2> QED
    BY <1>2, <1>3, <2>1 DEF PollOK
<1>5. CASE ~(readFut /\ pollFut = "pending")
  <2>1. pollFut' = pollFut /\ ready' = r
    BY <1>5 DEF CancelPoll
  <2> QED
    BY <1>3, <1>5, <2>1 DEF PollOK
<1> QED
  BY <1>4, <1>5

\* close().
LEMMA Closes ==
    ASSUME PollOK(pollFut, readFut, closing), SendsOK(wfut, writeFut), NEW r, NEW td, NEW q,
           QueueOK(r, wfut, writeFut, closing, td, q), CloseTransport(r)
    PROVE  /\ wfut' = wfut /\ writeFut' = writeFut /\ buffer' = buffer /\ closing' = TRUE
           /\ PollOK(pollFut', readFut', closing')
           /\ QueueOK(ready', wfut', writeFut', closing', td, q)
<1>1. wfut' = wfut /\ writeFut' = writeFut /\ buffer' = buffer
  BY DEF CloseTransport, TransportVars
<1>2. CASE closing
  <2>1. closing = TRUE
    BY <1>2 DEF PollOK
  <2>2. ready' = r /\ pollFut' = pollFut /\ readFut' = readFut /\ closing' = closing
    BY <1>2 DEF CloseTransport, TransportVars
  <2> QED
    BY <1>1, <2>1, <2>2
<1>3. CASE ~closing
  <2> DEFINE h == <<"connection_lost", "closed">>
             s == IF writeFut = 0 THEN Append(r, h) ELSE r
  <2>1. closing' = TRUE /\ CancelPoll(s)
    BY <1>3 DEF CloseTransport
  <2>2. QueueOK(r, wfut, writeFut, TRUE, td, q)
    BY QueueClosing
  <2>3. h \in Callbacks /\ h[1] = "connection_lost"
    BY DEF Callbacks
  <2> HIDE DEF h
  <2>4. writeFut = 0 => QueueOK(Append(r, h), wfut, writeFut, TRUE, td, q)
    BY <2>2, <2>3, QueueAppend
  <2>5. QueueOK(s, wfut, writeFut, TRUE, td, q)
    BY <2>2, <2>4
  <2> HIDE DEF s
  <2>6. PollOK(pollFut', readFut', TRUE) /\ QueueOK(ready', wfut, writeFut, TRUE, td, q)
    BY <2>1, <2>5, PollCancelled
  <2> QED
    BY <1>1, <2>1, <2>6
<1> QED
  BY <1>2, <1>3

Marked(f, st)   == [wfut EXCEPT ![f].st = st]
Ended(f, st, n) == [wfut EXCEPT ![f].st = st, ![f].took = n]

\* A send gets another status, and perhaps a result.
LEMMA SendStatus ==
    ASSUME SendsOK(wfut, writeFut), NEW f \in 1 .. Len(wfut), NEW st \in {"done", "error", "cancelled"},
           NEW wg, wg = Marked(f, st) \/ \E n \in Nat : wg = Ended(f, st, n)
    PROVE  /\ wg \in Seq(Sends) /\ Len(wg) = Len(wfut)
           /\ wg[f].st = st /\ wg[f].data = wfut[f].data
           /\ \A g \in 1 .. Len(wfut) : g # f => wg[g] = wfut[g]
           /\ \A g \in 1 .. Len(wfut) : wg[g].data = wfut[g].data
<1>1. wfut \in Seq(Sends) /\ Len(wfut) \in Nat /\ DOMAIN wfut = 1 .. Len(wfut)
  BY LenProperties DEF SendsOK
<1>2. wfut[f] \in Sends
  BY <1>1
<1>3. PICK e \in Sends : e.st = st /\ e.data = wfut[f].data /\ wg = [wfut EXCEPT ![f] = e]
  <2>1. CASE wg = Marked(f, st)
    <3> DEFINE e == [wfut[f] EXCEPT !.st = st]
    <3>1. e \in Sends /\ e.st = st /\ e.data = wfut[f].data
      BY <1>2 DEF Sends
    <3>2. wg = [wfut EXCEPT ![f] = e]
      BY <2>1 DEF Marked
    <3> QED
      BY <3>1, <3>2
  <2>2. ASSUME NEW n \in Nat, wg = Ended(f, st, n)
        PROVE  \E e \in Sends : e.st = st /\ e.data = wfut[f].data /\ wg = [wfut EXCEPT ![f] = e]
    <3> DEFINE e == [wfut[f] EXCEPT !.st = st, !.took = n]
    <3>1. e \in Sends /\ e.st = st /\ e.data = wfut[f].data
      BY <1>2 DEF Sends
    <3>2. wg = [wfut EXCEPT ![f] = e]
      BY <1>1, <2>2 DEF Ended
    <3> QED
      BY <3>1, <3>2
  <2> QED
    BY <2>1, <2>2
<1>5. /\ wg \in Seq(Sends) /\ Len(wg) = Len(wfut) /\ wg[f] = e
      /\ \A g \in 1 .. Len(wfut) : g # f => wg[g] = wfut[g]
  BY <1>1, <1>3, ExceptSeq
<1> QED
  BY <1>3, <1>5

\* _force_close(), unless connection_lost was called.
LEMMA Forced ==
    ASSUME PollOK(pollFut, readFut, closing), SendsOK(wfut, writeFut), NEW r, NEW td, NEW q,
           QueueOK(r, wfut, writeFut, closing, td, q), ~(closing /\ lost # "no"),
           NEW why \in {"aborted", "broken"}, ForceClose(why, r)
    PROVE  /\ writeFut' = 0 /\ closing' = TRUE /\ buffer' = <<>>
           /\ PollOK(pollFut', readFut', closing') /\ SendsOK(wfut', writeFut')
           /\ QueueOK(ready', wfut', writeFut', closing', td, q)
           /\ Len(wfut') = Len(wfut)
           /\ \A f \in 1 .. Len(wfut) : wfut'[f].data = wfut[f].data
<1> DEFINE cancels == writeFut # 0 /\ wfut[writeFut].st = "pending"
           g == <<"loop_writing", writeFut>>
           h == <<"connection_lost", why>>
           s == IF cancels THEN Append(r, g) ELSE r
           u == Append(s, h)
<1>1. /\ closing' = TRUE /\ writeFut' = 0 /\ buffer' = <<>>
      /\ wfut' = IF cancels THEN [wfut EXCEPT ![writeFut].st = "cancelled"] ELSE wfut
      /\ CancelPoll(u)
  BY DEF ForceClose
<1>2. /\ wfut \in Seq(Sends) /\ writeFut \in 0 .. Len(wfut) /\ Len(wfut) \in Nat
      /\ \A f \in 1 .. Len(wfut) : wfut[f].st = "pending" => f = writeFut
  BY DEF SendsOK
<1>3. cancels => writeFut \in 1 .. Len(wfut)
  BY <1>2
<1>4. /\ wfut' \in Seq(Sends) /\ Len(wfut') = Len(wfut)
      /\ \A f \in 1 .. Len(wfut) : wfut'[f].st # "pending"
      /\ \A f \in 1 .. Len(wfut) : wfut'[f].data = wfut[f].data
  <2>1. CASE cancels
    <3>1. wfut' = Marked(writeFut, "cancelled")
      BY <1>1, <2>1 DEF Marked
    <3>2. /\ wfut' \in Seq(Sends) /\ Len(wfut') = Len(wfut) /\ wfut'[writeFut].st = "cancelled"
          /\ \A f \in 1 .. Len(wfut) : f # writeFut => wfut'[f] = wfut[f]
          /\ \A f \in 1 .. Len(wfut) : wfut'[f].data = wfut[f].data
      <4>1. writeFut \in 1 .. Len(wfut) /\ "cancelled" \in {"done", "error", "cancelled"}
        BY <1>3, <2>1
      <4> QED
        BY <3>1, <4>1, SendStatus, SMTT(30)
    <3> QED
      BY <1>2, <3>2
  <2>2. CASE ~cancels
    <3>1. \A f \in 1 .. Len(wfut) : f # 0
      BY <1>2
    <3> QED
      BY <1>1, <1>2, <2>2, <3>1
  <2> QED
    BY <2>1, <2>2
<1>5. SendsOK(wfut', 0)
  <2>1. 0 \in 0 .. Len(wfut')
    BY <1>2, <1>4
  <2> QED
    BY <1>4, <2>1 DEF SendsOK
<1>6. QueueOK(r, wfut', 0, TRUE, td, q)
  BY <1>4, QueueForced
<1>7. h \in Callbacks /\ h[1] = "connection_lost"
  BY DEF Callbacks
<1>8. cancels => g \in Callbacks /\ g[1] = "loop_writing" /\ g[2] \in 1 .. Len(wfut')
  BY <1>2, <1>3, <1>4 DEF Callbacks
<1> HIDE DEF g, h, cancels
<1>9. cancels => QueueOK(Append(r, g), wfut', 0, TRUE, td, q)
  <2> SUFFICES ASSUME cancels PROVE QueueOK(Append(r, g), wfut', 0, TRUE, td, q)
    OBVIOUS
  <2>1. g \in Callbacks /\ g[1] = "loop_writing" /\ g[2] \in 1 .. Len(wfut')
    BY <1>8
  <2> QED
    BY <1>6, <2>1, QueueAppend
<1>10. QueueOK(s, wfut', 0, TRUE, td, q)
  BY <1>6, <1>9
<1> HIDE DEF s
<1>11. QueueOK(u, wfut', 0, TRUE, td, q)
  BY <1>7, <1>10, QueueAppend
<1> HIDE DEF u
<1>12. PollOK(pollFut', readFut', TRUE) /\ QueueOK(ready', wfut', 0, TRUE, td, q)
  BY <1>1, <1>11, PollCancelled
<1> QED
  BY <1>1, <1>4, <1>5, <1>12

\* A send is started while no other is pending and nothing about sends waits in the queue.
LEMMA Sent ==
    ASSUME SendsOK(wfut, writeFut), NEW rd, NEW td, NEW q,
           QueueOK(rd, wfut, writeFut, closing, td, q),
           \A i \in 1 .. Len(rd) : rd[i][1] \notin {"loop_writing", "connection_lost"},
           \A f \in 1 .. Len(wfut) : wfut[f].st # "pending",
           NEW data \in Seq(Nat), Send(data)
    PROVE  /\ SendsOK(wfut', writeFut') /\ QueueOK(rd, wfut', writeFut', closing, td, queued')
           /\ Len(wfut') = Len(wfut) + 1 /\ writeFut' = Len(wfut) + 1 /\ Len(wfut) \in Nat
           /\ wfut'[Len(wfut) + 1].st = "pending" /\ wfut'[Len(wfut) + 1].data = data
           /\ \A f \in 1 .. Len(wfut) : wfut'[f] = wfut[f]
           /\ queued' = queued \cup {Len(wfut) + 1}
<1> DEFINE e == [st |-> "pending", data |-> data, took |-> 0]
           n == Len(wfut) + 1
<1>1. wfut' = Append(wfut, e) /\ writeFut' = n /\ queued' = queued \cup {n}
  BY DEF Send
<1>2. wfut \in Seq(Sends) /\ Len(wfut) \in Nat
  BY DEF SendsOK
<1>3. e \in Sends /\ e.st = "pending" /\ e.data = data
  BY DEF Sends
<1> HIDE DEF e
<1>4. /\ wfut' \in Seq(Sends) /\ Len(wfut') = n /\ wfut'[n] = e
      /\ \A f \in 1 .. Len(wfut) : wfut'[f] = wfut[f]
  BY <1>1, <1>2, <1>3, AppendProperties
<1>5. n \in 0 .. n /\ n # 0 /\ \A f \in 1 .. n : f = n \/ f \in 1 .. Len(wfut)
  BY <1>2
<1> HIDE DEF n
<1>6. SendsOK(wfut', writeFut')
  BY <1>1, <1>4, <1>5 DEF SendsOK
<1>7. QueueOK(rd, wfut', writeFut', closing, td, queued')
  <2>1. \A i \in 1 .. Len(rd) : /\ WritingOK(rd[i], wfut', writeFut', closing)
                                /\ LosingOK(rd[i], writeFut', closing, i <= td, queued')
    BY DEF WritingOK, LosingOK
  <2>2. Single(rd, writeFut')
    BY DEF Single
  <2> QED
    BY <2>1, <2>2 DEF QueueOK
<1> QED
  BY <1>1, <1>2, <1>3, <1>4, <1>6, <1>7 DEF n

-----------------------------------------------------------------------------
(* The steps.                                                              *)

\* Reassembling the invariant.
LEMMA Again ==
    ASSUME PollOK(pollFut', readFut', closing'), SendsOK(wfut', writeFut'),
           LostOK(lost', writeFut', closing', queued'),
           QueueOK(ready', wfut', writeFut', closing', todo', queued'), ~failed'
    PROVE  PipeInv'
BY DEF PipeInv

\* What a transport that is not closing, or has a current send, knows.
LEMMA Quiet ==
    ASSUME PipeInv
    PROVE  /\ ~closing \/ writeFut # 0 => lost = "no"
           /\ ~closing /\ writeFut = 0 =>
                  \A i \in 1 .. Len(ready) : ready[i][1] \notin {"loop_writing", "connection_lost"}
           /\ writeFut # 0 => \A i \in 1 .. Len(ready) : ready[i][1] # "connection_lost"
           /\ writeFut = 0 => \A f \in 1 .. Len(wfut) : wfut[f].st # "pending"
           /\ Len(wfut) \in Nat
<1>1. Len(wfut) \in Nat /\ \A f \in 1 .. Len(wfut) : wfut[f].st = "pending" => f = writeFut
  BY DEF PipeInv, SendsOK
<1>2. \A f \in 1 .. Len(wfut) : f # 0
  BY <1>1
<1>3. \A i \in 1 .. Len(ready) : /\ WritingOK(ready[i], wfut, writeFut, closing)
                                 /\ LosingOK(ready[i], writeFut, closing, i <= todo, queued)
  BY DEF PipeInv, QueueOK
<1>4. ~closing \/ writeFut # 0 => lost = "no"
  BY DEF PipeInv, LostOK
<1>5. ASSUME ~closing, writeFut = 0, NEW i \in 1 .. Len(ready)
      PROVE  ready[i][1] \notin {"loop_writing", "connection_lost"}
  BY <1>2, <1>3, <1>5 DEF WritingOK, LosingOK
<1>6. ASSUME writeFut # 0, NEW i \in 1 .. Len(ready) PROVE ready[i][1] # "connection_lost"
  BY <1>3, <1>6 DEF LosingOK
<1> QED
  BY <1>1, <1>2, <1>4, <1>5, <1>6

\* write().
LEMMA WriteKeeps ==
    ASSUME PipeInv, NEW n \in 1 .. MaxBytes, Write(n), written \in Nat
    PROVE  PipeInv'
<1> DEFINE data == [i \in 1 .. n |-> written + i]
<1>1. /\ ~closing
      /\ IF writeFut = 0 THEN Send(data) ELSE wfut' = wfut /\ writeFut' = writeFut /\ queued' = queued
      /\ pollFut' = pollFut /\ readFut' = readFut /\ closing' = closing /\ lost' = lost
      /\ ready' = ready /\ failed' = failed /\ todo' = todo
  BY DEF Write
<1>2. data \in Seq(Nat)
  <2>1. n \in Nat
    BY WritePipeAssumption
  <2>2. data \in [1 .. n -> Nat]
    BY <2>1
  <2> QED
    BY <2>1, <2>2, SeqDef
<1> HIDE DEF data
<1>3. PollOK(pollFut', readFut', closing') /\ ~failed'
  BY <1>1 DEF PipeInv
<1>4. lost = "no"
  BY <1>1, Quiet
<1>5. LostOK(lost', writeFut', closing', queued')
  BY <1>1, <1>4 DEF LostOK
<1>6. CASE writeFut = 0
  <2>1. /\ \A i \in 1 .. Len(ready) : ready[i][1] \notin {"loop_writing", "connection_lost"}
        /\ \A f \in 1 .. Len(wfut) : wfut[f].st # "pending"
    BY <1>1, <1>6, Quiet
  <2>2. SendsOK(wfut, writeFut) /\ QueueOK(ready, wfut, writeFut, closing, todo, queued) /\ Send(data)
    BY <1>1, <1>6 DEF PipeInv
  <2>3. SendsOK(wfut', writeFut') /\ QueueOK(ready, wfut', writeFut', closing, todo, queued')
    BY <1>2, <2>1, <2>2, Sent
  <2> QED
    BY <1>1, <1>3, <1>5, <2>3, Again
<1>7. CASE writeFut # 0
  BY <1>1, <1>3, <1>5, <1>7, Again DEF PipeInv
<1> QED
  BY <1>6, <1>7

\* close() and abort().
LEMMA CloseKeeps ==
    ASSUME PipeInv, Close \/ Abort
    PROVE  PipeInv'
<1>1. /\ PollOK(pollFut, readFut, closing) /\ SendsOK(wfut, writeFut)
      /\ LostOK(lost, writeFut, closing, queued)
      /\ QueueOK(ready, wfut, writeFut, closing, todo, queued) /\ ~failed
  BY DEF PipeInv
<1>2. lost' = lost /\ failed' = failed /\ queued' = queued /\ todo' = todo
  BY DEF Close, Abort
<1>3. CASE Close
  <2>1. CloseTransport(ready)
    BY <1>3 DEF Close
  <2>2. /\ wfut' = wfut /\ writeFut' = writeFut /\ closing' = TRUE
        /\ PollOK(pollFut', readFut', closing')
        /\ QueueOK(ready', wfut', writeFut', closing', todo, queued)
    BY <1>1, <2>1, Closes
  <2>3. LostOK(lost', writeFut', closing', queued')
    BY <1>1, <1>2, <2>2 DEF LostOK
  <2> QED
    BY <1>1, <1>2, <2>2, <2>3, Again
<1>4. CASE Abort /\ closing /\ lost # "no"
  <2>1. ready' = ready /\ UNCHANGED TransportVars
    BY <1>4 DEF Abort, ForceClose
  <2> QED
    BY <1>1, <1>2, <2>1, Again DEF TransportVars
<1>5. CASE Abort /\ ~(closing /\ lost # "no")
  <2>1. ForceClose("aborted", ready)
    BY <1>5 DEF Abort
  <2>2. /\ writeFut' = 0 /\ closing' = TRUE
        /\ PollOK(pollFut', readFut', closing') /\ SendsOK(wfut', writeFut')
        /\ QueueOK(ready', wfut', writeFut', closing', todo, queued)
    BY <1>1, <1>5, <2>1, Forced
  <2>3. LostOK(lost', writeFut', closing', queued')
    BY <1>1, <1>2, <2>2 DEF LostOK
  <2> QED
    BY <1>1, <1>2, <2>2, <2>3, Again
<1> QED
  BY <1>3, <1>4, <1>5

\* An iteration of the loop begins.
LEMMA SelectKeeps ==
    ASSUME PipeInv, Select
    PROVE  PipeInv'
<1>1. /\ todo' = Len(ready) /\ queued' = {} /\ lost' = lost /\ ready' = ready /\ failed' = failed
      /\ UNCHANGED TransportVars
  BY DEF Select
<1>2. /\ pollFut' = pollFut /\ readFut' = readFut /\ wfut' = wfut /\ writeFut' = writeFut
      /\ closing' = closing
  BY <1>1 DEF TransportVars
<1>3. QueueOK(ready, wfut, writeFut, closing, todo, queued)
  BY DEF PipeInv
<1>4. QueueOK(ready', wfut', writeFut', closing', todo', queued')
  <2>1. Len(ready) \in Nat /\ Len(ready) <= Len(ready)
    BY <1>3 DEF QueueOK
  <2>2. \A i \in 1 .. Len(ready) : /\ WritingOK(ready[i], wfut, writeFut, closing)
                                   /\ LosingOK(ready[i], writeFut, closing, i <= Len(ready), {})
    BY <1>3 DEF QueueOK, LosingOK
  <2> QED
    BY <1>1, <1>2, <1>3, <2>1, <2>2 DEF QueueOK
<1>5. LostOK(lost', writeFut', closing', queued')
  BY <1>1, <1>2 DEF PipeInv, LostOK
<1> QED
  BY <1>1, <1>2, <1>4, <1>5, Again DEF PipeInv

\* The callback that is run is taken from the queue.
LEMMA Run ==
    ASSUME PipeInv, NEW name, Callback(name)
    PROVE  /\ Head(ready)[1] = name /\ todo' = todo - 1 /\ todo > 0
           /\ QueueOK(Tail(ready), wfut, writeFut, closing, todo', queued)
           /\ Head(ready) \in Callbacks
           /\ WritingOK(Head(ready), wfut, writeFut, closing)
           /\ (name = "connection_lost" => writeFut = 0 /\ closing /\ queued = {})
           /\ name = "loop_writing" /\ writeFut # 0
                  => \A i \in 1 .. Len(Tail(ready)) :
                         Tail(ready)[i][1] \notin {"loop_writing", "connection_lost"}
<1>1. Head(ready)[1] = name /\ todo' = todo - 1 /\ todo > 0
  BY DEF Callback
<1>2. QueueOK(ready, wfut, writeFut, closing, todo, queued)
  BY DEF PipeInv
<1>3. /\ QueueOK(Tail(ready), wfut, writeFut, closing, todo - 1, queued)
      /\ Head(ready) \in Callbacks
      /\ WritingOK(Head(ready), wfut, writeFut, closing)
      /\ (Head(ready)[1] = "connection_lost" => writeFut = 0 /\ closing /\ queued = {})
      /\ Head(ready)[1] = "loop_writing" /\ writeFut # 0
             => \A i \in 1 .. Len(Tail(ready)) : Tail(ready)[i][1] # "loop_writing"
  BY <1>1, <1>2, QueueTail
<1> DEFINE t == Tail(ready)
<1>4. \A i \in 1 .. Len(t) : t[i][1] = "connection_lost" => writeFut = 0
  BY <1>3 DEF QueueOK, LosingOK
<1> QED
  BY <1>1, <1>3, <1>4

\* _loop_writing().
LEMMA LoopWritingKeeps ==
    ASSUME PipeInv, LoopWriting, buffer \in Seq(Nat)
    PROVE  PipeInv'
<1> DEFINE f == Head(ready)[2]
           t == Tail(ready)
<1>0. /\ PollOK(pollFut, readFut, closing) /\ SendsOK(wfut, writeFut)
      /\ LostOK(lost, writeFut, closing, queued) /\ ~failed
  BY DEF PipeInv
<1>1. Callback("loop_writing") /\ lost' = lost
  BY DEF LoopWriting
<1>2. /\ todo' = todo - 1 /\ QueueOK(t, wfut, writeFut, closing, todo', queued)
      /\ f \in 1 .. Len(wfut)
      /\ (f = writeFut /\ wfut[writeFut].st # "pending") \/ (writeFut = 0 /\ closing)
      /\ writeFut # 0 => \A i \in 1 .. Len(t) : t[i][1] \notin {"loop_writing", "connection_lost"}
  BY <1>1, Run DEF WritingOK
<1>3. f # 0 /\ Len(wfut) \in Nat /\ (writeFut # 0 => lost = "no")
  BY <1>2, Quiet
<1>4. CASE f # writeFut
  <2>1. ready' = t /\ UNCHANGED <<TransportVars, queued>> /\ ~failed'
    BY <1>0, <1>2, <1>4 DEF LoopWriting
  <2> QED
    BY <1>0, <1>1, <1>2, <2>1, Again DEF TransportVars
<1>5. CASE f = writeFut /\ wfut[f].st = "done" /\ buffer # <<>>
  <2>1. /\ Send(buffer) /\ ready' = t
        /\ pollFut' = pollFut /\ readFut' = readFut /\ closing' = closing /\ failed' = failed
    BY <1>5 DEF LoopWriting
  <2>2. \A g \in 1 .. Len(wfut) : wfut[g].st # "pending"
    BY <1>0, <1>5 DEF SendsOK
  <2>3. SendsOK(wfut', writeFut') /\ QueueOK(t, wfut', writeFut', closing, todo', queued')
    BY <1>0, <1>2, <1>3, <1>5, <2>1, <2>2, Sent
  <2>4. LostOK(lost', writeFut', closing', queued')
    BY <1>1, <1>3, <1>5 DEF LostOK
  <2> QED
    BY <1>0, <2>1, <2>3, <2>4, Again
<1>6. CASE f = writeFut /\ wfut[f].st = "done" /\ buffer = <<>>
  <2> DEFINE h == <<"connection_lost", "closed">>
  <2>1. /\ writeFut' = 0 /\ ready' = t \o (IF closing THEN <<h>> ELSE <<>>)
        /\ pollFut' = pollFut /\ readFut' = readFut /\ wfut' = wfut
        /\ closing' = closing /\ failed' = failed /\ queued' = queued
    BY <1>6 DEF LoopWriting
  <2>2. t \in Seq(Callbacks) /\ h \in Callbacks /\ h[1] = "connection_lost"
    BY <1>2 DEF QueueOK, Callbacks
  <2> HIDE DEF h, t
  <2>3. QueueOK(t, wfut, 0, closing, todo', queued)
    <3>1. \A i \in 1 .. Len(t) : /\ WritingOK(t[i], wfut, 0, closing)
                                 /\ LosingOK(t[i], 0, closing, i <= todo', queued)
      BY <1>2, <1>3, <1>6 DEF WritingOK, LosingOK
    <3>2. Single(t, 0)
      BY DEF Single
    <3> QED
      BY <1>2, <3>1, <3>2 DEF QueueOK
  <2>4. t \o <<>> = t
    BY <2>2
  <2>5. t \o <<h>> = Append(t, h)
    BY <2>2, AppendIsConcat
  <2>6. closing => QueueOK(Append(t, h), wfut, 0, closing, todo', queued)
    BY <2>2, <2>3, QueueAppend
  <2>7. QueueOK(ready', wfut', writeFut', closing', todo', queued')
    BY <2>1, <2>3, <2>4, <2>5, <2>6
  <2>8. SendsOK(wfut', writeFut')
    <3>1. \A g \in 1 .. Len(wfut) : wfut[g].st # "pending"
      BY <1>0, <1>6 DEF SendsOK
    <3>2. 0 \in 0 .. Len(wfut)
      BY <1>3
    <3> QED
      BY <1>0, <2>1, <3>1, <3>2 DEF SendsOK
  <2>9. LostOK(lost', writeFut', closing', queued')
    BY <1>1, <1>3, <1>6 DEF LostOK
  <2> QED
    BY <1>0, <2>1, <2>7, <2>8, <2>9, Again
<1>7. CASE f = writeFut /\ wfut[f].st = "error"
  <2>1. ForceClose("broken", t) /\ failed' = failed /\ queued' = queued
    BY <1>7 DEF LoopWriting
  <2>2. lost = "no"
    BY <1>3, <1>7
  <2>3. /\ writeFut' = 0 /\ closing' = TRUE
        /\ PollOK(pollFut', readFut', closing') /\ SendsOK(wfut', writeFut')
        /\ QueueOK(ready', wfut', writeFut', closing', todo', queued)
    BY <1>0, <1>2, <2>1, <2>2, Forced
  <2>4. LostOK(lost', writeFut', closing', queued')
    BY <1>1, <2>2 DEF LostOK
  <2> QED
    BY <1>0, <2>1, <2>3, <2>4, Again
<1> QED
  BY <1>4, <1>5, <1>6, <1>7 DEF LoopWriting

\* _call_connection_lost().
LEMMA ConnectionLostKeeps ==
    ASSUME PipeInv, ConnectionLost
    PROVE  PipeInv'
<1>1. /\ Callback("connection_lost") /\ ready' = Tail(ready)
      /\ failed' = failed /\ queued' = queued /\ UNCHANGED TransportVars
  BY DEF ConnectionLost
<1>2. /\ QueueOK(Tail(ready), wfut, writeFut, closing, todo', queued)
      /\ writeFut = 0 /\ closing /\ queued = {}
  BY <1>1, Run
<1>3. /\ pollFut' = pollFut /\ readFut' = readFut /\ wfut' = wfut /\ writeFut' = writeFut
      /\ closing' = closing
  BY <1>1 DEF TransportVars
<1>4. LostOK(lost', writeFut', closing', queued')
  BY <1>1, <1>2, <1>3 DEF LostOK
<1> QED
  BY <1>1, <1>2, <1>3, <1>4, Again DEF PipeInv

\* _pipe_closed().
LEMMA PipeClosedKeeps ==
    ASSUME PipeInv, PipeClosed
    PROVE  PipeInv'
<1> DEFINE t == Tail(ready)
<1>0. /\ PollOK(pollFut, readFut, closing) /\ SendsOK(wfut, writeFut)
      /\ LostOK(lost, writeFut, closing, queued) /\ ~failed
  BY DEF PipeInv
<1>1. Callback("pipe_closed") /\ lost' = lost /\ queued' = queued
  BY DEF PipeClosed
<1>2. QueueOK(t, wfut, writeFut, closing, todo', queued)
  BY <1>1, Run
<1>3. CASE pollFut = "cancelled" \/ (pollFut = "done" /\ closing)
  <2>1. ready' = t /\ UNCHANGED TransportVars /\ ~failed'
    BY <1>0, <1>3 DEF PipeClosed, PollOK
  <2> QED
    BY <1>0, <1>1, <1>2, <2>1, Again DEF TransportVars
<1>4. CASE pollFut = "done" /\ ~closing
  <2>1. HangUp /\ ~failed'
    BY <1>0, <1>4 DEF PipeClosed, PollOK
  <2>2. lost = "no"
    BY <1>4, Quiet
  <2>3. LostOK(lost', writeFut', closing', queued')
    BY <1>1, <2>2 DEF LostOK
  <2>4. CASE writeFut # 0
    <3>1. ForceClose("broken", t)
      BY <2>1, <2>4 DEF HangUp
    <3>2. /\ writeFut' = 0 /\ closing' = TRUE
          /\ PollOK(pollFut', readFut', closing') /\ SendsOK(wfut', writeFut')
          /\ QueueOK(ready', wfut', writeFut', closing', todo', queued)
      BY <1>0, <1>2, <2>2, <3>1, Forced
    <3> QED
      BY <1>1, <2>1, <2>3, <3>2, Again
  <2>5. CASE writeFut = 0
    <3>1. CloseTransport(t)
      BY <2>1, <2>5 DEF HangUp
    <3>2. /\ wfut' = wfut /\ writeFut' = writeFut
          /\ PollOK(pollFut', readFut', closing')
          /\ QueueOK(ready', wfut', writeFut', closing', todo', queued)
      BY <1>0, <1>2, <3>1, Closes
    <3> QED
      BY <1>0, <1>1, <2>1, <2>3, <3>2, Again
  <2> QED
    BY <2>4, <2>5
<1> QED
  BY <1>3, <1>4 DEF PipeClosed

\* The poll ends, or the peer closes.
LEMMA PollKeeps ==
    ASSUME PipeInv, PollCompletes \/ PeerCloses
    PROVE  PipeInv'
<1>0. /\ PollOK(pollFut, readFut, closing) /\ SendsOK(wfut, writeFut)
      /\ LostOK(lost, writeFut, closing, queued) /\ ~failed
      /\ QueueOK(ready, wfut, writeFut, closing, todo, queued)
  BY DEF PipeInv
<1>1. /\ readFut' = readFut /\ wfut' = wfut /\ writeFut' = writeFut /\ closing' = closing
      /\ lost' = lost /\ failed' = failed /\ queued' = queued /\ todo' = todo
  BY DEF PollCompletes, PeerCloses
<1>2. CASE PeerCloses
  <2>1. pollFut' = pollFut /\ ready' = ready
    BY <1>2 DEF PeerCloses
  <2> QED
    BY <1>0, <1>1, <2>1, Again
<1>3. CASE PollCompletes
  <2> DEFINE h == <<"pipe_closed", 0>>
  <2>1. pollFut' = "done" /\ ready' = Append(ready, h)
    BY <1>3 DEF PollCompletes
  <2>2. h \in Callbacks /\ h[1] = "pipe_closed"
    BY DEF Callbacks
  <2> HIDE DEF h
  <2>3. QueueOK(Append(ready, h), wfut, writeFut, closing, todo, queued)
    BY <1>0, <2>2, QueueAppend
  <2>4. PollOK(pollFut', readFut', closing')
    BY <1>0, <1>1, <2>1 DEF PollOK
  <2> QED
    BY <1>0, <1>1, <2>1, <2>3, <2>4, Again
<1> QED
  BY <1>2, <1>3

\* A send ends.
LEMMA SendEndsKeeps ==
    ASSUME PipeInv, NEW f \in 1 .. Len(wfut), NEW st \in {"done", "error"}, NEW n \in Nat,
           SendEnds(f, st, n)
    PROVE  PipeInv'
<1>0. /\ PollOK(pollFut, readFut, closing) /\ SendsOK(wfut, writeFut)
      /\ LostOK(lost, writeFut, closing, queued) /\ ~failed
      /\ QueueOK(ready, wfut, writeFut, closing, todo, queued)
  BY DEF PipeInv
<1>1. /\ pollFut' = pollFut /\ readFut' = readFut /\ writeFut' = writeFut /\ closing' = closing
      /\ lost' = lost /\ failed' = failed /\ queued' = queued /\ todo' = todo
  BY DEF SendEnds
<1>2. CASE wfut[f].st # "pending"
  <2>1. wfut' = wfut /\ ready' = ready
    BY <1>2 DEF SendEnds
  <2> QED
    BY <1>0, <1>1, <2>1, Again
<1>3. CASE wfut[f].st = "pending"
  <2> DEFINE h == <<"loop_writing", f>>
  <2>1. wfut' = Ended(f, st, n) /\ ready' = Append(ready, h)
    BY <1>3 DEF SendEnds, Ended
  <2>2. f = writeFut /\ f # 0 /\ f \in Nat
    BY <1>0, <1>3, Quiet DEF SendsOK
  <2>3. /\ wfut' \in Seq(Sends) /\ Len(wfut') = Len(wfut) /\ wfut'[f].st = st
        /\ \A g \in 1 .. Len(wfut) : g # f => wfut'[g] = wfut[g]
    BY <1>0, <2>1, SendStatus
  <2>4. SendsOK(wfut', writeFut')
    BY <1>0, <1>1, <2>3 DEF SendsOK
  <2>5. \A i \in 1 .. Len(ready) : ready[i][1] # "loop_writing"
    BY <1>0, <1>3, <2>2 DEF QueueOK, WritingOK
  <2>6. QueueOK(ready, wfut', writeFut, closing, todo, queued)
    <3>1. \A i \in 1 .. Len(ready) : WritingOK(ready[i], wfut', writeFut, closing)
      BY <2>5 DEF WritingOK
    <3> QED
      BY <1>0, <3>1 DEF QueueOK
  <2>7. h \in Callbacks /\ h[1] = "loop_writing" /\ h[2] = f
    BY <2>2 DEF Callbacks
  <2> HIDE DEF h
  <2>8. QueueOK(Append(ready, h), wfut', writeFut, closing, todo, queued)
    BY <2>2, <2>3, <2>5, <2>6, <2>7, QueueAppend
  <2> QED
    BY <1>0, <1>1, <2>1, <2>4, <2>8, Again
<1> QED
  BY <1>2, <1>3

\* A new transport.
LEMMA PipeStarts ==
    ASSUME Init
    PROVE  PipeInv /\ written = 0 /\ buffer = <<>>
<1>1. /\ pollFut = "pending" /\ readFut = TRUE /\ wfut = <<>> /\ writeFut = 0 /\ buffer = <<>>
      /\ closing = FALSE /\ lost = "no" /\ ready = <<>> /\ failed = FALSE
      /\ written = 0 /\ todo = 0
  BY DEF Init
<1>2. /\ <<>> \in Seq(Sends) /\ <<>> \in Seq(Callbacks) /\ Len(<<>>) = 0 /\ 1 .. 0 = {} /\ 0 \in 0 .. 0
  OBVIOUS
<1>3. SendsOK(wfut, writeFut)
  BY <1>1, <1>2 DEF SendsOK
<1>4. QueueOK(ready, wfut, writeFut, closing, todo, queued)
  BY <1>1, <1>2 DEF QueueOK, Single
<1>5. PollOK(pollFut, readFut, closing) /\ LostOK(lost, writeFut, closing, queued)
  BY <1>1 DEF PollOK, LostOK
<1> QED
  BY <1>1, <1>3, <1>4, <1>5 DEF PipeInv

\* What was written, and the buffer.
BytesTyped == written \in Nat /\ buffer \in Seq(Nat)

\* A step leaves numbers numbers.
LEMMA BytesStep ==
    ASSUME BytesTyped, [Next]_vars
    PROVE  BytesTyped'
<1>0. written \in Nat /\ buffer \in Seq(Nat) /\ <<>> \in Seq(Nat)
  BY DEF BytesTyped
<1>1. ASSUME NEW n \in 1 .. MaxBytes, Write(n) PROVE BytesTyped'
  <2> DEFINE data == [i \in 1 .. n |-> written + i]
  <2>1. n \in Nat
    BY WritePipeAssumption
  <2>2. data \in Seq(Nat)
    <3>1. data \in [1 .. n -> Nat]
      BY <1>0, <2>1
    <3> QED
      BY <2>1, <3>1, SeqDef
  <2>3. written' = written + n /\ (buffer' = buffer \/ buffer' = buffer \o data)
    BY <1>1 DEF Write
  <2> HIDE DEF data
  <2>4. buffer \o data \in Seq(Nat)
    BY <1>0, <2>2, ConcatProperties
  <2>5. written + n \in Nat
    BY <1>0, <2>1
  <2>6. written' \in Nat
    BY <2>3, <2>5
  <2>7. buffer' \in Seq(Nat)
    BY <1>0, <2>3, <2>4
  <2> QED
    BY <2>6, <2>7 DEF BytesTyped
<1>2. ASSUME NEW r, CloseTransport(r) PROVE buffer' = buffer
  BY <1>2 DEF CloseTransport, TransportVars
<1>3. ASSUME NEW r, NEW why, ForceClose(why, r) PROVE buffer' \in {buffer, <<>>}
  BY <1>3 DEF ForceClose, TransportVars
<1>4. CASE Close
  BY <1>0, <1>2, <1>4 DEF Close, BytesTyped
<1>5. CASE Abort
  BY <1>0, <1>3, <1>5 DEF Abort, BytesTyped
<1>6. CASE Select
  BY <1>0, <1>6 DEF Select, TransportVars, BytesTyped
<1>7. CASE LoopWriting
  <2>1. written' = written /\ buffer' \in {buffer, <<>>}
    BY <1>3, <1>7 DEF LoopWriting, TransportVars
  <2> QED
    BY <1>0, <2>1 DEF BytesTyped
<1>8. CASE ConnectionLost
  BY <1>0, <1>8 DEF ConnectionLost, TransportVars, BytesTyped
<1>9. CASE PipeClosed
  <2>1. written' = written /\ buffer' \in {buffer, <<>>}
    BY <1>2, <1>3, <1>9 DEF PipeClosed, HangUp, TransportVars
  <2> QED
    BY <1>0, <2>1 DEF BytesTyped
<1>10. CASE PeerCloses \/ PollCompletes \/ UNCHANGED vars
  BY <1>0, <1>10 DEF PeerCloses, PollCompletes, vars, BytesTyped
<1>11. CASE \E f \in 1 .. Len(wfut) : SendCompletes(f) \/ SendFails(f)
  <2>1. PICK f \in 1 .. Len(wfut) : SendCompletes(f) \/ SendFails(f)
    BY <1>11
  <2>2. \E st \in {"done", "error"} : \E n : SendEnds(f, st, n)
    BY <2>1 DEF SendCompletes, SendFails
  <2>3. written' = written /\ buffer' = buffer
    BY <2>2 DEF SendEnds
  <2> QED
    BY <1>0, <2>3 DEF BytesTyped
<1> QED
  BY <1>1, <1>4, <1>5, <1>6, <1>7, <1>8, <1>9, <1>10, <1>11 DEF Next, RunCallback

\* Every step keeps the invariant.
LEMMA PipeStep ==
    ASSUME PipeInv, BytesTyped, [Next]_vars
    PROVE  PipeInv'
<1>0. written \in Nat /\ buffer \in Seq(Nat)
  BY DEF BytesTyped
<1>1. CASE \E n \in 1 .. MaxBytes : Write(n)
  BY <1>0, <1>1, WriteKeeps
<1>2. CASE Close \/ Abort
  BY <1>2, CloseKeeps
<1>3. CASE Select
  BY <1>3, SelectKeeps
<1>4. CASE RunCallback
  BY <1>0, <1>4, LoopWritingKeeps, ConnectionLostKeeps, PipeClosedKeeps DEF RunCallback
<1>5. CASE PeerCloses \/ PollCompletes
  BY <1>5, PollKeeps
<1>6. CASE \E f \in 1 .. Len(wfut) : SendCompletes(f) \/ SendFails(f)
  <2>1. PICK f \in 1 .. Len(wfut) : SendCompletes(f) \/ SendFails(f)
    BY <1>6
  <2>2. \E st \in {"done", "error"} : \E n \in Nat : SendEnds(f, st, n)
    BY <2>1 DEF SendCompletes, SendFails
  <2> QED
    BY <2>2, SendEndsKeeps
<1>7. CASE UNCHANGED vars
  BY <1>7 DEF vars, PipeInv
<1> QED
  BY <1>1, <1>2, <1>3, <1>4, <1>5, <1>6, <1>7 DEF Next

\* The invariant holds in every state.
LEMMA PipeInvariant == Spec => [](PipeInv /\ BytesTyped)
<1>1. Init => PipeInv /\ BytesTyped
  <2> SUFFICES ASSUME Init PROVE PipeInv /\ BytesTyped
    OBVIOUS
  <2> QED
    BY PipeStarts DEF BytesTyped
<1>2. PipeInv /\ BytesTyped /\ [Next]_vars => (PipeInv /\ BytesTyped)'
  BY PipeStep, BytesStep
<1> QED
  BY <1>1, <1>2, PTL DEF Spec

\* The assertions of _pipe_closed and of _loop_writing hold in every order of close(),
\* abort(), writes of any length, short sends, hang-ups and callbacks.
THEOREM AssertionsNeverFail == Spec => []AssertionsHold
<1>1. PipeInv => AssertionsHold
  BY DEF PipeInv, AssertionsHold
<1> QED
  BY <1>1, PipeInvariant, PTL

-----------------------------------------------------------------------------
(* What the kernel took, and what short sends reported.                    *)

\* s is a stretch of what was written, after the first a bytes.
Bytes(s, a) == \A i \in 1 .. Len(s) : s[i] = a + i

\* The number of bytes passed to sends that are over: the stream and what was left over of
\* short sends make up the bytes up to there.
Passing(taken, left) == CHOOSE p \in Nat : taken \cup left = 1 .. p
Passed == Passing(Taken, LeftOver)

StreamOK ==
    /\ Passed \in Nat /\ Taken \subseteq 1 .. Passed /\ LeftOver = (1 .. Passed) \ Taken
    /\ \A i, j \in 1 .. Len(stream) : i < j => stream[i] < stream[j]

\* The sends that are queued or in flight.
Flying == (queued \cup sending) \ {0}

\* There is at most one such send, and it has the bytes after those passed.
FlyingOK ==
    \A f \in Flying :
        /\ f \in 1 .. Len(wfut) /\ Bytes(wfut[f].data, Passed)
        /\ Passed + Len(wfut[f].data) <= written
        /\ \A g \in Flying : g = f

\* The bytes passed, the current send and the buffer make up what was written.
CurrentOK ==
    /\ writeFut = 0 => buffer = <<>> /\ (~closing => Passed = written /\ Flying = {})
    /\ writeFut # 0 =>
        /\ wfut[writeFut].st = "pending" =>
               /\ writeFut \in Flying
               /\ Bytes(buffer, Passed + Len(wfut[writeFut].data))
               /\ Passed + Len(wfut[writeFut].data) + Len(buffer) = written
        /\ wfut[writeFut].st # "pending" => Flying = {}
        /\ wfut[writeFut].st = "done" =>
               Bytes(buffer, Passed) /\ Passed + Len(buffer) = written

\* connection_lost is called, or going to be, for a transport closed in order.
HasClosed(rd) == \E i \in 1 .. Len(rd) : rd[i] = <<"connection_lost", "closed">>
ClosedWell    == lost = "closed" \/ HasClosed(ready)

DataInv ==
    /\ stream \in Seq(Nat) /\ StreamOK /\ Passed <= written
    /\ FlyingOK /\ CurrentOK
    /\ ClosedWell => Passed = written /\ Flying = {}
    /\ queued \cap sending = {}

\* Two stretches, one after the other.
LEMMA BytesConcat ==
    ASSUME NEW s \in Seq(Nat), NEW t \in Seq(Nat), NEW a \in Nat, Bytes(s, a), Bytes(t, a + Len(s))
    PROVE  s \o t \in Seq(Nat) /\ Bytes(s \o t, a) /\ Len(s \o t) = Len(s) + Len(t)
<1> DEFINE u == s \o t
<1>1. /\ u \in Seq(Nat) /\ Len(u) = Len(s) + Len(t) /\ Len(s) \in Nat /\ Len(t) \in Nat
      /\ \A i \in 1 .. Len(s) + Len(t) : u[i] = IF i <= Len(s) THEN s[i] ELSE t[i - Len(s)]
  BY ConcatProperties
<1> HIDE DEF u
<1>2. ASSUME NEW i \in 1 .. Len(u) PROVE u[i] = a + i
  <2>1. CASE i <= Len(s)
    <3>1. i \in 1 .. Len(s) /\ u[i] = s[i]
      BY <1>1, <2>1
    <3> QED
      BY <3>1 DEF Bytes
  <2>2. CASE ~(i <= Len(s))
    <3>1. i - Len(s) \in 1 .. Len(t) /\ u[i] = t[i - Len(s)]
      BY <1>1, <2>2
    <3>2. t[i - Len(s)] = (a + Len(s)) + (i - Len(s))
      BY <3>1 DEF Bytes
    <3> QED
      BY <1>1, <3>1, <3>2
  <2> QED
    BY <2>1, <2>2
<1> QED
  BY <1>1, <1>2 DEF Bytes, u

\* The stream and the left over bytes are what they were.
LEMMA PassedKept ==
    ASSUME stream' = stream, LeftOver' = LeftOver
    PROVE  Passed' = Passed /\ Taken' = Taken /\ (StreamOK => StreamOK')
<1>1. Taken' = Taken
  BY DEF Taken
<1>2. Passed' = Passed
  BY <1>1 DEF Passed
<1> QED
  BY <1>1, <1>2 DEF StreamOK

\* A number the bytes go up to is the number of bytes passed.
LEMMA PassedIs ==
    ASSUME NEW q \in Nat, NEW t, NEW l, t \cup l = 1 .. q
    PROVE  Passing(t, l) = q
<1>1. \A p \in Nat : t \cup l = 1 .. p => p = q
  <2> SUFFICES ASSUME NEW p \in Nat, 1 .. p = 1 .. q PROVE p = q
    OBVIOUS
  <2>1. p <= q
    <3>1. CASE p = 0
      BY <3>1
    <3>2. CASE p # 0
      <4>1. p \in 1 .. p
        BY <3>2
      <4> QED
        BY <4>1
    <3> QED
      BY <3>1, <3>2
  <2>2. q <= p
    <3>1. CASE q = 0
      BY <3>1
    <3>2. CASE q # 0
      <4>1. q \in 1 .. q
        BY <3>2
      <4> QED
        BY <4>1
    <3> QED
      BY <3>1, <3>2
  <2> QED
    BY <2>1, <2>2
<1> QED
  BY <1>1 DEF Passing

\* Sends that change otherwise than by ending leave over what they did before.
LEMMA LeftKept ==
    ASSUME Len(wfut) \in Nat, Len(wfut') \in {Len(wfut), Len(wfut) + 1},
           \A f \in 1 .. Len(wfut) : Unsent(wfut'[f]) = Unsent(wfut[f]),
           Len(wfut') = Len(wfut) + 1 => Unsent(wfut'[Len(wfut) + 1]) = {}
    PROVE  LeftOver' = LeftOver
<1>1. ASSUME NEW v \in LeftOver PROVE v \in LeftOver'
  <2>1. PICK f \in 1 .. Len(wfut) : v \in Unsent(wfut[f])
    BY DEF LeftOver
  <2>2. f \in 1 .. Len(wfut')
    BY <2>1
  <2> QED
    BY <2>1, <2>2 DEF LeftOver
<1>2. ASSUME NEW v \in LeftOver' PROVE v \in LeftOver
  <2>1. PICK f \in 1 .. Len(wfut') : v \in Unsent(wfut'[f])
    BY DEF LeftOver
  <2>2. f \in 1 .. Len(wfut) \/ (f = Len(wfut) + 1 /\ Len(wfut') = Len(wfut) + 1)
    BY <2>1
  <2> QED
    BY <2>1, <2>2 DEF LeftOver
<1> QED
  BY <1>1, <1>2

\* Which closings an appended callback adds, and a tail keeps.
LEMMA ClosedAppend ==
    ASSUME NEW rd \in Seq(Callbacks), NEW h \in Callbacks, HasClosed(Append(rd, h))
    PROVE  HasClosed(rd) \/ h = <<"connection_lost", "closed">>
<1> DEFINE t == Append(rd, h)
<1>1. /\ Len(t) = Len(rd) + 1 /\ t[Len(rd) + 1] = h /\ Len(rd) \in Nat
      /\ \A i \in 1 .. Len(rd) : t[i] = rd[i]
  BY AppendProperties
<1>2. HasClosed(t)
  OBVIOUS
<1> HIDE DEF t
<1>3. \A i \in 1 .. Len(t) : i \in 1 .. Len(rd) \/ i = Len(rd) + 1
  BY <1>1
<1> QED
  BY <1>1, <1>2, <1>3 DEF HasClosed

\* A tail has no closing that the queue has not.
LEMMA ClosedTail ==
    ASSUME NEW rd \in Seq(Callbacks), rd # <<>>, HasClosed(Tail(rd))
    PROVE  HasClosed(rd)
<1> DEFINE t == Tail(rd)
<1>1. Len(t) = Len(rd) - 1 /\ Len(rd) \in Nat /\ \A i \in 1 .. Len(t) : t[i] = rd[i + 1]
  BY HeadTailProperties
<1>2. HasClosed(t)
  OBVIOUS
<1> HIDE DEF t
<1>3. \A i \in 1 .. Len(t) : i + 1 \in 1 .. Len(rd)
  BY <1>1
<1> QED
  BY <1>1, <1>2, <1>3 DEF HasClosed

\* _force_close() schedules no orderly connection_lost; cancelling the poll neither.
LEMMA ClosedForced ==
    ASSUME NEW r \in Seq(Callbacks), NEW why \in {"aborted", "broken"}, ForceClose(why, r),
           writeFut \in Nat, HasClosed(ready')
    PROVE  HasClosed(r)
<1> DEFINE cancels == writeFut # 0 /\ wfut[writeFut].st = "pending"
           g == <<"loop_writing", writeFut>>
           h == <<"connection_lost", why>>
           p == <<"pipe_closed", 0>>
           c == <<"connection_lost", "closed">>
           s == IF cancels THEN Append(r, g) ELSE r
           u == Append(s, h)
<1>1. g \in Callbacks /\ h \in Callbacks /\ p \in Callbacks /\ g # c /\ h # c /\ p # c
  BY DEF Callbacks
<1>2. ready' = r \/ ready' = u \/ ready' = Append(u, p)
  BY DEF ForceClose, CancelPoll
<1> HIDE DEF g, h, p, cancels
<1>3. s \in Seq(Callbacks) /\ (HasClosed(s) => HasClosed(r))
  BY <1>1, ClosedAppend, AppendProperties
<1> HIDE DEF s
<1>4. u \in Seq(Callbacks) /\ (HasClosed(u) => HasClosed(s))
  BY <1>1, <1>3, ClosedAppend, AppendProperties
<1> HIDE DEF u
<1>5. HasClosed(Append(u, p)) => HasClosed(u)
  BY <1>1, <1>4, ClosedAppend
<1> QED
  BY <1>2, <1>3, <1>4, <1>5

\* close() schedules one if no send is current, unless the transport is closing.
LEMMA ClosedCloses ==
    ASSUME NEW r \in Seq(Callbacks), CloseTransport(r), HasClosed(ready')
    PROVE  HasClosed(r) \/ (writeFut = 0 /\ ~closing)
<1> DEFINE p == <<"pipe_closed", 0>>
           c == <<"connection_lost", "closed">>
<1> SUFFICES ASSUME ~(writeFut = 0 /\ ~closing) PROVE HasClosed(r)
  OBVIOUS
<1>1. p \in Callbacks /\ p # c
  BY DEF Callbacks
<1>2. ready' = r \/ ready' = Append(r, p)
  BY DEF CloseTransport, CancelPoll
<1> HIDE DEF p
<1>3. HasClosed(Append(r, p)) => HasClosed(r)
  BY <1>1, ClosedAppend
<1> QED
  BY <1>2, <1>3

\* The sends, typed, and what an orderly closing means.
LEMMA DataFacts ==
    ASSUME PipeInv, DataInv
    PROVE  /\ wfut \in Seq(Sends) /\ Len(wfut) \in Nat /\ writeFut \in 0 .. Len(wfut)
           /\ writeFut \in Nat /\ (writeFut # 0 => writeFut \in 1 .. Len(wfut))
           /\ \A f \in 1 .. Len(wfut) : /\ wfut[f].data \in Seq(Nat) /\ Len(wfut[f].data) \in Nat
                                        /\ wfut[f].st = "pending" => f = writeFut
                                        /\ f # 0
           /\ ready \in Seq(Callbacks) /\ Passed \in Nat
           /\ ClosedWell => writeFut = 0 /\ closing
<1>1. /\ wfut \in Seq(Sends) /\ writeFut \in 0 .. Len(wfut) /\ Len(wfut) \in Nat
      /\ \A f \in 1 .. Len(wfut) : wfut[f].st = "pending" => f = writeFut
  BY DEF PipeInv, SendsOK
<1>2. writeFut \in Nat /\ (writeFut # 0 => writeFut \in 1 .. Len(wfut))
  BY <1>1
<1>3. \A f \in 1 .. Len(wfut) : wfut[f].data \in Seq(Nat) /\ f # 0
  <2> SUFFICES ASSUME NEW f \in 1 .. Len(wfut) PROVE wfut[f].data \in Seq(Nat) /\ f # 0
    OBVIOUS
  <2>1. wfut[f] \in Sends
    BY <1>1
  <2>2. wfut[f].data \in Seq(Nat)
    BY <2>1 DEF Sends
  <2>3. f # 0
    BY <1>1
  <2> QED
    BY <2>2, <2>3
<1>4. ready \in Seq(Callbacks) /\ stream \in Seq(Nat)
  BY DEF PipeInv, QueueOK, DataInv
<1>5. ClosedWell => writeFut = 0 /\ closing
  <2>1. lost = "closed" => writeFut = 0 /\ closing
    BY DEF PipeInv, LostOK
  <2>2. HasClosed(ready) => writeFut = 0 /\ closing
    BY DEF PipeInv, QueueOK, LosingOK, HasClosed
  <2> QED
    BY <2>1, <2>2 DEF ClosedWell
<1>6. Passed \in Nat /\ \A f \in 1 .. Len(wfut) : Len(wfut[f].data) \in Nat
  BY <1>3 DEF DataInv, StreamOK
<1> QED
  BY <1>1, <1>2, <1>3, <1>4, <1>5, <1>6

\* A step that starts and ends no send, and either leaves the current one or gives it up.
LEMMA DataKept ==
    ASSUME PipeInv, DataInv,
           stream' = stream, LeftOver' = LeftOver, written' = written,
           Flying' = Flying, queued' \cap sending' = {}, Len(wfut') = Len(wfut), \A f \in 1 .. Len(wfut) : wfut'[f].data = wfut[f].data,
           \/ wfut' = wfut /\ writeFut' = writeFut /\ buffer' = buffer /\ (closing => closing')
           \/ writeFut' = 0 /\ buffer' = <<>> /\ closing',
           ClosedWell' => ClosedWell \/ (writeFut = 0 /\ ~closing)
    PROVE  DataInv'
<1>0. Passed' = Passed /\ (StreamOK => StreamOK')
  BY PassedKept
<1>1. stream \in Seq(Nat) /\ StreamOK /\ Passed <= written
  BY DEF DataInv
<1>2. FlyingOK'
  <2> SUFFICES ASSUME NEW f \in Flying'
               PROVE  /\ f \in 1 .. Len(wfut') /\ Bytes(wfut'[f].data, Passed')
                      /\ Passed' + Len(wfut'[f].data) <= written'
                      /\ \A g \in Flying' : g = f
    BY DEF FlyingOK
  <2>1. f \in Flying
    OBVIOUS
  <2>2. /\ f \in 1 .. Len(wfut) /\ Bytes(wfut[f].data, Passed)
        /\ Passed + Len(wfut[f].data) <= written
        /\ \A g \in Flying : g = f
    BY <2>1 DEF DataInv, FlyingOK
  <2>3. wfut'[f].data = wfut[f].data
    BY <2>2
  <2> QED
    BY <1>0, <2>2, <2>3
<1>3. CurrentOK'
  <2>1. CASE wfut' = wfut /\ writeFut' = writeFut /\ buffer' = buffer /\ (closing => closing')
    BY <1>0, <2>1 DEF DataInv, CurrentOK
  <2>2. CASE writeFut' = 0 /\ buffer' = <<>> /\ closing'
    BY <2>2 DEF CurrentOK
  <2> QED
    BY <2>1, <2>2
<1>4. ClosedWell' => Passed' = written' /\ Flying' = {}
  <2>1. ClosedWell => Passed = written /\ Flying = {}
    BY DEF DataInv
  <2>2. writeFut = 0 /\ ~closing => Passed = written /\ Flying = {}
    BY DEF DataInv, CurrentOK
  <2> QED
    BY <1>0, <2>1, <2>2
<1>5. StreamOK'
  BY <1>0, <1>1
<1> QED
  BY <1>0, <1>1, <1>2, <1>3, <1>4, <1>5 DEF DataInv

\* A send of all that was written and not sent.
LEMMA DataSent ==
    ASSUME PipeInv, DataInv, NEW data \in Seq(Nat), Send(data), Flying = {},
           Bytes(data, Passed), Passed + Len(data) = written', written' \in Nat,
           stream' = stream, buffer' = <<>>, sending' = sending, ~ClosedWell'
    PROVE  DataInv'
<1> DEFINE k == Len(wfut) + 1
           x == [st |-> "pending", data |-> data, took |-> 0]
<1>1. wfut \in Seq(Sends) /\ Len(wfut) \in Nat /\ Passed \in Nat /\ stream \in Seq(Nat)
  BY DataFacts DEF DataInv
<1>2. wfut' = Append(wfut, x) /\ writeFut' = k /\ queued' = queued \cup {k}
  BY DEF Send
<1>3. k # 0 /\ k \in Nat
  BY <1>1
<1>4. x \in Sends /\ x.data = data /\ x.st = "pending"
  BY DEF Sends
<1> HIDE DEF x
<1>5. Len(wfut') = k /\ wfut'[k] = x /\ \A f \in 1 .. Len(wfut) : wfut'[f] = wfut[f]
  BY <1>1, <1>2, <1>4, AppendProperties
<1>0. Passed' = Passed /\ (StreamOK => StreamOK')
  <2>1. Unsent(wfut'[Len(wfut) + 1]) = {}
    BY <1>4, <1>5 DEF Unsent
  <2>2. LeftOver' = LeftOver
    BY <1>1, <1>5, <2>1, LeftKept
  <2> QED
    BY <2>2, PassedKept
<1> HIDE DEF k
<1>6. Flying' = {k} /\ queued' \cap sending' = {}
  BY <1>2, <1>3 DEF Flying, DataInv
<1>7. Len(data) \in Nat /\ Len(<<>>) = 0
  OBVIOUS
<1>8. FlyingOK'
  <2> SUFFICES ASSUME NEW f \in Flying'
               PROVE  /\ f \in 1 .. Len(wfut') /\ Bytes(wfut'[f].data, Passed')
                      /\ Passed' + Len(wfut'[f].data) <= written'
                      /\ \A g \in Flying' : g = f
    BY DEF FlyingOK
  <2>1. f = k
    BY <1>6
  <2>2. k \in 1 .. Len(wfut')
    BY <1>3, <1>5
  <2>3. Passed' + Len(wfut'[k].data) = written' /\ Bytes(wfut'[k].data, Passed')
    BY <1>0, <1>4, <1>5
  <2> QED
    BY <1>6, <2>1, <2>2, <2>3
<1>9. CurrentOK'
  <2>1. wfut'[writeFut'].st = "pending" /\ writeFut' \in Flying' /\ writeFut' # 0
    BY <1>2, <1>3, <1>4, <1>5, <1>6
  <2>2. \A a : Bytes(buffer', a)
    BY <1>7 DEF Bytes
  <2>3. Passed' + Len(wfut'[writeFut'].data) + Len(buffer') = written'
    BY <1>0, <1>1, <1>2, <1>4, <1>5, <1>7
  <2> QED
    BY <2>1, <2>2, <2>3 DEF CurrentOK
<1>10. StreamOK' /\ Passed' <= written'
  BY <1>0, <1>1, <1>7 DEF DataInv
<1> QED
  BY <1>1, <1>6, <1>8, <1>9, <1>10 DEF DataInv

\* A send that is over leaves over what its result says.
LEMMA LeftGrows ==
    ASSUME SendsOK(wfut, writeFut), NEW f \in 1 .. Len(wfut), NEW st \in {"done", "error"},
           NEW n \in Nat, wfut[f].st = "pending", wfut' = Ended(f, st, n)
    PROVE  LeftOver' = LeftOver \cup
               (IF st = "done" THEN {wfut[f].data[i] : i \in n + 1 .. Len(wfut[f].data)} ELSE {})
<1> DEFINE x == wfut[f]
           y == wfut'[f]
<1>1. wfut \in Seq(Sends) /\ Len(wfut) \in Nat /\ DOMAIN wfut = 1 .. Len(wfut) /\ x \in Sends
  BY LenProperties DEF SendsOK
<1>2. Len(wfut') = Len(wfut) /\ \A g \in 1 .. Len(wfut) : g # f => wfut'[g] = wfut[g]
  BY SendStatus
<1>3. y.st = st /\ y.data = x.data /\ y.took = n
  BY <1>1 DEF Ended, Sends
<1>4. Unsent(x) = {}
  BY DEF Unsent
<1>5. Unsent(y) = IF st = "done" THEN {x.data[i] : i \in n + 1 .. Len(x.data)} ELSE {}
  BY <1>3 DEF Unsent
<1> HIDE DEF x, y
<1>6. ASSUME NEW v PROVE v \in LeftOver' <=> v \in LeftOver \/ v \in Unsent(y)
  <2>1. v \in LeftOver <=> \E g \in 1 .. Len(wfut) : v \in Unsent(wfut[g])
    BY DEF LeftOver
  <2>2. v \in LeftOver' <=> \E g \in 1 .. Len(wfut) : v \in Unsent(wfut'[g])
    BY <1>2 DEF LeftOver
  <2>3. \A g \in 1 .. Len(wfut) : g # f => Unsent(wfut'[g]) = Unsent(wfut[g])
    BY <1>2
  <2>4. v \notin Unsent(wfut[f])
    BY <1>4 DEF x
  <2> QED
    BY <2>1, <2>2, <2>3, <2>4 DEF y
<1> QED
  BY <1>5, <1>6 DEF x

\* What a sequence with another behind it holds.
LEMMA Joined ==
    ASSUME NEW s \in Seq(Nat), NEW t \in Seq(Nat)
    PROVE  /\ s \o t \in Seq(Nat) /\ Len(s) \in Nat /\ Len(t) \in Nat
           /\ Len(s \o t) = Len(s) + Len(t)
           /\ \A i \in 1 .. Len(s) : (s \o t)[i] = s[i]
           /\ \A i \in 1 .. Len(t) : (s \o t)[Len(s) + i] = t[i]
<1>1. Len(s) \in Nat /\ Len(t) \in Nat
  BY LenProperties
<1>2. /\ s \o t \in Seq(Nat) /\ Len(s \o t) = Len(s) + Len(t)
      /\ \A i \in 1 .. Len(s) + Len(t) :
             (s \o t)[i] = IF i <= Len(s) THEN s[i] ELSE t[i - Len(s)]
  BY ConcatProperties
<1>3. ASSUME NEW i \in 1 .. Len(s) PROVE (s \o t)[i] = s[i]
  <2>1. i \in 1 .. Len(s) + Len(t) /\ i <= Len(s)
    BY <1>1
  <2> QED
    BY <1>2, <2>1
<1>4. ASSUME NEW i \in 1 .. Len(t) PROVE (s \o t)[Len(s) + i] = t[i]
  <2>1. /\ Len(s) + i \in 1 .. Len(s) + Len(t) /\ ~(Len(s) + i <= Len(s))
        /\ (Len(s) + i) - Len(s) = i
    BY <1>1
  <2> QED
    BY <1>2, <2>1
<1> QED
  BY <1>1, <1>2, <1>3, <1>4

\* The end of a send of the bytes after those passed: what it took, and what it reports as
\* left over, if its future takes the result.
LEMMA StreamGrows ==
    ASSUME PipeInv, DataInv, written \in Nat, NEW f \in 1 .. Len(wfut),
           NEW st \in {"done", "error"}, NEW n \in 0 .. Len(wfut[f].data), SendEnds(f, st, n)
    PROVE  /\ f \in Flying /\ Flying' = {} /\ queued' \cap sending' = {}
           /\ stream' \in Seq(Nat) /\ StreamOK' /\ Passed' <= written'
           /\ Passed' = Passed + IF wfut[f].st = "pending" /\ st = "done"
                                 THEN Len(wfut[f].data) ELSE n
<1> DEFINE data == wfut[f].data
           part == SubSeq(data, 1, n)
           b == Passed
           m == IF wfut[f].st = "pending" /\ st = "done" THEN Len(data) ELSE n
           L == Len(stream)
<1>1. data \in Seq(Nat) /\ Len(data) \in Nat /\ f # 0 /\ b \in Nat /\ stream \in Seq(Nat)
  BY DataFacts DEF DataInv
<1>2. f \in sending /\ sending' = sending \ {f} /\ stream' = stream \o part /\ queued' = queued
      /\ written' = written
  BY DEF SendEnds
<1>3. f \in Flying
  BY <1>1, <1>2 DEF Flying
<1>4. Bytes(data, b) /\ b + Len(data) <= written /\ \A g \in Flying : g = f
  BY <1>3 DEF DataInv, FlyingOK
<1>5. Flying' = {} /\ queued' \cap sending' = {}
  BY <1>2, <1>4 DEF Flying, DataInv
<1>6. n \in Nat /\ n <= Len(data) /\ m \in Nat /\ n <= m /\ m <= Len(data)
  BY <1>1
<1>7. LeftOver' = LeftOver \cup (b + n + 1 .. b + m)
  <2>1. CASE wfut[f].st = "pending"
    <3>1. wfut' = Ended(f, st, n)
      BY <2>1 DEF SendEnds, Ended
    <3>2. LeftOver' = LeftOver \cup
              (IF st = "done" THEN {data[i] : i \in n + 1 .. Len(data)} ELSE {})
      BY <1>6, <2>1, <3>1, LeftGrows DEF PipeInv
    <3>3. \A i \in n + 1 .. Len(data) : data[i] = b + i
      <4> HIDE DEF data, b, m
      <4>1. \A i \in 1 .. Len(data) : data[i] = b + i
        BY <1>4 DEF Bytes
      <4>2. n + 1 .. Len(data) \subseteq 1 .. Len(data)
        BY <1>1, <1>6
      <4> QED
        BY <4>1, <4>2
    <3>4. {data[i] : i \in n + 1 .. Len(data)} = b + n + 1 .. b + Len(data)
      <4> HIDE DEF data, b, m
      <4>0. b \in Nat /\ n \in Nat /\ Len(data) \in Nat
        BY <1>1, <1>6
      <4>1. ASSUME NEW v \in b + n + 1 .. b + Len(data) PROVE \E i \in n + 1 .. Len(data) : v = data[i]
        <5>1. v - b \in n + 1 .. Len(data) /\ b + (v - b) = v
          BY <4>0
        <5> QED
          BY <3>3, <5>1
      <4>2. ASSUME NEW i \in n + 1 .. Len(data) PROVE data[i] \in b + n + 1 .. b + Len(data)
        <5>1. b + i \in b + n + 1 .. b + Len(data)
          BY <4>0
        <5> QED
          BY <3>3, <5>1
      <4> QED
        BY <4>1, <4>2
    <3>5. st # "done" => b + n + 1 .. b + m = {}
      BY <1>1, <1>6
    <3> QED
      BY <2>1, <3>2, <3>4, <3>5
  <2>2. CASE wfut[f].st # "pending"
    <3>1. wfut' = wfut
      BY <2>2 DEF SendEnds
    <3>2. b + n + 1 .. b + m = {}
      BY <1>1, <1>6, <2>2
    <3> QED
      BY <3>1, <3>2 DEF LeftOver
  <2> QED
    BY <2>1, <2>2
<1>8. part \in Seq(Nat) /\ Len(part) = n /\ \A i \in 1 .. n : part[i] = b + i
  <2>1. part \in Seq(Nat) /\ Len(part) = n /\ \A i \in 1 .. n : part[i] = data[i]
    BY <1>1, <1>6, SubSeqProperties
  <2>2. \A i \in 1 .. n : data[i] = b + i
    <3> HIDE DEF data, b, m
    <3>1. \A i \in 1 .. Len(data) : data[i] = b + i
      BY <1>4 DEF Bytes
    <3>2. 1 .. n \subseteq 1 .. Len(data)
      BY <1>1, <1>6
    <3> QED
      BY <3>1, <3>2
  <2> QED
    BY <2>1, <2>2
<1> HIDE DEF part, data, b, m
<1>9. /\ stream' \in Seq(Nat) /\ Len(stream') = L + n /\ L \in Nat
      /\ \A i \in 1 .. L : stream'[i] = stream[i]
      /\ \A i \in 1 .. n : stream'[L + i] = b + i
  <2>1. /\ stream \o part \in Seq(Nat) /\ Len(stream \o part) = L + Len(part) /\ L \in Nat
        /\ \A i \in 1 .. L : (stream \o part)[i] = stream[i]
        /\ \A i \in 1 .. Len(part) : (stream \o part)[L + i] = part[i]
    BY <1>1, <1>8, Joined
  <2> QED
    BY <1>2, <1>8, <2>1
<1>10. /\ Taken \subseteq 1 .. b /\ LeftOver = (1 .. b) \ Taken
       /\ \A i, j \in 1 .. L : i < j => stream[i] < stream[j]
  BY DEF DataInv, StreamOK, b
<1> HIDE DEF L
<1>11. \A i \in 1 .. L + n : i \in 1 .. L \/ (i - L \in 1 .. n /\ L + (i - L) = i)
  BY <1>6, <1>9
<1>12. Taken' = Taken \cup (b + 1 .. b + n)
  <2>1. ASSUME NEW v \in Taken' PROVE v \in Taken \cup (b + 1 .. b + n)
    <3>1. PICK i \in 1 .. L + n : v = stream'[i]
      BY <1>9 DEF Taken
    <3>2. CASE i \in 1 .. L
      BY <1>9, <3>1, <3>2 DEF Taken, L
    <3>3. CASE i - L \in 1 .. n /\ L + (i - L) = i
      <4>1. v = b + (i - L)
        BY <1>9, <3>1, <3>3
      <4>2. b + (i - L) \in b + 1 .. b + n
        BY <1>1, <1>6, <1>9, <3>3
      <4> QED
        BY <4>1, <4>2
    <3> QED
      BY <1>11, <3>2, <3>3
  <2>2. ASSUME NEW v \in Taken PROVE v \in Taken'
    <3>1. PICK i \in 1 .. L : v = stream[i]
      BY DEF Taken, L
    <3>2. i \in 1 .. L + n
      BY <1>6, <1>9
    <3> QED
      BY <1>9, <3>1, <3>2 DEF Taken
  <2>3. ASSUME NEW v \in b + 1 .. b + n PROVE v \in Taken'
    <3>1. v - b \in 1 .. n /\ b + (v - b) = v /\ L + (v - b) \in 1 .. L + n
      BY <1>1, <1>6, <1>9
    <3> QED
      BY <1>9, <3>1 DEF Taken
  <2> QED
    BY <2>1, <2>2, <2>3
<1>13. /\ Taken' \cup LeftOver' = 1 .. b + m /\ Taken' \subseteq 1 .. b + m
       /\ LeftOver' = (1 .. b + m) \ Taken'
  <2>1. b \in Nat /\ n \in Nat /\ m \in Nat /\ n <= m /\ Taken \subseteq 1 .. b
    BY <1>1, <1>6, <1>10
  <2>2. /\ Taken' = Taken \cup (b + 1 .. b + n)
        /\ LeftOver' = ((1 .. b) \ Taken) \cup (b + n + 1 .. b + m)
    BY <1>7, <1>10, <1>12
  <2> DEFINE A == 1 .. b
             B == b + 1 .. b + n
             C == b + n + 1 .. b + m
             D == 1 .. b + m
  <2>3. D = A \cup B \cup C /\ A \cap B = {} /\ A \cap C = {} /\ B \cap C = {}
    <3>1. \A v \in Int : /\ v \in D <=> v \in A \/ v \in B \/ v \in C
                        /\ ~(v \in A /\ v \in B) /\ ~(v \in A /\ v \in C) /\ ~(v \in B /\ v \in C)
      BY <2>1
    <3>2. A \subseteq Int /\ B \subseteq Int /\ C \subseteq Int /\ D \subseteq Int
      BY <2>1
    <3> HIDE DEF A, B, C, D
    <3> QED
      BY <3>1, <3>2
  <2>4. Taken \subseteq A /\ Taken' = Taken \cup B /\ LeftOver' = (A \ Taken) \cup C
    BY <2>1, <2>2
  <2> HIDE DEF A, B, C, D
  <2>5. Taken' \cup LeftOver' = D /\ Taken' \subseteq D /\ LeftOver' = D \ Taken'
    BY <2>3, <2>4
  <2> QED
    BY <2>5 DEF D
<1>14. Passed' = b + m
  <2>1. b + m \in Nat
    BY <1>1, <1>6
  <2> QED
    BY <1>13, <2>1, PassedIs DEF Passed
<1>15. ASSUME NEW i \in 1 .. L + n, NEW j \in 1 .. L + n, i < j PROVE stream'[i] < stream'[j]
  <2>1. ASSUME NEW k \in 1 .. L PROVE stream[k] \in 1 .. b
    BY <1>10 DEF Taken, L
  <2>2. CASE i \in 1 .. L /\ j \in 1 .. L
    BY <1>9, <1>10, <1>15, <2>2
  <2>3. CASE i \in 1 .. L /\ j - L \in 1 .. n /\ L + (j - L) = j
    <3>1. stream'[i] \in 1 .. b /\ stream'[j] = b + (j - L)
      BY <1>9, <2>1, <2>3
    <3>2. j - L \in Int /\ j - L >= 1
      BY <1>6, <1>9, <2>3
    <3>3. \A v \in 1 .. b : v < b + (j - L)
      BY <1>1, <3>2
    <3> QED
      BY <3>1, <3>3
  <2>4. CASE i - L \in 1 .. n /\ L + (i - L) = i /\ j - L \in 1 .. n /\ L + (j - L) = j
    <3>1. stream'[i] = b + (i - L) /\ stream'[j] = b + (j - L)
      BY <1>9, <2>4
    <3> QED
      BY <1>1, <1>9, <1>15, <3>1
  <2>5. CASE i - L \in 1 .. n /\ j \in 1 .. L
    BY <1>9, <1>15, <2>5
  <2> QED
    BY <1>11, <2>2, <2>3, <2>4, <2>5
<1>16. b + m \in Nat /\ b + m <= written
  BY <1>1, <1>4, <1>6
<1>17. StreamOK'
  <2>1. stream' \in Seq(Nat) /\ Len(stream') = L + n
    BY <1>9
  <2>2. Passed' \in Nat /\ Taken' \subseteq 1 .. Passed' /\ LeftOver' = (1 .. Passed') \ Taken'
    BY <1>13, <1>14, <1>16
  <2>3. \A i, j \in 1 .. Len(stream') : i < j => stream'[i] < stream'[j]
    BY <1>15, <2>1
  <2> QED
    BY <2>2, <2>3 DEF StreamOK
<1> QED
  BY <1>2, <1>3, <1>5, <1>9, <1>14, <1>16, <1>17 DEF b, m, data

\* The sends and the stream, that most steps leave alone.
SameSends == /\ stream' = stream /\ written' = written
             /\ queued' = queued /\ sending' = sending /\ lost' = lost

\* _force_close(), with a queue r of callbacks.
LEMMA DataForced ==
    ASSUME PipeInv, DataInv, NEW r \in Seq(Callbacks), HasClosed(r) => HasClosed(ready),
           NEW why \in {"aborted", "broken"}, ForceClose(why, r), SameSends
    PROVE  DataInv'
<1>1. /\ wfut \in Seq(Sends) /\ Len(wfut) \in Nat /\ writeFut \in Nat
      /\ (writeFut # 0 => writeFut \in 1 .. Len(wfut))
  BY DataFacts
<1>2. Flying' = Flying /\ queued' \cap sending' = {}
  BY DEF SameSends, Flying, DataInv
<1>3. ClosedWell' => ClosedWell
  <2>1. HasClosed(ready') => HasClosed(r)
    BY <1>1, ClosedForced
  <2>2. lost' = lost
    BY DEF SameSends
  <2> QED
    BY <2>1, <2>2 DEF ClosedWell
<1>4. CASE closing /\ lost # "no"
  <2>1. wfut' = wfut /\ writeFut' = writeFut /\ buffer' = buffer /\ closing' = closing
    BY <1>4 DEF ForceClose, TransportVars
  <2>2. LeftOver' = LeftOver
    BY <2>1 DEF LeftOver
  <2> QED
    BY <1>2, <1>3, <2>1, <2>2, DataKept DEF SameSends
<1>5. CASE ~(closing /\ lost # "no")
  <2>1. /\ closing' /\ writeFut' = 0 /\ buffer' = <<>>
        /\ \/ wfut' = wfut
           \/ /\ writeFut # 0 /\ wfut[writeFut].st = "pending"
              /\ wfut' = Marked(writeFut, "cancelled")
    BY <1>5 DEF ForceClose, Marked
  <2>2. /\ Len(wfut') = Len(wfut) /\ \A f \in 1 .. Len(wfut) : wfut'[f].data = wfut[f].data
        /\ LeftOver' = LeftOver
    <3>1. CASE wfut' = wfut
      BY <3>1 DEF LeftOver
    <3>2. CASE /\ writeFut # 0 /\ wfut[writeFut].st = "pending"
               /\ wfut' = Marked(writeFut, "cancelled")
      <4>1. SendsOK(wfut, writeFut) /\ writeFut \in 1 .. Len(wfut)
        BY <1>1, <3>2 DEF PipeInv
      <4>2. /\ Len(wfut') = Len(wfut) /\ \A f \in 1 .. Len(wfut) : wfut'[f].data = wfut[f].data
            /\ wfut'[writeFut].st = "cancelled"
            /\ \A f \in 1 .. Len(wfut) : f # writeFut => wfut'[f] = wfut[f]
        BY <3>2, <4>1, SendStatus
      <4>3. Unsent(wfut'[writeFut]) = {} /\ Unsent(wfut[writeFut]) = {}
        BY <3>2, <4>2 DEF Unsent
      <4>4. ASSUME NEW f \in 1 .. Len(wfut) PROVE Unsent(wfut'[f]) = Unsent(wfut[f])
        <5>1. CASE f = writeFut
          BY <4>3, <5>1
        <5>2. CASE f # writeFut
          BY <4>2, <5>2
        <5> QED
          BY <5>1, <5>2
      <4> QED
        BY <1>1, <4>2, <4>4, LeftKept
    <3> QED
      BY <2>1, <3>1, <3>2
  <2> QED
    BY <1>2, <1>3, <2>1, <2>2, DataKept DEF SameSends
<1> QED
  BY <1>4, <1>5

\* close(), with a queue r of callbacks.
LEMMA DataCloses ==
    ASSUME PipeInv, DataInv, NEW r \in Seq(Callbacks), HasClosed(r) => HasClosed(ready),
           CloseTransport(r), SameSends
    PROVE  DataInv'
<1>1. Flying' = Flying /\ queued' \cap sending' = {}
  BY DEF SameSends, Flying, DataInv
<1>2. ClosedWell' => ClosedWell \/ (writeFut = 0 /\ ~closing)
  <2>1. HasClosed(ready') => HasClosed(r) \/ (writeFut = 0 /\ ~closing)
    BY ClosedCloses
  <2>2. lost' = lost
    BY DEF SameSends
  <2> QED
    BY <2>1, <2>2 DEF ClosedWell
<1>3. wfut' = wfut /\ writeFut' = writeFut /\ buffer' = buffer /\ (closing => closing')
  BY DEF CloseTransport, TransportVars
<1>4. LeftOver' = LeftOver
  BY <1>3 DEF LeftOver
<1> QED
  BY <1>1, <1>2, <1>3, <1>4, DataKept DEF SameSends

\* A step that only takes a callback from the queue, or adds none of an orderly closing.
LEMMA DataQuiet ==
    ASSUME PipeInv, DataInv, UNCHANGED TransportVars, stream' = stream, written' = written,
           Flying' = Flying, queued' \cap sending' = {}, ClosedWell' => ClosedWell
    PROVE  DataInv'
<1>1. wfut' = wfut /\ writeFut' = writeFut /\ buffer' = buffer /\ closing' = closing
  BY DEF TransportVars
<1>2. LeftOver' = LeftOver
  BY <1>1 DEF LeftOver
<1> QED
  BY <1>1, <1>2, DataKept

\* write().
LEMMA DataWrite ==
    ASSUME PipeInv, DataInv, BytesTyped, NEW n \in 1 .. MaxBytes, Write(n)
    PROVE  DataInv'
<1> DEFINE data == [i \in 1 .. n |-> written + i]
<1>1. n \in Nat /\ written \in Nat /\ buffer \in Seq(Nat) /\ written + n \in Nat
  BY WritePipeAssumption DEF BytesTyped
<1>2. data \in Seq(Nat) /\ Len(data) = n
  <2>1. data \in [1 .. n -> Nat]
    BY <1>1
  <2>2. data \in Seq(Nat)
    BY <1>1, <2>1, SeqDef
  <2>3. DOMAIN data = 1 .. n
    OBVIOUS
  <2> QED
    BY <1>1, <2>2, <2>3, LenProperties
<1>3. \A i \in 1 .. n : data[i] = written + i
  OBVIOUS
<1>4. /\ ~closing /\ written' = written + n /\ stream' = stream /\ sending' = sending
      /\ lost' = lost /\ ready' = ready /\ closing' = closing
      /\ writeFut = 0 => Send(data) /\ buffer' = buffer
      /\ writeFut # 0 => /\ buffer' = buffer \o data
                         /\ wfut' = wfut /\ writeFut' = writeFut /\ queued' = queued
  BY DEF Write
<1> HIDE DEF data
<1>5. ~ClosedWell
  BY <1>4, DataFacts
<1>6. ~ClosedWell'
  BY <1>4, <1>5 DEF ClosedWell, HasClosed
<1>7. /\ wfut \in Seq(Sends) /\ Len(wfut) \in Nat /\ Passed \in Nat /\ stream \in Seq(Nat)
      /\ (writeFut # 0 => writeFut \in 1 .. Len(wfut))
      /\ \A f \in 1 .. Len(wfut) : Len(wfut[f].data) \in Nat
  BY DataFacts DEF DataInv
<1>8. CASE writeFut = 0
  <2>1. buffer = <<>> /\ Passed = written /\ Flying = {}
    BY <1>4, <1>8 DEF DataInv, CurrentOK
  <2>2. Bytes(data, Passed)
    BY <1>2, <1>3, <2>1 DEF Bytes
  <2> QED
    BY <1>1, <1>2, <1>4, <1>6, <1>8, <2>1, <2>2, DataSent
<1>9. CASE writeFut # 0
  <2>0. Passed' = Passed /\ (StreamOK => StreamOK')
    <3>1. LeftOver' = LeftOver
      BY <1>4, <1>9 DEF LeftOver
    <3> QED
      BY <1>4, <3>1, PassedKept
  <2>1. Flying' = Flying /\ queued' \cap sending' = {}
    BY <1>4, <1>9 DEF Flying, DataInv
  <2>2. FlyingOK'
    <3> SUFFICES ASSUME NEW f \in Flying'
                 PROVE  /\ f \in 1 .. Len(wfut') /\ Bytes(wfut'[f].data, Passed')
                        /\ Passed' + Len(wfut'[f].data) <= written'
                        /\ \A g \in Flying' : g = f
      BY DEF FlyingOK
    <3>1. /\ f \in 1 .. Len(wfut) /\ Bytes(wfut[f].data, Passed)
          /\ Passed + Len(wfut[f].data) <= written
          /\ \A g \in Flying : g = f
      BY <2>1 DEF DataInv, FlyingOK
    <3>2. Passed + Len(wfut[f].data) <= written'
      BY <1>1, <1>4, <1>7, <3>1
    <3> QED
      BY <1>4, <1>9, <2>0, <2>1, <3>1, <3>2
  <2>3. ASSUME NEW a \in Nat, Bytes(buffer, a), a + Len(buffer) = written
        PROVE  Bytes(buffer', a) /\ a + Len(buffer') = written'
    <3>1. Bytes(data, a + Len(buffer))
      BY <1>2, <1>3, <2>3 DEF Bytes
    <3>2. Bytes(buffer \o data, a) /\ Len(buffer \o data) = Len(buffer) + Len(data)
      BY <1>1, <1>2, <2>3, <3>1, BytesConcat
    <3>3. Len(buffer) \in Nat
      BY <1>1
    <3>4. buffer' = buffer \o data /\ written' = written + n
      BY <1>4, <1>9
    <3>5. Bytes(buffer', a)
      BY <3>2, <3>4
    <3>6. Len(buffer') = Len(buffer) + n
      BY <1>2, <3>2, <3>4
    <3>7. a + (Len(buffer) + n) = written + n
      BY <1>1, <2>3, <3>3
    <3> QED
      BY <3>4, <3>5, <3>6, <3>7
  <2>4. CurrentOK'
    <3> DEFINE b == Passed + Len(wfut[writeFut].data)
               x == wfut[writeFut]
    <3>1. b \in Nat
      BY <1>7, <1>9
    <3>2. x.st # "pending" => Flying = {}
      BY <1>9 DEF DataInv, CurrentOK
    <3>3. x.st = "pending" => writeFut \in Flying /\ Bytes(buffer, b) /\ b + Len(buffer) = written
      BY <1>9 DEF DataInv, CurrentOK
    <3>4. x.st = "done" => Bytes(buffer, Passed) /\ Passed + Len(buffer) = written
      BY <1>9 DEF DataInv, CurrentOK
    <3> HIDE DEF b
    <3>5. x.st = "pending" => writeFut \in Flying /\ Bytes(buffer', b) /\ b + Len(buffer') = written'
      BY <2>3, <3>1, <3>3
    <3>6. x.st = "done" => Bytes(buffer', Passed) /\ Passed + Len(buffer') = written'
      BY <1>7, <2>3, <3>4
    <3>7. wfut' = wfut /\ writeFut' = writeFut /\ stream' = stream
      BY <1>4, <1>9
    <3> QED
      BY <1>9, <2>0, <2>1, <3>2, <3>5, <3>6, <3>7 DEF CurrentOK, b
  <2>5. StreamOK' /\ Passed' <= written' /\ stream' \in Seq(Nat)
    <3>1. StreamOK /\ Passed <= written
      BY DEF DataInv
    <3>2. Passed <= written'
      BY <1>1, <1>4, <1>7, <3>1
    <3> QED
      BY <1>4, <1>7, <2>0, <3>1, <3>2
  <2> QED
    BY <1>6, <2>1, <2>2, <2>4, <2>5 DEF DataInv
<1> QED
  BY <1>8, <1>9

\* The callbacks after the one that is run.
LEMMA DataRun ==
    ASSUME PipeInv, NEW name, Callback(name)
    PROVE  /\ Tail(ready) \in Seq(Callbacks)
           /\ HasClosed(Tail(ready)) => HasClosed(ready)
           /\ ready # <<>> /\ 1 \in 1 .. Len(ready) /\ Head(ready) = ready[1]
<1>1. ready \in Seq(Callbacks) /\ todo \in Nat /\ todo <= Len(ready) /\ todo > 0
  BY DEF PipeInv, QueueOK, Callback
<1>2. Len(ready) \in Nat /\ Len(ready) > 0
  BY <1>1
<1>3. ready # <<>>
  BY <1>1, <1>2
<1>4. Tail(ready) \in Seq(Callbacks) /\ Head(ready) = ready[1]
  BY <1>1, <1>3, HeadTailProperties
<1>5. HasClosed(Tail(ready)) => HasClosed(ready)
  BY <1>1, <1>3, ClosedTail
<1> QED
  BY <1>2, <1>3, <1>4, <1>5

\* _loop_writing().
LEMMA DataLoopWriting ==
    ASSUME PipeInv, DataInv, BytesTyped, LoopWriting
    PROVE  DataInv'
<1> DEFINE f == Head(ready)[2]
           t == Tail(ready)
           c == <<"connection_lost", "closed">>
<1>0. written \in Nat /\ buffer \in Seq(Nat)
  BY DEF BytesTyped
<1>1. /\ Callback("loop_writing") /\ lost' = lost /\ written' = written /\ stream' = stream
      /\ sending' = sending
  BY DEF LoopWriting
<1>2. t \in Seq(Callbacks) /\ (HasClosed(t) => HasClosed(ready))
  BY <1>1, DataRun
<1>3. f \in 1 .. Len(wfut)
  BY <1>1, Run DEF WritingOK
<1>4. f # 0 /\ Passed \in Nat /\ stream \in Seq(Nat) /\ (ClosedWell => writeFut = 0)
  BY <1>3, DataFacts DEF DataInv
<1>5. CASE f # writeFut
  <2>1. ready' = t /\ UNCHANGED TransportVars /\ queued' = queued
    BY <1>5 DEF LoopWriting
  <2>2. Flying' = Flying /\ queued' \cap sending' = {}
    BY <1>1, <2>1 DEF Flying, DataInv
  <2>3. ClosedWell' => ClosedWell
    BY <1>1, <1>2, <2>1 DEF ClosedWell
  <2> QED
    BY <1>1, <2>1, <2>2, <2>3, DataQuiet
<1>6. CASE f = writeFut /\ wfut[f].st = "done" /\ buffer # <<>>
  <2>1. Send(buffer) /\ ready' = t /\ buffer' = <<>>
    BY <1>6 DEF LoopWriting
  <2>2. Flying = {} /\ Bytes(buffer, Passed) /\ Passed + Len(buffer) = written
    BY <1>4, <1>6 DEF DataInv, CurrentOK
  <2>3. ~ClosedWell
    BY <1>4, <1>6
  <2>4. ~ClosedWell'
    BY <1>1, <1>2, <2>1, <2>3 DEF ClosedWell
  <2> QED
    BY <1>0, <1>1, <2>1, <2>2, <2>4, DataSent
<1>7. CASE f = writeFut /\ wfut[f].st = "done" /\ buffer = <<>>
  <2>1. /\ writeFut' = 0 /\ wfut' = wfut /\ buffer' = <<>> /\ closing' = closing /\ queued' = queued
    BY <1>7 DEF LoopWriting
  <2>2. Flying = {} /\ Passed + Len(buffer) = written
    BY <1>4, <1>7 DEF DataInv, CurrentOK
  <2>3. Passed = written
    BY <1>4, <1>7, <2>2
  <2>0. Passed' = Passed /\ (StreamOK => StreamOK')
    <3>1. LeftOver' = LeftOver
      BY <2>1 DEF LeftOver
    <3> QED
      BY <1>1, <3>1, PassedKept
  <2>4. Flying' = {} /\ queued' \cap sending' = {}
    BY <1>1, <2>1, <2>2 DEF Flying, DataInv
  <2>5. FlyingOK' /\ CurrentOK'
    BY <1>1, <2>0, <2>1, <2>3, <2>4 DEF FlyingOK, CurrentOK
  <2>6. StreamOK' /\ Passed' <= written' /\ Passed' = written' /\ stream' \in Seq(Nat)
    BY <1>0, <1>1, <1>4, <2>0, <2>3 DEF DataInv
  <2> QED
    BY <2>4, <2>5, <2>6 DEF DataInv
<1>8. CASE f = writeFut /\ wfut[f].st = "error"
  <2>1. ForceClose("broken", t) /\ queued' = queued
    BY <1>8 DEF LoopWriting
  <2>2. SameSends
    BY <1>1, <2>1 DEF SameSends
  <2> QED
    BY <1>2, <2>1, <2>2, DataForced
<1> QED
  BY <1>5, <1>6, <1>7, <1>8 DEF LoopWriting

\* _call_connection_lost().
LEMMA DataConnectionLost ==
    ASSUME PipeInv, DataInv, ConnectionLost
    PROVE  DataInv'
<1> DEFINE h == Head(ready)
           c == <<"connection_lost", "closed">>
<1>1. /\ Callback("connection_lost") /\ ready' = Tail(ready) /\ UNCHANGED TransportVars
      /\ lost' = (IF lost = "no" THEN h[2] ELSE lost)
      /\ written' = written /\ stream' = stream /\ queued' = queued /\ sending' = sending
  BY DEF ConnectionLost
<1>2. /\ HasClosed(Tail(ready)) => HasClosed(ready)
      /\ 1 \in 1 .. Len(ready) /\ h = ready[1]
  BY <1>1, DataRun
<1>3. h \in Callbacks /\ h[1] = "connection_lost"
  BY <1>1, Run
<1>4. h[2] = "closed" => h = c
  BY <1>3 DEF Callbacks
<1>5. ClosedWell' => ClosedWell
  <2>1. HasClosed(ready') => HasClosed(ready)
    BY <1>1, <1>2
  <2>2. h[2] = "closed" => HasClosed(ready)
    BY <1>2, <1>4 DEF HasClosed
  <2>3. lost' = "closed" => lost = "closed" \/ h[2] = "closed"
    BY <1>1
  <2> QED
    BY <2>1, <2>2, <2>3 DEF ClosedWell
<1>6. Flying' = Flying /\ queued' \cap sending' = {}
  BY <1>1 DEF Flying, DataInv
<1> QED
  BY <1>1, <1>5, <1>6, DataQuiet

\* _pipe_closed().
LEMMA DataPipeClosed ==
    ASSUME PipeInv, DataInv, PipeClosed
    PROVE  DataInv'
<1> DEFINE t == Tail(ready)
<1>1. Callback("pipe_closed") /\ SameSends
  BY DEF PipeClosed, SameSends
<1>2. t \in Seq(Callbacks) /\ (HasClosed(t) => HasClosed(ready))
  BY <1>1, DataRun
<1>3. CASE ready' = t /\ UNCHANGED TransportVars
  <2>1. Flying' = Flying /\ queued' \cap sending' = {}
    BY <1>1 DEF SameSends, Flying, DataInv
  <2>2. ClosedWell' => ClosedWell
    BY <1>1, <1>2, <1>3 DEF SameSends, ClosedWell
  <2> QED
    BY <1>1, <1>3, <2>1, <2>2, DataQuiet DEF SameSends
<1>4. CASE HangUp
  <2>1. ForceClose("broken", t) \/ CloseTransport(t)
    BY <1>4 DEF HangUp
  <2> QED
    BY <1>1, <1>2, <2>1, DataForced, DataCloses
<1> QED
  BY <1>3, <1>4 DEF PipeClosed

\* The end of a send, which may be short.
LEMMA DataSendEnds ==
    ASSUME PipeInv, DataInv, BytesTyped, NEW f \in 1 .. Len(wfut), NEW st \in {"done", "error"},
           NEW n \in 0 .. Len(wfut[f].data), SendEnds(f, st, n)
    PROVE  DataInv'
<1> DEFINE h == <<"loop_writing", f>>
           x == wfut[f]
           w == wfut'[f]
<1>0. written \in Nat /\ buffer \in Seq(Nat)
  BY DEF BytesTyped
<1>1. /\ f \in Flying /\ Flying' = {} /\ queued' \cap sending' = {}
      /\ stream' \in Seq(Nat) /\ StreamOK' /\ Passed' <= written'
      /\ x.st = "pending" /\ st = "done" => Passed' = Passed + Len(x.data)
  BY <1>0, StreamGrows
<1>2. /\ writeFut' = writeFut /\ buffer' = buffer /\ closing' = closing /\ lost' = lost
      /\ written' = written
  BY DEF SendEnds
<1>3. FlyingOK'
  BY <1>1 DEF FlyingOK
<1>4. \A g \in Flying : g = f
  BY <1>1 DEF DataInv, FlyingOK
<1>5. ~ClosedWell
  BY <1>1 DEF DataInv
<1>6. ready \in Seq(Callbacks) /\ f # 0 /\ f \in Nat /\ Passed \in Nat
  BY DataFacts
<1>7. h \in Callbacks /\ h # <<"connection_lost", "closed">>
  BY <1>6 DEF Callbacks
<1>8. ready' = ready \/ ready' = Append(ready, h)
  BY DEF SendEnds
<1> HIDE DEF h
<1>9. ~ClosedWell'
  <2>1. HasClosed(Append(ready, h)) => HasClosed(ready)
    BY <1>6, <1>7, ClosedAppend
  <2> QED
    BY <1>2, <1>5, <1>8, <2>1 DEF ClosedWell
<1>10. CurrentOK'
  <2>1. CASE x.st = "pending"
    <3>1. f = writeFut /\ SendsOK(wfut, writeFut)
      BY <2>1, DataFacts DEF PipeInv
    <3>2. wfut' = Ended(f, st, n) /\ n \in Nat
      <4>1. Len(wfut[f].data) \in Nat
        BY DataFacts
      <4>2. n \in Nat
        BY <4>1
      <4>3. wfut' = Ended(f, st, n)
        BY <2>1 DEF SendEnds, Ended
      <4> QED
        BY <4>2, <4>3
    <3>3. w.st = st
      BY <3>1, <3>2, SendStatus
    <3>4. /\ Bytes(buffer, Passed + Len(x.data))
          /\ Passed + Len(x.data) + Len(buffer) = written
      BY <1>6, <2>1, <3>1 DEF DataInv, CurrentOK
    <3>5. st = "done" => Bytes(buffer', Passed') /\ Passed' + Len(buffer') = written'
      BY <1>1, <1>2, <2>1, <3>4
    <3> HIDE DEF w
    <3>6. wfut'[writeFut'] = w /\ writeFut' # 0
      BY <1>2, <1>6, <3>1 DEF w
    <3> QED
      BY <1>1, <3>3, <3>5, <3>6 DEF CurrentOK
  <2>2. CASE x.st # "pending"
    <3>1. wfut' = wfut
      BY <2>2 DEF SendEnds
    <3>2. writeFut = 0
      BY <1>1, <1>4, <2>2 DEF DataInv, CurrentOK
    <3>3. closing /\ buffer = <<>>
      BY <1>1, <3>2 DEF DataInv, CurrentOK
    <3> QED
      BY <1>2, <3>2, <3>3 DEF CurrentOK
  <2> QED
    BY <2>1, <2>2
<1> QED
  BY <1>1, <1>3, <1>9, <1>10 DEF DataInv

\* Every step keeps the bytes in order.
LEMMA DataStep ==
    ASSUME PipeInv, DataInv, BytesTyped, [Next]_vars
    PROVE  DataInv'
<1>1. CASE \E n \in 1 .. MaxBytes : Write(n)
  BY <1>1, DataWrite
<1>2. CASE Close
  <2>1. CloseTransport(ready) /\ SameSends
    BY <1>2 DEF Close, SameSends
  <2> QED
    BY <2>1, DataFacts, DataCloses
<1>3. CASE Abort
  <2>1. ForceClose("aborted", ready) /\ SameSends
    BY <1>3 DEF Abort, SameSends
  <2> QED
    BY <2>1, DataFacts, DataForced
<1>4. CASE Select
  <2>1. /\ UNCHANGED TransportVars /\ stream' = stream /\ written' = written
        /\ lost' = lost /\ ready' = ready
        /\ queued' = {} /\ sending' = sending \cup (queued \ {0})
    BY <1>4 DEF Select
  <2>2. Flying' = Flying /\ queued' \cap sending' = {}
    BY <2>1 DEF Flying
  <2>3. ClosedWell' => ClosedWell
    BY <2>1 DEF ClosedWell, HasClosed
  <2> QED
    BY <2>1, <2>2, <2>3, DataQuiet
<1>5. CASE RunCallback
  BY <1>5, DataLoopWriting, DataConnectionLost, DataPipeClosed DEF RunCallback
<1>6. CASE PeerCloses \/ UNCHANGED vars
  <2>1. UNCHANGED TransportVars /\ SameSends /\ ready' = ready
    BY <1>6 DEF PeerCloses, vars, TransportVars, SameSends
  <2>2. Flying' = Flying /\ queued' \cap sending' = {}
    BY <2>1 DEF SameSends, Flying, DataInv
  <2>3. ClosedWell' => ClosedWell
    BY <2>1 DEF SameSends, ClosedWell, HasClosed
  <2> QED
    BY <2>1, <2>2, <2>3, DataQuiet DEF SameSends
<1>7. CASE PollCompletes
  <2> DEFINE h == <<"pipe_closed", 0>>
  <2>1. /\ SameSends /\ ready' = Append(ready, h)
        /\ wfut' = wfut /\ writeFut' = writeFut /\ buffer' = buffer /\ closing' = closing
    BY <1>7 DEF PollCompletes, SameSends
  <2>2. /\ Flying' = Flying /\ queued' \cap sending' = {}
        /\ LeftOver' = LeftOver
    BY <2>1 DEF SameSends, Flying, DataInv, LeftOver
  <2>3. h \in Callbacks /\ h # <<"connection_lost", "closed">> /\ ready \in Seq(Callbacks)
    BY DataFacts DEF Callbacks
  <2> HIDE DEF h
  <2>4. HasClosed(ready') => HasClosed(ready)
    BY <2>1, <2>3, ClosedAppend
  <2>5. ClosedWell' => ClosedWell
    BY <2>1, <2>4 DEF SameSends, ClosedWell
  <2> QED
    BY <2>1, <2>2, <2>5, DataKept DEF SameSends
<1>8. CASE \E f \in 1 .. Len(wfut) : SendCompletes(f) \/ SendFails(f)
  <2>1. PICK f \in 1 .. Len(wfut) : SendCompletes(f) \/ SendFails(f)
    BY <1>8
  <2>2. \E st \in {"done", "error"} : \E n \in 0 .. Len(wfut[f].data) : SendEnds(f, st, n)
    <3>1. Len(wfut[f].data) \in Nat
      BY DataFacts
    <3> QED
      BY <2>1, <3>1 DEF SendCompletes, SendFails
  <2> QED
    BY <2>2, DataSendEnds
<1> QED
  BY <1>1, <1>2, <1>3, <1>4, <1>5, <1>6, <1>7, <1>8 DEF Next

\* A new transport has written nothing.
LEMMA DataStarts ==
    ASSUME Init
    PROVE  DataInv
<1>1. /\ wfut = <<>> /\ writeFut = 0 /\ buffer = <<>> /\ lost = "no" /\ ready = <<>>
      /\ written = 0 /\ stream = <<>> /\ queued = {0} /\ sending = {}
  BY DEF Init
<1>2. <<>> \in Seq(Nat) /\ Len(<<>>) = 0
  OBVIOUS
<1>3. Flying = {} /\ queued \cap sending = {}
  BY <1>1 DEF Flying
<1>4. ~ClosedWell
  BY <1>1, <1>2 DEF ClosedWell, HasClosed
<1>6. Taken = {} /\ LeftOver = {} /\ 1 .. 0 = {}
  BY <1>1, <1>2 DEF Taken, LeftOver
<1>7. Passed = 0
  BY <1>6, PassedIs DEF Passed
<1>5. FlyingOK /\ CurrentOK /\ StreamOK
  BY <1>1, <1>2, <1>3, <1>6, <1>7 DEF FlyingOK, CurrentOK, StreamOK
<1> QED
  BY <1>1, <1>7, <1>2, <1>3, <1>4, <1>5 DEF DataInv

\* When connection_lost has been called, the transport is over: nothing is pending, nothing
\* that names the descriptor waits to be submitted, the kernel has bytes in the order they
\* were written, none twice, and those it lacks up to some point, after close() of all, are
\* exactly those a short send reported as not taken.  For every number of bytes and callbacks.
THEOREM LostStaysTheEnd == Spec => []LostIsTheEnd
<1>1. Init => DataInv
  BY DataStarts
<1>2. PipeInv /\ BytesTyped /\ DataInv /\ [Next]_vars => DataInv'
  BY DataStep
<1>3. PipeInv /\ BytesTyped /\ DataInv => LostIsTheEnd
  <2> SUFFICES ASSUME PipeInv, BytesTyped, DataInv, lost # "no" PROVE LostIsTheEnd
    BY DEF LostIsTheEnd
  <2>1. writeFut = 0 /\ closing /\ queued = {}
    BY DEF PipeInv, LostOK
  <2>2. pollFut # "pending"
    BY <2>1 DEF PipeInv, PollOK
  <2>3. \A f \in DOMAIN wfut : wfut[f].st # "pending"
    <3>1. wfut \in Seq(Sends) /\ DOMAIN wfut = 1 .. Len(wfut)
      BY LenProperties DEF PipeInv, SendsOK
    <3> QED
      BY <2>1, <3>1, Quiet
  <2>4. /\ \A i, j \in 1 .. Len(stream) : i < j => stream[i] < stream[j]
        /\ LeftOver = (1 .. Passed) \ Taken /\ Taken \subseteq 1 .. Passed
    BY DEF DataInv, StreamOK
  <2>5. Passed \in 0 .. written
    BY DEF DataInv, StreamOK, BytesTyped
  <2>6. lost = "closed" => Passed = written
    BY DEF DataInv, ClosedWell
  <2> QED
    BY <2>1, <2>2, <2>3, <2>4, <2>5, <2>6 DEF LostIsTheEnd
<1> QED
  BY <1>1, <1>2, <1>3, PipeInvariant, PTL DEF Spec

=============================================================================
