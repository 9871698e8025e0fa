--------------------------- MODULE OwnershipProofs --------------------------
(* Ownership of requests, proved for every value of the constants: the     *)
(* keys of requests are unique, the table pins every request that the      *)
(* kernel may still touch and forgets none, and the proactor implements    *)
(* RequestLife.                                                            *)
EXTENDS ProactorProofs, ProactorLife

-----------------------------------------------------------------------------
(* Keys in sequences.                                                      *)

\* a has elements of s, each at most once: the i-th is the h[i]-th of s.
Selection(a, s, h) ==
    /\ h \in [1 .. Len(a) -> 1 .. Len(s)]
    /\ \A i, j \in 1 .. Len(a) : h[i] = h[j] => i = j
    /\ \A i \in 1 .. Len(a) : a[i] = s[h[i]]

\* What holds of the keys of a sequence holds of any selection of its elements.
LEMMA SelectionKeys ==
    ASSUME NEW s, NEW a, NEW h, Selection(a, s, h)
    PROVE  /\ Distinct(s) => Distinct(a)
           /\ \A t : Apart(s, t) => Apart(a, t)
           /\ \A t : Apart(t, s) => Apart(t, a)
<1>1. ASSUME Distinct(s) PROVE Distinct(a)
  <2> SUFFICES ASSUME NEW i \in 1 .. Len(a), NEW j \in 1 .. Len(a), a[i].ud = a[j].ud
               PROVE  i = j \/ a[i].ud = 0
    BY DEF Distinct
  <2>1. /\ h[i] \in 1 .. Len(s) /\ h[j] \in 1 .. Len(s) /\ a[i] = s[h[i]] /\ a[j] = s[h[j]]
        /\ h[i] = h[j] => i = j
    BY DEF Selection
  <2>2. h[i] = h[j] \/ s[h[i]].ud = 0
    BY <1>1, <2>1 DEF Distinct
  <2> QED
    BY <2>1, <2>2
<1>2. ASSUME NEW t, Apart(s, t) PROVE Apart(a, t)
  <2> SUFFICES ASSUME NEW i \in 1 .. Len(a), NEW j \in 1 .. Len(t), a[i].ud = t[j].ud
               PROVE  a[i].ud = 0
    BY DEF Apart
  <2>1. h[i] \in 1 .. Len(s) /\ a[i] = s[h[i]]
    BY DEF Selection
  <2> QED
    BY <1>2, <2>1 DEF Apart
<1>3. ASSUME NEW t, Apart(t, s) PROVE Apart(t, a)
  <2> SUFFICES ASSUME NEW i \in 1 .. Len(t), NEW j \in 1 .. Len(a), t[i].ud = a[j].ud
               PROVE  t[i].ud = 0
    BY DEF Apart
  <2>1. h[j] \in 1 .. Len(s) /\ a[j] = s[h[j]]
    BY DEF Selection
  <2> QED
    BY <1>3, <2>1 DEF Apart
<1> QED
  BY <1>1, <1>2, <1>3

\* Where the elements of a concatenation come from.
LEMMA ConcatIndex ==
    ASSUME NEW S, NEW s \in Seq(S), NEW t \in Seq(S)
    PROVE  /\ s \o t \in Seq(S) /\ Len(s \o t) = Len(s) + Len(t)
           /\ \A i \in 1 .. Len(s \o t) :
                 \/ i \in 1 .. Len(s) /\ (s \o t)[i] = s[i]
                 \/ \E p \in 1 .. Len(t) : i = Len(s) + p /\ (s \o t)[i] = t[p]
<1>1. /\ s \o t \in Seq(S) /\ Len(s \o t) = Len(s) + Len(t)
      /\ Len(s) \in Nat /\ Len(t) \in Nat
      /\ \A i \in 1 .. Len(s) + Len(t) :
            (s \o t)[i] = IF i <= Len(s) THEN s[i] ELSE t[i - Len(s)]
  BY ConcatProperties
<1> SUFFICES ASSUME NEW i \in 1 .. Len(s) + Len(t)
             PROVE  \/ i \in 1 .. Len(s) /\ (s \o t)[i] = s[i]
                    \/ \E p \in 1 .. Len(t) : i = Len(s) + p /\ (s \o t)[i] = t[p]
  BY <1>1
<1>2. CASE i <= Len(s)
  BY <1>1, <1>2
<1>3. CASE ~(i <= Len(s))
  <2>1. i - Len(s) \in 1 .. Len(t) /\ i = Len(s) + (i - Len(s))
    BY <1>1, <1>3
  <2>2. (s \o t)[i] = t[i - Len(s)]
    BY <1>1, <1>3
  <2> QED
    BY <2>1, <2>2
<1> QED
  BY <1>2, <1>3

\* Concatenating two sequences whose keys are distinct and apart.
LEMMA ConcatKeys ==
    ASSUME NEW S, NEW s \in Seq(S), NEW t \in Seq(S)
    PROVE  /\ Distinct(s) /\ Distinct(t) /\ Apart(s, t) => Distinct(s \o t)
           /\ \A q : Apart(s, q) /\ Apart(t, q) => Apart(s \o t, q)
           /\ \A q : Apart(q, s) /\ Apart(q, t) => Apart(q, s \o t)
<1> DEFINE d == s \o t
<1>1. \A i \in 1 .. Len(d) : \/ i \in 1 .. Len(s) /\ d[i] = s[i]
                             \/ \E p \in 1 .. Len(t) : i = Len(s) + p /\ d[i] = t[p]
  BY ConcatIndex
<1> HIDE DEF d
<1>2. ASSUME Distinct(s), Distinct(t), Apart(s, t) PROVE Distinct(d)
  <2> SUFFICES ASSUME NEW i \in 1 .. Len(d), NEW j \in 1 .. Len(d), d[i].ud = d[j].ud
               PROVE  i = j \/ d[i].ud = 0
    BY DEF Distinct
  <2>1. CASE i \in 1 .. Len(s) /\ d[i] = s[i] /\ j \in 1 .. Len(s) /\ d[j] = s[j]
    BY <1>2, <2>1 DEF Distinct
  <2>2. ASSUME NEW p \in 1 .. Len(t), d[i] = t[p], i \in 1 .. Len(d), j \in 1 .. Len(s), d[j] = s[j]
        PROVE  d[i].ud = 0
    BY <1>2, <2>2 DEF Apart
  <2>3. ASSUME NEW p \in 1 .. Len(t), d[j] = t[p], i \in 1 .. Len(s), d[i] = s[i]
        PROVE  d[i].ud = 0
    BY <1>2, <2>3 DEF Apart
  <2>4. ASSUME NEW p \in 1 .. Len(t), d[i] = t[p], NEW r \in 1 .. Len(t), d[j] = t[r]
        PROVE  p = r \/ d[i].ud = 0
    BY <1>2, <2>4 DEF Distinct
  <2> QED
    BY <1>1, <2>1, <2>2, <2>3, <2>4
<1>3. ASSUME NEW q, Apart(s, q), Apart(t, q) PROVE Apart(d, q)
  <2> SUFFICES ASSUME NEW i \in 1 .. Len(d), NEW j \in 1 .. Len(q), d[i].ud = q[j].ud
               PROVE  d[i].ud = 0
    BY DEF Apart
  <2>1. CASE i \in 1 .. Len(s) /\ d[i] = s[i]
    BY <1>3, <2>1 DEF Apart
  <2>2. ASSUME NEW p \in 1 .. Len(t), d[i] = t[p] PROVE d[i].ud = 0
    BY <1>3, <2>2 DEF Apart
  <2> QED
    BY <1>1, <2>1, <2>2
<1>4. ASSUME NEW q, Apart(q, s), Apart(q, t) PROVE Apart(q, d)
  <2> SUFFICES ASSUME NEW i \in 1 .. Len(q), NEW j \in 1 .. Len(d), q[i].ud = d[j].ud
               PROVE  q[i].ud = 0
    BY DEF Apart
  <2>1. CASE j \in 1 .. Len(s) /\ d[j] = s[j]
    BY <1>4, <2>1 DEF Apart
  <2>2. ASSUME NEW p \in 1 .. Len(t), d[j] = t[p] PROVE q[i].ud = 0
    BY <1>4, <2>2 DEF Apart
  <2> QED
    BY <1>1, <2>1, <2>2
<1> QED
  BY <1>2, <1>3, <1>4 DEF d

\* Apart is symmetric.
LEMMA ApartSymmetric ==
    ASSUME NEW s, NEW t, Apart(s, t)
    PROVE  Apart(t, s)
BY DEF Apart

\* Where two queues are pinned, so is their concatenation.
LEMMA ConcatPinned ==
    ASSUME NEW S, NEW s \in Seq(S), NEW t \in Seq(S), NEW c, PinnedIn(c, s), PinnedIn(c, t)
    PROVE  PinnedIn(c, s \o t)
<1> SUFFICES ASSUME NEW i \in 1 .. Len(s \o t)
             PROVE  /\ (s \o t)[i].ud \in DOMAIN c
                    /\ c[(s \o t)[i].ud] = [op |-> (s \o t)[i].op, fut |-> (s \o t)[i].opc # "cancel"]
  BY DEF PinnedIn
<1>1. CASE i \in 1 .. Len(s) /\ (s \o t)[i] = s[i]
  BY <1>1 DEF PinnedIn
<1>2. CASE \E p \in 1 .. Len(t) : i = Len(s) + p /\ (s \o t)[i] = t[p]
  BY <1>2 DEF PinnedIn
<1> QED
  BY <1>1, <1>2, ConcatIndex

-----------------------------------------------------------------------------
(* The inductive invariant, with its five parameters explicit so that each *)
(* kind of step is a lemma about constants: the queue s, the requests t in *)
(* flight, the table c, the completions q and the next key n.              *)

Own(s, t, c, q, n) ==
    /\ UniqueIn(s, t, q)
    /\ PinnedIn(c, s) /\ PinnedIn(c, t)
    /\ DOMAIN c \subseteq 1 .. n - 1
    /\ \A i \in 1 .. Len(q) : q[i].ud \in 1 .. n - 1

\* Unique and pinned keys, all of them drawn before: what the theorem is proved from.
OwnershipInv == Own(sq, inflight, cache, cq, nextUd)

\* io_uring_submit moves the first k entries.
LEMMA OwnSubmit ==
    ASSUME NEW s \in Seq(Sqes), NEW t \in Seq(Sqes), NEW q \in Seq(Cqes), NEW c, NEW n,
           Own(s, t, c, q, n), NEW k \in 0 .. Len(s)
    PROVE  Own(SubSeq(s, k + 1, Len(s)), t \o SubSeq(s, 1, k), c, q, n)
<1> DEFINE a == SubSeq(s, k + 1, Len(s))
           b == SubSeq(s, 1, k)
           g == [i \in 1 .. Len(a) |-> k + i]
           h == [i \in 1 .. Len(b) |-> i]
<1>1. /\ a \in Seq(Sqes) /\ Len(a) = Len(s) - k /\ \A i \in 1 .. Len(a) : a[i] = s[k + i]
      /\ b \in Seq(Sqes) /\ Len(b) = k /\ \A i \in 1 .. Len(b) : b[i] = s[i]
  BY SplitType
<1> HIDE DEF a, b
<1>2. Len(s) \in Nat /\ k \in Nat
  OBVIOUS
<1>3. /\ \A i \in 1 .. Len(a) : k + i \in 1 .. Len(s)
      /\ \A i \in 1 .. Len(b) : i \in 1 .. Len(s)
      /\ \A i \in 1 .. Len(a), j \in 1 .. Len(b) : k + i # j
  BY <1>1, <1>2
<1>4. /\ g \in [1 .. Len(a) -> 1 .. Len(s)] /\ h \in [1 .. Len(b) -> 1 .. Len(s)]
      /\ \A i, j \in 1 .. Len(a) : g[i] = g[j] => i = j
      /\ \A i, j \in 1 .. Len(b) : h[i] = h[j] => i = j
      /\ \A i \in 1 .. Len(a) : a[i] = s[g[i]]
      /\ \A i \in 1 .. Len(b) : b[i] = s[h[i]]
  BY <1>1, <1>2, <1>3
<1>5. /\ Distinct(s) /\ Distinct(t) /\ Distinct(q)
      /\ Apart(s, t) /\ Apart(s, q) /\ Apart(t, q)
  BY DEF Own, UniqueIn
<1> HIDE DEF g, h
<1>6. Distinct(a) /\ Apart(a, t) /\ Apart(a, q)
  <2>1. Selection(a, s, g)
    BY <1>4 DEF Selection
  <2>2. (Distinct(s) => Distinct(a)) /\ \A x : Apart(s, x) => Apart(a, x)
    BY <2>1, SelectionKeys
  <2> QED
    BY <1>5, <2>2
<1>7. Distinct(b) /\ Apart(b, t) /\ Apart(b, q)
  <2>1. Selection(b, s, h)
    BY <1>4 DEF Selection
  <2>2. (Distinct(s) => Distinct(b)) /\ \A x : Apart(s, x) => Apart(b, x)
    BY <2>1, SelectionKeys
  <2> QED
    BY <1>5, <2>2
<1>8. Apart(a, b)
  <2> SUFFICES ASSUME NEW i \in 1 .. Len(a), NEW j \in 1 .. Len(b), a[i].ud = b[j].ud
               PROVE  a[i].ud = 0
    BY DEF Apart
  <2>1. a[i] = s[k + i] /\ b[j] = s[j] /\ k + i \in 1 .. Len(s) /\ j \in 1 .. Len(s) /\ k + i # j
    BY <1>1, <1>3
  <2> QED
    BY <1>5, <2>1 DEF Distinct
<1>9. UniqueIn(a, t \o b, q)
  <2>1. Distinct(t \o b)
    BY <1>1, <1>5, <1>7, ConcatKeys, ApartSymmetric
  <2>2. Apart(a, t \o b)
    BY <1>1, <1>6, <1>8, ConcatKeys
  <2>3. Apart(t \o b, q)
    BY <1>1, <1>5, <1>7, ConcatKeys
  <2> QED
    BY <1>5, <1>6, <2>1, <2>2, <2>3 DEF UniqueIn
<1>10. PinnedIn(c, a) /\ PinnedIn(c, b)
  <2>1. PinnedIn(c, s)
    BY DEF Own
  <2>2. PinnedIn(c, a)
    <3> SUFFICES ASSUME NEW i \in 1 .. Len(a)
                 PROVE  /\ a[i].ud \in DOMAIN c
                        /\ c[a[i].ud] = [op |-> a[i].op, fut |-> a[i].opc # "cancel"]
      BY DEF PinnedIn
    <3>1. k + i \in 1 .. Len(s) /\ a[i] = s[k + i]
      BY <1>1, <1>3
    <3> QED
      BY <2>1, <3>1 DEF PinnedIn
  <2>3. PinnedIn(c, b)
    BY <1>1, <1>3, <2>1 DEF PinnedIn
  <2> QED
    BY <2>2, <2>3
<1>11. PinnedIn(c, t \o b)
  BY <1>1, <1>10, ConcatPinned DEF Own
<1> QED
  BY <1>9, <1>10, <1>11 DEF Own, a, b

\* _prep and submit() add and register entries whose keys are drawn for them.
LEMMA OwnAdd ==
    ASSUME NEW s \in Seq(Sqes), NEW t \in Seq(Sqes), NEW q \in Seq(Cqes), NEW c,
           NEW n \in Nat \ {0}, NEW m \in Nat, NEW new \in Seq(Sqes), NEW o, NEW f,
           Own(s, t, c, q, n), Distinct(new), n <= m,
           \A i \in 1 .. Len(new) : new[i].ud \in n .. m - 1,
           \A i \in 1 .. Len(new) : new[i].op = o /\ (new[i].opc # "cancel") = f
    PROVE  Own(s \o new, t, Register(c, new, o, f), q, m)
<1> DEFINE uds == {new[i].ud : i \in 1 .. Len(new)}
           r   == Register(c, new, o, f)
<1>1. /\ DOMAIN r = DOMAIN c \cup uds
      /\ \A u \in uds : r[u] = [op |-> o, fut |-> f]
      /\ \A u \in DOMAIN c \ uds : r[u] = c[u]
  BY DEF Register
<1>2. \A u \in 1 .. n - 1 : u \notin uds
  OBVIOUS
<1>3. uds \subseteq 1 .. m - 1 /\ 1 .. n - 1 \subseteq 1 .. m - 1
  OBVIOUS
<1>4. \A i \in 1 .. Len(new) : new[i].ud \in uds
  OBVIOUS
<1> HIDE DEF r, uds
<1>5. DOMAIN c \subseteq 1 .. n - 1
  BY DEF Own
<1>6. /\ \A i \in 1 .. Len(s) : s[i].ud \in 1 .. n - 1
      /\ \A i \in 1 .. Len(t) : t[i].ud \in 1 .. n - 1
      /\ \A i \in 1 .. Len(q) : q[i].ud \in 1 .. n - 1
  BY <1>5 DEF Own, PinnedIn
<1>7. Apart(s, new) /\ Apart(new, t) /\ Apart(new, q)
  BY <1>2, <1>4, <1>6 DEF Apart
<1>8. UniqueIn(s \o new, t, q)
  <2>1. /\ Distinct(s) /\ Distinct(t) /\ Distinct(q)
        /\ Apart(s, t) /\ Apart(s, q) /\ Apart(t, q)
    BY DEF Own, UniqueIn
  <2>2. Distinct(s \o new) /\ Apart(s \o new, t) /\ Apart(s \o new, q)
    BY <1>7, <2>1, ConcatKeys
  <2> QED
    BY <2>1, <2>2 DEF UniqueIn
<1>9. \A u \in DOMAIN c : u \in DOMAIN r /\ r[u] = c[u]
  BY <1>1, <1>2, <1>5
<1>10. PinnedIn(r, s) /\ PinnedIn(r, t)
  BY <1>9 DEF Own, PinnedIn
<1>11. PinnedIn(r, new)
  BY <1>1, <1>4 DEF PinnedIn
<1>12. PinnedIn(r, s \o new)
  BY <1>10, <1>11, ConcatPinned
<1> QED
  BY <1>1, <1>3, <1>5, <1>6, <1>8, <1>10, <1>12 DEF Own, r

\* A key that is drawn and not used.
LEMMA OwnLater ==
    ASSUME NEW s, NEW t, NEW c, NEW q, NEW n \in Nat, NEW m \in Nat, n <= m, Own(s, t, c, q, n)
    PROVE  Own(s, t, c, q, m)
BY DEF Own

\* _handle_cqe pops the entry of a CQE: no request that the kernel has is unpinned.
LEMMA OwnPop ==
    ASSUME NEW s \in Seq(Sqes), NEW t \in Seq(Sqes), NEW q \in Seq(Cqes), NEW c, NEW n \in Nat,
           Own(s, t, c, q, n), q # <<>>
    PROVE  Own(s, t, Pop(c, Head(q).ud), q, n)
<1> DEFINE u == Head(q).ud
           p == Pop(c, u)
<1>1. 1 \in 1 .. Len(q) /\ Head(q) = q[1]
  OBVIOUS
<1>2. DOMAIN p = DOMAIN c \ {u} /\ \A v \in DOMAIN c \ {u} : p[v] = c[v]
  BY DEF Pop
<1> HIDE DEF p
<1>3. u \in 1 .. n - 1
  BY <1>1 DEF Own
<1>4. \A i \in 1 .. Len(s) : s[i].ud # u
  BY <1>1, <1>3 DEF Own, UniqueIn, Apart
<1>5. \A i \in 1 .. Len(t) : t[i].ud # u
  BY <1>1, <1>3 DEF Own, UniqueIn, Apart
<1>6. PinnedIn(p, s) /\ PinnedIn(p, t)
  BY <1>2, <1>4, <1>5 DEF Own, PinnedIn
<1> QED
  BY <1>2, <1>6 DEF Own, p

\* io_uring_cqe_seen drops the first completion.
LEMMA OwnSeen ==
    ASSUME NEW s \in Seq(Sqes), NEW t \in Seq(Sqes), NEW q \in Seq(Cqes), NEW c, NEW n \in Nat,
           Own(s, t, c, q, n), q # <<>>
    PROVE  Own(s, t, c, Tail(q), n)
<1> DEFINE a == Tail(q)
           h == [i \in 1 .. Len(a) |-> i + 1]
<1>1. /\ a \in Seq(Cqes) /\ Len(a) = Len(q) - 1 /\ Len(q) \in Nat
      /\ \A i \in 1 .. Len(a) : a[i] = q[i + 1]
  BY HeadTailProperties
<1> HIDE DEF a
<1>2. \A i \in 1 .. Len(a) : i + 1 \in 1 .. Len(q)
  BY <1>1
<1>3. Selection(a, q, h)
  BY <1>1, <1>2 DEF Selection
<1>4. /\ Distinct(s) /\ Distinct(t) /\ Distinct(q)
      /\ Apart(s, t) /\ Apart(s, q) /\ Apart(t, q)
  BY DEF Own, UniqueIn
<1> HIDE DEF h
<1>5. Distinct(a) /\ Apart(s, a) /\ Apart(t, a)
  BY <1>3, <1>4, SelectionKeys
<1> QED
  BY <1>1, <1>2, <1>4, <1>5 DEF Own, UniqueIn, a

\* The kernel completes the i-th request.
LEMMA OwnPost ==
    ASSUME NEW s \in Seq(Sqes), NEW t \in Seq(Sqes), NEW q \in Seq(Cqes), NEW c, NEW n \in Nat,
           Own(s, t, c, q, n), NEW i \in 1 .. Len(t), NEW res \in {"ok", "err", "noent"}
    PROVE  Own(s, RemoveAt(t, i), c, Append(q, [ud |-> t[i].ud, res |-> res]), n)
<1> DEFINE a == RemoveAt(t, i)
           e == [ud |-> t[i].ud, res |-> res]
           h == [j \in 1 .. Len(a) |-> IF j < i THEN j ELSE j + 1]
<1>1. /\ a \in Seq(Sqes) /\ Len(a) = Len(t) - 1 /\ Len(t) \in Nat
      /\ \A j \in 1 .. Len(a) : a[j] = IF j < i THEN t[j] ELSE t[j + 1]
  BY RemoveAtType
<1> HIDE DEF a
<1>2. /\ h \in [1 .. Len(a) -> 1 .. Len(t)]
      /\ \A j, k \in 1 .. Len(a) : h[j] = h[k] => j = k
      /\ \A j \in 1 .. Len(a) : a[j] = t[h[j]] /\ h[j] # i
  BY <1>1
<1> HIDE DEF h
<1>3. e \in Cqes
  <2>1. t[i] \in Sqes
    BY ElementOfSeq
  <2>2. t[i].ud \in Nat
    BY <2>1 DEF Sqes
  <2> QED
    BY <2>2 DEF Cqes
<1>4. /\ Distinct(s) /\ Distinct(t) /\ Distinct(q)
      /\ Apart(s, t) /\ Apart(s, q) /\ Apart(t, q)
  BY DEF Own, UniqueIn
<1>5. Distinct(a) /\ Apart(s, a) /\ Apart(a, q)
  <2>1. Selection(a, t, h)
    BY <1>2 DEF Selection
  <2>2. /\ Distinct(t) => Distinct(a)
        /\ \A x : Apart(t, x) => Apart(a, x)
        /\ \A x : Apart(x, t) => Apart(x, a)
    BY <2>1, SelectionKeys
  <2> QED
    BY <1>4, <2>2
<1>6. <<e>> \in Seq(Cqes) /\ Len(<<e>>) = 1 /\ <<e>>[1] = e /\ e.ud = t[i].ud
  BY <1>3
<1> HIDE DEF e
<1>7. Distinct(<<e>>) /\ Apart(s, <<e>>) /\ Apart(q, <<e>>)
  BY <1>4, <1>6 DEF Distinct, Apart
<1>8. Apart(a, <<e>>)
  <2> SUFFICES ASSUME NEW j \in 1 .. Len(a), a[j].ud = e.ud PROVE a[j].ud = 0
    BY <1>6 DEF Apart
  <2>1. h[j] \in 1 .. Len(t) /\ h[j] # i /\ a[j] = t[h[j]]
    BY <1>2
  <2> QED
    BY <1>4, <1>6, <2>1 DEF Distinct
<1>9. UniqueIn(s, a, q \o <<e>>)
  <2>1. Distinct(q \o <<e>>)
    BY <1>4, <1>6, <1>7, ConcatKeys
  <2>2. Apart(s, q \o <<e>>) /\ Apart(a, q \o <<e>>)
    BY <1>4, <1>5, <1>6, <1>7, <1>8, ConcatKeys
  <2> QED
    BY <1>4, <1>5, <2>1, <2>2 DEF UniqueIn
<1>10. PinnedIn(c, a)
  <2>1. PinnedIn(c, t)
    BY DEF Own
  <2> SUFFICES ASSUME NEW j \in 1 .. Len(a)
               PROVE  /\ a[j].ud \in DOMAIN c
                      /\ c[a[j].ud] = [op |-> a[j].op, fut |-> a[j].opc # "cancel"]
    BY DEF PinnedIn
  <2>2. h[j] \in 1 .. Len(t) /\ a[j] = t[h[j]]
    BY <1>2
  <2> QED
    BY <2>1, <2>2 DEF PinnedIn
<1>11. t[i].ud \in 1 .. n - 1
  BY DEF Own, PinnedIn
<1>12. \A j \in 1 .. Len(q \o <<e>>) : (q \o <<e>>)[j].ud \in 1 .. n - 1
  <2> SUFFICES ASSUME NEW j \in 1 .. Len(q \o <<e>>) PROVE (q \o <<e>>)[j].ud \in 1 .. n - 1
    OBVIOUS
  <2>1. CASE j \in 1 .. Len(q) /\ (q \o <<e>>)[j] = q[j]
    BY <2>1 DEF Own
  <2>2. CASE \E p \in 1 .. Len(<<e>>) : j = Len(q) + p /\ (q \o <<e>>)[j] = <<e>>[p]
    BY <1>6, <1>11, <2>2
  <2> QED
    BY <1>6, <2>1, <2>2, ConcatIndex
<1>13. Append(q, e) = q \o <<e>>
  BY <1>3, AppendIsConcat DEF e
<1>14. Own(s, a, c, q \o <<e>>, n)
  BY <1>9, <1>10, <1>12 DEF Own
<1> QED
  BY <1>13, <1>14 DEF a, e

-----------------------------------------------------------------------------
(* Every step preserves the invariant.                                     *)

QueuesOK == sq \in Seq(Sqes) /\ inflight \in Seq(Sqes) /\ nextUd \in Nat \ {0}

\* What TypeOK says of the queues.
LEMMA QueuesType ==
    ASSUME TypeOK
    PROVE  QueuesOK /\ cq \in Seq(Cqes)
BY DEF TypeOK, QueuesOK

\* A submission, with whatever table and completions.
LEMMA OwnSubmitted ==
    ASSUME QueuesOK, NEW c, NEW q \in Seq(Cqes), NEW n, Own(sq, inflight, c, q, n),
           \E k \in 0 .. Len(sq) : Submitted(k)
    PROVE  Own(sq', inflight', c, q, n)
<1>1. PICK k \in 0 .. Len(sq) : Submitted(k)
  OBVIOUS
<1>2. Own(SubSeq(sq, k + 1, Len(sq)), inflight \o SubSeq(sq, 1, k), c, q, n)
  BY OwnSubmit DEF QueuesOK
<1> QED
  BY <1>1, <1>2 DEF Submitted

\* _prep and submit(), which may flush first.
LEMMA OwnPrep ==
    ASSUME QueuesOK, NEW c, NEW q \in Seq(Cqes), Own(sq, inflight, c, q, nextUd),
           NEW m \in Nat, nextUd <= m, NEW new \in Seq(Sqes), Prep(new), Distinct(new),
           \A i \in 1 .. Len(new) : new[i].ud \in nextUd .. m - 1,
           NEW o, NEW f, \A i \in 1 .. Len(new) : new[i].op = o /\ (new[i].opc # "cancel") = f
    PROVE  Own(sq', inflight', Register(c, new, o, f), q, m)
<1>1. PICK k \in 0 .. Len(sq) : /\ sq' = SubSeq(sq, k + 1, Len(sq)) \o new
                                /\ inflight' = inflight \o SubSeq(sq, 1, k)
  BY DEF Prep, PrepWithin
<1> DEFINE a == SubSeq(sq, k + 1, Len(sq))
           b == inflight \o SubSeq(sq, 1, k)
<1>2. Own(a, b, c, q, nextUd)
  BY OwnSubmit DEF QueuesOK
<1>3. a \in Seq(Sqes) /\ b \in Seq(Sqes)
  BY SplitType, ConcatProperties DEF QueuesOK
<1> HIDE DEF a, b
<1>4. Own(a \o new, b, Register(c, new, o, f), q, m)
  BY <1>2, <1>3, OwnAdd DEF QueuesOK
<1> QED
  BY <1>1, <1>4 DEF a, b

\* fut.cancel(), in the table c.
LEMMA OwnCancelFuture ==
    ASSUME QueuesOK, NEW c, NEW q \in Seq(Cqes), Own(sq, inflight, c, q, nextUd),
           NEW o \in Nat, NEW op \in OpRecords, CancelFuture(o, op, c)
    PROVE  Own(sq', inflight', cache', q, nextUd')
<1>1. CASE CancelTarget(op) = 0
  BY <1>1 DEF CancelFuture, submitter
<1>2. CASE CancelTarget(op) # 0
  <2> DEFINE e == CancelSqe(o, CancelTarget(op))
             new == <<e>>
  <2>1. /\ Prep(new) /\ cache' = Register(c, new, o, FALSE) /\ nextUd' = nextUd + 1
    BY <1>2 DEF CancelFuture
  <2>2. e \in Sqes /\ e.ud = nextUd /\ e.op = o /\ e.opc = "cancel"
    <3>1. CancelTarget(op) \in Nat
      BY OperationType, 0 \in Nat
    <3> QED
      BY <3>1 DEF CancelSqe, Sqes, NextUserData, QueuesOK
  <2> HIDE DEF e
  <2>3. new \in Seq(Sqes) /\ Len(new) = 1 /\ new[1] = e
    BY <2>2
  <2> HIDE DEF new
  <2>4. /\ Distinct(new)
        /\ \A i \in 1 .. Len(new) : new[i].ud \in nextUd .. (nextUd + 1) - 1
        /\ \A i \in 1 .. Len(new) : new[i].op = o /\ (new[i].opc # "cancel") = FALSE
    BY <2>2, <2>3 DEF Distinct, QueuesOK
  <2>5. nextUd + 1 \in Nat /\ nextUd <= nextUd + 1
    BY DEF QueuesOK
  <2>6. Own(sq', inflight', Register(c, new, o, FALSE), q, nextUd + 1)
    BY <2>1, <2>3, <2>4, <2>5, OwnPrep
  <2> QED
    BY <2>1, <2>6
<1> QED
  BY <1>1, <1>2

\* fut.cancel() when it raises.
LEMMA OwnCancelRaises ==
    ASSUME QueuesOK, NEW c, NEW q \in Seq(Cqes), Own(sq, inflight, c, q, nextUd),
           NEW op, CancelFutureRaises(op)
    PROVE  Own(sq', inflight', c, q, nextUd')
<1>1. /\ \E k \in 0 .. Len(sq) : Submitted(k)
      /\ nextUd' = nextUd + 1
  BY DEF CancelFutureRaises, NoRoom
<1>2. Own(sq', inflight', c, q, nextUd)
  BY <1>1, OwnSubmitted
<1>3. nextUd \in Nat /\ nextUd + 1 \in Nat /\ nextUd <= nextUd + 1
  BY DEF QueuesOK
<1> QED
  BY <1>1, <1>2, <1>3, OwnLater

\* The calls user code makes.
LEMMA OwnCall ==
    ASSUME ~PrepErrors, TypeOK, OwnershipInv, Call
    PROVE  OwnershipInv'
<1>0. QueuesOK /\ cq \in Seq(Cqes) /\ Own(sq, inflight, cache, cq, nextUd) /\ nextUd \in Nat
  BY QueuesType DEF OwnershipInv, QueuesOK
<1>1. ASSUME NEW f \in Files, StartSendfile(f) PROVE OwnershipInv'
  <2> DEFINE o  == Len(ops) + 1
             s1 == [ud |-> nextUd, opc |-> "f2p", op |-> o, target |-> 0]
             s2 == [ud |-> nextUd + 1, opc |-> "p2s", op |-> o, target |-> 0]
             new == <<s1, s2>>
  <2>1. NextUserData(0) = nextUd /\ NextUserData(1) = nextUd + 1
    BY <1>0 DEF NextUserData
  <2>2. /\ Prep(new) /\ cache' = Register(cache, new, o, TRUE)
        /\ nextUd' = nextUd + 2 /\ cq' = cq
    BY <1>1, <2>1 DEF StartSendfile, kernel
  <2>3. /\ s1 \in Sqes /\ s1.ud = nextUd /\ s1.op = o /\ s1.opc = "f2p"
        /\ s2 \in Sqes /\ s2.ud = nextUd + 1 /\ s2.op = o /\ s2.opc = "p2s"
    BY <1>0, TypeParts DEF Sqes
  <2> HIDE DEF s1, s2, o
  <2>4. new \in Seq(Sqes) /\ Len(new) = 2 /\ new[1] = s1 /\ new[2] = s2
    BY <2>3
  <2> HIDE DEF new
  <2>5. \A i \in 1 .. Len(new) : i = 1 \/ i = 2
    BY <2>4
  <2>6. /\ Distinct(new)
        /\ \A i \in 1 .. Len(new) : new[i].ud \in nextUd .. (nextUd + 2) - 1
        /\ \A i \in 1 .. Len(new) : new[i].op = o /\ (new[i].opc # "cancel") = TRUE
    BY <1>0, <2>3, <2>4, <2>5 DEF Distinct
  <2>7. nextUd + 2 \in Nat /\ nextUd <= nextUd + 2
    BY <1>0
  <2>8. Own(sq', inflight', Register(cache, new, o, TRUE), cq, nextUd + 2)
    BY <1>0, <2>2, <2>4, <2>6, <2>7, OwnPrep
  <2> QED
    BY <2>2, <2>8 DEF OwnershipInv
<1>2. ASSUME NEW kind \in Kinds, NEW f \in Files, StartOp(kind, f) PROVE OwnershipInv'
  <2> DEFINE o  == Len(ops) + 1
             s1 == [ud |-> nextUd, opc |-> "single", op |-> o, target |-> 0]
             new == <<s1>>
  <2>1. NextUserData(0) = nextUd
    BY <1>0 DEF NextUserData
  <2>2. /\ Prep(new) /\ cache' = Register(cache, new, o, TRUE)
        /\ nextUd' = nextUd + 1 /\ cq' = cq
    BY <1>2, <2>1 DEF StartOp, SingleCqeOperation, kernel
  <2>3. s1 \in Sqes /\ s1.ud = nextUd /\ s1.op = o /\ s1.opc = "single"
    BY <1>0, TypeParts DEF Sqes
  <2> HIDE DEF s1, o
  <2>4. new \in Seq(Sqes) /\ Len(new) = 1 /\ new[1] = s1
    BY <2>3
  <2> HIDE DEF new
  <2>5. /\ Distinct(new)
        /\ \A i \in 1 .. Len(new) : new[i].ud \in nextUd .. (nextUd + 1) - 1
        /\ \A i \in 1 .. Len(new) : new[i].op = o /\ (new[i].opc # "cancel") = TRUE
    BY <1>0, <2>3, <2>4 DEF Distinct
  <2>6. nextUd + 1 \in Nat /\ nextUd <= nextUd + 1
    BY <1>0
  <2>7. Own(sq', inflight', Register(cache, new, o, TRUE), cq, nextUd + 1)
    BY <1>0, <2>2, <2>4, <2>5, <2>6, OwnPrep
  <2> QED
    BY <2>2, <2>7 DEF OwnershipInv
<1>3. CASE StartRaises
  <2>1. /\ \E k \in 0 .. Len(sq) : Submitted(k)
        /\ nextUd' \in {nextUd, nextUd + 1} /\ cache' = cache /\ cq' = cq
    BY <1>3 DEF StartRaises, NoRoom, kernel
  <2>2. Own(sq', inflight', cache, cq, nextUd)
    BY <1>0, <2>1, OwnSubmitted
  <2>3. nextUd' \in Nat /\ nextUd <= nextUd'
    BY <1>0, <2>1
  <2>4. Own(sq', inflight', cache, cq, nextUd')
    BY <1>0, <2>2, <2>3, OwnLater
  <2> QED
    BY <2>1, <2>4 DEF OwnershipInv
<1>4. CASE StartPrepFails
  BY <1>4 DEF StartPrepFails
<1>5. ASSUME NEW o \in 1 .. Len(ops), UserCancel(o) PROVE OwnershipInv'
  <2>1. CancelFuture(o, ops[o], cache) /\ cq' = cq
    BY <1>5 DEF UserCancel, kernel
  <2>2. o \in Nat /\ ops[o] \in OpRecords
    BY TypeParts
  <2>3. Own(sq', inflight', cache', cq, nextUd')
    BY <1>0, <2>1, <2>2, OwnCancelFuture
  <2> QED
    BY <2>1, <2>3 DEF OwnershipInv
<1>6. ASSUME NEW o \in 1 .. Len(ops), UserCancelRaises(o) PROVE OwnershipInv'
  <2>1. CancelFutureRaises(ops[o]) /\ cq' = cq /\ cache' = cache
    BY <1>6 DEF UserCancelRaises, kernel
  <2>2. Own(sq', inflight', cache, cq, nextUd')
    BY <1>0, <2>1, OwnCancelRaises
  <2> QED
    BY <2>1, <2>2 DEF OwnershipInv
<1>7. ASSUME NEW f \in Files, StopServing(f) PROVE OwnershipInv'
  BY <1>7 DEF StopServing, OwnershipInv, submitter, kernel
<1>8. CASE CloseBegins
  BY <1>8 DEF CloseBegins, OwnershipInv, submitter, kernel
<1>9. CASE CloseAgain
  BY <1>9 DEF CloseAgain, OwnershipInv, vars, python, submitter, kernel
<1> QED
  BY <1>1, <1>2, <1>3, <1>4, <1>5, <1>6, <1>7, <1>8, <1>9 DEF Call

\* The loops of _stop_serving and close(), select and _poll.
LEMMA OwnLoops ==
    ASSUME TypeOK, OwnershipInv,
           \/ StopServingCancels \/ StopServingRaises \/ StopServingReturns
           \/ CloseCancels \/ CloseCancelFails \/ CloseCancelled
           \/ SelectPolls \/ SelectSkipsPoll \/ SelectRaises \/ WaitTimesOut \/ DrainEnds
           \/ WaitInterrupted \/ ClosePolls \/ ClosePollRaises \/ CloseExits
    PROVE  OwnershipInv'
<1>0. QueuesOK /\ cq \in Seq(Cqes) /\ Own(sq, inflight, cache, cq, nextUd)
  BY QueuesType DEF OwnershipInv
<1>1. CASE StopServingCancels \/ CloseCancels
  <2>1. cq' = cq /\ \E u \in todo : CancelFuture(cache[u].op, ops[cache[u].op], cache)
    BY <1>1 DEF StopServingCancels, CloseCancels, kernel
  <2>2. PICK u \in todo : CancelFuture(cache[u].op, ops[cache[u].op], cache)
    BY <2>1
  <2>3. u \in DOMAIN cache
    BY DEF TypeOK
  <2>4. cache[u].op \in Nat /\ ops[cache[u].op] \in OpRecords
    BY <2>3, TypeParts
  <2>5. Own(sq', inflight', cache', cq, nextUd')
    BY <1>0, <2>2, <2>4, OwnCancelFuture
  <2> QED
    BY <2>1, <2>5 DEF OwnershipInv
<1>2. CASE StopServingRaises \/ CloseCancelFails
  <2>1. cq' = cq /\ cache' = cache /\ \E op : CancelFutureRaises(op)
    BY <1>2 DEF StopServingRaises, CloseCancelFails, kernel
  <2>2. Own(sq', inflight', cache, cq, nextUd')
    BY <1>0, <2>1, OwnCancelRaises
  <2> QED
    BY <2>1, <2>2 DEF OwnershipInv
<1>3. CASE SelectPolls \/ ClosePolls \/ SelectRaises \/ ClosePollRaises
  <2>1. Flush \/ FlushFails
    BY <1>3 DEF SelectPolls, ClosePolls, SelectRaises, ClosePollRaises
  <2>2. \E k \in 0 .. Len(sq) : Submitted(k)
    BY <2>1 DEF Flush, FlushFails
  <2>3. cq' = cq /\ cache' = cache /\ nextUd' = nextUd
    BY <1>3 DEF SelectPolls, ClosePolls, SelectRaises, ClosePollRaises, kernel, python
  <2>4. Own(sq', inflight', cache, cq, nextUd)
    BY <1>0, <2>2, OwnSubmitted
  <2> QED
    BY <2>3, <2>4 DEF OwnershipInv
<1>4. CASE StopServingReturns \/ CloseCancelled \/ SelectSkipsPoll \/ CloseExits
  BY <1>4 DEF StopServingReturns, CloseCancelled, SelectSkipsPoll, CloseExits, OwnershipInv,
              submitter, kernel
<1>5. CASE WaitTimesOut \/ DrainEnds \/ WaitInterrupted
  BY <1>5 DEF WaitTimesOut, DrainEnds, WaitInterrupted, PollReturns, OwnershipInv, submitter, kernel
<1> QED
  BY <1>1, <1>2, <1>3, <1>4, <1>5

\* _handle_cqe and io_uring_cqe_seen.
LEMMA OwnCqe ==
    ASSUME TypeOK, OwnershipInv, HandleCqe \/ CqeOfStoppedRaises
    PROVE  OwnershipInv'
<1> DEFINE c == Pop(cache, Head(cq).ud)
<1>0. /\ QueuesOK /\ cq \in Seq(Cqes) /\ Own(sq, inflight, cache, cq, nextUd)
      /\ nextUd \in Nat
  BY QueuesType DEF OwnershipInv, QueuesOK
<1>1. Reaping /\ cq # <<>>
  BY DEF HandleCqe, CqeOfStoppedRaises, CqeUnknown, CqeOfCancel, CqeOfStopped, CqeOfOperation,
         Reaping
<1>2. Own(sq, inflight, c, cq, nextUd)
  BY <1>0, <1>1, OwnPop DEF QueuesOK
<1>3. Tail(cq) \in Seq(Cqes)
  BY <1>1, CqeParts
<1> HIDE DEF c
<1>4. Own(sq, inflight, c, Tail(cq), nextUd) /\ Own(sq, inflight, cache, Tail(cq), nextUd)
  BY <1>0, <1>1, <1>2, OwnSeen DEF QueuesOK
<1>5. CASE CqeUnknown
  BY <1>4, <1>5 DEF CqeUnknown, CqeSeen, OwnershipInv, submitter
<1>6. CASE CqeOfCancel \/ CqeOfOperation
  <2>1. cache' = c /\ cq' = Tail(cq) /\ UNCHANGED <<sq, inflight, nextUd>>
    BY <1>6 DEF CqeOfCancel, CqeOfOperation, CqeSeen, submitter, c
  <2> QED
    BY <1>4, <2>1 DEF OwnershipInv
<1>7. CASE CqeOfStopped
  <2>1. CancelFuture(CachedOp, MarkedOp, c) /\ Known /\ cq' = Tail(cq)
    BY <1>7 DEF CqeOfStopped, CqeSeen, ForStopped, c
  <2>2. CachedOp \in Nat /\ MarkedOp \in OpRecords
    BY <1>1, <2>1, CqeParts
  <2>3. Own(sq', inflight', cache', Tail(cq), nextUd')
    BY <1>0, <1>3, <1>4, <2>1, <2>2, OwnCancelFuture
  <2> QED
    BY <2>1, <2>3 DEF OwnershipInv
<1>8. CASE CqeOfStoppedRaises
  <2>1. CancelFutureRaises(MarkedOp) /\ cache' = c /\ cq' = cq
    BY <1>8 DEF CqeOfStoppedRaises, kernel, c
  <2>2. Own(sq', inflight', c, cq, nextUd')
    BY <1>0, <1>2, <2>1, OwnCancelRaises
  <2> QED
    BY <2>1, <2>2 DEF OwnershipInv
<1> QED
  BY <1>5, <1>6, <1>7, <1>8 DEF HandleCqe

\* The steps of the kernel that post a CQE.
Completion == \E i \in 1 .. Len(inflight) :
                  ExecCancel(i) \/ \E res \in {"ok", "err"} : Complete(i, res)

\* The other one leaves every key and every pin alone.
LEMMA MovedKeys ==
    ASSUME TypeOK, Kernel, ~Completion
    PROVE  /\ UNCHANGED <<sq, cq, cache, nextUd>> /\ UdsOf(inflight') = UdsOf(inflight)
           /\ OwnershipInv => OwnershipInv'
<1>1. PICK i \in 1 .. Len(inflight) : MoveUnlinked(i)
  BY DEF Kernel, Completion
<1>2. /\ UNCHANGED <<sq, cq, cache, nextUd>> /\ Len(inflight') = Len(inflight)
      /\ \A j \in 1 .. Len(inflight) :
            /\ inflight'[j].ud = inflight[j].ud /\ inflight'[j].op = inflight[j].op
            /\ inflight'[j].opc # "cancel" <=> inflight[j].opc # "cancel"
  BY <1>1, MovedParts DEF python
<1>3. UdsOf(inflight') = UdsOf(inflight)
  BY <1>2 DEF UdsOf
<1>4. ASSUME UniqueIn(sq, inflight, cq) PROVE UniqueIn(sq, inflight', cq)
  <2>1. Distinct(inflight')
    BY <1>2, <1>4 DEF UniqueIn, Distinct
  <2>2. Apart(sq, inflight') /\ Apart(inflight', cq)
    BY <1>2, <1>4 DEF UniqueIn, Apart
  <2> QED
    BY <1>4, <2>1, <2>2 DEF UniqueIn
<1>5. ASSUME PinnedIn(cache, inflight) PROVE PinnedIn(cache, inflight')
  <2> SUFFICES ASSUME NEW j \in 1 .. Len(inflight)
               PROVE  /\ inflight'[j].ud \in DOMAIN cache
                      /\ cache[inflight'[j].ud]
                             = [op |-> inflight'[j].op, fut |-> inflight'[j].opc # "cancel"]
    BY <1>2 DEF PinnedIn
  <2>1. /\ inflight[j].ud \in DOMAIN cache
        /\ cache[inflight[j].ud] = [op |-> inflight[j].op, fut |-> inflight[j].opc # "cancel"]
    BY <1>5 DEF PinnedIn
  <2>2. (inflight'[j].opc # "cancel") = (inflight[j].opc # "cancel")
    BY <1>2
  <2> QED
    BY <1>2, <2>1, <2>2
<1>6. OwnershipInv => OwnershipInv'
  BY <1>2, <1>4, <1>5 DEF OwnershipInv, Own
<1> QED
  BY <1>2, <1>3, <1>6

\* The kernel.
LEMMA OwnKernel ==
    ASSUME TypeOK, OwnershipInv, Kernel
    PROVE  OwnershipInv'
<1> SUFFICES ASSUME Completion PROVE OwnershipInv'
  BY MovedKeys
<1>1. PICK i \in 1 .. Len(inflight) :
          ExecCancel(i) \/ \E res \in {"ok", "err"} : Complete(i, res)
  BY DEF Completion
<1>2. \E res \in {"ok", "err", "noent"} : Post(i, res)
  BY <1>1 DEF ExecCancel, Complete, CompleteSingle, CompleteF2p, CompleteMoved, CompleteP2s
<1>3. PICK res \in {"ok", "err", "noent"} : Post(i, res)
  BY <1>2
<1>4. sq \in Seq(Sqes) /\ inflight \in Seq(Sqes) /\ cq \in Seq(Cqes) /\ nextUd \in Nat
  BY DEF TypeOK
<1>5. Own(sq, RemoveAt(inflight, i), cache, Append(cq, [ud |-> inflight[i].ud, res |-> res]), nextUd)
  BY <1>4, OwnPost DEF OwnershipInv
<1> QED
  BY <1>3, <1>5 DEF Post, python, OwnershipInv

\* The invariant is inductive where filling an SQE does not raise.
LEMMA OwnershipInvariant ==
    ASSUME ~PrepErrors
    PROVE  Spec => []OwnershipInv
<1>1. Init => OwnershipInv
  BY DEF Init, OwnershipInv, Own, UniqueIn, Distinct, Apart, PinnedIn
<1>2. TypeOK /\ OwnershipInv /\ [Next]_vars => OwnershipInv'
  <2> SUFFICES ASSUME TypeOK, OwnershipInv, [Next]_vars PROVE OwnershipInv'
    OBVIOUS
  <2>1. CASE UNCHANGED vars
    BY <2>1 DEF OwnershipInv, vars, python, submitter, kernel
  <2>2. CASE Call
    BY <2>2, OwnCall
  <2>3. CASE LoopStep \/ LoopRaises
    BY <2>3, OwnLoops, OwnCqe DEF LoopStep, LoopRaises
  <2>4. CASE Kernel
    BY <2>4, OwnKernel
  <2> QED
    BY <2>1, <2>2, <2>3, <2>4 DEF Next
<1> QED
  BY <1>1, <1>2, TypeCorrect, PTL DEF Spec

\* A CQE identifies its request: the keys of all requests from _prep to
\* io_uring_cqe_seen are distinct, through every interleaving of calls, cancellations,
\* failed submissions and completions.
THEOREM KeysUnique ==
    ASSUME ~PrepErrors
    PROVE  Spec => []UniqueUserData
<1>1. OwnershipInv => UniqueUserData
  BY DEF OwnershipInv, Own, UniqueUserData
<1> QED
  BY <1>1, OwnershipInvariant, PTL

\* The memory of a request stays alive while the kernel may touch it: the table pins
\* every queued and every submitted request under its key.
THEOREM RequestsStayPinned ==
    ASSUME ~PrepErrors
    PROVE  Spec => []RequestsPinned
<1>1. OwnershipInv => RequestsPinned
  BY DEF OwnershipInv, Own, RequestsPinned
<1> QED
  BY <1>1, OwnershipInvariant, PTL

-----------------------------------------------------------------------------
(* The sets of keys in the queues, which are what RequestLife sees.        *)

\* The keys of a concatenation.
LEMMA UdsConcat ==
    ASSUME NEW S, NEW s \in Seq(S), NEW t \in Seq(S)
    PROVE  UdsOf(s \o t) = UdsOf(s) \cup UdsOf(t)
<1> DEFINE d == s \o t
<1>1. /\ Len(s) \in Nat /\ Len(t) \in Nat /\ Len(d) = Len(s) + Len(t)
      /\ \A i \in 1 .. Len(d) : \/ i \in 1 .. Len(s) /\ d[i] = s[i]
                                \/ \E p \in 1 .. Len(t) : i = Len(s) + p /\ d[i] = t[p]
  BY ConcatIndex
<1>2. /\ \A i \in 1 .. Len(s) : i \in 1 .. Len(d) /\ d[i] = s[i]
      /\ \A p \in 1 .. Len(t) : Len(s) + p \in 1 .. Len(d) /\ d[Len(s) + p] = t[p]
  <2>1. \A i \in 1 .. Len(s) + Len(t) : d[i] = IF i <= Len(s) THEN s[i] ELSE t[i - Len(s)]
    BY ConcatProperties
  <2> HIDE DEF d
  <2>2. \A i \in 1 .. Len(s) : i \in 1 .. Len(d) /\ d[i] = s[i]
    BY <1>1, <2>1
  <2>3. ASSUME NEW p \in 1 .. Len(t) PROVE Len(s) + p \in 1 .. Len(d) /\ d[Len(s) + p] = t[p]
    <3>1. Len(s) + p \in 1 .. Len(d) /\ ~(Len(s) + p <= Len(s)) /\ (Len(s) + p) - Len(s) = p
      BY <1>1
    <3> QED
      BY <1>1, <2>1, <3>1
  <2> QED
    BY <2>2, <2>3
<1> HIDE DEF d
<1>3. UdsOf(d) \subseteq UdsOf(s) \cup UdsOf(t)
  BY <1>1 DEF UdsOf
<1>4. UdsOf(s) \subseteq UdsOf(d)
  BY <1>2 DEF UdsOf
<1>5. UdsOf(t) \subseteq UdsOf(d)
  BY <1>2 DEF UdsOf
<1> QED
  BY <1>3, <1>4, <1>5 DEF d

\* A queue that is empty has no keys.
LEMMA UdsEmpty == UdsOf(<<>>) = {}
BY DEF UdsOf

\* A key in two parts of a queue with distinct keys would be drawn twice.
LEMMA UdsSplit ==
    ASSUME NEW s \in Seq(Sqes), NEW k \in 0 .. Len(s)
    PROVE  /\ UdsOf(s) = UdsOf(SubSeq(s, 1, k)) \cup UdsOf(SubSeq(s, k + 1, Len(s)))
           /\ Distinct(s) /\ 0 \notin UdsOf(s) =>
                UdsOf(SubSeq(s, 1, k)) \cap UdsOf(SubSeq(s, k + 1, Len(s))) = {}
<1> DEFINE a == SubSeq(s, k + 1, Len(s))
           b == SubSeq(s, 1, k)
<1>1. /\ Len(a) = Len(s) - k /\ \A i \in 1 .. Len(a) : a[i] = s[k + i]
      /\ Len(b) = k /\ \A i \in 1 .. Len(b) : b[i] = s[i]
  BY SplitType
<1> HIDE DEF a, b
<1>2. Len(s) \in Nat /\ k \in Nat
  OBVIOUS
<1>3. /\ \A i \in 1 .. Len(a) : k + i \in 1 .. Len(s) /\ k + i \notin 1 .. k
      /\ \A i \in 1 .. Len(b) : i \in 1 .. Len(s) /\ i \in 1 .. k
  BY <1>1, <1>2
<1>4. \A i \in 1 .. Len(s) : i \in 1 .. Len(b) \/ (i - k \in 1 .. Len(a) /\ k + (i - k) = i)
  BY <1>1, <1>2
<1>5. UdsOf(a) \subseteq UdsOf(s) /\ UdsOf(b) \subseteq UdsOf(s)
  BY <1>1, <1>3 DEF UdsOf
<1>6. UdsOf(s) \subseteq UdsOf(a) \cup UdsOf(b)
  <2> SUFFICES ASSUME NEW i \in 1 .. Len(s) PROVE s[i].ud \in UdsOf(a) \cup UdsOf(b)
    BY DEF UdsOf
  <2>1. CASE i \in 1 .. Len(b)
    BY <1>1, <2>1 DEF UdsOf
  <2>2. CASE i - k \in 1 .. Len(a) /\ k + (i - k) = i
    <3>1. a[i - k] = s[i]
      BY <1>1, <2>2
    <3> QED
      BY <2>2, <3>1 DEF UdsOf
  <2> QED
    BY <1>4, <2>1, <2>2
<1>7. ASSUME Distinct(s), 0 \notin UdsOf(s) PROVE UdsOf(b) \cap UdsOf(a) = {}
  <2> SUFFICES ASSUME NEW i \in 1 .. Len(a), NEW j \in 1 .. Len(b), a[i].ud = b[j].ud
               PROVE  FALSE
    BY DEF UdsOf
  <2>1. k + i \in 1 .. Len(s) /\ j \in 1 .. Len(s) /\ s[k + i].ud = s[j].ud
    BY <1>1, <1>3
  <2>2. k + i = j \/ s[k + i].ud = 0
    BY <1>7, <2>1 DEF Distinct
  <2>3. s[k + i].ud # 0
    BY <1>7, <2>1 DEF UdsOf
  <2> QED
    BY <1>3, <2>2, <2>3
<1> QED
  BY <1>5, <1>6, <1>7 DEF a, b

\* io_uring_cqe_seen takes one key out of the completion queue.
LEMMA UdsTail ==
    ASSUME NEW q \in Seq(Cqes), q # <<>>
    PROVE  /\ Head(q).ud \in UdsOf(q)
           /\ UdsOf(q) = UdsOf(Tail(q)) \cup {Head(q).ud}
           /\ Distinct(q) /\ 0 \notin UdsOf(q) => Head(q).ud \notin UdsOf(Tail(q))
<1> DEFINE a == Tail(q)
<1>1. /\ Len(a) = Len(q) - 1 /\ Len(q) \in Nat /\ Head(q) = q[1] /\ 1 \in 1 .. Len(q)
      /\ \A i \in 1 .. Len(a) : a[i] = q[i + 1]
  BY HeadTailProperties
<1> HIDE DEF a
<1>2. /\ \A i \in 1 .. Len(a) : i + 1 \in 1 .. Len(q) /\ i + 1 # 1
      /\ \A i \in 1 .. Len(q) : i = 1 \/ (i - 1 \in 1 .. Len(a) /\ (i - 1) + 1 = i)
  BY <1>1
<1>3. UdsOf(a) \subseteq UdsOf(q) /\ Head(q).ud \in UdsOf(q)
  BY <1>1, <1>2 DEF UdsOf
<1>4. UdsOf(q) \subseteq UdsOf(a) \cup {Head(q).ud}
  <2> SUFFICES ASSUME NEW i \in 1 .. Len(q) PROVE q[i].ud \in UdsOf(a) \cup {Head(q).ud}
    BY DEF UdsOf
  <2>1. CASE i = 1
    BY <1>1, <2>1
  <2>2. CASE i - 1 \in 1 .. Len(a) /\ (i - 1) + 1 = i
    BY <1>1, <2>2 DEF UdsOf
  <2> QED
    BY <1>2, <2>1, <2>2
<1>5. ASSUME Distinct(q), 0 \notin UdsOf(q), NEW i \in 1 .. Len(a), a[i].ud = Head(q).ud
      PROVE  FALSE
  <2>1. i + 1 \in 1 .. Len(q) /\ q[i + 1].ud = q[1].ud
    BY <1>1, <1>2, <1>5
  <2>2. i + 1 = 1 \/ q[i + 1].ud = 0
    BY <1>1, <1>5, <2>1 DEF Distinct
  <2>3. q[i + 1].ud # 0
    BY <1>5, <2>1 DEF UdsOf
  <2> QED
    BY <1>2, <2>2, <2>3
<1>6. Distinct(q) /\ 0 \notin UdsOf(q) => Head(q).ud \notin UdsOf(a)
  BY <1>5 DEF UdsOf
<1> QED
  BY <1>3, <1>4, <1>6 DEF a

\* The kernel takes one key out of the requests in flight.
LEMMA UdsRemoveAt ==
    ASSUME NEW t \in Seq(Sqes), NEW i \in 1 .. Len(t)
    PROVE  /\ UdsOf(t) = UdsOf(RemoveAt(t, i)) \cup {t[i].ud}
           /\ Distinct(t) /\ 0 \notin UdsOf(t) => t[i].ud \notin UdsOf(RemoveAt(t, i))
<1> DEFINE a == RemoveAt(t, i)
<1>0. /\ a \in Seq(Sqes) /\ Len(a) = Len(t) - 1
      /\ \A j \in 1 .. Len(t) - 1 : a[j] = IF j < i THEN t[j] ELSE t[j + 1]
  BY RemoveAtType
<1> HIDE DEF a
<1>1. /\ a \in Seq(Sqes) /\ Len(a) = Len(t) - 1 /\ Len(t) \in Nat
      /\ \A j \in 1 .. Len(a) : a[j] = IF j < i THEN t[j] ELSE t[j + 1]
  BY <1>0
<1>2. \A j \in 1 .. Len(a) : \E p \in 1 .. Len(t) : p # i /\ a[j] = t[p]
  <2> SUFFICES ASSUME NEW j \in 1 .. Len(a) PROVE \E p \in 1 .. Len(t) : p # i /\ a[j] = t[p]
    OBVIOUS
  <2>1. CASE j < i
    BY <1>1, <2>1
  <2>2. CASE ~(j < i)
    <3>1. j + 1 \in 1 .. Len(t) /\ j + 1 # i /\ a[j] = t[j + 1]
      BY <1>1, <2>2
    <3> QED
      BY <3>1
  <2> QED
    BY <2>1, <2>2
<1>3. \A p \in 1 .. Len(t) : p = i \/ \E j \in 1 .. Len(a) : a[j] = t[p]
  <2> SUFFICES ASSUME NEW p \in 1 .. Len(t), p # i PROVE \E j \in 1 .. Len(a) : a[j] = t[p]
    OBVIOUS
  <2>1. CASE p < i
    <3>1. p \in 1 .. Len(a) /\ a[p] = t[p]
      BY <1>1, <2>1
    <3> QED
      BY <3>1
  <2>2. CASE ~(p < i)
    <3>1. p - 1 \in 1 .. Len(a) /\ ~(p - 1 < i) /\ (p - 1) + 1 = p
      BY <1>1, <2>2
    <3>2. a[p - 1] = t[p]
      BY <1>1, <3>1
    <3> QED
      BY <3>1, <3>2
  <2> QED
    BY <2>1, <2>2
<1>4. UdsOf(a) \subseteq UdsOf(t) /\ t[i].ud \in UdsOf(t)
  BY <1>2 DEF UdsOf
<1>5. UdsOf(t) \subseteq UdsOf(a) \cup {t[i].ud}
  BY <1>3 DEF UdsOf
<1>6. ASSUME Distinct(t), 0 \notin UdsOf(t), NEW j \in 1 .. Len(a), a[j].ud = t[i].ud
      PROVE  FALSE
  <2>1. PICK p \in 1 .. Len(t) : p # i /\ a[j] = t[p]
    BY <1>2
  <2>2. t[p].ud = 0
    BY <1>6, <2>1 DEF Distinct
  <2>3. t[p].ud # 0
    BY <1>6 DEF UdsOf
  <2> QED
    BY <2>2, <2>3
<1>7. Distinct(t) /\ 0 \notin UdsOf(t) => t[i].ud \notin UdsOf(a)
  BY <1>6 DEF UdsOf
<1> QED
  BY <1>4, <1>5, <1>7 DEF a

-----------------------------------------------------------------------------
(* A step of the Python thread, as the sets of keys see it.                *)

\* Some of the queued requests are sent and new ones are queued behind the rest.
Sends(new) ==
    \E sent \in SUBSET UdsOf(sq), rest \in SUBSET UdsOf(sq) :
        /\ UdsOf(sq) = sent \cup rest
        /\ OwnershipInv => sent \cap rest = {}
        /\ UdsOf(sq') = rest \cup new
        /\ UdsOf(inflight') = UdsOf(inflight) \cup sent

\* Nothing is consumed, or the first CQE is, and its entry with it.
Consumes(dropped) ==
    \/ cq' = cq /\ dropped \subseteq UdsOf(cq)
    \/ /\ cq # <<>> /\ cq' = Tail(cq)
       /\ dropped \subseteq {Head(cq).ud} /\ DOMAIN cache \cap {Head(cq).ud} \subseteq dropped

\* What any step of the thread does to the keys: new ones are drawn, queued and registered.
OwnerStep ==
    \E new, dropped \in SUBSET Nat :
        /\ new \subseteq nextUd .. nextUd' - 1
        /\ nextUd' \in Nat /\ nextUd <= nextUd'
        /\ Sends(new) /\ Consumes(dropped)
        /\ DOMAIN cache' = (DOMAIN cache \ dropped) \cup new

\* Keys that OwnershipInv speaks of are never 0.
LEMMA KeysNotZero ==
    ASSUME TypeOK, OwnershipInv
    PROVE  /\ Distinct(sq) /\ Distinct(inflight) /\ Distinct(cq)
           /\ 0 \notin UdsOf(sq) /\ 0 \notin UdsOf(inflight) /\ 0 \notin UdsOf(cq)
           /\ UdsOf(sq) \cap UdsOf(inflight) = {} /\ UdsOf(sq) \cap UdsOf(cq) = {}
           /\ UdsOf(inflight) \cap UdsOf(cq) = {}
<1>1. nextUd \in Nat /\ 0 \notin 1 .. nextUd - 1
  BY DEF TypeOK
<1>2. \A i \in 1 .. Len(sq) : sq[i].ud \in 1 .. nextUd - 1
  BY DEF OwnershipInv, Own, PinnedIn
<1>3. \A i \in 1 .. Len(inflight) : inflight[i].ud \in 1 .. nextUd - 1
  BY DEF OwnershipInv, Own, PinnedIn
<1>4. \A i \in 1 .. Len(cq) : cq[i].ud \in 1 .. nextUd - 1
  BY DEF OwnershipInv, Own
<1>5. 0 \notin UdsOf(sq) /\ 0 \notin UdsOf(inflight) /\ 0 \notin UdsOf(cq)
  BY <1>1, <1>2, <1>3, <1>4 DEF UdsOf
<1>6. /\ Distinct(sq) /\ Distinct(inflight) /\ Distinct(cq)
      /\ Apart(sq, inflight) /\ Apart(sq, cq) /\ Apart(inflight, cq)
  BY DEF OwnershipInv, Own, UniqueIn
<1>7. UdsOf(sq) \cap UdsOf(inflight) = {}
  BY <1>1, <1>2, <1>6 DEF UdsOf, Apart
<1>8. UdsOf(sq) \cap UdsOf(cq) = {}
  BY <1>1, <1>2, <1>6 DEF UdsOf, Apart
<1>9. UdsOf(inflight) \cap UdsOf(cq) = {}
  BY <1>1, <1>3, <1>6 DEF UdsOf, Apart
<1> QED
  BY <1>5, <1>6, <1>7, <1>8, <1>9

\* The first k entries are sent and new ones are queued.
LEMMA SplitSends ==
    ASSUME TypeOK, NEW k \in 0 .. Len(sq), NEW new \in Seq(Sqes),
           sq' = SubSeq(sq, k + 1, Len(sq)) \o new,
           inflight' = inflight \o SubSeq(sq, 1, k)
    PROVE  Sends(UdsOf(new))
<1> DEFINE a == SubSeq(sq, k + 1, Len(sq))
           b == SubSeq(sq, 1, k)
<1>1. sq \in Seq(Sqes) /\ inflight \in Seq(Sqes)
  BY DEF TypeOK
<1>2. a \in Seq(Sqes) /\ b \in Seq(Sqes)
  BY <1>1, SplitType
<1>3. UdsOf(sq) = UdsOf(b) \cup UdsOf(a)
  BY <1>1, UdsSplit
<1>4. OwnershipInv => UdsOf(b) \cap UdsOf(a) = {}
  BY <1>1, UdsSplit, KeysNotZero
<1>5. sq' = a \o new /\ inflight' = inflight \o b
  OBVIOUS
<1> HIDE DEF a, b
<1>6. UdsOf(a \o new) = UdsOf(a) \cup UdsOf(new) /\ UdsOf(inflight \o b) = UdsOf(inflight) \cup UdsOf(b)
  BY <1>1, <1>2, UdsConcat
<1>7. UdsOf(sq') = UdsOf(a) \cup UdsOf(new) /\ UdsOf(inflight') = UdsOf(inflight) \cup UdsOf(b)
  BY <1>5, <1>6
<1>8. UdsOf(a) \in SUBSET UdsOf(sq) /\ UdsOf(b) \in SUBSET UdsOf(sq)
  BY <1>3
<1> QED
  BY <1>3, <1>4, <1>7, <1>8 DEF Sends

\* io_uring_submit sends and queues nothing new.
LEMMA SubmitSends ==
    ASSUME TypeOK, \E k \in 0 .. Len(sq) : Submitted(k)
    PROVE  Sends({})
<1>1. PICK k \in 0 .. Len(sq) : Submitted(k)
  OBVIOUS
<1>2. SubSeq(sq, k + 1, Len(sq)) \in Seq(Sqes)
  BY SplitType DEF TypeOK
<1>3. SubSeq(sq, k + 1, Len(sq)) \o <<>> = SubSeq(sq, k + 1, Len(sq)) /\ <<>> \in Seq(Sqes)
  BY <1>2, ConcatEmptySeq
<1>4. sq' = SubSeq(sq, k + 1, Len(sq)) \o <<>> /\ inflight' = inflight \o SubSeq(sq, 1, k)
  BY <1>1, <1>3 DEF Submitted
<1>5. Sends(UdsOf(<<>>))
  BY <1>3, <1>4, SplitSends
<1> QED
  BY <1>5, UdsEmpty

\* A step that leaves the queues alone sends nothing.
LEMMA NothingSent ==
    ASSUME UNCHANGED <<sq, inflight>>
    PROVE  Sends({})
<1>1. UdsOf(sq') = UdsOf(sq) \cup {} /\ UdsOf(inflight') = UdsOf(inflight) \cup {}
  <2>1. sq' = sq /\ inflight' = inflight
    OBVIOUS
  <2> QED
    BY <2>1
<1>2. UdsOf(sq) = {} \cup UdsOf(sq) /\ {} \cap UdsOf(sq) = {}
  OBVIOUS
<1> QED
  BY <1>1, <1>2 DEF Sends

\* _prep sends what it flushes and queues the new entries.
LEMMA PrepSends ==
    ASSUME TypeOK, NEW n, NEW new \in Seq(Sqes), PrepWithin(n, new)
    PROVE  Sends(UdsOf(new))
<1>1. PICK k \in 0 .. Len(sq) : /\ sq' = SubSeq(sq, k + 1, Len(sq)) \o new
                                /\ inflight' = inflight \o SubSeq(sq, 1, k)
  BY DEF PrepWithin
<1> QED
  BY <1>1, SplitSends

\* Registering requests adds their keys to the table.
LEMMA RegisterKeys ==
    ASSUME NEW c, NEW new, NEW o, NEW f
    PROVE  DOMAIN Register(c, new, o, f) = DOMAIN c \cup UdsOf(new)
BY DEF Register, UdsOf

\* fut.cancel() in a table c that lost the entry of at most the first CQE.
LEMMA CancelOwner ==
    ASSUME TypeOK, NEW c, NEW o \in Nat, NEW op \in OpRecords, CancelFuture(o, op, c),
           NEW dropped \in SUBSET Nat, DOMAIN c = DOMAIN cache \ dropped, Consumes(dropped)
    PROVE  OwnerStep
<1>0. nextUd \in Nat \ {0}
  BY DEF TypeOK
<1>1. CASE CancelTarget(op) = 0
  <2>1. UNCHANGED <<sq, inflight, nextUd>> /\ cache' = c
    BY <1>1 DEF CancelFuture, submitter
  <2>2. Sends({})
    BY <2>1, NothingSent
  <2>3. {} \subseteq nextUd .. nextUd' - 1 /\ nextUd' \in Nat /\ nextUd <= nextUd' /\ {} \in SUBSET Nat
    BY <1>0, <2>1
  <2>4. DOMAIN cache' = (DOMAIN cache \ dropped) \cup {}
    BY <2>1
  <2> QED
    BY <2>2, <2>3, <2>4 DEF OwnerStep
<1>2. CASE CancelTarget(op) # 0
  <2> DEFINE e == CancelSqe(o, CancelTarget(op))
             new == <<e>>
  <2>1. /\ Prep(new) /\ cache' = Register(c, new, o, FALSE) /\ nextUd' = nextUd + 1
    BY <1>2 DEF CancelFuture
  <2>2. e \in Sqes /\ e.ud = nextUd
    <3>1. CancelTarget(op) \in Nat
      BY OperationType, 0 \in Nat
    <3> QED
      BY <1>0, <3>1 DEF CancelSqe, Sqes, NextUserData
  <2> HIDE DEF e
  <2>3. new \in Seq(Sqes) /\ Len(new) = 1 /\ new[1] = e
    BY <2>2
  <2> HIDE DEF new
  <2>4. UdsOf(new) = {nextUd}
    BY <2>2, <2>3 DEF UdsOf
  <2>5. Sends({nextUd})
    BY <2>1, <2>3, <2>4, PrepSends DEF Prep
  <2>6. DOMAIN cache' = (DOMAIN cache \ dropped) \cup {nextUd}
    BY <2>1, <2>4, RegisterKeys
  <2>7. {nextUd} \subseteq nextUd .. nextUd' - 1 /\ nextUd' \in Nat /\ nextUd <= nextUd' /\ {nextUd} \in SUBSET Nat
    BY <1>0, <2>1
  <2> QED
    BY <2>5, <2>6, <2>7 DEF OwnerStep
<1> QED
  BY <1>1, <1>2

\* A step that draws at most a key and touches neither table nor completions.
LEMMA SendOwner ==
    ASSUME TypeOK, Sends({}), UNCHANGED <<cache, cq>>, nextUd' \in {nextUd, nextUd + 1}
    PROVE  OwnerStep
<1>1. {} \subseteq nextUd .. nextUd' - 1 /\ nextUd' \in Nat /\ nextUd <= nextUd' /\ {} \in SUBSET Nat
  BY DEF TypeOK
<1>2. Consumes({}) /\ DOMAIN cache' = (DOMAIN cache \ {}) \cup {}
  BY DEF Consumes
<1> QED
  BY <1>1, <1>2 DEF OwnerStep

\* A call that starts an operation registers the keys it draws.
LEMMA StartOwner ==
    ASSUME TypeOK, NEW new \in Seq(Sqes), Prep(new), NEW o, NEW f,
           cache' = Register(cache, new, o, f), cq' = cq,
           nextUd' \in Nat, nextUd <= nextUd', UdsOf(new) \subseteq nextUd .. nextUd' - 1
    PROVE  OwnerStep
<1>0. nextUd \in Nat
  BY DEF TypeOK
<1>1. Sends(UdsOf(new))
  BY PrepSends DEF Prep
<1>2. DOMAIN cache' = (DOMAIN cache \ {}) \cup UdsOf(new)
  BY RegisterKeys
<1>3. UdsOf(new) \in SUBSET Nat /\ {} \in SUBSET Nat /\ Consumes({})
  <2>1. \A u \in nextUd .. nextUd' - 1 : u \in Nat
    BY <1>0
  <2> QED
    BY <2>1 DEF Consumes
<1> QED
  BY <1>1, <1>2, <1>3 DEF OwnerStep

\* The calls user code makes.
LEMMA CallOwner ==
    ASSUME TypeOK, Call, ~StartPrepFails
    PROVE  OwnerStep
<1>0. nextUd \in Nat \ {0} /\ Len(ops) \in Nat
  BY TypeParts
<1>1. ASSUME NEW f \in Files, StartSendfile(f) PROVE OwnerStep
  <2> DEFINE o  == Len(ops) + 1
             s1 == [ud |-> nextUd, opc |-> "f2p", op |-> o, target |-> 0]
             s2 == [ud |-> nextUd + 1, opc |-> "p2s", op |-> o, target |-> 0]
             new == <<s1, s2>>
  <2>1. NextUserData(0) = nextUd /\ NextUserData(1) = nextUd + 1
    BY <1>0 DEF NextUserData
  <2>2. /\ Prep(new) /\ cache' = Register(cache, new, o, TRUE)
        /\ nextUd' = nextUd + 2 /\ cq' = cq
    BY <1>1, <2>1 DEF StartSendfile, kernel
  <2>3. s1 \in Sqes /\ s1.ud = nextUd /\ s2 \in Sqes /\ s2.ud = nextUd + 1
    BY <1>0 DEF Sqes
  <2> HIDE DEF s1, s2, o
  <2>4. new \in Seq(Sqes) /\ Len(new) = 2 /\ new[1] = s1 /\ new[2] = s2
    BY <2>3
  <2> HIDE DEF new
  <2>5. UdsOf(new) \subseteq {nextUd, nextUd + 1}
    <3>1. \A i \in 1 .. Len(new) : i = 1 \/ i = 2
      BY <2>4
    <3> QED
      BY <2>3, <2>4, <3>1 DEF UdsOf
  <2>6. {nextUd, nextUd + 1} \subseteq nextUd .. nextUd' - 1 /\ nextUd' \in Nat /\ nextUd <= nextUd'
    BY <1>0, <2>2
  <2> QED
    BY <2>2, <2>4, <2>5, <2>6, StartOwner
<1>2. ASSUME NEW kind \in Kinds, NEW f \in Files, StartOp(kind, f) PROVE OwnerStep
  <2> DEFINE o  == Len(ops) + 1
             s1 == [ud |-> nextUd, opc |-> "single", op |-> o, target |-> 0]
             new == <<s1>>
  <2>1. NextUserData(0) = nextUd
    BY <1>0 DEF NextUserData
  <2>2. /\ Prep(new) /\ cache' = Register(cache, new, o, TRUE)
        /\ nextUd' = nextUd + 1 /\ cq' = cq
    BY <1>2, <2>1 DEF StartOp, SingleCqeOperation, kernel
  <2>3. s1 \in Sqes /\ s1.ud = nextUd
    BY <1>0 DEF Sqes
  <2> HIDE DEF s1, o
  <2>4. new \in Seq(Sqes) /\ Len(new) = 1 /\ new[1] = s1
    BY <2>3
  <2> HIDE DEF new
  <2>5. UdsOf(new) \subseteq {nextUd}
    BY <2>3, <2>4 DEF UdsOf
  <2>6. {nextUd} \subseteq nextUd .. nextUd' - 1 /\ nextUd' \in Nat /\ nextUd <= nextUd'
    BY <1>0, <2>2
  <2> QED
    BY <2>2, <2>4, <2>5, <2>6, StartOwner
<1>3. CASE StartRaises \/ \E o \in 1 .. Len(ops) : UserCancelRaises(o)
  <2>1. /\ \E k \in 0 .. Len(sq) : Submitted(k)
        /\ nextUd' \in {nextUd, nextUd + 1} /\ UNCHANGED <<cache, cq>>
    BY <1>3 DEF StartRaises, NoRoom, kernel, UserCancelRaises, CancelFutureRaises
  <2> QED
    BY <2>1, SubmitSends, SendOwner
<1>4. ASSUME NEW o \in 1 .. Len(ops), UserCancel(o) PROVE OwnerStep
  <2>1. CancelFuture(o, ops[o], cache) /\ cq' = cq
    BY <1>4 DEF UserCancel, kernel
  <2>2. o \in Nat /\ ops[o] \in OpRecords
    BY TypeParts
  <2>3. Consumes({}) /\ DOMAIN cache = DOMAIN cache \ {} /\ {} \in SUBSET Nat
    BY <2>1 DEF Consumes
  <2> QED
    BY <2>1, <2>2, <2>3, CancelOwner
<1>5. CASE CloseBegins \/ CloseAgain \/ \E f \in Files : StopServing(f)
  <2>1. UNCHANGED <<sq, inflight, cache, cq, nextUd>>
    BY <1>5 DEF CloseBegins, CloseAgain, StopServing, vars, python, submitter, kernel
  <2> QED
    BY <2>1, NothingSent, SendOwner
<1> QED
  BY <1>1, <1>2, <1>3, <1>4, <1>5 DEF Call

\* The loops of _stop_serving and close(), select and _poll.
LEMMA LoopOwner ==
    ASSUME TypeOK,
           \/ StopServingCancels \/ StopServingRaises \/ StopServingReturns
           \/ CloseCancels \/ CloseCancelFails \/ CloseCancelled
           \/ SelectPolls \/ SelectSkipsPoll \/ SelectRaises \/ WaitTimesOut \/ DrainEnds
           \/ WaitInterrupted \/ ClosePolls \/ ClosePollRaises \/ CloseExits
    PROVE  OwnerStep
<1>1. CASE StopServingCancels \/ CloseCancels
  <2>1. cq' = cq /\ \E u \in todo : CancelFuture(cache[u].op, ops[cache[u].op], cache)
    BY <1>1 DEF StopServingCancels, CloseCancels, kernel
  <2>2. PICK u \in todo : CancelFuture(cache[u].op, ops[cache[u].op], cache)
    BY <2>1
  <2>3. u \in DOMAIN cache
    BY DEF TypeOK
  <2>4. cache[u].op \in Nat /\ ops[cache[u].op] \in OpRecords
    BY <2>3, TypeParts
  <2>5. Consumes({}) /\ DOMAIN cache = DOMAIN cache \ {} /\ {} \in SUBSET Nat
    BY <2>1 DEF Consumes
  <2> QED
    BY <2>2, <2>4, <2>5, CancelOwner
<1>2. CASE StopServingRaises \/ CloseCancelFails
  <2>1. /\ \E k \in 0 .. Len(sq) : Submitted(k)
        /\ nextUd' \in {nextUd, nextUd + 1} /\ UNCHANGED <<cache, cq>>
    BY <1>2 DEF StopServingRaises, CloseCancelFails, NoRoom, kernel, CancelFutureRaises
  <2> QED
    BY <2>1, SubmitSends, SendOwner
<1>3. CASE SelectPolls \/ ClosePolls \/ SelectRaises \/ ClosePollRaises
  <2>1. Flush \/ FlushFails
    BY <1>3 DEF SelectPolls, ClosePolls, SelectRaises, ClosePollRaises
  <2>2. \E k \in 0 .. Len(sq) : Submitted(k)
    BY <2>1 DEF Flush, FlushFails
  <2>3. cq' = cq /\ cache' = cache /\ nextUd' = nextUd
    BY <1>3 DEF SelectPolls, ClosePolls, SelectRaises, ClosePollRaises, kernel, python
  <2> QED
    BY <2>2, <2>3, SubmitSends, SendOwner
<1>4. CASE \/ StopServingReturns \/ CloseCancelled \/ SelectSkipsPoll \/ CloseExits
           \/ WaitTimesOut \/ DrainEnds \/ WaitInterrupted
  <2>1. UNCHANGED <<sq, inflight, cache, cq, nextUd>>
    BY <1>4 DEF StopServingReturns, CloseCancelled, SelectSkipsPoll, CloseExits, WaitTimesOut,
                DrainEnds, WaitInterrupted, PollReturns, submitter, kernel
  <2> QED
    BY <2>1, NothingSent, SendOwner
<1> QED
  BY <1>1, <1>2, <1>3, <1>4

\* _handle_cqe drops the entry of the CQE that is consumed; a cancellation that raises
\* there has dropped the entry and leaves the CQE.
LEMMA CqeOwner ==
    ASSUME TypeOK, HandleCqe \/ CqeOfStoppedRaises
    PROVE  OwnerStep
<1> DEFINE u == Head(cq).ud
           c == Pop(cache, u)
<1>0. nextUd \in Nat \ {0} /\ cq \in Seq(Cqes)
  BY DEF TypeOK
<1>1. Reaping /\ cq # <<>>
  BY DEF HandleCqe, CqeOfStoppedRaises, CqeUnknown, CqeOfCancel, CqeOfStopped, CqeOfOperation,
         Reaping
<1>2. u \in Nat /\ u \in UdsOf(cq) /\ {u} \in SUBSET Nat /\ {} \in SUBSET Nat
  <2>1. Head(cq) \in Cqes
    BY <1>1, CqeParts
  <2> QED
    BY <1>0, <1>1, <2>1, UdsTail DEF Cqes
<1>3. DOMAIN c = DOMAIN cache \ {u}
  BY DEF Pop
<1> HIDE DEF c
<1>4. CASE CqeUnknown
  <2>1. /\ UNCHANGED <<sq, inflight, nextUd, cache>> /\ cq' = Tail(cq) /\ u \notin DOMAIN cache
    BY <1>4 DEF CqeUnknown, CqeSeen, submitter, Known
  <2>2. Consumes({})
    BY <1>1, <2>1 DEF Consumes
  <2>3. /\ {} \subseteq nextUd .. nextUd' - 1 /\ nextUd' \in Nat /\ nextUd <= nextUd'
        /\ DOMAIN cache' = (DOMAIN cache \ {}) \cup {}
    BY <1>0, <2>1
  <2>4. Sends({})
    BY <2>1, NothingSent
  <2> QED
    BY <1>2, <2>2, <2>3, <2>4 DEF OwnerStep
<1>5. CASE CqeOfCancel \/ CqeOfOperation
  <2>1. cache' = c /\ cq' = Tail(cq) /\ UNCHANGED <<sq, inflight, nextUd>>
    BY <1>5 DEF CqeOfCancel, CqeOfOperation, CqeSeen, submitter, c
  <2>2. Consumes({u})
    BY <1>1, <2>1 DEF Consumes
  <2>3. /\ {} \subseteq nextUd .. nextUd' - 1 /\ nextUd' \in Nat /\ nextUd <= nextUd'
        /\ DOMAIN cache' = (DOMAIN cache \ {u}) \cup {}
    BY <1>0, <1>3, <2>1
  <2>4. Sends({})
    BY <2>1, NothingSent
  <2> QED
    BY <1>2, <2>2, <2>3, <2>4 DEF OwnerStep
<1>6. CASE CqeOfStopped
  <2>1. CancelFuture(CachedOp, MarkedOp, c) /\ Known /\ cq' = Tail(cq)
    BY <1>6 DEF CqeOfStopped, CqeSeen, ForStopped, c
  <2>2. CachedOp \in Nat /\ MarkedOp \in OpRecords
    BY <1>1, <2>1, CqeParts
  <2>3. Consumes({u})
    BY <1>1, <2>1 DEF Consumes
  <2> QED
    BY <1>2, <1>3, <2>1, <2>2, <2>3, CancelOwner
<1>7. CASE CqeOfStoppedRaises
  <2>1. /\ \E k \in 0 .. Len(sq) : Submitted(k)
        /\ nextUd' = nextUd + 1 /\ cache' = c /\ cq' = cq
    BY <1>7 DEF CqeOfStoppedRaises, CancelFutureRaises, NoRoom, kernel, c
  <2>2. Sends({})
    BY <2>1, SubmitSends
  <2>3. Consumes({u})
    BY <1>2, <2>1 DEF Consumes
  <2>4. /\ {} \subseteq nextUd .. nextUd' - 1 /\ nextUd' \in Nat /\ nextUd <= nextUd'
        /\ DOMAIN cache' = (DOMAIN cache \ {u}) \cup {}
    BY <1>0, <1>3, <2>1
  <2> QED
    BY <1>2, <2>2, <2>3, <2>4 DEF OwnerStep
<1> QED
  BY <1>4, <1>5, <1>6, <1>7 DEF HandleCqe

\* A completion moves one key from the requests in flight to the completions.
LEMMA KernelMoves ==
    ASSUME TypeOK, Completion
    PROVE  \E i \in 1 .. Len(inflight) :
              /\ UdsOf(inflight) = UdsOf(inflight') \cup {inflight[i].ud}
              /\ UdsOf(cq') = UdsOf(cq) \cup {inflight[i].ud}
              /\ OwnershipInv => inflight[i].ud \notin UdsOf(inflight')
              /\ UNCHANGED <<sq, cache, nextUd>>
<1>1. PICK i \in 1 .. Len(inflight) :
          ExecCancel(i) \/ \E res \in {"ok", "err"} : Complete(i, res)
  BY DEF Completion
<1>2. \E res \in {"ok", "err", "noent"} : Post(i, res)
  BY <1>1 DEF ExecCancel, Complete, CompleteSingle, CompleteF2p, CompleteMoved, CompleteP2s
<1>3. PICK res \in {"ok", "err", "noent"} : Post(i, res)
  BY <1>2
<1> DEFINE e == [ud |-> inflight[i].ud, res |-> res]
<1>4. inflight \in Seq(Sqes) /\ cq \in Seq(Cqes)
  BY DEF TypeOK
<1>5. e \in Cqes /\ e.ud = inflight[i].ud
  <2>1. inflight[i] \in Sqes
    BY <1>4
  <2> QED
    BY <2>1 DEF Sqes, Cqes
<1>6. inflight' = RemoveAt(inflight, i) /\ cq' = Append(cq, e) /\ UNCHANGED <<sq, cache, nextUd>>
  BY <1>3 DEF Post, python
<1> HIDE DEF e
<1> DEFINE l == <<e>>
<1>7. cq' = cq \o l /\ l \in Seq(Cqes) /\ UdsOf(l) = {inflight[i].ud}
  BY <1>4, <1>5, <1>6, AppendIsConcat DEF UdsOf
<1> HIDE DEF l
<1>8. UdsOf(cq \o l) = UdsOf(cq) \cup {inflight[i].ud}
  BY <1>4, <1>7, UdsConcat
<1>9. /\ UdsOf(inflight) = UdsOf(inflight') \cup {inflight[i].ud}
      /\ OwnershipInv => inflight[i].ud \notin UdsOf(inflight')
  BY <1>4, <1>6, UdsRemoveAt, KeysNotZero
<1> QED
  BY <1>6, <1>7, <1>8, <1>9

-----------------------------------------------------------------------------
(* Nothing is forgotten, and the proactor implements RequestLife.          *)

\* A step of the thread forgets no entry: it registers what it queues, and what it
\* consumes it has dropped.
LEMMA OwnerForgetsNothing ==
    ASSUME TypeOK, NothingForgotten, OwnerStep
    PROVE  NothingForgotten'
<1>1. PICK new \in SUBSET Nat, dropped \in SUBSET Nat :
         /\ Sends(new) /\ Consumes(dropped) /\ DOMAIN cache' = (DOMAIN cache \ dropped) \cup new
  BY DEF OwnerStep
<1>2. UdsOf(sq') \cup UdsOf(inflight') = UdsOf(sq) \cup UdsOf(inflight) \cup new
  BY <1>1 DEF Sends
<1>3. UdsOf(cq) \cap (DOMAIN cache \ dropped) \subseteq UdsOf(cq')
  <2>1. CASE cq' = cq
    BY <2>1
  <2>2. CASE cq # <<>> /\ cq' = Tail(cq) /\ DOMAIN cache \cap {Head(cq).ud} \subseteq dropped
    <3>1. UdsOf(cq) = UdsOf(Tail(cq)) \cup {Head(cq).ud}
      BY <2>2, UdsTail DEF TypeOK
    <3> QED
      BY <2>2, <3>1
  <2> QED
    BY <1>1, <2>1, <2>2 DEF Consumes
<1>4. DOMAIN cache \subseteq UdsOf(sq) \cup UdsOf(inflight) \cup UdsOf(cq)
  BY DEF NothingForgotten
<1>5. DOMAIN cache' \subseteq UdsOf(sq') \cup UdsOf(inflight') \cup UdsOf(cq')
  BY <1>1, <1>2, <1>3, <1>4
<1> QED
  BY <1>5 DEF NothingForgotten, UdsOf

\* Every entry of the table has a request queued, in flight or completed, whatever fails:
\* close(), which waits for the table to empty, never waits for an entry nobody will pop.
THEOREM NothingIsForgotten == Spec => []NothingForgotten
<1>1. Init => NothingForgotten
  BY DEF Init, NothingForgotten
<1>2. TypeOK /\ NothingForgotten /\ [Next]_vars => NothingForgotten'
  <2> SUFFICES ASSUME TypeOK, NothingForgotten, [Next]_vars PROVE NothingForgotten'
    OBVIOUS
  <2>1. CASE UNCHANGED vars
    <3>1. sq' = sq /\ inflight' = inflight /\ cq' = cq /\ cache' = cache
      BY <2>1 DEF vars, python, submitter, kernel
    <3> QED
      BY <3>1 DEF NothingForgotten, UdsOf
  <2>2. CASE StartPrepFails
    <3>1. /\ \E n \in 1 .. 2 : PrepWithin(n, <<Head(slots)>>)
          /\ cache' = cache /\ cq' = cq
      BY <2>2 DEF StartPrepFails, kernel
    <3>2. <<Head(slots)>> \in Seq(Sqes)
      <4>1. slots \in Seq(Sqes) /\ Len(slots) # 0
        BY EntriesAssumption DEF TypeOK
      <4>2. Head(slots) \in Sqes
        BY <4>1, HeadTailProperties
      <4> QED
        BY <4>2
    <3>3. Sends(UdsOf(<<Head(slots)>>))
      BY <3>1, <3>2, PrepSends
    <3>4. UdsOf(sq) \cup UdsOf(inflight) \subseteq UdsOf(sq') \cup UdsOf(inflight')
      BY <3>3 DEF Sends
    <3>5. DOMAIN cache \subseteq UdsOf(sq) \cup UdsOf(inflight) \cup UdsOf(cq)
      BY DEF NothingForgotten
    <3>6. DOMAIN cache' \subseteq UdsOf(sq') \cup UdsOf(inflight') \cup UdsOf(cq')
      BY <3>1, <3>4, <3>5
    <3> QED
      BY <3>6 DEF NothingForgotten, UdsOf
  <2>3. CASE Call /\ ~StartPrepFails
    BY <2>3, CallOwner, OwnerForgetsNothing
  <2>4. CASE LoopStep \/ LoopRaises
    BY <2>4, LoopOwner, CqeOwner, OwnerForgetsNothing DEF LoopStep, LoopRaises
  <2>5. CASE Completion
    <3>1. PICK i \in 1 .. Len(inflight) :
              /\ UdsOf(inflight) = UdsOf(inflight') \cup {inflight[i].ud}
              /\ UdsOf(cq') = UdsOf(cq) \cup {inflight[i].ud}
              /\ UNCHANGED <<sq, cache, nextUd>>
      BY <2>5, KernelMoves
    <3>2. DOMAIN cache \subseteq UdsOf(sq) \cup UdsOf(inflight) \cup UdsOf(cq)
      BY DEF NothingForgotten
    <3>3. sq' = sq /\ cache' = cache
      BY <3>1
    <3>4. DOMAIN cache' \subseteq UdsOf(sq') \cup UdsOf(inflight') \cup UdsOf(cq')
      BY <3>1, <3>2, <3>3
    <3> QED
      BY <3>4 DEF NothingForgotten, UdsOf
  <2>6. CASE Kernel /\ ~Completion
    <3>1. UNCHANGED <<sq, cq, cache, nextUd>> /\ UdsOf(inflight') = UdsOf(inflight)
      BY <2>6, MovedKeys
    <3>2. DOMAIN cache' \subseteq UdsOf(sq') \cup UdsOf(inflight') \cup UdsOf(cq')
      BY <3>1 DEF NothingForgotten, UdsOf
    <3> QED
      BY <3>2 DEF NothingForgotten, UdsOf
  <2> QED
    BY <2>1, <2>2, <2>3, <2>4, <2>5, <2>6 DEF Next
<1> QED
  BY <1>1, <1>2, TypeCorrect, PTL DEF Spec

\* Drawing keys from n up to m - 1: none was drawn before.
LEMMA DrawnGrows ==
    ASSUME NEW n \in Nat \ {0}, NEW m \in Nat, n <= m, NEW new \in SUBSET (n .. m - 1)
    PROVE  new \cap (1 .. n - 1) = {} /\ (1 .. n - 1) \cup new \subseteq 1 .. m - 1
<1>1. \A u \in n .. m - 1 : u \notin 1 .. n - 1 /\ u \in 1 .. m - 1
  OBVIOUS
<1>2. \A u \in 1 .. n - 1 : u \in 1 .. m - 1
  OBVIOUS
<1> QED
  BY <1>1, <1>2

\* A step of the thread is a step of the owner of requests.
LEMMA OwnerSimulates ==
    ASSUME TypeOK, OwnershipInv, OwnerStep
    PROVE  Life!Next
<1>1. PICK new \in SUBSET Nat, dropped \in SUBSET Nat :
         /\ new \subseteq nextUd .. nextUd' - 1 /\ nextUd' \in Nat /\ nextUd <= nextUd'
         /\ Sends(new) /\ Consumes(dropped) /\ DOMAIN cache' = (DOMAIN cache \ dropped) \cup new
  BY DEF OwnerStep
<1>2. PICK sent \in SUBSET UdsOf(sq), rest \in SUBSET UdsOf(sq) :
         /\ UdsOf(sq) = sent \cup rest /\ sent \cap rest = {}
         /\ UdsOf(sq') = rest \cup new /\ UdsOf(inflight') = UdsOf(inflight) \cup sent
  BY <1>1 DEF Sends
<1>3. nextUd \in Nat /\ cq \in Seq(Cqes)
  BY DEF TypeOK
<1>4. /\ new \cap (1 .. nextUd - 1) = {} /\ (1 .. nextUd - 1) \cup new \subseteq 1 .. nextUd' - 1
  <2>1. nextUd \in Nat \ {0} /\ nextUd' \in Nat /\ nextUd <= nextUd'
    BY <1>1 DEF TypeOK
  <2> QED
    BY <1>1, <2>1, DrawnGrows, Zenon
<1>5. \E gone \in SUBSET UdsOf(cq) :
         /\ UdsOf(cq') = UdsOf(cq) \ gone /\ dropped \subseteq UdsOf(cq)
         /\ gone \cap DOMAIN cache \subseteq dropped
  <2>1. CASE cq' = cq /\ dropped \subseteq UdsOf(cq)
    <3>1. UdsOf(cq') = UdsOf(cq) \ {} /\ {} \in SUBSET UdsOf(cq) /\ {} \cap DOMAIN cache \subseteq dropped
      BY <2>1
    <3> QED
      BY <2>1, <3>1
  <2>2. CASE /\ cq # <<>> /\ cq' = Tail(cq)
             /\ dropped \subseteq {Head(cq).ud} /\ DOMAIN cache \cap {Head(cq).ud} \subseteq dropped
    <3>1. /\ Head(cq).ud \in UdsOf(cq) /\ UdsOf(cq) = UdsOf(Tail(cq)) \cup {Head(cq).ud}
          /\ Head(cq).ud \notin UdsOf(Tail(cq))
      BY <1>3, <2>2, UdsTail, KeysNotZero
    <3>2. UdsOf(cq') = UdsOf(cq) \ {Head(cq).ud} /\ {Head(cq).ud} \in SUBSET UdsOf(cq)
      BY <2>2, <3>1
    <3> QED
      BY <2>2, <3>2
  <2> QED
    BY <1>1, <2>1, <2>2 DEF Consumes
<1>6. PICK gone \in SUBSET UdsOf(cq) :
         /\ UdsOf(cq') = UdsOf(cq) \ gone /\ dropped \subseteq UdsOf(cq)
         /\ gone \cap DOMAIN cache \subseteq dropped
  BY <1>5
<1>7. UdsOf(sq') = (UdsOf(sq) \ sent) \cup new
  BY <1>2
<1>8. Life!Owner(new, sent, gone, dropped)
  BY <1>1, <1>2, <1>4, <1>6, <1>7 DEF Life!Owner
<1>9. new \in SUBSET ((1 .. nextUd - 1)' \ (1 .. nextUd - 1))
  BY <1>4
<1> QED
  BY <1>2, <1>6, <1>8, <1>9 DEF Life!Next

\* A completion by the kernel is one of RequestLife.
LEMMA KernelSimulates ==
    ASSUME TypeOK, OwnershipInv, Completion
    PROVE  Life!Next
<1>1. PICK i \in 1 .. Len(inflight) :
          /\ UdsOf(inflight) = UdsOf(inflight') \cup {inflight[i].ud}
          /\ UdsOf(cq') = UdsOf(cq) \cup {inflight[i].ud}
          /\ inflight[i].ud \notin UdsOf(inflight')
          /\ UNCHANGED <<sq, cache, nextUd>>
  BY KernelMoves
<1>2. UdsOf(inflight') = UdsOf(inflight) \ {inflight[i].ud} /\ inflight[i].ud \in UdsOf(inflight)
  BY <1>1
<1>3. UdsOf(sq') = UdsOf(sq) /\ DOMAIN cache' = DOMAIN cache /\ 1 .. nextUd' - 1 = 1 .. nextUd - 1
  <2>1. sq' = sq /\ cache' = cache /\ nextUd' = nextUd
    BY <1>1
  <2> QED
    BY <2>1
<1>4. Life!Kernel(inflight[i].ud)
  BY <1>1, <1>2, <1>3 DEF Life!Kernel
<1> QED
  BY <1>2, <1>4 DEF Life!Next

\* The proactor keeps the promise of RequestLife for every value of the constants: each
\* call, cancellation, failed submission and completion draws keys once, sends and
\* consumes each request once, and frees its memory only after the kernel is done.
THEOREM ProactorImplements ==
    ASSUME ~PrepErrors
    PROVE  Spec => ImplementsLife
<1>1. Init => Life!Init
  BY DEF Init, Life!Init, UdsOf
<1>2. TypeOK /\ OwnershipInv /\ [Next]_vars => [Life!Next]_(Life!vars)
  <2> SUFFICES ASSUME TypeOK, OwnershipInv, [Next]_vars PROVE [Life!Next]_(Life!vars)
    OBVIOUS
  <2>1. CASE UNCHANGED vars
    <3>1. sq' = sq /\ inflight' = inflight /\ cq' = cq /\ cache' = cache /\ nextUd' = nextUd
      BY <2>1 DEF vars, python, submitter, kernel
    <3>2. UNCHANGED Life!vars
      BY <3>1 DEF Life!vars, UdsOf
    <3> QED
      BY <3>2
  <2>2. CASE StartPrepFails
    BY <2>2 DEF StartPrepFails
  <2>3. CASE Call /\ ~StartPrepFails
    BY <2>3, CallOwner, OwnerSimulates
  <2>4. CASE LoopStep \/ LoopRaises
    BY <2>4, LoopOwner, CqeOwner, OwnerSimulates DEF LoopStep, LoopRaises
  <2>5. CASE Completion
    BY <2>5, KernelSimulates
  <2>6. CASE Kernel /\ ~Completion
    <3>1. UNCHANGED <<sq, cq, cache, nextUd>> /\ UdsOf(inflight') = UdsOf(inflight)
      BY <2>6, MovedKeys
    <3>2. UNCHANGED Life!vars
      BY <3>1 DEF Life!vars, UdsOf
    <3> QED
      BY <3>2
  <2> QED
    BY <2>1, <2>2, <2>3, <2>4, <2>5, <2>6 DEF Next
<1> QED
  BY <1>1, <1>2, TypeCorrect, OwnershipInvariant, PTL DEF Spec, ImplementsLife, Life!Spec

=============================================================================
