------------------------------ MODULE KunaProofs ------------------------------
(***************************************************************************)
(* Kuna, for any number of sessions, processes, keys and callers.          *)
(*                                                                         *)
(* First what the two modules share: lists without an element, their       *)
(* lengths and their members.  These are the only proofs by induction; the *)
(* induction is over 0 .. n, from the well-foundedness of < on Nat.        *)
(*                                                                         *)
(* Then admission (KunaAdmission): what a pool of run slots has handed out *)
(* is exactly what runs hold or are being offered.  It is inductive only   *)
(* together with where each run is in its acquisition.                     *)
(*                                                                         *)
(* Then the project cache (KunaProjectCache).  FlowInvariant says who waits *)
(* for which build and why a build runs; StorageInvariant where the        *)
(* staging of a build is, and which lists name it.  Together they are      *)
(* inductive.  CloseInvariant adds that a Kuna which outlives its build is *)
(* retained by its process; it rests on sessions closing one at a time.    *)
(***************************************************************************)
EXTENDS KunaAdmission, KunaProjectCache, FiniteSetTheorems, SequenceTheorems,
        WellFoundedInduction, TLAPS

(* Induction over 0 .. n, for a set of the numbers that satisfy something.  *)
LEMMA IntervalInduction ==
    ASSUME NEW n \in Nat, NEW T, 0 \in T, \A i \in 0 .. n - 1 : i \in T => i + 1 \in T
    PROVE  \A i \in 0 .. n : i \in T
<1> DEFINE Missing == {i \in 0 .. n : i \notin T}
<1>1. SUFFICES ASSUME Missing # {}
               PROVE  FALSE
  OBVIOUS
<1>2. PICK m \in Missing : \A k \in Missing : ~(<<k, m>> \in OpToRel(<, Nat))
  <2>1. Missing \subseteq Nat
    OBVIOUS
  <2> HIDE DEF Missing
  <2>2. QED
    BY <1>1, <2>1, NatLessThanWellFounded, WFMin
<1>3. m \in 1 .. n /\ m - 1 \in 0 .. n - 1 /\ m \notin T
  OBVIOUS
<1>4. m - 1 \notin T
  BY <1>3
<1>5. m - 1 \in Missing /\ <<m - 1, m>> \in OpToRel(<, Nat)
  BY <1>3, <1>4 DEF OpToRel
<1>6. QED
  BY <1>2, <1>5

-----------------------------------------------------------------------------
(* The queue of a pool                                                      *)

(* What Without computes exists, step by step.                              *)
KeepsNext(queue, ts, kept, i) ==
    kept[i] = IF queue[i] \in ts THEN kept[i - 1] ELSE Append(kept[i - 1], queue[i])

LEMMA WithoutRecurs ==
    ASSUME NEW S, NEW queue \in Seq(S), NEW ts
    PROVE  \E kept : /\ Without(queue, ts) = kept[Len(queue)]
                     /\ kept[0] = <<>>
                     /\ \A i \in 1 .. Len(queue) : KeepsNext(queue, ts, kept, i)
<1> DEFINE n == Len(queue)
           Body(f) == [i \in 0 .. n |->
                         IF i = 0 THEN <<>>
                         ELSE IF queue[i] \in ts THEN f[i - 1] ELSE Append(f[i - 1], queue[i])]
           kept == CHOOSE f : f = Body(f)
           Reached == {m \in 0 .. n : \E f : /\ f = [i \in 0 .. m |-> f[i]] /\ f[0] = <<>>
                                             /\ \A i \in 1 .. m : KeepsNext(queue, ts, f, i)}
<1>1. n \in Nat
  BY LenProperties
<1>2. \A m \in 0 .. n : m \in Reached
  <2>1. 0 \in Reached
    <3> DEFINE g == [i \in 0 .. 0 |-> <<>>]
    <3>1. g = [i \in 0 .. 0 |-> g[i]] /\ g[0] = <<>>
      OBVIOUS
    <3> HIDE DEF g
    <3>2. /\ g = [i \in 0 .. 0 |-> g[i]] /\ g[0] = <<>>
          /\ \A i \in 1 .. 0 : KeepsNext(queue, ts, g, i)
      BY <3>1
    <3>3. QED
      BY <1>1, <3>2
  <2>2. ASSUME NEW m \in 0 .. n - 1, m \in Reached
        PROVE  m + 1 \in Reached
    <3>1. PICK f : /\ f = [i \in 0 .. m |-> f[i]] /\ f[0] = <<>>
                   /\ \A i \in 1 .. m : KeepsNext(queue, ts, f, i)
      BY <2>2
    <3> DEFINE next == IF queue[m + 1] \in ts THEN f[m] ELSE Append(f[m], queue[m + 1])
               g == [i \in 0 .. m + 1 |-> IF i <= m THEN f[i] ELSE next]
    <3>2. g[0] = <<>> /\ g = [i \in 0 .. m + 1 |-> g[i]]
      BY <1>1, <3>1
    <3>3. \A i \in 1 .. m + 1 : KeepsNext(queue, ts, g, i)
      <4>1. ASSUME NEW i \in 1 .. m
            PROVE  KeepsNext(queue, ts, g, i)
        <5>1. g[i] = f[i] /\ g[i - 1] = f[i - 1]
          BY <1>1
        <5>2. QED
          BY <3>1, <5>1 DEF KeepsNext
      <4>2. g[m + 1] = next /\ g[m] = f[m] /\ (m + 1) - 1 = m
        BY <1>1
      <4> HIDE DEF g
      <4>3. KeepsNext(queue, ts, g, m + 1)
        BY <4>2 DEF KeepsNext
      <4>4. QED
        BY <1>1, <4>1, <4>3
    <3> HIDE DEF g
    <3>4. m + 1 \in 0 .. n
      BY <1>1
    <3>5. QED
      BY <3>2, <3>3, <3>4
  <2> HIDE DEF Reached, n
  <2>3. QED
    BY <1>1, <2>1, <2>2, IntervalInduction
<1>3. PICK f : /\ f = [i \in 0 .. n |-> f[i]] /\ f[0] = <<>>
               /\ \A i \in 1 .. n : KeepsNext(queue, ts, f, i)
  BY <1>1, <1>2
<1>4. f = Body(f)
  <2>1. \A i \in 0 .. n : f[i] = Body(f)[i]
    BY <1>1, <1>3 DEF KeepsNext
  <2>2. f = [i \in 0 .. n |-> f[i]] /\ Body(f) = [i \in 0 .. n |-> Body(f)[i]]
    BY <1>3
  <2> HIDE DEF Body
  <2>3. QED
    BY <2>1, <2>2
<1>5. kept = Body(kept)
  BY <1>4
<1>6. Without(queue, ts) = kept[n]
  BY DEF Without
<1> HIDE DEF kept
<1>7. kept[0] = <<>>
  BY <1>1, <1>5
<1>8. ASSUME NEW i \in 1 .. n
      PROVE  KeepsNext(queue, ts, kept, i)
  <2>1. i \in 0 .. n /\ i # 0
    BY <1>1
  <2>2. kept[i] = IF queue[i] \in ts THEN kept[i - 1] ELSE Append(kept[i - 1], queue[i])
    BY <1>5, <2>1
  <2>3. QED
    BY <2>2 DEF KeepsNext
<1>9. QED
  BY <1>6, <1>7, <1>8

(* The elements of a sequence, and that it has no duplicates.               *)
In(x, q) == \E j \in 1 .. Len(q) : q[j] = x
NoDuplicates(q) == \A i, j \in 1 .. Len(q) : q[i] = q[j] => i = j

LEMMA AppendedElements ==
    ASSUME NEW S, NEW q \in Seq(S), NEW e \in S
    PROVE  /\ Append(q, e) \in Seq(S)
           /\ \A x : In(x, Append(q, e)) <=> In(x, q) \/ x = e
           /\ NoDuplicates(q) /\ ~In(e, q) => NoDuplicates(Append(q, e))
<1>1. /\ Append(q, e) \in Seq(S) /\ Len(q) \in Nat /\ Len(Append(q, e)) = Len(q) + 1
      /\ \A i \in 1 .. Len(q) : Append(q, e)[i] = q[i]
      /\ Append(q, e)[Len(q) + 1] = e
  BY AppendProperties, LenProperties
<1>2. ASSUME NEW x, In(x, Append(q, e))
      PROVE  In(x, q) \/ x = e
  BY <1>1, <1>2 DEF In
<1>3. ASSUME NEW x, In(x, q)
      PROVE  In(x, Append(q, e))
  <2>1. PICK i \in 1 .. Len(q) : q[i] = x
    BY <1>3 DEF In
  <2>2. i \in 1 .. Len(Append(q, e)) /\ Append(q, e)[i] = x
    BY <1>1, <2>1
  <2>3. QED
    BY <2>2 DEF In
<1>4. In(e, Append(q, e))
  <2>1. Len(q) + 1 \in 1 .. Len(Append(q, e))
    BY <1>1
  <2>2. QED
    BY <1>1, <2>1 DEF In
<1>5. ASSUME NoDuplicates(q), ~In(e, q)
      PROVE  NoDuplicates(Append(q, e))
  BY <1>1, <1>5 DEF NoDuplicates, In
<1>6. QED
  BY <1>1, <1>2, <1>3, <1>4, <1>5

(* What the first i rounds keep.                                            *)
Upto(x, queue, i) == \E j \in 1 .. i : queue[j] = x
KeptOf(queue, ts, S, kept, i) ==
    /\ kept \in Seq(S)
    /\ \A x : In(x, kept) <=> Upto(x, queue, i) /\ x \notin ts
    /\ NoDuplicates(queue) => NoDuplicates(kept)

LEMMA WithoutElements ==
    ASSUME NEW S, NEW queue \in Seq(S), NEW ts
    PROVE  /\ Without(queue, ts) \in Seq(S)
           /\ \A x : In(x, Without(queue, ts)) <=> In(x, queue) /\ x \notin ts
           /\ NoDuplicates(queue) => NoDuplicates(Without(queue, ts))
<1>1. PICK kept : /\ Without(queue, ts) = kept[Len(queue)]
                  /\ kept[0] = <<>>
                  /\ \A i \in 1 .. Len(queue) : KeepsNext(queue, ts, kept, i)
  BY WithoutRecurs
<1>2. Len(queue) \in Nat /\ \A i \in 1 .. Len(queue) : queue[i] \in S
  BY LenProperties, ElementOfSeq
<1> DEFINE Sound == {i \in 0 .. Len(queue) : KeptOf(queue, ts, S, kept[i], i)}
<1>3. KeptOf(queue, ts, S, <<>>, 0)
  <2>1. <<>> \in Seq(S) /\ NoDuplicates(<<>>) /\ \A x : ~In(x, <<>>)
    BY EmptySeq DEF NoDuplicates, In
  <2>2. \A x : ~Upto(x, queue, 0)
    BY DEF Upto
  <2>3. QED
    BY <2>1, <2>2 DEF KeptOf
<1>4. ASSUME NEW i \in 0 .. Len(queue) - 1, KeptOf(queue, ts, S, kept[i], i)
      PROVE  KeptOf(queue, ts, S, kept[i + 1], i + 1)
  <2> DEFINE e == queue[i + 1]
             k == kept[i]
  <2>1. i + 1 \in 1 .. Len(queue) /\ (i + 1) - 1 = i /\ i \in Nat /\ e \in S
    BY <1>2
  <2>2. kept[i + 1] = IF e \in ts THEN k ELSE Append(k, e)
    BY <1>1, <2>1 DEF KeepsNext
  <2>3. \A x : Upto(x, queue, i + 1) <=> Upto(x, queue, i) \/ x = e
    <3>1. \A j : j \in 1 .. i + 1 <=> j \in 1 .. i \/ j = i + 1
      BY <2>1
    <3>2. QED
      BY <3>1 DEF Upto
  <2>4. NoDuplicates(queue) => ~Upto(e, queue, i)
    BY <1>2, <2>1 DEF NoDuplicates, Upto
  <2>5. /\ k \in Seq(S) /\ \A x : In(x, k) <=> Upto(x, queue, i) /\ x \notin ts
        /\ NoDuplicates(queue) => NoDuplicates(k)
    BY <1>4 DEF KeptOf
  <2> HIDE DEF e, k
  <2>6. CASE e \in ts
    BY <2>2, <2>3, <2>5, <2>6 DEF KeptOf
  <2>7. CASE e \notin ts
    <3>1. /\ Append(k, e) \in Seq(S)
          /\ \A x : In(x, Append(k, e)) <=> In(x, k) \/ x = e
          /\ NoDuplicates(k) /\ ~In(e, k) => NoDuplicates(Append(k, e))
      BY <2>1, <2>5, AppendedElements
    <3>2. kept[i + 1] = Append(k, e)
      BY <2>2, <2>7
    <3>3. \A x : In(x, kept[i + 1]) <=> Upto(x, queue, i + 1) /\ x \notin ts
      BY <2>3, <2>5, <2>7, <3>1, <3>2
    <3>4. NoDuplicates(queue) => NoDuplicates(kept[i + 1])
      BY <2>4, <2>5, <3>1, <3>2
    <3>5. QED
      BY <3>1, <3>2, <3>3, <3>4 DEF KeptOf
  <2>8. QED
    BY <2>6, <2>7
<1>5. \A i \in 0 .. Len(queue) : i \in Sound
  <2>1. 0 \in Sound
    BY <1>1, <1>2, <1>3
  <2>2. \A i \in 0 .. Len(queue) - 1 : i \in Sound => i + 1 \in Sound
    <3>1. \A i \in 0 .. Len(queue) - 1 : i + 1 \in 0 .. Len(queue)
      BY <1>2
    <3>2. QED
      BY <1>4, <3>1
  <2> HIDE DEF Sound
  <2>3. QED
    BY <1>2, <2>1, <2>2, IntervalInduction
<1>6. KeptOf(queue, ts, S, kept[Len(queue)], Len(queue))
  BY <1>2, <1>5
<1>7. QED
  BY <1>1, <1>6 DEF KeptOf, Upto, In

LEMMA TailElements ==
    ASSUME NEW S, NEW q \in Seq(S), q # <<>>
    PROVE  /\ Tail(q) \in Seq(S) /\ Head(q) \in S /\ In(Head(q), q)
           /\ NoDuplicates(q) => /\ \A x : In(x, Tail(q)) <=> In(x, q) /\ x # Head(q)
                                 /\ NoDuplicates(Tail(q))
<1>1. /\ Tail(q) \in Seq(S) /\ Head(q) \in S /\ Head(q) = q[1]
      /\ Len(q) \in Nat /\ Len(q) >= 1 /\ Len(Tail(q)) = Len(q) - 1
      /\ \A i \in 1 .. Len(q) - 1 : Tail(q)[i] = q[i + 1]
  BY HeadTailProperties, LenProperties, EmptySeq
<1>2. In(Head(q), q)
  <2>1. 1 \in 1 .. Len(q)
    BY <1>1
  <2>2. QED
    BY <1>1, <2>1 DEF In
<1>3. ASSUME NoDuplicates(q)
      PROVE  NoDuplicates(Tail(q)) /\ \A x : In(x, Tail(q)) <=> In(x, q) /\ x # Head(q)
  <2>1. ASSUME NEW i \in 1 .. Len(q) - 1
        PROVE  i + 1 \in 1 .. Len(q) /\ Tail(q)[i] = q[i + 1] /\ q[i + 1] # Head(q)
    <3>1. i + 1 \in 1 .. Len(q) /\ 1 \in 1 .. Len(q) /\ i + 1 # 1
      BY <1>1
    <3>2. QED
      BY <1>1, <1>3, <3>1 DEF NoDuplicates
  <2>2. ASSUME NEW x, In(x, Tail(q))
        PROVE  In(x, q) /\ x # Head(q)
    BY <1>1, <2>1, <2>2 DEF In
  <2>3. ASSUME NEW x, In(x, q), x # Head(q)
        PROVE  In(x, Tail(q))
    <3>1. PICK i \in 1 .. Len(q) : q[i] = x
      BY <2>3 DEF In
    <3>2. i - 1 \in 1 .. Len(q) - 1 /\ (i - 1) + 1 = i
      BY <1>1, <2>3, <3>1
    <3>3. Tail(q)[i - 1] = x
      BY <1>1, <3>1, <3>2
    <3>4. QED
      BY <1>1, <3>2, <3>3 DEF In
  <2>4. NoDuplicates(Tail(q))
    <3>1. SUFFICES ASSUME NEW i \in 1 .. Len(q) - 1, NEW j \in 1 .. Len(q) - 1,
                          Tail(q)[i] = Tail(q)[j]
                   PROVE  i = j
      BY <1>1 DEF NoDuplicates
    <3>2. i + 1 = j + 1
      BY <1>3, <2>1, <3>1 DEF NoDuplicates
    <3>3. QED
      BY <3>2
  <2>5. QED
    BY <2>2, <2>3, <2>4
<1>4. QED
  BY <1>1, <1>2, <1>3

LEMMA NonemptyQueue ==
    ASSUME NEW S, NEW q \in Seq(S)
    PROVE  q # <<>> <=> \E x : In(x, q)
<1>1. CASE q = <<>>
  <2>1. Len(q) = 0
    BY <1>1, EmptySeq
  <2>2. QED
    BY <1>1, <2>1 DEF In
<1>2. CASE q # <<>>
  BY <1>2, TailElements
<1>3. QED
  BY <1>1, <1>2

-----------------------------------------------------------------------------
(* The operations of a pool                                                 *)

(* What the soundness of a pool says in terms of its queue.                 *)
LEMMA SoundPool ==
    ASSUME NEW s, NEW capacity
    PROVE  SlotsSound(s, capacity) <=>
              /\ s.active = Cardinality(Holders(s))
              /\ \A t \in Tickets : s.ticket[t] = "waiting" <=> In(t, s.waiting)
              /\ NoDuplicates(s.waiting)
              /\ s.active <= capacity
              /\ s.waiting # <<>> => s.active = capacity
BY DEF SlotsSound, CountsTheHeld, QueuesTheWaiting, WithinCapacity, In, NoDuplicates

LEMMA HoldersFinite ==
    ASSUME NEW s
    PROVE  IsFiniteSet(Holders(s)) /\ Cardinality(Holders(s)) \in Nat
<1>1. Holders(s) \subseteq Tickets
  BY DEF Holders
<1>2. QED
  BY <1>1, TicketsAssumption, FS_Subset, FS_CardinalityType

(* One more holder, and one fewer.                                          *)
LEMMA HolderAdded ==
    ASSUME NEW s, NEW z, NEW t \in Tickets, s.ticket[t] # "held", z.ticket[t] = "held",
           \A u \in Tickets \ {t} : z.ticket[u] = s.ticket[u]
    PROVE  Cardinality(Holders(z)) = Cardinality(Holders(s)) + 1
<1>1. Holders(z) = Holders(s) \cup {t} /\ t \notin Holders(s)
  BY DEF Holders
<1>2. QED
  BY <1>1, HoldersFinite, FS_AddElement

LEMMA HolderRemoved ==
    ASSUME NEW s, NEW z, NEW t \in Tickets, s.ticket[t] = "held", z.ticket[t] # "held",
           \A u \in Tickets \ {t} : z.ticket[u] = s.ticket[u]
    PROVE  Cardinality(Holders(z)) = Cardinality(Holders(s)) - 1
<1>1. Holders(z) = Holders(s) \ {t} /\ t \in Holders(s)
  BY DEF Holders
<1>2. QED
  BY <1>1, HoldersFinite, FS_RemoveElement

(* One field of a pool replaced.                                            *)
LEMMA PoolFields ==
    ASSUME NEW s, NEW v, s = [active |-> s.active, waiting |-> s.waiting, ticket |-> s.ticket]
    PROVE  /\ [s EXCEPT !.active = v] = [active |-> v, waiting |-> s.waiting, ticket |-> s.ticket]
           /\ [s EXCEPT !.waiting = v] = [active |-> s.active, waiting |-> v, ticket |-> s.ticket]
           /\ [s EXCEPT !.ticket = v] = [active |-> s.active, waiting |-> s.waiting, ticket |-> v]
OBVIOUS

(* A call of `acquire` keeps the pool sound, and concerns its own ticket.   *)
LEMMA AcquiredPool ==
    ASSUME NEW s \in Slots, NEW capacity \in Nat, NEW t \in Tickets,
           SlotsSound(s, capacity), s.ticket[t] = "none"
    PROVE  /\ Acquired(s, capacity, t) \in Slots
           /\ SlotsSound(Acquired(s, capacity, t), capacity)
           /\ Acquired(s, capacity, t).ticket[t] \in {"waiting", "held"}
           /\ \A u \in Tickets \ {t} : Acquired(s, capacity, t).ticket[u] = s.ticket[u]
<1> DEFINE z == Acquired(s, capacity, t)
<1>1. /\ s.active \in Nat /\ s.waiting \in Seq(Tickets) /\ s.ticket \in [Tickets -> TicketState]
      /\ s = [active |-> s.active, waiting |-> s.waiting, ticket |-> s.ticket]
  BY DEF Slots
<1>2. /\ s.active = Cardinality(Holders(s)) /\ NoDuplicates(s.waiting)
      /\ \A u \in Tickets : s.ticket[u] = "waiting" <=> In(u, s.waiting)
      /\ s.active <= capacity
      /\ s.waiting # <<>> => s.active = capacity
  BY SoundPool
<1>3. CASE s.active < capacity
  <2>1. z = [active |-> s.active + 1, waiting |-> s.waiting,
             ticket |-> [s.ticket EXCEPT ![t] = "held"]]
    BY <1>1, <1>3 DEF Acquired
  <2>2. z \in Slots
    BY <1>1, <2>1 DEF Slots, TicketState
  <2>3. z.ticket[t] = "held" /\ \A u \in Tickets \ {t} : z.ticket[u] = s.ticket[u]
    BY <1>1, <2>1
  <2>4. z.active = Cardinality(Holders(z))
    <3>1. z.active = s.active + 1 /\ s.ticket[t] # "held"
      BY <2>1
    <3> HIDE DEF z
    <3>2. Cardinality(Holders(z)) = Cardinality(Holders(s)) + 1
      BY <2>3, <3>1, HolderAdded
    <3>3. QED
      BY <1>2, <3>1, <3>2
  <2>5. \A u \in Tickets : z.ticket[u] = "waiting" <=> In(u, z.waiting)
    BY <1>2, <2>1, <2>3
  <2>6. z.active <= capacity /\ z.waiting = <<>> /\ NoDuplicates(z.waiting)
    BY <1>1, <1>2, <1>3, <2>1
  <2> HIDE DEF z
  <2>7. QED
    BY <2>2, <2>3, <2>4, <2>5, <2>6, SoundPool DEF z
<1>4. CASE ~(s.active < capacity)
  <2>1. z = [active |-> s.active, waiting |-> Append(s.waiting, t),
             ticket |-> [s.ticket EXCEPT ![t] = "waiting"]]
    BY <1>1, <1>4 DEF Acquired
  <2>2. /\ Append(s.waiting, t) \in Seq(Tickets)
        /\ \A x : In(x, Append(s.waiting, t)) <=> In(x, s.waiting) \/ x = t
        /\ NoDuplicates(Append(s.waiting, t))
    BY <1>1, <1>2, AppendedElements
  <2>3. z \in Slots
    BY <1>1, <2>1, <2>2 DEF Slots, TicketState
  <2>4. z.ticket[t] = "waiting" /\ \A u \in Tickets \ {t} : z.ticket[u] = s.ticket[u]
    BY <1>1, <2>1
  <2>5. Holders(z) = Holders(s)
    BY <2>4 DEF Holders
  <2>6. \A u \in Tickets : z.ticket[u] = "waiting" <=> In(u, z.waiting)
    BY <1>2, <2>1, <2>2, <2>4
  <2>7. z.active = capacity
    BY <1>1, <1>2, <1>4, <2>1
  <2>8. z.active = Cardinality(Holders(z)) /\ NoDuplicates(z.waiting)
    BY <1>2, <2>1, <2>2, <2>5
  <2> HIDE DEF z
  <2>9. QED
    BY <2>3, <2>4, <2>6, <2>7, <2>8, SoundPool DEF z
<1>5. QED
  BY <1>3, <1>4

(* An abort takes only tickets that wait, out of the queue.                 *)
LEMMA AbortedPool ==
    ASSUME NEW s \in Slots, NEW capacity \in Nat, NEW ts, SlotsSound(s, capacity)
    PROVE  /\ Aborted(s, ts) \in Slots
           /\ SlotsSound(Aborted(s, ts), capacity)
           /\ Aborted(s, ts).ticket = GiveUp(s.ticket, ts)
<1> DEFINE z == Aborted(s, ts)
<1>1. /\ s.active \in Nat /\ s.waiting \in Seq(Tickets) /\ s.ticket \in [Tickets -> TicketState]
      /\ s = [active |-> s.active, waiting |-> s.waiting, ticket |-> s.ticket]
  BY DEF Slots
<1>2. /\ s.active = Cardinality(Holders(s)) /\ NoDuplicates(s.waiting)
      /\ \A u \in Tickets : s.ticket[u] = "waiting" <=> In(u, s.waiting)
      /\ s.active <= capacity
      /\ s.waiting # <<>> => s.active = capacity
  BY SoundPool
<1>3. z = [active |-> s.active, waiting |-> Without(s.waiting, ts),
           ticket |-> GiveUp(s.ticket, ts)]
  <2> DEFINE y == [s EXCEPT !.waiting = Without(s.waiting, ts)]
  <2>1. y = [active |-> s.active, waiting |-> Without(s.waiting, ts), ticket |-> s.ticket]
    BY <1>1, PoolFields
  <2>2. z = [y EXCEPT !.ticket = GiveUp(s.ticket, ts)]
    BY DEF Aborted
  <2> HIDE DEF y, z
  <2>3. QED
    BY <2>1, <2>2, PoolFields
<1>4. /\ Without(s.waiting, ts) \in Seq(Tickets)
      /\ \A x : In(x, Without(s.waiting, ts)) <=> In(x, s.waiting) /\ x \notin ts
      /\ NoDuplicates(Without(s.waiting, ts))
  BY <1>1, <1>2, WithoutElements
<1>5. z \in Slots
  BY <1>1, <1>3, <1>4 DEF Slots, GiveUp, TicketState
<1>6. Holders(z) = Holders(s)
  BY <1>3 DEF Holders, GiveUp
<1>7. \A u \in Tickets : z.ticket[u] = "waiting" <=> In(u, z.waiting)
  BY <1>2, <1>3, <1>4 DEF GiveUp
<1>8. z.waiting # <<>> => s.waiting # <<>>
  BY <1>1, <1>3, <1>4, NonemptyQueue
<1>9. /\ z.active = Cardinality(Holders(z)) /\ NoDuplicates(z.waiting)
      /\ z.active <= capacity
      /\ z.waiting # <<>> => z.active = capacity
  BY <1>2, <1>3, <1>4, <1>6, <1>8
<1>10. z.ticket = GiveUp(s.ticket, ts)
  BY <1>3
<1> HIDE DEF z
<1>11. SlotsSound(z, capacity)
  BY <1>7, <1>9, SoundPool
<1>12. QED
  BY <1>5, <1>10, <1>11 DEF z

(* A release passes its slot on, to a ticket that waits if there is one.    *)
LEMMA ReleasedPool ==
    ASSUME NEW s \in Slots, NEW capacity \in Nat, NEW t \in Tickets, SlotsSound(s, capacity)
    PROVE  /\ Released(s, t) \in Slots
           /\ SlotsSound(Released(s, t), capacity)
           /\ Released(s, t).ticket[t] = IF s.ticket[t] = "held" THEN "released" ELSE s.ticket[t]
           /\ \A u \in Tickets \ {t} :
                 \/ Released(s, t).ticket[u] = s.ticket[u]
                 \/ s.ticket[u] = "waiting" /\ Released(s, t).ticket[u] = "held"
<1> DEFINE m == [s EXCEPT !.active = @ - 1, !.ticket[t] = "released"]
           z == Granted(m)
<1>1. /\ s.active \in Nat /\ s.waiting \in Seq(Tickets) /\ s.ticket \in [Tickets -> TicketState]
      /\ s = [active |-> s.active, waiting |-> s.waiting, ticket |-> s.ticket]
  BY DEF Slots
<1>2. /\ s.active = Cardinality(Holders(s)) /\ NoDuplicates(s.waiting)
      /\ \A u \in Tickets : s.ticket[u] = "waiting" <=> In(u, s.waiting)
      /\ s.active <= capacity
      /\ s.waiting # <<>> => s.active = capacity
  BY SoundPool
<1>3. CASE s.ticket[t] # "held"
  BY <1>3 DEF Released
<1>4. CASE s.ticket[t] = "held"
  <2>1. Released(s, t) = z
    BY <1>4 DEF Released
  <2>2. m = [active |-> s.active - 1, waiting |-> s.waiting,
             ticket |-> [s.ticket EXCEPT ![t] = "released"]]
    <3> DEFINE y == [s EXCEPT !.active = s.active - 1]
    <3>1. y = [active |-> s.active - 1, waiting |-> s.waiting, ticket |-> s.ticket]
      BY <1>1, PoolFields
    <3>2. m = [y EXCEPT !.ticket = [y.ticket EXCEPT ![t] = "released"]]
      OBVIOUS
    <3> HIDE DEF y, m
    <3>3. y.ticket = s.ticket
      BY <3>1
    <3>4. QED
      BY <3>1, <3>2, <3>3, PoolFields
  <2>3. m.ticket[t] = "released" /\ \A u \in Tickets \ {t} : m.ticket[u] = s.ticket[u]
    BY <1>1, <2>2
  <2>4. m.active = Cardinality(Holders(m)) /\ m.active \in Nat /\ m.active < capacity
    <3>1. m.active = s.active - 1 /\ m.ticket[t] # "held"
      BY <2>2, <2>3
    <3> HIDE DEF m
    <3>2. Cardinality(Holders(m)) = Cardinality(Holders(s)) - 1
      BY <1>4, <2>3, <3>1, HolderRemoved
    <3>3. Cardinality(Holders(m)) \in Nat
      BY HoldersFinite
    <3>4. QED
      BY <1>1, <1>2, <3>1, <3>2, <3>3
  <2>5. m.ticket \in [Tickets -> TicketState]
    BY <1>1, <2>2 DEF TicketState
  <2>6. \A u \in Tickets : m.ticket[u] = "waiting" <=> In(u, s.waiting)
    BY <1>2, <1>4, <2>3
  <2> HIDE DEF m
  <2>7. CASE s.waiting = <<>>
    <3>1. z = m
      BY <2>2, <2>7 DEF Granted
    <3>2. z \in Slots
      BY <1>1, <2>2, <2>4, <2>5, <3>1 DEF Slots
    <3>3. SlotsSound(m, capacity)
      BY <1>1, <1>2, <2>2, <2>4, <2>6, <2>7, SoundPool
    <3>4. QED
      BY <1>4, <2>1, <2>3, <3>1, <3>2, <3>3
  <2>8. CASE s.waiting # <<>>
    <3> DEFINE h == Head(s.waiting)
    <3>1. /\ Tail(s.waiting) \in Seq(Tickets) /\ h \in Tickets /\ In(h, s.waiting)
          /\ \A x : In(x, Tail(s.waiting)) <=> In(x, s.waiting) /\ x # h
          /\ NoDuplicates(Tail(s.waiting))
      BY <1>1, <1>2, <2>8, TailElements
    <3> HIDE DEF h
    <3>2. z = [active |-> m.active + 1, waiting |-> Tail(s.waiting),
               ticket |-> [m.ticket EXCEPT ![h] = "held"]]
      BY <2>2, <2>8 DEF Granted, h
    <3>3. z \in Slots
      BY <2>4, <2>5, <3>1, <3>2 DEF Slots, TicketState
    <3>4. z.ticket[h] = "held" /\ \A u \in Tickets \ {h} : z.ticket[u] = m.ticket[u]
      BY <2>5, <3>1, <3>2
    <3>5. m.ticket[h] = "waiting" /\ h # t /\ s.ticket[h] = "waiting"
      BY <1>2, <1>4, <2>3, <2>6, <3>1
    <3>6. z.active = Cardinality(Holders(z))
      <4>1. z.active = m.active + 1 /\ m.ticket[h] # "held"
        BY <3>2, <3>5
      <4> HIDE DEF z
      <4>2. Cardinality(Holders(z)) = Cardinality(Holders(m)) + 1
        BY <3>1, <3>4, <4>1, HolderAdded
      <4>3. QED
        BY <2>4, <4>1, <4>2
    <3>7. z.active = capacity /\ z.active <= capacity
      BY <1>1, <1>2, <2>2, <2>8, <3>2
    <3>8. \A u \in Tickets : z.ticket[u] = "waiting" <=> In(u, z.waiting)
      BY <2>6, <3>1, <3>2, <3>4
    <3>9. NoDuplicates(z.waiting)
      BY <3>1, <3>2
    <3> HIDE DEF z
    <3>10. SlotsSound(z, capacity)
      BY <3>6, <3>7, <3>8, <3>9, SoundPool
    <3>11. \A u \in Tickets \ {t} : \/ z.ticket[u] = s.ticket[u]
                                    \/ s.ticket[u] = "waiting" /\ z.ticket[u] = "held"
      BY <2>3, <3>1, <3>4, <3>5
    <3>12. z.ticket[t] = "released"
      BY <2>3, <3>4, <3>5
    <3>13. QED
      BY <1>4, <2>1, <3>3, <3>10, <3>11, <3>12
  <2>9. QED
    BY <2>7, <2>8
<1>5. QED
  BY <1>3, <1>4

-----------------------------------------------------------------------------
(* The runs                                                                 *)

FrontTicket(r) == slots[Foreground].ticket[r]
NativeTicket(r) == slots[Native(r)].ticket[r]

(* Where a run is says which tickets it has.                                *)
TicketsFollowRun(r) ==
    /\ r \in Lookups => NativeTicket(r) = "none"
    /\ step[r] = "idle" => FrontTicket(r) = "none" /\ NativeTicket(r) = "none"
    /\ step[r] = "native" =>
          r \in Queries /\ FrontTicket(r) = "none"
          /\ NativeTicket(r) \in {"waiting", "held", "aborted"}
    /\ step[r] = "foreground" => FrontTicket(r) \in {"waiting", "held", "aborted"}
    /\ step[r] = "yielding" => r \in Lookups /\ FrontTicket(r) \in {"held", "aborted"}
    /\ step[r] \in {"running", "retained"} => FrontTicket(r) = "held"
    /\ step[r] \in {"foreground", "running", "retained"} /\ r \in Queries =>
          NativeTicket(r) = "held"
    /\ step[r] \in {"thrown", "done"} =>
          FrontTicket(r) \notin {"waiting", "held"} /\ NativeTicket(r) \notin {"waiting", "held"}

ClosedSessionsAreOver ==
    \A r \in Runs : SessionOf[r] \in closed => step[r] \in {"idle", "done"}

AdmissionInvariant ==
    /\ AdmissionTypeOK
    /\ PoolsAreSound
    /\ \A r \in Runs : TicketsFollowRun(r)
    /\ ClosedSessionsAreOver

(* What happens to a ticket on somebody else's account.                     *)
Passes(old, new) == new = old \/ (old = "waiting" /\ new \in {"held", "aborted"})

LEMMA AdmissionConstants ==
    /\ Tickets = Runs /\ Foreground \in Pools /\ \A p \in Pools : Capacity(p) \in Nat
    /\ \A r \in Runs : Native(r) \in Pools /\ Native(r) # Foreground /\ PoolsOf(r) \subseteq Pools
    /\ \A r \in Runs : SessionOf[r] \in Sessions
    /\ \A r \in Runs : r \in Lookups <=> r \notin Queries
BY AdmissionAssumption DEF Pools, Capacity, Native, PoolsOf, Runs

LEMMA PoolTypes ==
    ASSUME AdmissionTypeOK, NEW p \in Pools
    PROVE  slots[p] \in Slots /\ slots[p].ticket \in [Runs -> TicketState]
BY AdmissionConstants DEF AdmissionTypeOK, Slots

(* A run that the step is not about keeps its place.                        *)
LEMMA OtherRunFollows ==
    ASSUME NEW q \in Runs, TicketsFollowRun(q), step'[q] = step[q],
           Passes(FrontTicket(q), FrontTicket(q)'), Passes(NativeTicket(q), NativeTicket(q)')
    PROVE  TicketsFollowRun(q)'
BY DEF TicketsFollowRun, Passes

LEMMA AcquiringPool ==
    ASSUME AdmissionTypeOK, PoolsAreSound, NEW p \in Pools, NEW r \in Runs,
           slots[p].ticket[r] = "none", AcquireIn(p, r)
    PROVE  /\ slots' \in [Pools -> Slots] /\ PoolsAreSound'
           /\ slots'[p].ticket[r] \in {"waiting", "held"}
           /\ \A o \in Pools, q \in Runs :
                 o # p \/ q # r => slots'[o].ticket[q] = slots[o].ticket[q]
<1> DEFINE z == Acquired(slots[p], Capacity(p), r)
<1>1. /\ z \in Slots /\ SlotsSound(z, Capacity(p)) /\ z.ticket[r] \in {"waiting", "held"}
      /\ \A u \in Runs \ {r} : z.ticket[u] = slots[p].ticket[u]
  BY AdmissionConstants, PoolTypes, AcquiredPool DEF PoolsAreSound
<1>2. slots' = [slots EXCEPT ![p] = z] /\ slots \in [Pools -> Slots]
  BY DEF AcquireIn, AdmissionTypeOK
<1> HIDE DEF z
<1>3. slots'[p] = z /\ \A o \in Pools \ {p} : slots'[o] = slots[o]
  BY <1>2
<1>4. slots' \in [Pools -> Slots]
  BY <1>1, <1>2
<1>5. PoolsAreSound'
  BY <1>1, <1>3 DEF PoolsAreSound
<1>6. QED
  BY <1>1, <1>3, <1>4, <1>5

LEMMA ReleasingPools ==
    ASSUME AdmissionTypeOK, PoolsAreSound, NEW r \in Runs, ReleaseRun(r)
    PROVE  /\ slots' \in [Pools -> Slots] /\ PoolsAreSound'
           /\ \A p \in PoolsOf(r) :
                 slots'[p].ticket[r] = IF slots[p].ticket[r] = "held" THEN "released"
                                       ELSE slots[p].ticket[r]
           /\ \A p \in Pools \ PoolsOf(r) : slots'[p].ticket[r] = slots[p].ticket[r]
           /\ \A p \in Pools, q \in Runs \ {r} : Passes(slots[p].ticket[q], slots'[p].ticket[q])
<1>1. ASSUME NEW p \in Pools
      PROVE  /\ Released(slots[p], r) \in Slots /\ SlotsSound(Released(slots[p], r), Capacity(p))
             /\ Released(slots[p], r).ticket[r] =
                   IF slots[p].ticket[r] = "held" THEN "released" ELSE slots[p].ticket[r]
             /\ \A q \in Runs \ {r} : Passes(slots[p].ticket[q], Released(slots[p], r).ticket[q])
             /\ slots[p] \in Slots /\ SlotsSound(slots[p], Capacity(p))
  <2>1. /\ slots[p] \in Slots /\ SlotsSound(slots[p], Capacity(p))
        /\ Capacity(p) \in Nat /\ Tickets = Runs
    BY AdmissionConstants, PoolTypes DEF PoolsAreSound
  <2> DEFINE z == Released(slots[p], r)
  <2>2. /\ z \in Slots /\ SlotsSound(z, Capacity(p))
        /\ z.ticket[r] = IF slots[p].ticket[r] = "held" THEN "released" ELSE slots[p].ticket[r]
        /\ \A q \in Runs \ {r} : \/ z.ticket[q] = slots[p].ticket[q]
                                 \/ slots[p].ticket[q] = "waiting" /\ z.ticket[q] = "held"
    BY <2>1, ReleasedPool
  <2> HIDE DEF z
  <2>3. \A q \in Runs \ {r} : Passes(slots[p].ticket[q], z.ticket[q])
    BY <2>2 DEF Passes
  <2>4. QED
    BY <2>1, <2>2, <2>3 DEF z
<1>2. /\ slots' = [p \in Pools |-> IF p \in PoolsOf(r) THEN Released(slots[p], r) ELSE slots[p]]
      /\ PoolsOf(r) \subseteq Pools
  BY AdmissionConstants DEF ReleaseRun
<1>3. /\ \A p \in PoolsOf(r) : slots'[p] = Released(slots[p], r)
      /\ \A p \in Pools \ PoolsOf(r) : slots'[p] = slots[p]
  BY <1>2
<1>4. slots' \in [Pools -> Slots]
  BY <1>1, <1>2
<1>5. PoolsAreSound'
  BY <1>1, <1>3 DEF PoolsAreSound
<1>6. \A p \in Pools, q \in Runs \ {r} : Passes(slots[p].ticket[q], slots'[p].ticket[q])
  BY <1>1, <1>3 DEF Passes
<1>7. QED
  BY <1>1, <1>2, <1>3, <1>4, <1>5, <1>6

LEMMA AbortedPools ==
    ASSUME AdmissionTypeOK, PoolsAreSound, NEW ps, NEW rs,
           slots' = [p \in Pools |-> IF p \in ps THEN Aborted(slots[p], rs) ELSE slots[p]]
    PROVE  /\ slots' \in [Pools -> Slots] /\ PoolsAreSound'
           /\ \A p \in Pools \cap ps, q \in Runs :
                 slots'[p].ticket[q] = GiveUp(slots[p].ticket, rs)[q]
           /\ \A p \in Pools, q \in Runs : Passes(slots[p].ticket[q], slots'[p].ticket[q])
<1>1. ASSUME NEW p \in Pools
      PROVE  /\ Aborted(slots[p], rs) \in Slots /\ SlotsSound(Aborted(slots[p], rs), Capacity(p))
             /\ Aborted(slots[p], rs).ticket = GiveUp(slots[p].ticket, rs)
             /\ slots[p] \in Slots /\ SlotsSound(slots[p], Capacity(p))
  BY AdmissionConstants, PoolTypes, AbortedPool DEF PoolsAreSound
<1>2. /\ \A p \in Pools \cap ps : slots'[p] = Aborted(slots[p], rs)
      /\ \A p \in Pools \ ps : slots'[p] = slots[p]
  OBVIOUS
<1>3. slots' \in [Pools -> Slots]
  BY <1>1
<1>4. PoolsAreSound'
  BY <1>1, <1>2 DEF PoolsAreSound
<1>5. \A p \in Pools \cap ps : slots'[p].ticket = GiveUp(slots[p].ticket, rs)
  BY <1>1, <1>2
<1>6. \A p \in Pools, q \in Runs : Passes(slots[p].ticket[q], slots'[p].ticket[q])
  <2>1. ASSUME NEW p \in Pools \cap ps, NEW q \in Runs
        PROVE  Passes(slots[p].ticket[q], slots'[p].ticket[q])
    <3>1. slots'[p].ticket[q] = GiveUp(slots[p].ticket, rs)[q] /\ q \in Tickets
      BY <1>5, <2>1, AdmissionConstants
    <3>2. QED
      BY <3>1 DEF Passes, GiveUp
  <2>2. QED
    BY <1>2, <2>1 DEF Passes
<1>7. QED
  BY <1>3, <1>4, <1>5, <1>6

(* A step of one run keeps the invariant when it keeps the run's part of it. *)
LEMMA RunStepKeeps ==
    ASSUME AdmissionInvariant, NEW r \in Runs, NEW to \in Steps, Goto(r, to),
           slots' \in [Pools -> Slots], PoolsAreSound',
           \A p \in Pools, q \in Runs \ {r} : Passes(slots[p].ticket[q], slots'[p].ticket[q]),
           TicketsFollowRun(r)', SessionOf[r] \in closed => to = "done",
           UNCHANGED <<aborted, exported, closing, closed>>
    PROVE  AdmissionInvariant'
<1>1. /\ step' = [step EXCEPT ![r] = to] /\ step \in [Runs -> Steps]
      /\ step'[r] = to /\ \A q \in Runs \ {r} : step'[q] = step[q]
  BY DEF Goto, AdmissionInvariant, AdmissionTypeOK
<1>2. AdmissionTypeOK'
  BY <1>1 DEF AdmissionInvariant, AdmissionTypeOK
<1>3. ASSUME NEW q \in Runs \ {r}
      PROVE  TicketsFollowRun(q)'
  <2>1. Passes(FrontTicket(q), FrontTicket(q)') /\ Passes(NativeTicket(q), NativeTicket(q)')
    BY <1>3, AdmissionConstants DEF FrontTicket, NativeTicket, Native
  <2>2. QED
    BY <1>1, <2>1, OtherRunFollows DEF AdmissionInvariant
<1>4. ClosedSessionsAreOver'
  BY <1>1 DEF AdmissionInvariant, ClosedSessionsAreOver
<1>5. QED
  BY <1>2, <1>3, <1>4 DEF AdmissionInvariant

(* A run that gives its slots back is past waiting for them.                *)
LEMMA ReleasingRun ==
    ASSUME AdmissionInvariant, NEW r \in Runs, ReleaseRun(r), NEW to \in {"thrown", "done"},
           Goto(r, to), FrontTicket(r) # "waiting", NativeTicket(r) # "waiting",
           SessionOf[r] \in closed => to = "done",
           UNCHANGED <<aborted, exported, closing, closed>>
    PROVE  AdmissionInvariant'
<1>1. /\ slots' \in [Pools -> Slots] /\ PoolsAreSound'
      /\ \A p \in PoolsOf(r) :
            slots'[p].ticket[r] = IF slots[p].ticket[r] = "held" THEN "released"
                                  ELSE slots[p].ticket[r]
      /\ \A p \in Pools \ PoolsOf(r) : slots'[p].ticket[r] = slots[p].ticket[r]
      /\ \A p \in Pools, q \in Runs \ {r} : Passes(slots[p].ticket[q], slots'[p].ticket[q])
  BY ReleasingPools DEF AdmissionInvariant
<1>2. FrontTicket(r)' \notin {"waiting", "held"}
  BY <1>1, AdmissionConstants DEF PoolsOf, FrontTicket
<1>3. CASE r \in Queries
  <2>1. NativeTicket(r)' \notin {"waiting", "held"}
    BY <1>1, <1>3, AdmissionConstants DEF PoolsOf, NativeTicket, Native
  <2>2. TicketsFollowRun(r)'
    BY <1>2, <1>3, <2>1, AdmissionConstants
    DEF TicketsFollowRun, Goto, AdmissionInvariant, AdmissionTypeOK
  <2>3. QED
    BY <1>1, <2>2, RunStepKeeps DEF Steps
<1>4. CASE r \in Lookups
  <2>1. NativeTicket(r)' = "none"
    <3>1. NativeTicket(r) = "none" /\ Native(r) \in Pools \ PoolsOf(r)
      BY <1>4, AdmissionConstants DEF AdmissionInvariant, TicketsFollowRun, PoolsOf
    <3>2. QED
      BY <1>1, <3>1 DEF NativeTicket, Native
  <2>2. TicketsFollowRun(r)'
    BY <1>2, <1>4, <2>1, AdmissionConstants
    DEF TicketsFollowRun, Goto, AdmissionInvariant, AdmissionTypeOK
  <2>3. QED
    BY <1>1, <2>2, RunStepKeeps DEF Steps
<1>5. QED
  BY <1>3, <1>4 DEF Runs

(* A run that moves on and leaves the pools alone.                          *)
LEMMA StayingRun ==
    ASSUME AdmissionInvariant, NEW r \in Runs, NEW to \in Steps, Goto(r, to),
           TicketsFollowRun(r)', SessionOf[r] \in closed => to = "done",
           UNCHANGED <<slots, aborted, exported, closing, closed>>
    PROVE  AdmissionInvariant'
<1>1. /\ slots' \in [Pools -> Slots] /\ PoolsAreSound'
      /\ \A p \in Pools, q \in Runs \ {r} : Passes(slots[p].ticket[q], slots'[p].ticket[q])
  BY DEF AdmissionInvariant, AdmissionTypeOK, PoolsAreSound, Passes
<1>2. QED
  BY <1>1, RunStepKeeps

LEMMA AdmissionStart == AdmissionInit => AdmissionInvariant
<1> SUFFICES ASSUME AdmissionInit
             PROVE  AdmissionInvariant
  OBVIOUS
<1>1. FreshSlots \in Slots
  BY EmptySeq DEF FreshSlots, Slots, TicketState
<1>2. AdmissionTypeOK
  BY <1>1 DEF AdmissionInit, AdmissionTypeOK, Steps
<1>3. \A r \in Runs : FrontTicket(r) = "none" /\ NativeTicket(r) = "none" /\ step[r] = "idle"
  BY AdmissionConstants DEF AdmissionInit, FrontTicket, NativeTicket, FreshSlots
<1>4. \A r \in Runs : TicketsFollowRun(r)
  BY <1>3 DEF TicketsFollowRun
<1>5. \A c \in Nat : SlotsSound(FreshSlots, c)
  <2>1. Holders(FreshSlots) = {} /\ FreshSlots.active = 0 /\ FreshSlots.waiting = <<>>
    BY DEF Holders, FreshSlots
  <2>2. Cardinality({}) = 0 /\ \A x : ~In(x, <<>>)
    BY FS_EmptySet, EmptySeq, NonemptyQueue
  <2>3. NoDuplicates(<<>>)
    BY EmptySeq DEF NoDuplicates
  <2>4. \A t \in Tickets : FreshSlots.ticket[t] # "waiting"
    BY DEF FreshSlots
  <2> HIDE DEF FreshSlots
  <2>5. QED
    BY <2>1, <2>2, <2>3, <2>4, SoundPool
<1>6. PoolsAreSound
  BY <1>5, AdmissionConstants DEF AdmissionInit, PoolsAreSound
<1>7. QED
  BY <1>2, <1>4, <1>6 DEF AdmissionInvariant, ClosedSessionsAreOver, AdmissionInit

LEMMA AdmissionStep == AdmissionInvariant /\ [AdmissionNext]_admissionVars => AdmissionInvariant'
<1> SUFFICES ASSUME AdmissionInvariant, [AdmissionNext]_admissionVars
             PROVE  AdmissionInvariant'
  OBVIOUS
<1> USE DEF AdmissionInvariant
<1>1. ASSUME NEW r \in Runs, RequestLookup(r)
      PROVE  AdmissionInvariant'
  <2>1. /\ r \in Lookups /\ r \notin Queries /\ step[r] = "idle" /\ SessionOf[r] \notin closed
        /\ FrontTicket(r) = "none" /\ NativeTicket(r) = "none"
    BY <1>1, AdmissionConstants DEF RequestLookup, AdmissionTypeOK, TicketsFollowRun
  <2>2. CASE r \in aborted
    <3>1. Goto(r, "done") /\ UNCHANGED <<slots, aborted, exported, closing, closed>>
      BY <1>1, <2>2 DEF RequestLookup
    <3>2. TicketsFollowRun(r)'
      BY <2>1, <3>1 DEF TicketsFollowRun, FrontTicket, NativeTicket, Goto, AdmissionTypeOK
    <3>3. QED
      BY <3>1, <3>2, StayingRun DEF Steps
  <2>3. CASE r \notin aborted
    <3>1. /\ Goto(r, "foreground") /\ AcquireIn(Foreground, r)
          /\ UNCHANGED <<aborted, exported, closing, closed>>
      BY <1>1, <2>3 DEF RequestLookup
    <3>2. /\ slots' \in [Pools -> Slots] /\ PoolsAreSound'
          /\ slots'[Foreground].ticket[r] \in {"waiting", "held"}
          /\ \A o \in Pools, q \in Runs :
                o # Foreground \/ q # r => slots'[o].ticket[q] = slots[o].ticket[q]
      BY <2>1, <3>1, AdmissionConstants, AcquiringPool DEF FrontTicket
    <3>3. NativeTicket(r)' = "none" /\ FrontTicket(r)' \in {"waiting", "held"}
      BY <2>1, <3>2, AdmissionConstants DEF NativeTicket, FrontTicket, Native
    <3>4. TicketsFollowRun(r)'
      BY <2>1, <3>1, <3>3 DEF TicketsFollowRun, Goto, AdmissionTypeOK
    <3>5. \A p \in Pools, q \in Runs \ {r} : Passes(slots[p].ticket[q], slots'[p].ticket[q])
      BY <3>2 DEF Passes
    <3>6. QED
      BY <2>1, <3>1, <3>2, <3>4, <3>5, RunStepKeeps DEF Steps
  <2>4. QED
    BY <2>2, <2>3
<1>2. ASSUME NEW r \in Runs, RequestQuery(r)
      PROVE  AdmissionInvariant'
  <2>1. /\ r \in Queries /\ r \notin Lookups /\ step[r] = "idle" /\ SessionOf[r] \notin closed
        /\ FrontTicket(r) = "none" /\ NativeTicket(r) = "none"
    BY <1>2, AdmissionConstants DEF RequestQuery, AdmissionTypeOK, TicketsFollowRun
  <2>2. CASE r \in aborted
    <3>1. Goto(r, "done") /\ UNCHANGED <<slots, aborted, exported, closing, closed>>
      BY <1>2, <2>2 DEF RequestQuery
    <3>2. TicketsFollowRun(r)'
      BY <2>1, <3>1 DEF TicketsFollowRun, FrontTicket, NativeTicket, Goto, AdmissionTypeOK
    <3>3. QED
      BY <3>1, <3>2, StayingRun DEF Steps
  <2>3. CASE r \notin aborted
    <3>1. /\ Goto(r, "native") /\ AcquireIn(Native(r), r)
          /\ UNCHANGED <<aborted, exported, closing, closed>>
      BY <1>2, <2>3 DEF RequestQuery
    <3>2. /\ slots' \in [Pools -> Slots] /\ PoolsAreSound'
          /\ slots'[Native(r)].ticket[r] \in {"waiting", "held"}
          /\ \A o \in Pools, q \in Runs :
                o # Native(r) \/ q # r => slots'[o].ticket[q] = slots[o].ticket[q]
      BY <2>1, <3>1, AdmissionConstants, AcquiringPool DEF NativeTicket
    <3>3. FrontTicket(r)' = "none" /\ NativeTicket(r)' \in {"waiting", "held"}
      BY <2>1, <3>2, AdmissionConstants DEF NativeTicket, FrontTicket, Native
    <3>4. TicketsFollowRun(r)'
      BY <2>1, <3>1, <3>3 DEF TicketsFollowRun, Goto, AdmissionTypeOK
    <3>5. \A p \in Pools, q \in Runs \ {r} : Passes(slots[p].ticket[q], slots'[p].ticket[q])
      BY <3>2 DEF Passes
    <3>6. QED
      BY <2>1, <3>1, <3>2, <3>4, <3>5, RunStepKeeps DEF Steps
  <2>4. QED
    BY <2>2, <2>3
<1>3. ASSUME NEW r \in Runs, GrantedNative(r)
      PROVE  AdmissionInvariant'
  <2>1. /\ r \in Queries /\ r \notin Lookups /\ step[r] = "native" /\ SessionOf[r] \notin closed
        /\ FrontTicket(r) = "none" /\ NativeTicket(r) = "held"
    BY <1>3, AdmissionConstants
    DEF GrantedNative, TicketsFollowRun, ClosedSessionsAreOver, NativeTicket
  <2>2. CASE r \in aborted
    <3>1. /\ Goto(r, "done") /\ ReleaseRun(r)
          /\ UNCHANGED <<aborted, exported, closing, closed>>
      BY <1>3, <2>2 DEF GrantedNative
    <3>2. QED
      BY <2>1, <3>1, ReleasingRun
  <2>3. CASE r \notin aborted
    <3>1. /\ Goto(r, "foreground") /\ AcquireIn(Foreground, r)
          /\ UNCHANGED <<aborted, exported, closing, closed>>
      BY <1>3, <2>3 DEF GrantedNative
    <3>2. /\ slots' \in [Pools -> Slots] /\ PoolsAreSound'
          /\ slots'[Foreground].ticket[r] \in {"waiting", "held"}
          /\ \A o \in Pools, q \in Runs :
                o # Foreground \/ q # r => slots'[o].ticket[q] = slots[o].ticket[q]
      BY <2>1, <3>1, AdmissionConstants, AcquiringPool DEF FrontTicket
    <3>3. NativeTicket(r)' = "held" /\ FrontTicket(r)' \in {"waiting", "held"}
      BY <2>1, <3>2, AdmissionConstants DEF NativeTicket, FrontTicket, Native
    <3>4. TicketsFollowRun(r)'
      BY <2>1, <3>1, <3>3 DEF TicketsFollowRun, Goto, AdmissionTypeOK
    <3>5. \A p \in Pools, q \in Runs \ {r} : Passes(slots[p].ticket[q], slots'[p].ticket[q])
      BY <3>2 DEF Passes
    <3>6. QED
      BY <2>1, <3>1, <3>2, <3>4, <3>5, RunStepKeeps DEF Steps
  <2>4. QED
    BY <2>2, <2>3
<1>4. ASSUME NEW r \in Runs, RefusedNative(r)
      PROVE  AdmissionInvariant'
  <2>1. /\ Goto(r, "done") /\ UNCHANGED <<slots, aborted, exported, closing, closed>>
        /\ r \in Queries /\ r \notin Lookups
        /\ FrontTicket(r) = "none" /\ NativeTicket(r) = "aborted"
    BY <1>4, AdmissionConstants DEF RefusedNative, TicketsFollowRun, NativeTicket
  <2>2. TicketsFollowRun(r)'
    BY <2>1 DEF TicketsFollowRun, FrontTicket, NativeTicket, Goto, AdmissionTypeOK
  <2>3. QED
    BY <2>1, <2>2, StayingRun DEF Steps
<1>5. ASSUME NEW r \in Runs, GrantedForeground(r)
      PROVE  AdmissionInvariant'
  <2>1. /\ step[r] = "foreground" /\ SessionOf[r] \notin closed /\ FrontTicket(r) = "held"
        /\ r \in Queries => NativeTicket(r) = "held"
        /\ r \in Lookups => NativeTicket(r) = "none"
    BY <1>5 DEF GrantedForeground, TicketsFollowRun, ClosedSessionsAreOver, FrontTicket
  <2>2. CASE r \in aborted
    <3>1. /\ Goto(r, "done") /\ ReleaseRun(r)
          /\ UNCHANGED <<aborted, exported, closing, closed>>
      BY <1>5, <2>2 DEF GrantedForeground
    <3>2. QED
      BY <2>1, <3>1, ReleasingRun DEF Runs
  <2>3. CASE r \notin aborted
    <3>1. Goto(r, "running") /\ UNCHANGED <<slots, aborted, exported, closing, closed>>
      BY <1>5, <2>3 DEF GrantedForeground
    <3>2. TicketsFollowRun(r)'
      BY <2>1, <3>1 DEF TicketsFollowRun, FrontTicket, NativeTicket, Goto, AdmissionTypeOK
    <3>3. QED
      BY <2>1, <3>1, <3>2, StayingRun DEF Steps
  <2>4. QED
    BY <2>2, <2>3
<1>6. ASSUME NEW r \in Runs, RefusedForeground(r)
      PROVE  AdmissionInvariant'
  <2>1. /\ SessionOf[r] \notin closed /\ FrontTicket(r) = "aborted" /\ NativeTicket(r) # "waiting"
        /\ Goto(r, "done") /\ ReleaseRun(r) /\ UNCHANGED <<aborted, exported, closing, closed>>
    BY <1>6 DEF RefusedForeground, TicketsFollowRun, ClosedSessionsAreOver, FrontTicket, Runs
  <2>2. QED
    BY <2>1, ReleasingRun
<1>7. ASSUME NEW r \in Runs, Yield(r)
      PROVE  AdmissionInvariant'
  <2>1. /\ r \in Lookups /\ r \notin Queries /\ SessionOf[r] \notin closed
        /\ FrontTicket(r) \in {"waiting", "held", "aborted"} /\ NativeTicket(r) = "none"
        /\ Goto(r, "yielding") /\ UNCHANGED <<aborted, exported, closing, closed>>
    BY <1>7, AdmissionConstants DEF Yield, TicketsFollowRun, ClosedSessionsAreOver
  <2>2. slots' = [p \in Pools |-> IF p \in {Foreground} THEN Aborted(slots[p], {r}) ELSE slots[p]]
    BY <1>7 DEF Yield, AdmissionTypeOK
  <2>3. /\ slots' \in [Pools -> Slots] /\ PoolsAreSound'
        /\ slots'[Foreground].ticket[r] = GiveUp(slots[Foreground].ticket, {r})[r]
        /\ \A p \in Pools, q \in Runs : Passes(slots[p].ticket[q], slots'[p].ticket[q])
    <3>1. /\ slots' \in [Pools -> Slots] /\ PoolsAreSound'
          /\ \A p \in Pools \cap {Foreground}, q \in Runs :
                slots'[p].ticket[q] = GiveUp(slots[p].ticket, {r})[q]
          /\ \A p \in Pools, q \in Runs : Passes(slots[p].ticket[q], slots'[p].ticket[q])
      BY <2>2, AbortedPools
    <3>2. Foreground \in Pools \cap {Foreground}
      BY AdmissionConstants
    <3>3. QED
      BY <3>1, <3>2
  <2>4. FrontTicket(r)' \in {"held", "aborted"}
    BY <2>1, <2>3, AdmissionConstants DEF FrontTicket, GiveUp
  <2>5. NativeTicket(r)' = "none"
    BY <2>1, <2>3, AdmissionConstants DEF NativeTicket, Native, Passes
  <2>6. TicketsFollowRun(r)'
    BY <2>1, <2>4, <2>5 DEF TicketsFollowRun, Goto, AdmissionTypeOK
  <2>7. QED
    BY <2>1, <2>3, <2>6, RunStepKeeps DEF Steps
<1>8. ASSUME NEW r \in Runs, ReturnSlot(r)
      PROVE  AdmissionInvariant'
  <2>1. /\ FrontTicket(r) # "waiting" /\ NativeTicket(r) # "waiting"
        /\ Goto(r, "done") /\ ReleaseRun(r) /\ UNCHANGED <<aborted, exported, closing, closed>>
    BY <1>8 DEF ReturnSlot, TicketsFollowRun
  <2>2. QED
    BY <2>1, ReleasingRun
<1>9. ASSUME NEW r \in Runs, FinishRun(r) \/ Catch(r) \/ ProveStopped(r)
      PROVE  AdmissionInvariant'
  <2>1. /\ FrontTicket(r) # "waiting" /\ NativeTicket(r) # "waiting"
        /\ Goto(r, "done") /\ ReleaseRun(r) /\ UNCHANGED <<aborted, exported, closing, closed>>
    BY <1>9 DEF FinishRun, Catch, ProveStopped, TicketsFollowRun, Runs
  <2>2. QED
    BY <2>1, ReleasingRun
<1>10. ASSUME NEW r \in Runs, Throw(r)
       PROVE  AdmissionInvariant'
  <2>1. /\ FrontTicket(r) # "waiting" /\ NativeTicket(r) # "waiting" /\ SessionOf[r] \notin closed
        /\ Goto(r, "thrown") /\ ReleaseRun(r) /\ UNCHANGED <<aborted, exported, closing, closed>>
    BY <1>10 DEF Throw, TicketsFollowRun, ClosedSessionsAreOver
  <2>2. QED
    BY <2>1, ReleasingRun
<1>11. ASSUME NEW r \in Runs, Retain(r)
       PROVE  AdmissionInvariant'
  <2>1. /\ SessionOf[r] \notin closed /\ step[r] = "running"
        /\ Goto(r, "retained") /\ UNCHANGED <<slots, aborted, exported, closing, closed>>
    BY <1>11 DEF Retain, ClosedSessionsAreOver
  <2>2. TicketsFollowRun(r)'
    BY <2>1 DEF TicketsFollowRun, FrontTicket, NativeTicket, Goto, AdmissionTypeOK
  <2>3. QED
    BY <2>1, <2>2, StayingRun DEF Steps
<1>12. ASSUME NEW rs \in SUBSET Runs, AbortAll(rs), UNCHANGED <<step, exported, closed>>,
              closing' = closing \/ \E s \in Sessions : closing' = closing \cup {s}
       PROVE  AdmissionInvariant'
  <2>1. slots' = [p \in Pools |-> IF p \in Pools THEN Aborted(slots[p], rs) ELSE slots[p]]
    BY <1>12 DEF AbortAll
  <2>2. /\ slots' \in [Pools -> Slots] /\ PoolsAreSound'
        /\ \A p \in Pools, q \in Runs : Passes(slots[p].ticket[q], slots'[p].ticket[q])
    BY <2>1, AbortedPools
  <2>3. AdmissionTypeOK'
    BY <1>12, <2>2 DEF AdmissionTypeOK, AbortAll
  <2>4. ASSUME NEW q \in Runs
        PROVE  TicketsFollowRun(q)'
    <3>1. Passes(FrontTicket(q), FrontTicket(q)') /\ Passes(NativeTicket(q), NativeTicket(q)')
      BY <2>2, AdmissionConstants DEF FrontTicket, NativeTicket, Native
    <3>2. QED
      BY <1>12, <3>1, OtherRunFollows
  <2>5. ClosedSessionsAreOver'
    BY <1>12 DEF ClosedSessionsAreOver
  <2>6. QED
    BY <2>2, <2>3, <2>4, <2>5
<1>13. ASSUME NEW r \in Runs, Signal(r)
       PROVE  AdmissionInvariant'
  BY <1>12, <1>13 DEF Signal
<1>14. ASSUME NEW s \in Sessions, BeginSessionClose(s)
       PROVE  AdmissionInvariant'
  <2>1. {r \in RunsOf(s) : step[r] # "done"} \in SUBSET Runs
    BY DEF RunsOf
  <2>2. QED
    BY <1>12, <1>14, <2>1 DEF BeginSessionClose
<1>15. ASSUME NEW s \in Sessions, ExportFinishes(s)
       PROVE  AdmissionInvariant'
  BY <1>15
  DEF ExportFinishes, AdmissionTypeOK, PoolsAreSound, TicketsFollowRun, FrontTicket, NativeTicket,
      ClosedSessionsAreOver
<1>16. ASSUME NEW s \in Sessions, CloseSucceeds(s)
       PROVE  AdmissionInvariant'
  <2>1. /\ s \in closing /\ closed' = closed \cup {s}
        /\ UNCHANGED <<slots, step, aborted, exported, closing>>
        /\ \A r \in Runs : SessionOf[r] = s => step[r] \in {"idle", "done"}
    BY <1>16 DEF CloseSucceeds, Quiet, RunsOf
  <2>2. AdmissionTypeOK' /\ PoolsAreSound' /\ ClosedSessionsAreOver'
    BY <2>1 DEF AdmissionTypeOK, PoolsAreSound, ClosedSessionsAreOver
  <2>3. \A r \in Runs : TicketsFollowRun(r)'
    BY <2>1 DEF TicketsFollowRun, FrontTicket, NativeTicket
  <2>4. QED
    BY <2>2, <2>3
<1>17. CASE UNCHANGED admissionVars
  BY <1>17
  DEF admissionVars, AdmissionTypeOK, PoolsAreSound, TicketsFollowRun, FrontTicket, NativeTicket,
      ClosedSessionsAreOver
<1>18. QED
  BY <1>1, <1>2, <1>3, <1>4, <1>5, <1>6, <1>7, <1>8, <1>9, <1>10, <1>11, <1>13, <1>14, <1>15, <1>16,
     <1>17
  DEF AdmissionNext, RunSteps

THEOREM AdmissionIsInvariant == AdmissionSpec => []AdmissionInvariant
<1>1. QED
  BY AdmissionStart, AdmissionStep, PTL DEF AdmissionSpec

(* The pools and the runs stay within their ranges.                         *)
THEOREM AdmissionTypeCorrect == AdmissionSpec => []AdmissionTypeOK
<1>1. AdmissionInvariant => AdmissionTypeOK
  BY DEF AdmissionInvariant
<1>2. QED
  BY <1>1, AdmissionIsInvariant, PTL

(* KunaRunSlots keeps its counter and its queue right under every order of  *)
(* requests, releases, signals and closes of every number of runs.          *)
THEOREM PoolsStaySound == AdmissionSpec => []PoolsAreSound
<1>1. AdmissionInvariant => PoolsAreSound
  BY DEF AdmissionInvariant
<1>2. QED
  BY <1>1, AdmissionIsInvariant, PTL

(* No slot leaks, and a Kuna process runs only under the slots it needs.    *)
THEOREM SlotsAreFollowed == AdmissionSpec => []SlotsFollowRuns
<1>1. ASSUME AdmissionInvariant
      PROVE  SlotsFollowRuns
  <2>1. SUFFICES ASSUME NEW r \in Runs
                 PROVE  /\ FrontTicket(r) = "held" =>
                              step[r] \in {"foreground", "yielding", "running", "retained"}
                        /\ NativeTicket(r) = "held" =>
                              r \in Queries
                              /\ step[r] \in {"native", "foreground", "running", "retained"}
                        /\ step[r] \in {"running", "retained"} =>
                              /\ SessionOf[r] \notin closed /\ FrontTicket(r) = "held"
                              /\ r \in Queries => NativeTicket(r) = "held"
    BY AdmissionConstants
    DEF SlotsFollowRuns, Holders, FrontTicket, NativeTicket, PoolsOf
  <2>2. TicketsFollowRun(r) /\ step[r] \in Steps /\ (r \in Lookups \/ r \in Queries)
        /\ (SessionOf[r] \in closed => step[r] \in {"idle", "done"})
    BY <1>1 DEF AdmissionInvariant, AdmissionTypeOK, ClosedSessionsAreOver, Runs
  <2>3. QED
    BY <2>2 DEF TicketsFollowRun, Steps
<1>2. QED
  BY <1>1, AdmissionIsInvariant, PTL

-----------------------------------------------------------------------------

(* A build runs, or is over.                                                *)
Open(b) == build[b].phase \notin {"none", "done", "lost"}
Over(b) == build[b].phase \in {"done", "lost"}

Matches(c, b) == caller[c].home = build[b].home /\ caller[c].key = build[b].key

Phases == {"none", "lookup", "stage", "export", "publish", "winner", "retire", "evict",
           "evicting", "done", "lost"}
BuildRecords == [home : Processes \cup {None}, key : Keys \cup {None}, phase : Phases,
                 aborted : BOOLEAN, project : Builds \cup {None}]
LookRecords == [at : {"none", "admit", "manifest", "read", "touch", "discard"},
                seen : Builds \cup {None}, memo : BOOLEAN, replaced : BOOLEAN]
SessionStates == {"closed", "looking", "idle", "waiting", "serving", "failed", "settling",
                  "retrying"}
SessionRecords == [state : SessionStates, home : Processes \cup {None}, key : Keys \cup {None},
                   build : Builds \cup {None}, project : Builds \cup {None},
                   closing : BOOLEAN, awaited : SUBSET Builds, todo : Seq(Builds)]
Evictions == [by : Builds \cup {None, "maintenance"}, keep : Keys \cup {None},
              building : SUBSET (Keys \cup {None}), victim : Keys \cup {None}]

(* Types of what sessions and builds share.                                 *)
FlowTypes ==
    /\ build \in [Builds -> BuildRecords]
    /\ caller \in [Callers -> SessionRecords]
    /\ look \in [Callers \cup Builds -> LookRecords]
    /\ inflight \in [Processes -> [Keys -> Builds \cup {None}]]
    /\ evictor \in [Processes -> Evictions]
    /\ asks \in Asks
    /\ \A b \in Builds :
          /\ build[b].phase # "none" => build[b].home \in Processes /\ build[b].key \in Keys
          /\ build[b].home \in Processes => build[b].key \in Keys
    /\ \A c \in Callers :
          caller[c].state # "closed" => caller[c].home \in Processes /\ caller[c].key \in Keys

(* A session that waits does so for a running build of its process and key. *)
WaitersFollow ==
    /\ \A c \in Callers, b \in Builds :
          Waits(c, b) => Open(b) /\ Matches(c, b) /\ ~build[b].aborted
    /\ \A c \in Callers : caller[c].build # None => caller[c].state = "waiting"

(* Who is in a lookup, and for whom a process evicts.                       *)
LookupsFollow ==
    /\ \A c \in Callers : look[c].at # "none" => caller[c].state = "looking"
    /\ \A b \in Builds : look[b].at # "none" => build[b].phase \in {"lookup", "winner"}
    /\ \A p \in Processes, b \in Builds :
          evictor[p].by = b => build[b].phase = "evicting" /\ build[b].home = p

(* A build that is not winding down is the one that requests join; what is  *)
(* registered runs.                                                         *)
RunsAreRegistered ==
    /\ \A b \in Builds :
          Open(b) /\ ~build[b].aborted => inflight[build[b].home][build[b].key] = b
    /\ \A b \in Builds, p \in Processes, k \in Keys :
          inflight[p][k] = b => Open(b) /\ build[b].home = p /\ build[b].key = k

(* A session that closes, and will wait for the end of a build or does.     *)
Leaves(c, b) ==
    /\ caller[c].closing /\ Matches(c, b)
    /\ \/ caller[c].state \in {"looking", "idle", "serving", "failed"}
       \/ caller[c].state = "settling" /\ b \in caller[c].awaited

(* Every running build has somebody who answers for it.                     *)
RunsAreWanted ==
    \A b \in Builds : Open(b) =>
        IF build[b].aborted THEN \E c \in Callers : Leaves(c, b)
        ELSE \E c \in Callers : Waits(c, b)

FlowInvariant ==
    /\ FlowTypes /\ WaitersFollow /\ LookupsFollow /\ RunsAreRegistered /\ RunsAreWanted

(* What the steps of sessions and builds never do.                          *)
KeepsBuild(b) ==
    /\ build'[b].home = build[b].home /\ build'[b].key = build[b].key
    /\ build[b].phase = "export" /\ b \in live' => build'[b].phase = "export"
    /\ build[b].phase \in {"retire", "evict", "evicting"} =>
          build'[b].phase \in {"retire", "evict", "evicting", "done"}
    /\ Over(b) => build'[b].phase = build[b].phase
BuildsKeep == \A b \in Builds : Unused(b) \/ KeepsBuild(b)

KeepsSession(c) ==
    /\ caller[c].state # "closed" =>
          /\ caller'[c].state # "closed"
          /\ caller'[c].home = caller[c].home /\ caller'[c].key = caller[c].key
    /\ caller'[c].state \in CloseStates => caller[c].state \in CloseStates
    /\ \/ caller'[c].todo = <<>>
       \/ caller'[c].state = caller[c].state /\ caller'[c].todo = caller[c].todo
SessionsKeep == \A c \in Callers : KeepsSession(c)

-----------------------------------------------------------------------------
(* Sessions and builds *)

LEMMA CacheConstants ==
    /\ None \notin Builds /\ "maintenance" \notin Builds /\ None \notin Keys
    /\ None \notin Processes
    /\ \A c \in Callers : c \notin Builds
    /\ \A b \in Builds : b \notin Callers
BY CacheAssumption

(* One field of a build replaced.                                           *)
LEMMA BuildFields ==
    ASSUME NEW f \in [Builds -> BuildRecords], NEW b \in Builds
    PROVE  /\ \A v \in Phases :
                 LET g == [f EXCEPT ![b].phase = v]
                 IN  /\ g \in [Builds -> BuildRecords] /\ \A x \in Builds \ {b} : g[x] = f[x]
                     /\ g[b].phase = v /\ g[b].home = f[b].home /\ g[b].key = f[b].key
                     /\ g[b].aborted = f[b].aborted /\ g[b].project = f[b].project
           /\ \A v \in Builds \cup {None} :
                 LET g == [f EXCEPT ![b].project = v]
                 IN  /\ g \in [Builds -> BuildRecords] /\ \A x \in Builds \ {b} : g[x] = f[x]
                     /\ g[b].phase = f[b].phase /\ g[b].home = f[b].home /\ g[b].key = f[b].key
                     /\ g[b].aborted = f[b].aborted /\ g[b].project = v
BY DEF BuildRecords

LEMMA RevivedRecord ==
    ASSUME NEW r \in BuildRecords
    PROVE  LET s == [r EXCEPT !.aborted = FALSE]
           IN  s \in BuildRecords /\ s.phase = r.phase /\ s.home = r.home /\ s.key = r.key
BY DEF BuildRecords

(* A build moves on within its run.                                         *)
LEMMA PhaseKeepsFlow ==
    ASSUME FlowInvariant, NEW b \in Builds, NEW to \in Phases \ {"none", "done", "lost"},
           NEW project \in Builds \cup {None}, Open(b), Phase(b, to, project),
           UNCHANGED <<caller, inflight, asks>>,
           look' \in [Callers \cup Builds -> LookRecords],
           \A a \in (Callers \cup Builds) \ {b} : look'[a].at = look[a].at,
           look'[b].at # "none" => to \in {"lookup", "winner"},
           evictor' \in [Processes -> Evictions],
           \A p \in Processes :
              /\ evictor'[p].by = b => to = "evicting" /\ build[b].home = p
              /\ \A x \in Builds \ {b} : evictor'[p].by = x => evictor[p].by = x
    PROVE  /\ FlowInvariant'
           /\ SessionsKeep
           /\ build'[b].home = build[b].home /\ build'[b].key = build[b].key
           /\ build'[b].phase = to /\ build'[b].project = project
           /\ \A x \in Builds \ {b} : build'[x] = build[x]
<1> USE CacheConstants
<1>1. /\ build' \in [Builds -> BuildRecords] /\ \A x \in Builds \ {b} : build'[x] = build[x]
      /\ build'[b].home = build[b].home /\ build'[b].key = build[b].key
      /\ build'[b].aborted = build[b].aborted
      /\ build'[b].phase = to /\ build'[b].project = project
  <2> DEFINE y == [build EXCEPT ![b].phase = to]
  <2>1. build \in [Builds -> BuildRecords] /\ to \in Phases
    BY DEF FlowInvariant, FlowTypes
  <2>2. /\ y \in [Builds -> BuildRecords] /\ \A x \in Builds \ {b} : y[x] = build[x]
        /\ y[b].phase = to /\ y[b].home = build[b].home /\ y[b].key = build[b].key
        /\ y[b].aborted = build[b].aborted
    BY <2>1, BuildFields
  <2>3. build' = [y EXCEPT ![b].project = project]
    BY DEF Phase
  <2> HIDE DEF y
  <2>4. QED
    BY <2>2, <2>3, BuildFields
<1>2. /\ \A x \in Builds : Open(x)' <=> Open(x)
      /\ \A c \in Callers, x \in Builds :
            /\ Matches(c, x)' <=> Matches(c, x)
            /\ Waits(c, x)' <=> Waits(c, x)
            /\ Leaves(c, x)' <=> Leaves(c, x)
      /\ \A x \in Builds : build'[x].aborted = build[x].aborted /\ build'[x].home = build[x].home
                           /\ build'[x].key = build[x].key
  BY <1>1 DEF Open, Matches, Waits, Leaves
<1>3. FlowTypes'
  BY <1>1, <1>2 DEF FlowInvariant, FlowTypes, Open
<1>4. WaitersFollow'
  BY <1>2 DEF FlowInvariant, WaitersFollow
<1>5. LookupsFollow'
  BY <1>1 DEF FlowInvariant, LookupsFollow
<1>6. RunsAreRegistered'
  BY <1>2 DEF FlowInvariant, RunsAreRegistered
<1>7. RunsAreWanted'
  BY <1>2 DEF FlowInvariant, RunsAreWanted
<1>8. SessionsKeep
  BY DEF SessionsKeep, KeepsSession, CloseStates
<1>9. QED
  BY <1>1, <1>3, <1>4, <1>5, <1>6, <1>7, <1>8 DEF FlowInvariant

(* The promise of a build settles.                                          *)
LEMMA FinishKeepsFlow ==
    ASSUME FlowInvariant, NEW b \in Builds, NEW project \in Builds \cup {None}, Open(b),
           Finish(b, project), UNCHANGED asks,
           look' \in [Callers \cup Builds -> LookRecords],
           \A a \in (Callers \cup Builds) \ {b} : look'[a].at = look[a].at,
           look'[b].at = "none",
           evictor' \in [Processes -> Evictions],
           \A p \in Processes :
              /\ evictor'[p].by # b
              /\ \A x \in Builds : evictor'[p].by = x => evictor[p].by = x,
           \A c \in Callers : caller[c].state # "retrying" => caller[c].todo = <<>>
    PROVE  /\ FlowInvariant'
           /\ SessionsKeep
           /\ build'[b].home = build[b].home /\ build'[b].key = build[b].key
           /\ build'[b].phase = "done"
           /\ \A x \in Builds \ {b} : build'[x] = build[x]
<1> USE CacheConstants
<1>1. /\ build' \in [Builds -> BuildRecords] /\ \A x \in Builds \ {b} : build'[x] = build[x]
      /\ build'[b].home = build[b].home /\ build'[b].key = build[b].key
      /\ build'[b].phase = "done"
  <2> DEFINE y == [build EXCEPT ![b].phase = "done"]
             z == [y EXCEPT ![b].aborted = FALSE]
  <2>1. build \in [Builds -> BuildRecords] /\ "done" \in Phases
    BY DEF FlowInvariant, FlowTypes, Phases
  <2>2. /\ y \in [Builds -> BuildRecords] /\ \A x \in Builds \ {b} : y[x] = build[x]
        /\ y[b].phase = "done" /\ y[b].home = build[b].home /\ y[b].key = build[b].key
    BY <2>1, BuildFields
  <2> HIDE DEF y
  <2>3. z = [y EXCEPT ![b].aborted = FALSE]
    OBVIOUS
  <2>4. build' = [z EXCEPT ![b].project = None]
    BY DEF Finish, y
  <2> HIDE DEF z
  <2>5. /\ z \in [Builds -> BuildRecords] /\ \A x \in Builds \ {b} : z[x] = y[x]
        /\ z[b].phase = "done" /\ z[b].home = y[b].home /\ z[b].key = y[b].key
    <3> DEFINE r == [y[b] EXCEPT !.aborted = FALSE]
    <3>1. y[b] \in BuildRecords
      BY <2>2
    <3>2. r \in BuildRecords /\ r.phase = y[b].phase /\ r.home = y[b].home /\ r.key = y[b].key
      BY <3>1, RevivedRecord
    <3>3. z = [y EXCEPT ![b] = r]
      BY <2>3
    <3> HIDE DEF r
    <3>4. QED
      BY <2>2, <3>2, <3>3
  <2>6. QED
    BY <2>2, <2>4, <2>5, BuildFields
<1>2. \A c \in Callers : ~Waits(c, b) => caller'[c] = caller[c]
  BY DEF Finish
<1>3. ASSUME NEW c \in Callers, Waits(c, b)
      PROVE  /\ caller'[c] \in SessionRecords /\ caller'[c].state \in {"failed", "serving"}
             /\ caller'[c].build = None /\ caller'[c].home = caller[c].home
             /\ caller'[c].key = caller[c].key /\ caller'[c].closing = caller[c].closing
             /\ caller'[c].todo = caller[c].todo
  <2>1. caller'[c] = [caller[c] EXCEPT !.state = IF project = None THEN "failed" ELSE "serving",
                                       !.build = None, !.project = project]
    BY <1>3 DEF Finish
  <2>2. caller[c] \in SessionRecords
    BY DEF FlowInvariant, FlowTypes
  <2>3. /\ caller'[c].state \in {"failed", "serving"} /\ caller'[c].build = None
        /\ caller'[c].project \in Builds \cup {None}
        /\ caller'[c].home = caller[c].home /\ caller'[c].key = caller[c].key
        /\ caller'[c].closing = caller[c].closing /\ caller'[c].todo = caller[c].todo
    BY <2>1, <2>2 DEF SessionRecords
  <2>4. caller'[c] \in SessionRecords
    <3>1. CASE project = None
      <4>1. caller'[c] = [caller[c] EXCEPT !.state = "failed", !.build = None, !.project = None]
        BY <2>1, <3>1
      <4>2. QED
        BY <4>1, <2>2 DEF SessionRecords, SessionStates
    <3>2. CASE project # None
      <4>1. caller'[c] = [caller[c] EXCEPT !.state = "serving", !.build = None,
                                           !.project = project]
        BY <2>1, <3>2
      <4>2. QED
        BY <4>1, <2>2, <3>2 DEF SessionRecords, SessionStates
    <3>3. QED
      BY <3>1, <3>2
  <2>5. QED
    BY <2>3, <2>4
<1>4. caller' \in [Callers -> SessionRecords]
  <2>1. caller' = [c \in Callers |-> caller'[c]]
    BY DEF Finish
  <2>2. \A c \in Callers : caller'[c] \in SessionRecords
    BY <1>2, <1>3 DEF FlowInvariant, FlowTypes
  <2>3. QED
    BY <2>1, <2>2
<1>5. /\ inflight' \in [Processes -> [Keys -> Builds \cup {None}]]
      /\ \A p \in Processes, k \in Keys, x \in Builds \ {b} :
            inflight[p][k] = x <=> inflight'[p][k] = x
      /\ \A p \in Processes, k \in Keys : inflight'[p][k] # b
  <2> DEFINE h == build[b].home
             key == build[b].key
  <2>1. inflight \in [Processes -> [Keys -> Builds \cup {None}]]
    BY DEF FlowInvariant, FlowTypes
  <2>2. inflight' = IF inflight[h][key] = b THEN [inflight EXCEPT ![h][key] = None] ELSE inflight
    BY DEF Finish, InflightWithout
  <2>3. h \in Processes /\ key \in Keys
    BY DEF FlowInvariant, FlowTypes, Open
  <2> HIDE DEF h, key
  <2>4. ASSUME NEW p \in Processes, NEW k \in Keys
        PROVE  inflight'[p][k] = IF p = h /\ k = key /\ inflight[p][k] = b THEN None
                                 ELSE inflight[p][k]
    BY <2>1, <2>2, <2>3
  <2>5. inflight' \in [Processes -> [Keys -> Builds \cup {None}]]
    BY <2>1, <2>2, <2>3
  <2>6. \A q \in Processes, k \in Keys : inflight[q][k] = b => q = h /\ k = key
    BY DEF FlowInvariant, RunsAreRegistered, h, key
  <2>7. QED
    BY <2>4, <2>5, <2>6
<1>6. /\ \A x \in Builds : Open(x)' <=> Open(x) /\ x # b
      /\ \A c \in Callers, x \in Builds \ {b} :
            /\ Waits(c, x)' <=> Waits(c, x)
            /\ Leaves(c, x) => Leaves(c, x)'
      /\ \A c \in Callers : ~Waits(c, b)'
      /\ \A c \in Callers, x \in Builds : Matches(c, x)' <=> Matches(c, x)
  <2>1. \A x \in Builds : Open(x)' <=> Open(x) /\ x # b
    BY <1>1 DEF Open
  <2>2. \A c \in Callers : ~Waits(c, b)'
    BY <1>2, <1>3 DEF Waits
  <2>3. \A c \in Callers, x \in Builds : Matches(c, x)' <=> Matches(c, x)
    BY <1>1, <1>2, <1>3 DEF Matches
  <2>4. \A c \in Callers, x \in Builds \ {b} : Waits(c, x)' <=> Waits(c, x)
    BY <1>2, <1>3 DEF Waits
  <2>5. \A c \in Callers, x \in Builds \ {b} : Leaves(c, x) => Leaves(c, x)'
    BY <1>2, <2>3 DEF Waits, Leaves
  <2>6. QED
    BY <2>1, <2>2, <2>3, <2>4, <2>5
<1>7. FlowTypes'
  BY SMTT(30), <1>1, <1>2, <1>3, <1>4, <1>5 DEF FlowInvariant, FlowTypes, Open, Waits
<1>8. WaitersFollow'
  BY <1>1, <1>2, <1>3, <1>6 DEF FlowInvariant, WaitersFollow
<1>9. LookupsFollow'
  <2>1. \A c \in Callers : look'[c].at # "none" => caller'[c].state = "looking"
    BY <1>2 DEF FlowInvariant, LookupsFollow, Waits
  <2>2. QED
    BY <1>1, <2>1 DEF FlowInvariant, LookupsFollow
<1>10. RunsAreRegistered'
  <2>1. ASSUME NEW x \in Builds \ {b}, Open(x), ~build[x].aborted
        PROVE  inflight'[build[x].home][build[x].key] = x
    <3>1. build[x].home \in Processes /\ build[x].key \in Keys
      BY <2>1 DEF FlowInvariant, FlowTypes, Open
    <3>2. QED
      BY <1>5, <2>1, <3>1 DEF FlowInvariant, RunsAreRegistered
  <2>2. ASSUME NEW x \in Builds, NEW p \in Processes, NEW k \in Keys, inflight'[p][k] = x
        PROVE  Open(x)' /\ build'[x].home = p /\ build'[x].key = k
    <3>1. x # b
      BY <1>5, <2>2
    <3>2. inflight[p][k] = x
      BY <1>5, <2>2, <3>1
    <3>3. QED
      BY <1>1, <1>6, <3>1, <3>2 DEF FlowInvariant, RunsAreRegistered
  <2>3. QED
    BY <1>1, <1>6, <2>1, <2>2 DEF RunsAreRegistered
<1>11. RunsAreWanted'
  BY <1>1, <1>6 DEF FlowInvariant, RunsAreWanted
<1>12. SessionsKeep
  <2>1. ASSUME NEW c \in Callers, Waits(c, b)
        PROVE  KeepsSession(c)
    <3>1. caller[c].state = "waiting"
      BY <2>1 DEF Waits
    <3>2. caller'[c].todo = <<>>
      BY <1>3, <2>1, <3>1
    <3>3. QED
      BY <1>3, <2>1, <3>1, <3>2 DEF KeepsSession, CloseStates
  <2>2. ASSUME NEW c \in Callers, ~Waits(c, b)
        PROVE  KeepsSession(c)
    BY <1>2, <2>2 DEF KeepsSession
  <2>3. QED
    BY <2>1, <2>2 DEF SessionsKeep
<1>13. QED
  BY <1>1, <1>7, <1>8, <1>9, <1>10, <1>11, <1>12 DEF FlowInvariant

(* A session that does not wait moves on, alone.                            *)
LEMMA MoveKeepsFlow ==
    ASSUME FlowInvariant, NEW c \in Callers,
           caller' \in [Callers -> SessionRecords],
           \A d \in Callers \ {c} : caller'[d] = caller[d],
           caller[c].state # "waiting", caller'[c].state # "waiting", caller'[c].build = None,
           caller'[c].state # "closed" => caller'[c].home \in Processes /\ caller'[c].key \in Keys,
           \A b \in Builds : Open(b) /\ build[b].aborted /\ Leaves(c, b) => Leaves(c, b)',
           UNCHANGED <<build, inflight, evictor, asks>>,
           look' \in [Callers \cup Builds -> LookRecords],
           \A a \in (Callers \cup Builds) \ {c} : look'[a].at = look[a].at,
           look'[c].at # "none" => caller'[c].state = "looking"
    PROVE  FlowInvariant'
<1> USE CacheConstants
<1>1. /\ \A b \in Builds : Open(b)' <=> Open(b)
      /\ \A d \in Callers \ {c}, b \in Builds :
            /\ Matches(d, b)' <=> Matches(d, b)
            /\ Waits(d, b)' <=> Waits(d, b)
            /\ Leaves(d, b)' <=> Leaves(d, b)
      /\ \A b \in Builds : ~Waits(c, b) /\ ~Waits(c, b)'
  BY DEF Open, Matches, Waits, Leaves
<1>2. FlowTypes'
  BY DEF FlowInvariant, FlowTypes
<1>3. WaitersFollow'
  BY <1>1 DEF FlowInvariant, WaitersFollow
<1>4. LookupsFollow'
  BY DEF FlowInvariant, LookupsFollow
<1>5. RunsAreRegistered'
  BY <1>1 DEF FlowInvariant, RunsAreRegistered
<1>6. RunsAreWanted'
  BY <1>1 DEF FlowInvariant, RunsAreWanted
<1>7. QED
  BY <1>2, <1>3, <1>4, <1>5, <1>6 DEF FlowInvariant

(* Fields of a session replaced.                                            *)
LEMMA SessionFields ==
    ASSUME NEW s \in SessionRecords
    PROVE  /\ \A v \in SessionStates :
                 LET z == [s EXCEPT !.state = v]
                 IN  /\ z \in SessionRecords /\ z.state = v /\ z.home = s.home /\ z.key = s.key
                     /\ z.build = s.build /\ z.project = s.project /\ z.closing = s.closing
                     /\ z.awaited = s.awaited /\ z.todo = s.todo
           /\ \A v \in Builds \cup {None} :
                 LET z == [s EXCEPT !.build = v]
                 IN  /\ z \in SessionRecords /\ z.state = s.state /\ z.home = s.home
                     /\ z.key = s.key /\ z.build = v /\ z.project = s.project
                     /\ z.closing = s.closing /\ z.awaited = s.awaited /\ z.todo = s.todo
           /\ \A v \in Builds \cup {None} :
                 LET z == [s EXCEPT !.project = v]
                 IN  /\ z \in SessionRecords /\ z.state = s.state /\ z.home = s.home
                     /\ z.key = s.key /\ z.build = s.build /\ z.project = v
                     /\ z.closing = s.closing /\ z.awaited = s.awaited /\ z.todo = s.todo
           /\ \A v \in SUBSET Builds :
                 LET z == [s EXCEPT !.awaited = v]
                 IN  /\ z \in SessionRecords /\ z.state = s.state /\ z.home = s.home
                     /\ z.key = s.key /\ z.build = s.build /\ z.project = s.project
                     /\ z.closing = s.closing /\ z.awaited = v /\ z.todo = s.todo
           /\ \A v \in Seq(Builds) :
                 LET z == [s EXCEPT !.todo = v]
                 IN  /\ z \in SessionRecords /\ z.state = s.state /\ z.home = s.home
                     /\ z.key = s.key /\ z.build = s.build /\ z.project = s.project
                     /\ z.closing = s.closing /\ z.awaited = s.awaited /\ z.todo = v
BY DEF SessionRecords

LEMMA AwaitedReplaced ==
    ASSUME NEW s \in SessionRecords, NEW v \in SUBSET Builds
    PROVE  LET z == [s EXCEPT !.awaited = v]
           IN  /\ z \in SessionRecords /\ z.state = s.state /\ z.home = s.home /\ z.key = s.key
               /\ z.build = s.build /\ z.project = s.project /\ z.closing = s.closing
               /\ z.awaited = v /\ z.todo = s.todo
BY SessionFields

(* One session replaced by what was made of it.                             *)
LEMMA SessionReplaced ==
    ASSUME FlowInvariant, NEW c \in Callers, NEW s \in SessionRecords,
           caller' = [caller EXCEPT ![c] = s]
    PROVE  /\ caller' \in [Callers -> SessionRecords] /\ caller'[c] = s
           /\ \A d \in Callers \ {c} : caller'[d] = caller[d]
BY DEF FlowInvariant, FlowTypes

(* The record of a new build.                                               *)
BuildFor(p, k) == [NoBuild EXCEPT !.home = p, !.key = k, !.phase = "lookup"]
LEMMA NewBuild ==
    ASSUME NEW p \in Processes, NEW k \in Keys
    PROVE  LET r == BuildFor(p, k)
           IN  /\ r \in BuildRecords /\ r.home = p /\ r.key = k /\ r.phase = "lookup"
               /\ r.aborted = FALSE
<1>1. NoBuild \in BuildRecords /\ NoBuild.aborted = FALSE
  BY DEF NoBuild, BuildRecords, Phases
<1>2. ASSUME NEW s \in BuildRecords, s.aborted = FALSE
      PROVE  LET r == [s EXCEPT !.home = p, !.key = k, !.phase = "lookup"]
             IN  /\ r \in BuildRecords /\ r.home = p /\ r.key = k /\ r.phase = "lookup"
                 /\ r.aborted = FALSE
  BY <1>2 DEF BuildRecords, Phases
<1>3. QED
  BY <1>1, <1>2 DEF BuildFor

(* A session joins the build in flight, or starts one.                      *)
LEMMA JoinKeepsFlow ==
    ASSUME FlowInvariant, NEW c \in Callers, caller[c].state = "looking", JoinOrBuild(c),
           UNCHANGED <<evictor, asks>>, caller[c].todo = <<>>
    PROVE  /\ FlowInvariant'
           /\ SessionsKeep
           /\ \A b \in Builds : Unused(b) \/ build'[b] = build[b]
<1> USE CacheConstants
<1> DEFINE p == caller[c].home
           k == caller[c].key
<1>1. p \in Processes /\ k \in Keys /\ caller[c] \in SessionRecords /\ caller[c].build = None
  BY DEF FlowInvariant, FlowTypes, WaitersFollow
<1>2. /\ look \in [Callers \cup Builds -> LookRecords] /\ NoLookup \in LookRecords
      /\ NoLookup.at = "none" /\ c \notin Builds
  BY DEF FlowInvariant, FlowTypes, NoLookup, LookRecords
<1>3. CASE /\ caller[c].closing
           /\ caller' = [caller EXCEPT ![c].state = "failed"]
           /\ look' = [look EXCEPT ![c] = NoLookup]
           /\ UNCHANGED <<build, inflight>>
  <2> DEFINE s == [caller[c] EXCEPT !.state = "failed"]
  <2>1. /\ s \in SessionRecords /\ s.state = "failed" /\ s.build = None /\ s.home = p /\ s.key = k
        /\ s.closing = caller[c].closing /\ s.todo = <<>>
    BY ZenonT(30), <1>1, SessionFields DEF SessionStates
  <2>2. caller' = [caller EXCEPT ![c] = s]
    BY <1>3
  <2> HIDE DEF s
  <2>3. caller' \in [Callers -> SessionRecords] /\ caller'[c] = s
        /\ \A d \in Callers \ {c} : caller'[d] = caller[d]
    BY <2>1, <2>2, SessionReplaced
  <2>4. \A b \in Builds : Leaves(c, b) => Leaves(c, b)'
    BY <1>3, <2>1, <2>3 DEF Leaves, Matches
  <2>5. /\ look' \in [Callers \cup Builds -> LookRecords] /\ look'[c].at = "none"
        /\ \A a \in (Callers \cup Builds) \ {c} : look'[a].at = look[a].at
    BY <1>2, <1>3
  <2>6. FlowInvariant'
    BY <1>1, <1>3, <2>1, <2>3, <2>4, <2>5, MoveKeepsFlow
  <2>7. SessionsKeep
    BY <2>1, <2>3 DEF SessionsKeep, KeepsSession, CloseStates
  <2>8. QED
    BY <1>3, <2>6, <2>7
<1>4. ASSUME NEW b \in Builds,
             caller' = [caller EXCEPT ![c].state = "waiting", ![c].build = b]
      PROVE  /\ caller' \in [Callers -> SessionRecords]
             /\ caller'[c].state = "waiting" /\ caller'[c].build = b /\ caller'[c].home = p
             /\ caller'[c].key = k /\ caller'[c].closing = caller[c].closing
             /\ caller'[c].todo = <<>>
             /\ \A d \in Callers \ {c} : caller'[d] = caller[d]
             /\ SessionsKeep
  <2> DEFINE s == [caller[c] EXCEPT !.state = "waiting"]
             z == [s EXCEPT !.build = b]
  <2>1. /\ s \in SessionRecords /\ s.state = "waiting" /\ s.home = p /\ s.key = k
        /\ s.closing = caller[c].closing /\ s.todo = <<>>
    BY ZenonT(30), <1>1, SessionFields DEF SessionStates
  <2>2. caller' = [caller EXCEPT ![c] = z]
    BY <1>4 DEF FlowInvariant, FlowTypes
  <2> HIDE DEF s
  <2>3. /\ z \in SessionRecords /\ z.state = "waiting" /\ z.home = p /\ z.key = k /\ z.build = b
        /\ z.closing = caller[c].closing /\ z.todo = <<>>
    BY <2>1, SessionFields
  <2> HIDE DEF z
  <2>4. caller' \in [Callers -> SessionRecords] /\ caller'[c] = z
        /\ \A d \in Callers \ {c} : caller'[d] = caller[d]
    BY <2>2, <2>3, SessionReplaced
  <2>5. SessionsKeep
    BY <2>3, <2>4 DEF SessionsKeep, KeepsSession, CloseStates
  <2>6. QED
    BY <2>3, <2>4, <2>5
<1>5. CASE /\ ~caller[c].closing
           /\ Joinable(c, inflight[p][k])
           /\ caller' = [caller EXCEPT ![c].state = "waiting", ![c].build = inflight[p][k]]
           /\ look' = [look EXCEPT ![c] = NoLookup]
           /\ UNCHANGED <<build, inflight>>
  <2> DEFINE b == inflight[p][k]
  <2>1. b \in Builds /\ ~build[b].aborted
    BY <1>1, <1>5 DEF FlowInvariant, FlowTypes, Joinable
  <2>2. Open(b) /\ build[b].home = p /\ build[b].key = k
    BY <1>1, <2>1 DEF FlowInvariant, RunsAreRegistered
  <2> HIDE DEF b
  <2>3. caller' = [caller EXCEPT ![c].state = "waiting", ![c].build = b]
    BY <1>5 DEF b
  <2>4. /\ caller' \in [Callers -> SessionRecords]
        /\ caller'[c].state = "waiting" /\ caller'[c].build = b /\ caller'[c].home = p
        /\ caller'[c].key = k /\ caller'[c].closing = caller[c].closing
             /\ caller'[c].todo = <<>>
        /\ \A d \in Callers \ {c} : caller'[d] = caller[d]
        /\ SessionsKeep
    BY <1>4, <2>1, <2>3
  <2>5. /\ \A x \in Builds : Open(x)' <=> Open(x)
        /\ \A d \in Callers, x \in Builds : Matches(d, x)' <=> Matches(d, x)
        /\ \A d \in Callers \ {c}, x \in Builds :
              (Waits(d, x)' <=> Waits(d, x)) /\ (Leaves(d, x)' <=> Leaves(d, x))
        /\ \A x \in Builds : ~Leaves(c, x) /\ (Waits(c, x)' <=> x = b) /\ ~Waits(c, x)
        /\ Matches(c, b)
    BY <1>5, <2>2, <2>4 DEF Open, Matches, Waits, Leaves
  <2>6. FlowTypes'
    BY <1>1, <1>2, <1>5, <2>4 DEF FlowInvariant, FlowTypes
  <2>7. WaitersFollow'
    BY <1>5, <2>1, <2>2, <2>4, <2>5 DEF FlowInvariant, WaitersFollow
  <2>8. LookupsFollow'
    BY <1>2, <1>5, <2>4 DEF FlowInvariant, LookupsFollow, FlowTypes
  <2>9. RunsAreRegistered'
    BY <1>5, <2>5 DEF FlowInvariant, RunsAreRegistered
  <2>10. RunsAreWanted'
    BY <1>5, <2>5 DEF FlowInvariant, RunsAreWanted
  <2>11. QED
    BY <1>5, <2>4, <2>6, <2>7, <2>8, <2>9, <2>10 DEF FlowInvariant
<1>6. CASE /\ ~caller[c].closing
           /\ ~Joinable(c, inflight[p][k])
           /\ \E b \in Builds :
                /\ Unused(b)
                /\ build' = [build EXCEPT ![b] = [NoBuild EXCEPT !.home = p, !.key = k,
                                                                 !.phase = "lookup"]]
                /\ inflight' = [inflight EXCEPT ![p][k] = b]
                /\ caller' = [caller EXCEPT ![c].state = "waiting", ![c].build = b]
                /\ look' = [look EXCEPT ![c] = NoLookup, ![b].at = "admit"]
  <2>1. PICK b \in Builds :
                /\ Unused(b)
                /\ build' = [build EXCEPT ![b] = [NoBuild EXCEPT !.home = p, !.key = k,
                                                                 !.phase = "lookup"]]
                /\ inflight' = [inflight EXCEPT ![p][k] = b]
                /\ caller' = [caller EXCEPT ![c].state = "waiting", ![c].build = b]
                /\ look' = [look EXCEPT ![c] = NoLookup, ![b].at = "admit"]
    BY <1>6
  <2>2. ~Open(b) /\ \A d \in Callers : ~Waits(d, b)
    BY <2>1 DEF Unused, Open, FlowInvariant, WaitersFollow
  <2>3. /\ build' \in [Builds -> BuildRecords]
        /\ build'[b].home = p /\ build'[b].key = k /\ build'[b].phase = "lookup"
        /\ build'[b].aborted = FALSE
        /\ \A x \in Builds \ {b} : build'[x] = build[x]
    <3> DEFINE r == BuildFor(p, k)
    <3>1. /\ r \in BuildRecords /\ r.home = p /\ r.key = k /\ r.phase = "lookup"
          /\ r.aborted = FALSE
      BY ZenonT(30), <1>1, NewBuild
    <3>2. build' = [build EXCEPT ![b] = r]
      BY <2>1 DEF BuildFor
    <3> HIDE DEF r
    <3>3. QED
      BY <3>1, <3>2 DEF FlowInvariant, FlowTypes
  <2>4. /\ caller' \in [Callers -> SessionRecords]
        /\ caller'[c].state = "waiting" /\ caller'[c].build = b /\ caller'[c].home = p
        /\ caller'[c].key = k /\ caller'[c].closing = caller[c].closing
             /\ caller'[c].todo = <<>>
        /\ \A d \in Callers \ {c} : caller'[d] = caller[d]
        /\ SessionsKeep
    BY <1>4, <2>1
  <2>5. /\ look' \in [Callers \cup Builds -> LookRecords]
        /\ look'[c].at = "none"
        /\ \A a \in (Callers \cup Builds) \ {b, c} : look'[a] = look[a]
    <3> DEFINE z == [look EXCEPT ![c] = NoLookup]
               r == [z[b] EXCEPT !.at = "admit"]
    <3>1. z \in [Callers \cup Builds -> LookRecords] /\ z[c].at = "none"
          /\ \A a \in (Callers \cup Builds) \ {c} : z[a] = look[a]
      BY <1>2
    <3>2. look' = [z EXCEPT ![b].at = "admit"]
      BY <2>1
    <3> HIDE DEF z
    <3>3. r \in LookRecords
      BY <3>1 DEF LookRecords
    <3>4. look' = [z EXCEPT ![b] = r]
      BY <3>2
    <3> HIDE DEF r
    <3>5. QED
      BY <1>2, <3>1, <3>3, <3>4
  <2>6. /\ \A x \in Builds \ {b} : Open(x)' <=> Open(x)
        /\ Open(b)'
        /\ \A d \in Callers, x \in Builds \ {b} : Matches(d, x)' <=> Matches(d, x)
        /\ \A d \in Callers \ {c}, x \in Builds : Waits(d, x)' <=> Waits(d, x)
        /\ \A d \in Callers \ {c}, x \in Builds \ {b} : Leaves(d, x)' <=> Leaves(d, x)
        /\ \A x \in Builds : ~Leaves(c, x) /\ (Waits(c, x)' <=> x = b) /\ ~Waits(c, x)
        /\ Matches(c, b)'
    BY <1>6, <2>3, <2>4 DEF Open, Matches, Waits, Leaves
  <2>7. /\ inflight' \in [Processes -> [Keys -> Builds \cup {None}]]
        /\ \A q \in Processes, j \in Keys :
              inflight'[q][j] = IF q = p /\ j = k THEN b ELSE inflight[q][j]
    BY <1>1, <2>1 DEF FlowInvariant, FlowTypes
  <2>8. FlowTypes'
    <3>1. \A x \in Builds :
             /\ build'[x].phase # "none" => build'[x].home \in Processes /\ build'[x].key \in Keys
             /\ build'[x].home \in Processes => build'[x].key \in Keys
      BY <1>1, <2>3 DEF FlowInvariant, FlowTypes
    <3>2. \A d \in Callers : caller'[d].state # "closed" =>
             caller'[d].home \in Processes /\ caller'[d].key \in Keys
      BY <1>1, <2>4 DEF FlowInvariant, FlowTypes
    <3>3. QED
      BY <2>3, <2>4, <2>5, <2>7, <3>1, <3>2 DEF FlowInvariant, FlowTypes
  <2>9. WaitersFollow'
    BY <2>2, <2>3, <2>4, <2>6 DEF FlowInvariant, WaitersFollow
  <2>10. LookupsFollow'
    <3>1. \A d \in Callers : look'[d].at # "none" => caller'[d].state = "looking"
      BY <2>4, <2>5 DEF FlowInvariant, LookupsFollow
    <3>2. \A x \in Builds : look'[x].at # "none" => build'[x].phase \in {"lookup", "winner"}
      BY <2>3, <2>5 DEF FlowInvariant, LookupsFollow
    <3>3. \A q \in Processes, x \in Builds :
             evictor[q].by = x => build'[x].phase = "evicting" /\ build'[x].home = q
      BY <2>2, <2>3 DEF FlowInvariant, LookupsFollow, Open
    <3>4. QED
      BY <3>1, <3>2, <3>3 DEF LookupsFollow
  <2>11. RunsAreRegistered'
    <3>1. ASSUME NEW x \in Builds, Open(x)', ~build'[x].aborted
          PROVE  inflight'[build'[x].home][build'[x].key] = x
      <4>1. CASE x = b
        BY <1>1, <2>3, <2>7, <4>1
      <4>2. CASE x # b
        <5>1. Open(x) /\ ~build[x].aborted /\ build'[x] = build[x]
          BY <2>3, <2>6, <3>1, <4>2
        <5>2. /\ inflight[build[x].home][build[x].key] = x
              /\ build[x].home \in Processes /\ build[x].key \in Keys
          BY <5>1 DEF FlowInvariant, RunsAreRegistered, FlowTypes, Open
        <5>3. inflight[p][k] # x
          <6>1. x # None
            BY DEF FlowInvariant
          <6>2. QED
            BY <1>6, <5>1, <6>1 DEF Joinable
        <5>4. QED
          BY <2>7, <5>1, <5>2, <5>3
      <4>3. QED
        BY <4>1, <4>2
    <3>2. ASSUME NEW x \in Builds, NEW q \in Processes, NEW j \in Keys, inflight'[q][j] = x
          PROVE  Open(x)' /\ build'[x].home = q /\ build'[x].key = j
      <4>1. CASE q = p /\ j = k
        BY <2>3, <2>6, <2>7, <3>2, <4>1
      <4>2. CASE ~(q = p /\ j = k)
        <5>1. inflight[q][j] = x
          BY <2>7, <3>2, <4>2
        <5>2. Open(x) /\ build[x].home = q /\ build[x].key = j
          BY <5>1 DEF FlowInvariant, RunsAreRegistered
        <5>3. x # b
          BY <2>2, <5>2
        <5>4. QED
          BY <2>3, <2>6, <5>2, <5>3
      <4>3. QED
        BY <4>1, <4>2
    <3>3. QED
      BY <3>1, <3>2 DEF RunsAreRegistered
  <2>12. RunsAreWanted'
    <3>1. ASSUME NEW x \in Builds \ {b}, Open(x)
          PROVE  IF build'[x].aborted THEN \E d \in Callers : Leaves(d, x)'
                 ELSE \E d \in Callers : Waits(d, x)'
      BY <2>3, <2>6, <3>1 DEF FlowInvariant, RunsAreWanted
    <3>2. QED
      BY <2>3, <2>6, <3>1 DEF RunsAreWanted
  <2>13. \A x \in Builds : Unused(x) \/ build'[x] = build[x]
    BY <2>1, <2>3
  <2>14. QED
    BY <2>1, <2>4, <2>8, <2>9, <2>10, <2>11, <2>12, <2>13 DEF FlowInvariant
<1>7. QED
  BY <1>3, <1>5, <1>6 DEF JoinOrBuild

(* The close of a session begins.                                           *)
ClosingOf(s) == [s EXCEPT !.closing = TRUE, !.build = None,
                          !.state = IF @ = "waiting" THEN "failed" ELSE @]
LEMMA ClosingRecord ==
    ASSUME NEW s \in SessionRecords
    PROVE  LET z == ClosingOf(s)
           IN  /\ z \in SessionRecords /\ z.closing = TRUE /\ z.build = None
               /\ z.state = IF s.state = "waiting" THEN "failed" ELSE s.state
               /\ z.home = s.home /\ z.key = s.key /\ z.todo = s.todo /\ z.awaited = s.awaited
               /\ z.project = s.project
BY DEF ClosingOf, SessionRecords, SessionStates

AbortedOf(r) == [r EXCEPT !.aborted = TRUE]
LEMMA AbortedRecord ==
    ASSUME NEW r \in BuildRecords
    PROVE  LET s == AbortedOf(r)
           IN  /\ s \in BuildRecords /\ s.phase = r.phase /\ s.home = r.home /\ s.key = r.key
               /\ s.aborted = TRUE
BY DEF AbortedOf, BuildRecords

LEMMA CloseKeepsFlow ==
    ASSUME FlowInvariant, NEW c \in Callers, BeginClose(c),
           caller[c].state # "retrying" => caller[c].todo = <<>>
    PROVE  /\ FlowInvariant'
           /\ SessionsKeep
           /\ \A x \in Builds : /\ build'[x].home = build[x].home
                                /\ build'[x].key = build[x].key
                                /\ build'[x].phase = build[x].phase
<1> USE CacheConstants
<1> DEFINE s == ClosingOf(caller[c])
<1> PICK b : b = caller[c].build
  OBVIOUS
<1>1. /\ caller[c] \in SessionRecords /\ b \in Builds \cup {None}
      /\ caller[c].state # "closed" /\ ~caller[c].closing
      /\ b # None => Waits(c, b)
  BY DEF FlowInvariant, FlowTypes, SessionRecords, BeginClose, WaitersFollow, Waits
<1>2. /\ s \in SessionRecords /\ s.closing = TRUE /\ s.build = None
      /\ s.state = IF caller[c].state = "waiting" THEN "failed" ELSE caller[c].state
      /\ s.home = caller[c].home /\ s.key = caller[c].key /\ s.todo = caller[c].todo
  BY <1>1, ClosingRecord
<1>3. caller' = [caller EXCEPT ![c] = s]
  BY DEF BeginClose, ClosingOf, FlowInvariant, FlowTypes
<1>4. /\ build' = IF b # None /\ LastWaiter(c, b) THEN [build EXCEPT ![b].aborted = TRUE]
                  ELSE build
      /\ UNCHANGED <<inflight, evictor, asks, look>>
  BY DEF BeginClose, memory, NoFault
<1> HIDE DEF s
<1>5. /\ caller' \in [Callers -> SessionRecords] /\ caller'[c] = s
      /\ \A d \in Callers \ {c} : caller'[d] = caller[d]
  BY <1>2, <1>3, SessionReplaced
<1>6. ASSUME NEW x \in Builds
      PROVE  /\ build'[x] \in BuildRecords
             /\ build'[x].home = build[x].home /\ build'[x].key = build[x].key
             /\ build'[x].phase = build[x].phase
             /\ IF x = b /\ LastWaiter(c, b) THEN build'[x].aborted = TRUE
                ELSE build'[x].aborted = build[x].aborted
  <2>1. build \in [Builds -> BuildRecords]
    BY DEF FlowInvariant, FlowTypes
  <2>2. CASE x = b /\ LastWaiter(c, b)
    <3>1. build'[x] = AbortedOf(build[x])
      BY <1>4, <2>1, <2>2 DEF AbortedOf
    <3>2. QED
      BY <2>1, <2>2, <3>1, AbortedRecord
  <2>3. CASE ~(x = b /\ LastWaiter(c, b))
    <3>1. build'[x] = build[x]
      BY <1>1, <1>4, <2>1, <2>3
    <3>2. QED
      BY <2>1, <2>3, <3>1
  <2>4. QED
    BY <2>2, <2>3
<1>7. build' \in [Builds -> BuildRecords]
  <2>1. build' = [x \in Builds |-> build'[x]]
    BY <1>4 DEF FlowInvariant, FlowTypes
  <2>2. QED
    BY <1>6, <2>1
<1>8. /\ \A x \in Builds : Open(x)' <=> Open(x)
      /\ \A d \in Callers, x \in Builds : Matches(d, x)' <=> Matches(d, x)
  BY <1>2, <1>5, <1>6 DEF Open, Matches
<1>9. /\ \A d \in Callers \ {c}, x \in Builds :
            (Waits(d, x)' <=> Waits(d, x)) /\ (Leaves(d, x)' <=> Leaves(d, x))
      /\ \A x \in Builds : ~Leaves(c, x) /\ ~Waits(c, x)' /\ (Waits(c, x) => x = b)
      /\ b # None => Leaves(c, b)'
  <2>1. \A d \in Callers \ {c}, x \in Builds :
            (Waits(d, x)' <=> Waits(d, x)) /\ (Leaves(d, x)' <=> Leaves(d, x))
    BY <1>5, <1>8 DEF Waits, Leaves
  <2>2. \A x \in Builds : ~Leaves(c, x) /\ ~Waits(c, x)' /\ (Waits(c, x) => x = b)
    BY <1>1, <1>2, <1>5 DEF Leaves, Waits
  <2>3. ASSUME b # None
        PROVE  Leaves(c, b)'
    <3>1. b \in Builds /\ Waits(c, b) /\ Matches(c, b)
      BY <1>1, <2>3 DEF FlowInvariant, WaitersFollow
    <3>2. caller'[c].closing /\ caller'[c].state = "failed"
      BY <1>2, <1>5, <3>1 DEF Waits
    <3>3. QED
      BY <1>8, <3>1, <3>2 DEF Leaves
  <2>4. QED
    BY <2>1, <2>2, <2>3
<1>10. FlowTypes'
  BY <1>2, <1>4, <1>5, <1>6, <1>7 DEF FlowInvariant, FlowTypes
<1>11. WaitersFollow'
  <2>1. ASSUME NEW d \in Callers, NEW x \in Builds, Waits(d, x)'
        PROVE  Open(x)' /\ Matches(d, x)' /\ ~build'[x].aborted
    <3>1. d # c /\ Waits(d, x)
      BY <1>9, <2>1
    <3>2. ~(x = b /\ LastWaiter(c, b))
      BY <3>1 DEF LastWaiter
    <3>3. build'[x].aborted = build[x].aborted
      BY <1>6, <3>2
    <3>4. QED
      BY <1>8, <3>1, <3>3 DEF FlowInvariant, WaitersFollow
  <2>2. \A d \in Callers : caller'[d].build # None => caller'[d].state = "waiting"
    BY <1>2, <1>5 DEF FlowInvariant, WaitersFollow
  <2>3. QED
    BY <2>1, <2>2 DEF WaitersFollow
<1>12. LookupsFollow'
  BY <1>2, <1>4, <1>5, <1>6 DEF FlowInvariant, LookupsFollow
<1>13. RunsAreRegistered'
  BY <1>4, <1>6, <1>8 DEF FlowInvariant, RunsAreRegistered
<1>14. RunsAreWanted'
  <2>1. ASSUME NEW x \in Builds, Open(x), build'[x].aborted
        PROVE  \E d \in Callers : Leaves(d, x)'
    <3>1. CASE x = b /\ LastWaiter(c, b)
      BY <1>9, <3>1
    <3>2. CASE ~(x = b /\ LastWaiter(c, b))
      <4>1. build[x].aborted
        BY <1>6, <2>1, <3>2
      <4>2. PICK d \in Callers : Leaves(d, x)
        BY <2>1, <4>1 DEF FlowInvariant, RunsAreWanted
      <4>3. QED
        BY <1>9, <4>2
    <3>3. QED
      BY <3>1, <3>2
  <2>2. ASSUME NEW x \in Builds, Open(x), ~build'[x].aborted
        PROVE  \E d \in Callers : Waits(d, x)'
    <3>1. ~(x = b /\ LastWaiter(c, b)) /\ ~build[x].aborted
      BY <1>6, <2>2
    <3>2. PICK d \in Callers : Waits(d, x)
      BY <2>2, <3>1 DEF FlowInvariant, RunsAreWanted
    <3>3. CASE d # c
      BY <1>9, <3>2, <3>3
    <3>4. CASE d = c
      <4>1. x = b /\ ~LastWaiter(c, b)
        BY <1>9, <3>1, <3>2, <3>4
      <4>2. PICK e \in Callers \ {c} : Waits(e, b)
        BY <4>1 DEF LastWaiter
      <4>3. QED
        BY <1>9, <4>1, <4>2
    <3>5. QED
      BY <3>3, <3>4
  <2>3. QED
    BY <1>8, <2>1, <2>2 DEF RunsAreWanted
<1>15. SessionsKeep
  BY <1>1, <1>2, <1>5 DEF SessionsKeep, KeepsSession, CloseStates
<1>16. QED
  BY <1>6, <1>10, <1>11, <1>12, <1>13, <1>14, <1>15 DEF FlowInvariant

(* A process dies with its sessions and its builds.                         *)
LEMMA CrashKeepsFlow ==
    ASSUME FlowInvariant, NEW p \in Processes, Crash(p)
    PROVE  /\ FlowInvariant'
           /\ \A x \in Builds :
                 /\ build'[x].home = build[x].home /\ build'[x].key = build[x].key
                 /\ build'[x].phase = IF build[x].home = p THEN "lost" ELSE build[x].phase
           /\ \A c \in Callers :
                 IF caller[c].home = p
                 THEN caller'[c].state = "closed" /\ caller'[c].todo = <<>>
                 ELSE caller'[c] = caller[c]
<1> USE CacheConstants
<1>1. /\ build' = [b \in Builds |-> IF build[b].home = p
                                   THEN [build[b] EXCEPT !.phase = "lost"] ELSE build[b]]
      /\ caller' = [c \in Callers |-> IF caller[c].home = p THEN NoSession ELSE caller[c]]
      /\ look' = [a \in Callers \cup Builds |->
                    IF ProcessOf(a) = p THEN NoLookup ELSE look[a]]
      /\ inflight' = [inflight EXCEPT ![p] = [k \in Keys |-> None]]
      /\ evictor' = [evictor EXCEPT ![p] = NoEviction]
      /\ asks' = asks
  BY DEF Crash, Fault
<1>2. ASSUME NEW x \in Builds
      PROVE  /\ build'[x] \in BuildRecords
             /\ build'[x].home = build[x].home /\ build'[x].key = build[x].key
             /\ build'[x].phase = IF build[x].home = p THEN "lost" ELSE build[x].phase
             /\ build[x].home # p => build'[x] = build[x]
             /\ build[x].home = p => ~Open(x)'
  <2>1. build[x] \in BuildRecords
    BY DEF FlowInvariant, FlowTypes
  <2>2. CASE build[x].home = p
    <3>1. build'[x] = [build[x] EXCEPT !.phase = "lost"]
      BY <1>1, <2>2
    <3>2. \A r \in BuildRecords :
             LET s == [r EXCEPT !.phase = "lost"]
             IN  s \in BuildRecords /\ s.phase = "lost" /\ s.home = r.home /\ s.key = r.key
      BY DEF BuildRecords, Phases
    <3>3. QED
      BY <2>1, <2>2, <3>1, <3>2 DEF Open
  <2>3. CASE build[x].home # p
    BY <1>1, <2>1, <2>3
  <2>4. QED
    BY <2>2, <2>3
<1>3. build' \in [Builds -> BuildRecords]
  <2>1. build' = [x \in Builds |-> build'[x]]
    BY <1>1
  <2>2. QED
    BY <1>2, <2>1
<1>4. /\ NoSession \in SessionRecords /\ NoSession.state = "closed" /\ NoSession.build = None
      /\ NoSession.todo = <<>> /\ NoSession.home = None
  BY DEF NoSession, SessionRecords, SessionStates
<1>5. \A c \in Callers : caller'[c] = IF caller[c].home = p THEN NoSession ELSE caller[c]
  BY <1>1
<1>6. caller' \in [Callers -> SessionRecords]
  BY <1>1, <1>4 DEF FlowInvariant, FlowTypes
<1>7. /\ look' \in [Callers \cup Builds -> LookRecords]
      /\ \A c \in Callers :
            look'[c].at # "none" => caller[c].home # p /\ look'[c] = look[c]
      /\ \A b \in Builds : look'[b].at # "none" => build[b].home # p /\ look'[b] = look[b]
  <2>1. NoLookup \in LookRecords /\ NoLookup.at = "none"
    BY DEF NoLookup, LookRecords
  <2>2. QED
    BY <1>1, <2>1 DEF FlowInvariant, FlowTypes, ProcessOf
<1>8. /\ inflight' \in [Processes -> [Keys -> Builds \cup {None}]]
      /\ \A q \in Processes, k \in Keys :
            inflight'[q][k] = IF q = p THEN None ELSE inflight[q][k]
  BY <1>1 DEF FlowInvariant, FlowTypes
<1>9. /\ evictor' \in [Processes -> Evictions]
      /\ \A q \in Processes, b \in Builds :
            evictor'[q].by = b => q # p /\ evictor[q].by = b
  <2>1. NoEviction \in Evictions /\ NoEviction.by = None
    BY DEF NoEviction, Evictions
  <2>2. QED
    BY <1>1, <2>1 DEF FlowInvariant, FlowTypes
<1>10. /\ \A x \in Builds : Open(x)' <=> Open(x) /\ build[x].home # p
       /\ \A c \in Callers, x \in Builds :
            /\ Waits(c, x)' <=> Waits(c, x) /\ caller[c].home # p
            /\ Leaves(c, x) /\ caller[c].home # p => Leaves(c, x)'
            /\ Matches(c, x) /\ caller[c].home # p => Matches(c, x)'
  <2>1. \A x \in Builds : Open(x)' <=> Open(x) /\ build[x].home # p
    BY <1>2 DEF Open
  <2>2. \A c \in Callers, x \in Builds :
            /\ Waits(c, x)' <=> Waits(c, x) /\ caller[c].home # p
            /\ Matches(c, x) /\ caller[c].home # p => Matches(c, x)'
    BY <1>2, <1>4, <1>5 DEF Waits, Matches
  <2>3. \A c \in Callers, x \in Builds : Leaves(c, x) /\ caller[c].home # p => Leaves(c, x)'
    BY <1>5, <2>2 DEF Leaves
  <2>4. QED
    BY <2>1, <2>2, <2>3
<1>11. FlowTypes'
  <2>1. \A x \in Builds :
           /\ build'[x].phase # "none" => build'[x].home \in Processes /\ build'[x].key \in Keys
           /\ build'[x].home \in Processes => build'[x].key \in Keys
    BY <1>2 DEF FlowInvariant, FlowTypes
  <2>2. \A c \in Callers : caller'[c].state # "closed" =>
           caller'[c].home \in Processes /\ caller'[c].key \in Keys
    BY <1>4, <1>5 DEF FlowInvariant, FlowTypes
  <2>3. QED
    BY <1>1, <1>3, <1>6, <1>7, <1>8, <1>9, <2>1, <2>2 DEF FlowInvariant, FlowTypes
<1>12. WaitersFollow'
  <2>1. \A c \in Callers, x \in Builds :
           Waits(c, x)' => Open(x)' /\ Matches(c, x)' /\ ~build'[x].aborted
    BY <1>2, <1>10 DEF FlowInvariant, WaitersFollow, Matches
  <2>2. \A c \in Callers : caller'[c].build # None => caller'[c].state = "waiting"
    BY <1>4, <1>5 DEF FlowInvariant, WaitersFollow
  <2>3. QED
    BY <2>1, <2>2 DEF WaitersFollow
<1>13. LookupsFollow'
  <2>1. \A c \in Callers : look'[c].at # "none" => caller'[c].state = "looking"
    BY <1>5, <1>7 DEF FlowInvariant, LookupsFollow
  <2>2. \A b \in Builds : look'[b].at # "none" => build'[b].phase \in {"lookup", "winner"}
    BY <1>2, <1>7 DEF FlowInvariant, LookupsFollow
  <2>3. \A q \in Processes, b \in Builds :
           evictor'[q].by = b => build'[b].phase = "evicting" /\ build'[b].home = q
    BY <1>2, <1>9 DEF FlowInvariant, LookupsFollow
  <2>4. QED
    BY <2>1, <2>2, <2>3 DEF LookupsFollow
<1>14. RunsAreRegistered'
  <2>1. ASSUME NEW x \in Builds, Open(x)', ~build'[x].aborted
        PROVE  inflight'[build'[x].home][build'[x].key] = x
    <3>1. Open(x) /\ build[x].home # p /\ build'[x] = build[x]
      BY <1>2, <1>10, <2>1
    <3>2. build[x].home \in Processes /\ build[x].key \in Keys
      BY <3>1 DEF FlowInvariant, FlowTypes, Open
    <3>3. QED
      BY <1>8, <2>1, <3>1, <3>2 DEF FlowInvariant, RunsAreRegistered
  <2>2. ASSUME NEW x \in Builds, NEW q \in Processes, NEW k \in Keys, inflight'[q][k] = x
        PROVE  Open(x)' /\ build'[x].home = q /\ build'[x].key = k
    <3>1. q # p /\ inflight[q][k] = x
      BY <1>8, <2>2
    <3>2. Open(x) /\ build[x].home = q /\ build[x].key = k
      BY <3>1 DEF FlowInvariant, RunsAreRegistered
    <3>3. QED
      BY <1>2, <1>10, <3>1, <3>2
  <2>3. QED
    BY <2>1, <2>2 DEF RunsAreRegistered
<1>15. RunsAreWanted'
  <2>1. ASSUME NEW x \in Builds, Open(x)'
        PROVE  IF build'[x].aborted THEN \E c \in Callers : Leaves(c, x)'
               ELSE \E c \in Callers : Waits(c, x)'
    <3>1. Open(x) /\ build[x].home # p /\ build'[x] = build[x]
      BY <1>2, <1>10, <2>1
    <3>2. CASE build[x].aborted
      <4>1. PICK c \in Callers : Leaves(c, x)
        BY <3>1, <3>2 DEF FlowInvariant, RunsAreWanted
      <4>2. caller[c].home # p
        BY <3>1, <4>1 DEF Leaves, Matches
      <4>3. QED
        BY <1>10, <3>1, <3>2, <4>1, <4>2
    <3>3. CASE ~build[x].aborted
      <4>1. PICK c \in Callers : Waits(c, x)
        BY <3>1, <3>3 DEF FlowInvariant, RunsAreWanted
      <4>2. caller[c].home # p
        BY <3>1, <4>1 DEF FlowInvariant, WaitersFollow, Matches
      <4>3. QED
        BY <1>10, <3>1, <3>3, <4>1, <4>2
    <3>4. QED
      BY <3>2, <3>3
  <2>2. QED
    BY <2>1 DEF RunsAreWanted
<1>16. QED
  BY <1>2, <1>4, <1>5, <1>11, <1>12, <1>13, <1>14, <1>15 DEF FlowInvariant

-----------------------------------------------------------------------------
(* Staging, entries and what is retained *)

StorageTypes ==
    /\ entry \in [Keys -> Builds \cup {None}]
    /\ tampered \subseteq Builds /\ staging \subseteq Builds /\ live \subseteq Builds
    /\ verified \in [Processes -> [Keys -> Builds \cup {None}]]
    /\ retained \in [Processes -> Seq(Builds)]
    /\ files = [p \in Processes |-> files[p]]
    /\ \A c \in Callers : caller[c].todo # <<>> => caller[c].state = "retrying"

(* Where a build may be on the disk, and in whose lists.                    *)
DiskOf(b) ==
    /\ b \in live => b \in staging /\ build[b].phase \in {"export", "done", "lost"}
    /\ \A k \in Keys : entry[k] = b =>
          b \notin live /\ build[b].phase \in {"retire", "evict", "evicting", "done", "lost"}
    /\ Retired("staging", b) \in trash => b \notin staging /\ Over(b)
    /\ \A p \in Processes : \A f \in files[p] :
          f.item = Retired("staging", b) => b \notin live /\ Over(b)
    /\ \A p \in Processes : In(b, retained[p]) => build[b].phase = "done" /\ build[b].home = p
    /\ \A c \in Callers : In(b, caller[c].todo) =>
          build[b].phase = "done" /\ build[b].home = caller[c].home

(* A session that is not closed answers for a retained process.             *)
RetainedAreAnswered ==
    \A b \in Builds, p \in Processes : In(b, retained[p]) =>
        \E c \in Callers : caller[c].state # "closed" /\ Matches(c, b)

ListsAreSets ==
    /\ \A p \in Processes : NoDuplicates(retained[p])
    /\ \A c \in Callers : NoDuplicates(caller[c].todo)

StorageInvariant ==
    /\ StorageTypes /\ RetainedAreAnswered /\ ListsAreSets
    /\ \A b \in Builds : DiskOf(b)

(* With one close at a time: a Kuna that outlives its build is retained, and *)
(* so is what a close still has to stop.                                    *)
LiveAreRetained == \A b \in live : build[b].phase = "done" => In(b, retained[build[b].home])
TodoIsRetained ==
    \A c \in Callers, b \in Builds : In(b, caller[c].todo) => In(b, retained[caller[c].home])
OneCloses ==
    \A c, d \in Callers :
        /\ caller[c].state \in CloseStates /\ caller[d].state \in CloseStates
        /\ caller[c].home = caller[d].home
        => c = d
CloseInvariant == LiveAreRetained /\ TodoIsRetained /\ OneCloses

CacheInvariant == FlowInvariant /\ StorageInvariant

(* What most steps do to the disk, as far as a build is concerned.          *)
StaysOnDisk(x) ==
    /\ x \in live' => x \in live
    /\ x \in staging' => x \in staging
    /\ x \in live' /\ x \in staging => x \in staging'
    /\ \A k \in Keys : entry'[k] = x => entry[k] = x
    /\ Retired("staging", x) \in trash' => Retired("staging", x) \in trash
    /\ \A p \in Processes : \A f \in files'[p] :
          f.item = Retired("staging", x) => f \in files[p] \/ Retired("staging", x) \in trash

Shrinks(x) ==
    /\ StaysOnDisk(x)
    /\ \A p \in Processes : In(x, retained'[p]) => In(x, retained[p])
    /\ \A c \in Callers : In(x, caller'[c].todo) =>
          In(x, caller[c].todo) /\ caller'[c].home = caller[c].home

LEMMA EmptyList == /\ \A x : ~In(x, <<>>)
                   /\ NoDuplicates(<<>>)
BY DEF In, NoDuplicates

LEMMA ListSet ==
    ASSUME NEW S, NEW q \in Seq(S), NEW x
    PROVE  In(x, q) <=> x \in ToSet(q)
BY LenProperties DEF In, ToSet

LEMMA UnusedFacts ==
    ASSUME FlowInvariant, StorageTypes, NEW b \in Builds, Unused(b)
    PROVE  /\ ~Open(b) /\ b \notin live /\ b \notin staging
           /\ \A k \in Keys : entry[k] # b
           /\ Retired("staging", b) \notin trash
           /\ \A p \in Processes : \A f \in files[p] : f.item # Retired("staging", b)
           /\ \A p \in Processes : ~In(b, retained[p])
           /\ \A c \in Callers : ~In(b, caller[c].todo)
<1>1. \A p \in Processes : retained[p] \in Seq(Builds)
  BY DEF StorageTypes
<1>2. \A c \in Callers : caller[c].todo \in Seq(Builds)
  BY DEF FlowInvariant, FlowTypes, SessionRecords
<1>3. \A p \in Processes : ~In(b, retained[p])
  BY <1>1, ListSet DEF Unused
<1>4. \A c \in Callers : ~In(b, caller[c].todo)
  BY <1>2, ListSet DEF Unused
<1>5. QED
  BY <1>3, <1>4 DEF Unused, Open

LEMMA DiskKept ==
    ASSUME FlowInvariant, StorageTypes, NEW b \in Builds, DiskOf(b), Shrinks(b),
           Unused(b) \/ KeepsBuild(b)
    PROVE  DiskOf(b)'
<1>1. CASE Unused(b)
  <2>1. /\ b \notin live' /\ Retired("staging", b) \notin trash'
        /\ \A k \in Keys : entry'[k] # b
        /\ \A p \in Processes : \A f \in files'[p] : f.item # Retired("staging", b)
        /\ \A p \in Processes : ~In(b, retained'[p])
        /\ \A c \in Callers : ~In(b, caller'[c].todo)
    BY <1>1, UnusedFacts DEF Shrinks, StaysOnDisk
  <2>2. QED
    BY <2>1 DEF DiskOf, Retired
<1>2. CASE KeepsBuild(b)
  <2>1. b \in live' => b \in staging' /\ build'[b].phase \in {"export", "done", "lost"}
    BY <1>2 DEF DiskOf, Shrinks, StaysOnDisk, KeepsBuild, Over
  <2>2. ASSUME NEW k \in Keys, entry'[k] = b
        PROVE  /\ b \notin live'
               /\ build'[b].phase \in {"retire", "evict", "evicting", "done", "lost"}
    BY <1>2, <2>2 DEF DiskOf, Shrinks, StaysOnDisk, KeepsBuild, Over
  <2>3. Over(b) => Over(b)'
    BY <1>2 DEF KeepsBuild, Over
  <2>4. Retired("staging", b) \in trash' => b \notin staging' /\ Over(b)'
    BY <2>3 DEF DiskOf, Shrinks, StaysOnDisk
  <2>5. \A p \in Processes : \A f \in files'[p] :
           f.item = Retired("staging", b) => b \notin live' /\ Over(b)'
    BY <2>3 DEF DiskOf, Shrinks, StaysOnDisk
  <2>6. \A p \in Processes :
           In(b, retained'[p]) => build'[b].phase = "done" /\ build'[b].home = p
    BY <1>2 DEF DiskOf, Shrinks, StaysOnDisk, KeepsBuild, Over
  <2>7. \A c \in Callers : In(b, caller'[c].todo) =>
           build'[b].phase = "done" /\ build'[b].home = caller'[c].home
    BY <1>2 DEF DiskOf, Shrinks, StaysOnDisk, KeepsBuild, Over
  <2>8. QED
    BY <2>1, <2>2, <2>4, <2>5, <2>6, <2>7 DEF DiskOf, Retired
<1>3. QED
  BY <1>1, <1>2

(* The steps of sessions that keep their lists.                             *)
LEMMA TodoKept ==
    ASSUME StorageInvariant, SessionsKeep, NEW c \in Callers
    PROVE  /\ NoDuplicates(caller'[c].todo)
           /\ caller'[c].todo # <<>> => caller'[c].state = "retrying"
           /\ \A b : In(b, caller'[c].todo) =>
                 In(b, caller[c].todo) /\ caller'[c].home = caller[c].home
<1>1. caller'[c].todo # <<>> => /\ caller'[c].todo = caller[c].todo
                               /\ caller'[c].state = "retrying"
                               /\ caller'[c].home = caller[c].home
  BY DEF SessionsKeep, KeepsSession, StorageInvariant, StorageTypes
<1>2. CASE caller'[c].todo = <<>>
  BY <1>2, EmptyList
<1>3. CASE caller'[c].todo # <<>>
  BY <1>1, <1>3 DEF StorageInvariant, ListsAreSets
<1>4. QED
  BY <1>2, <1>3

LEMMA ClosersKept ==
    ASSUME OneCloses, SessionsKeep
    PROVE  OneCloses'
BY DEF OneCloses, SessionsKeep, KeepsSession, CloseStates

LEMMA ListsKept ==
    ASSUME FlowInvariant, StorageInvariant, BuildsKeep, SessionsKeep, UNCHANGED retained
    PROVE  /\ RetainedAreAnswered' /\ ListsAreSets'
           /\ \A c \in Callers : caller'[c].todo # <<>> => caller'[c].state = "retrying"
           /\ \A c \in Callers, b \in Builds : In(b, caller'[c].todo) =>
                 In(b, caller[c].todo) /\ caller'[c].home = caller[c].home
<1>1. \A c \in Callers :
         /\ NoDuplicates(caller'[c].todo)
         /\ caller'[c].todo # <<>> => caller'[c].state = "retrying"
         /\ \A b : In(b, caller'[c].todo) =>
               In(b, caller[c].todo) /\ caller'[c].home = caller[c].home
  BY TodoKept
<1>2. RetainedAreAnswered'
  <2>1. ASSUME NEW b \in Builds, NEW p \in Processes, In(b, retained[p])
        PROVE  \E c \in Callers : caller'[c].state # "closed" /\ Matches(c, b)'
    <3>1. PICK c \in Callers : caller[c].state # "closed" /\ Matches(c, b)
      BY <2>1 DEF StorageInvariant, RetainedAreAnswered
    <3>2. ~Unused(b)
      BY <2>1, UnusedFacts DEF StorageInvariant
    <3>3. Matches(c, b)' /\ caller'[c].state # "closed"
      BY <3>1, <3>2 DEF BuildsKeep, KeepsBuild, SessionsKeep, KeepsSession, Matches
    <3>4. QED
      BY <3>3
  <2>2. QED
    BY <2>1 DEF RetainedAreAnswered
<1>3. ListsAreSets'
  BY <1>1 DEF StorageInvariant, ListsAreSets
<1>4. QED
  BY <1>1, <1>2, <1>3

LEMMA CloseKept ==
    ASSUME FlowInvariant, StorageInvariant, CloseInvariant, BuildsKeep, SessionsKeep,
           UNCHANGED retained, live' \subseteq Builds,
           \A b \in live' : b \in live \/ build'[b].phase # "done"
    PROVE  CloseInvariant'
<1>1. LiveAreRetained'
  <2>1. ASSUME NEW b \in live', build'[b].phase = "done"
        PROVE  In(b, retained'[build'[b].home])
    <3>1. b \in live /\ b \in Builds
      BY <2>1
    <3>2. KeepsBuild(b)
      BY <3>1 DEF BuildsKeep, Unused
    <3>3. build[b].phase = "done" /\ build'[b].home = build[b].home
      BY <2>1, <3>1, <3>2 DEF KeepsBuild, StorageInvariant, DiskOf, Over
    <3>4. QED
      BY <3>1, <3>3 DEF CloseInvariant, LiveAreRetained
  <2>2. QED
    BY <2>1 DEF LiveAreRetained
<1>2. TodoIsRetained'
  BY TodoKept DEF CloseInvariant, TodoIsRetained
<1>3. OneCloses'
  BY ClosersKept DEF CloseInvariant
<1>4. QED
  BY <1>1, <1>2, <1>3 DEF CloseInvariant

(* What most steps do to what is stored and remembered.                     *)
DiskShrinks ==
    /\ entry' \in [Keys -> Builds \cup {None}] /\ tampered' \subseteq Builds
    /\ verified' \in [Processes -> [Keys -> Builds \cup {None}]]
    /\ files' = [p \in Processes |-> files'[p]]
    /\ live' \subseteq live /\ staging' \subseteq staging /\ live' \cap staging \subseteq staging'
    /\ \A k \in Keys : entry'[k] \in {entry[k], None}
    /\ \A x \in Builds : Retired("staging", x) \in trash' => Retired("staging", x) \in trash
    /\ \A p \in Processes : \A f \in files'[p] :
          (\E x \in Builds : f.item = Retired("staging", x)) => f \in files[p]
    /\ UNCHANGED retained

CacheKept == CacheInvariant' /\ (OneCloseAtATime /\ CloseInvariant => CloseInvariant')

LEMMA StorageKept ==
    ASSUME CacheInvariant, FlowInvariant', BuildsKeep, SessionsKeep, DiskShrinks
    PROVE  CacheKept
<1> USE CacheConstants DEF CacheInvariant
<1>1. /\ RetainedAreAnswered' /\ ListsAreSets'
      /\ \A c \in Callers : caller'[c].todo # <<>> => caller'[c].state = "retrying"
      /\ \A c \in Callers, b \in Builds : In(b, caller'[c].todo) =>
            In(b, caller[c].todo) /\ caller'[c].home = caller[c].home
  BY ListsKept DEF DiskShrinks
<1>2. StorageTypes'
  BY <1>1 DEF StorageInvariant, StorageTypes, DiskShrinks
<1>3. ASSUME NEW b \in Builds
      PROVE  DiskOf(b)'
  <2>1. Shrinks(b)
    BY <1>1 DEF DiskShrinks, Shrinks, StaysOnDisk
  <2>2. QED
    BY <2>1, DiskKept DEF StorageInvariant, BuildsKeep
<1>4. CloseInvariant => CloseInvariant'
  BY <1>2, CloseKept DEF DiskShrinks, StorageTypes
<1>5. QED
  BY <1>1, <1>2, <1>3, <1>4 DEF StorageInvariant, CacheKept

(* One build may be somewhere else now.                                     *)
LEMMA StorageKeptBut ==
    ASSUME CacheInvariant, NEW b \in Builds, FlowInvariant', BuildsKeep, SessionsKeep,
           UNCHANGED retained, entry' \in [Keys -> Builds \cup {None}],
           tampered' \subseteq Builds, staging' \subseteq Builds, live' \subseteq Builds,
           verified' \in [Processes -> [Keys -> Builds \cup {None}]],
           files' = [p \in Processes |-> files'[p]], DiskOf(b)',
           \A x \in live' : x \in live \/ build'[x].phase # "done",
           \A x \in Builds \ {b} : StaysOnDisk(x)
    PROVE  CacheKept
<1> USE CacheConstants DEF CacheInvariant
<1>1. /\ RetainedAreAnswered' /\ ListsAreSets'
      /\ \A c \in Callers : caller'[c].todo # <<>> => caller'[c].state = "retrying"
      /\ \A c \in Callers, x \in Builds : In(x, caller'[c].todo) =>
            In(x, caller[c].todo) /\ caller'[c].home = caller[c].home
  BY ListsKept
<1>2. StorageTypes'
  BY <1>1 DEF StorageInvariant, StorageTypes
<1>3. ASSUME NEW x \in Builds \ {b}
      PROVE  DiskOf(x)'
  <2>1. Shrinks(x)
    BY <1>1 DEF Shrinks
  <2>2. QED
    BY <2>1, DiskKept DEF StorageInvariant, BuildsKeep
<1>4. CloseInvariant => CloseInvariant'
  BY CloseKept
<1>5. QED
  BY <1>1, <1>2, <1>3, <1>4 DEF StorageInvariant, CacheKept

LEMMA DiskStays ==
    ASSUME CacheInvariant, UNCHANGED <<entry, tampered, staging, trash, live, retained, files>>,
           verified' \in [Processes -> [Keys -> Builds \cup {None}]]
    PROVE  DiskShrinks
BY DEF CacheInvariant, StorageInvariant, StorageTypes, DiskShrinks

LEMMA IdleLists ==
    ASSUME CacheInvariant
    PROVE  \A c \in Callers : caller[c].state # "retrying" => caller[c].todo = <<>>
BY DEF CacheInvariant, StorageInvariant, StorageTypes

-----------------------------------------------------------------------------
(* Steps of lookups *)

Active == {"looking", "idle", "serving", "failed"}

(* A session that neither waits nor closes goes on to another such state.   *)
LEMMA SessionMoves ==
    ASSUME CacheInvariant, NEW c \in Callers, NEW s \in SessionRecords,
           caller' = [caller EXCEPT ![c] = s], caller[c].state \in Active, s.state \in Active,
           s.home = caller[c].home, s.key = caller[c].key, s.closing = caller[c].closing,
           s.build = caller[c].build, s.todo = caller[c].todo,
           UNCHANGED <<build, inflight, evictor, asks>>,
           look' \in [Callers \cup Builds -> LookRecords],
           \A x \in (Callers \cup Builds) \ {c} : look'[x].at = look[x].at,
           look'[c].at # "none" => s.state = "looking"
    PROVE  FlowInvariant' /\ SessionsKeep /\ BuildsKeep
<1> USE CacheConstants DEF CacheInvariant
<1>1. /\ caller' \in [Callers -> SessionRecords] /\ caller'[c] = s
      /\ \A d \in Callers \ {c} : caller'[d] = caller[d]
  BY SessionReplaced
<1>2. /\ s.build = None /\ s.home \in Processes /\ s.key \in Keys
      /\ caller[c].state # "waiting" /\ s.state # "waiting"
  BY DEF FlowInvariant, FlowTypes, WaitersFollow, Active
<1>3. \A b \in Builds : Leaves(c, b) => Leaves(c, b)'
  BY <1>1 DEF Leaves, Matches, Active
<1>4. FlowInvariant'
  BY <1>1, <1>2, <1>3, MoveKeepsFlow
<1>5. caller[c].todo = <<>>
  BY IdleLists DEF Active
<1>6. SessionsKeep
  BY <1>1, <1>5 DEF SessionsKeep, KeepsSession, Active, CloseStates
<1>7. BuildsKeep
  BY DEF BuildsKeep, KeepsBuild, Over
<1>8. QED
  BY <1>4, <1>6, <1>7

LEMMA PhaseKeeps ==
    ASSUME CacheInvariant, NEW b \in Builds, NEW to \in Phases \ {"none", "done", "lost"},
           NEW project \in Builds \cup {None}, Open(b), Phase(b, to, project),
           UNCHANGED <<caller, inflight, asks>>,
           look' \in [Callers \cup Builds -> LookRecords],
           \A a \in (Callers \cup Builds) \ {b} : look'[a].at = look[a].at,
           look'[b].at # "none" => to \in {"lookup", "winner"},
           evictor' \in [Processes -> Evictions],
           \A p \in Processes :
              /\ evictor'[p].by = b => to = "evicting" /\ build[b].home = p
              /\ \A x \in Builds \ {b} : evictor'[p].by = x => evictor[p].by = x,
           build[b].phase = "export" /\ b \in live' => to = "export",
           build[b].phase \in {"retire", "evict", "evicting"} =>
              to \in {"retire", "evict", "evicting"}
    PROVE  FlowInvariant' /\ SessionsKeep /\ BuildsKeep
<1>1. /\ FlowInvariant' /\ SessionsKeep
      /\ build'[b].home = build[b].home /\ build'[b].key = build[b].key
      /\ build'[b].phase = to
      /\ \A x \in Builds \ {b} : build'[x] = build[x]
  BY PhaseKeepsFlow DEF CacheInvariant
<1>2. KeepsBuild(b)
  BY <1>1 DEF KeepsBuild, Open, Over
<1>3. \A x \in Builds \ {b} : KeepsBuild(x)
  BY <1>1 DEF KeepsBuild, Over
<1>4. QED
  BY <1>1, <1>2, <1>3 DEF BuildsKeep

LEMMA FinishKeeps ==
    ASSUME CacheInvariant, NEW b \in Builds, NEW project \in Builds \cup {None}, Open(b),
           Finish(b, project), UNCHANGED asks,
           look' \in [Callers \cup Builds -> LookRecords],
           \A a \in (Callers \cup Builds) \ {b} : look'[a].at = look[a].at,
           look'[b].at = "none",
           evictor' \in [Processes -> Evictions],
           \A p \in Processes :
              /\ evictor'[p].by # b
              /\ \A x \in Builds : evictor'[p].by = x => evictor[p].by = x,
           ~(build[b].phase = "export" /\ b \in live')
    PROVE  FlowInvariant' /\ SessionsKeep /\ BuildsKeep
<1>1. /\ FlowInvariant' /\ SessionsKeep
      /\ build'[b].home = build[b].home /\ build'[b].key = build[b].key
      /\ build'[b].phase = "done"
      /\ \A x \in Builds \ {b} : build'[x] = build[x]
  BY FinishKeepsFlow, IdleLists DEF CacheInvariant
<1>2. KeepsBuild(b)
  BY <1>1 DEF KeepsBuild, Open, Over
<1>3. \A x \in Builds \ {b} : KeepsBuild(x)
  BY <1>1 DEF KeepsBuild, Over
<1>4. QED
  BY <1>1, <1>2, <1>3 DEF BuildsKeep

(* The lookup of a build or session is over.                                *)
LEMMA LookupLeft ==
    ASSUME FlowInvariant, NEW a \in Callers \cup Builds, look' = [look EXCEPT ![a] = NoLookup]
    PROVE  /\ look' \in [Callers \cup Builds -> LookRecords] /\ look'[a].at = "none"
           /\ \A x \in (Callers \cup Builds) \ {a} : look'[x].at = look[x].at
<1>1. NoLookup \in LookRecords /\ NoLookup.at = "none"
  BY DEF NoLookup, LookRecords
<1>2. QED
  BY <1>1 DEF FlowInvariant, FlowTypes

LEMMA BuildLooks ==
    ASSUME FlowInvariant, NEW b \in Builds, look[b].at # "none"
    PROVE  /\ Open(b) /\ build[b].phase \in {"lookup", "winner"}
           /\ \A p \in Processes : evictor[p].by # b
           /\ evictor \in [Processes -> Evictions]
BY DEF FlowInvariant, FlowTypes, LookupsFollow, Open

LEMMA GoesOnKeeps ==
    ASSUME CacheInvariant, NEW a \in Callers \cup Builds, look[a].at # "none",
           NEW found \in Builds \cup {None}, GoesOn(a, found), UNCHANGED <<evictor, asks>>
    PROVE  FlowInvariant' /\ SessionsKeep /\ BuildsKeep
<1> USE CacheConstants DEF CacheInvariant
<1>1. CASE a \in Callers
  <2>1. caller[a].state = "looking" /\ caller[a] \in SessionRecords /\ caller[a].todo = <<>>
    BY <1>1, IdleLists DEF FlowInvariant, FlowTypes, LookupsFollow
  <2>2. CASE found # None
    <3> DEFINE y == [caller[a] EXCEPT !.state = "serving"]
               s == [y EXCEPT !.project = found]
    <3>1. /\ y \in SessionRecords /\ y.state = "serving" /\ y.home = caller[a].home
          /\ y.key = caller[a].key /\ y.build = caller[a].build
          /\ y.closing = caller[a].closing /\ y.todo = caller[a].todo
      BY ZenonT(30), <2>1, SessionFields DEF SessionStates
    <3>2. caller' = [caller EXCEPT ![a] = s] /\ look' = [look EXCEPT ![a] = NoLookup]
          /\ UNCHANGED <<build, inflight>>
      BY <1>1, <2>2 DEF GoesOn, SessionGoesOn, FlowInvariant, FlowTypes
    <3> HIDE DEF y
    <3>3. /\ s \in SessionRecords /\ s.state = "serving" /\ s.home = caller[a].home
          /\ s.key = caller[a].key /\ s.build = caller[a].build
          /\ s.closing = caller[a].closing /\ s.todo = caller[a].todo
      BY <3>1, SessionFields
    <3> HIDE DEF s
    <3>4. QED
      BY <1>1, <2>1, <3>2, <3>3, SessionMoves, LookupLeft DEF Active
  <2>3. CASE found = None
    <3>1. JoinOrBuild(a)
      BY <1>1, <2>3 DEF GoesOn, SessionGoesOn
    <3>2. /\ FlowInvariant' /\ SessionsKeep
          /\ \A b \in Builds : Unused(b) \/ build'[b] = build[b]
      BY <1>1, <2>1, <3>1, JoinKeepsFlow
    <3>3. QED
      BY <3>2 DEF BuildsKeep, KeepsBuild, Over
  <2>4. QED
    BY <2>2, <2>3
<1>2. CASE a \notin Callers
  <2>1. a \in Builds /\ BuildGoesOn(a, found)
    BY <1>2 DEF GoesOn
  <2>2. /\ look' \in [Callers \cup Builds -> LookRecords] /\ look'[a].at = "none"
        /\ \A x \in (Callers \cup Builds) \ {a} : look'[x].at = look[x].at
    BY <2>1, LookupLeft DEF BuildGoesOn
  <2>3. /\ Open(a) /\ build[a].phase \in {"lookup", "winner"}
        /\ \A p \in Processes : evictor[p].by # a
        /\ evictor \in [Processes -> Evictions]
    BY <2>1, BuildLooks
  <2>4. CASE build[a].phase = "winner"
    <3>1. Phase(a, "retire", found) /\ UNCHANGED <<inflight, caller>>
      BY <2>1, <2>4 DEF BuildGoesOn
    <3>2. QED
      BY <2>1, <2>2, <2>3, <2>4, <3>1, PhaseKeeps DEF Phases
  <2>5. CASE build[a].phase # "winner" /\ found # None
    <3>1. Finish(a, found)
      BY <2>1, <2>5 DEF BuildGoesOn
    <3>2. QED
      BY <2>1, <2>2, <2>3, <2>5, <3>1, FinishKeeps
  <2>6. CASE build[a].phase # "winner" /\ found = None
    <3>1. Phase(a, "stage", None) /\ UNCHANGED <<inflight, caller>>
      BY <2>1, <2>6 DEF BuildGoesOn
    <3>2. QED
      BY <2>1, <2>2, <2>3, <2>6, <3>1, PhaseKeeps DEF Phases
  <2>7. QED
    BY <2>4, <2>5, <2>6
<1>3. QED
  BY <1>1, <1>2

LEMMA ThrowsKeeps ==
    ASSUME CacheInvariant, NEW a \in Callers \cup Builds, look[a].at # "none", Throws(a),
           UNCHANGED <<evictor, asks>>
    PROVE  FlowInvariant' /\ SessionsKeep /\ BuildsKeep
<1> USE CacheConstants DEF CacheInvariant
<1>1. /\ look' \in [Callers \cup Builds -> LookRecords] /\ look'[a].at = "none"
      /\ \A x \in (Callers \cup Builds) \ {a} : look'[x].at = look[x].at
  BY LookupLeft DEF Throws
<1>2. CASE a \in Callers
  <2>1. caller[a].state = "looking" /\ caller[a] \in SessionRecords
    BY <1>2 DEF FlowInvariant, FlowTypes, LookupsFollow
  <2> DEFINE s == [caller[a] EXCEPT !.state = "idle"]
  <2>2. /\ s \in SessionRecords /\ s.state = "idle" /\ s.home = caller[a].home
        /\ s.key = caller[a].key /\ s.build = caller[a].build
        /\ s.closing = caller[a].closing /\ s.todo = caller[a].todo
    BY ZenonT(30), <2>1, SessionFields DEF SessionStates
  <2>3. caller' = [caller EXCEPT ![a] = s] /\ UNCHANGED <<build, inflight>>
    BY <1>2 DEF Throws
  <2> HIDE DEF s
  <2>4. QED
    BY <1>1, <1>2, <2>1, <2>2, <2>3, SessionMoves DEF Active
<1>3. CASE a \notin Callers
  <2>1. /\ Open(a) /\ build[a].phase \in {"lookup", "winner"}
        /\ \A p \in Processes : evictor[p].by # a
        /\ evictor \in [Processes -> Evictions]
    BY <1>3, BuildLooks
  <2>2. CASE build[a].phase = "winner"
    <3>1. Phase(a, "retire", None) /\ UNCHANGED <<inflight, caller>>
      BY <1>3, <2>2 DEF Throws
    <3>2. QED
      BY <1>1, <1>3, <2>1, <2>2, <3>1, PhaseKeeps DEF Phases
  <2>3. CASE build[a].phase # "winner"
    <3>1. Finish(a, None)
      BY <1>3, <2>3 DEF Throws
    <3>2. QED
      BY <1>1, <1>3, <2>1, <2>3, <3>1, FinishKeeps
  <2>4. QED
    BY <2>2, <2>3
<1>4. QED
  BY <1>2, <1>3

(* Neither a session nor a build moves.                                     *)
LEMMA QuietKeeps ==
    ASSUME CacheInvariant, UNCHANGED <<build, caller, inflight, asks>>,
           look' \in [Callers \cup Builds -> LookRecords],
           \A a \in Callers \cup Builds : look'[a].at # "none" => look[a].at # "none",
           evictor' \in [Processes -> Evictions],
           \A p \in Processes, b \in Builds : evictor'[p].by = b => evictor[p].by = b
    PROVE  FlowInvariant' /\ SessionsKeep /\ BuildsKeep
<1> USE DEF CacheInvariant
<1>1. /\ \A b \in Builds : Open(b)' <=> Open(b)
      /\ \A c \in Callers, b \in Builds :
            /\ Matches(c, b)' <=> Matches(c, b)
            /\ Waits(c, b)' <=> Waits(c, b)
            /\ Leaves(c, b)' <=> Leaves(c, b)
  BY DEF Open, Matches, Waits, Leaves
<1>2. FlowTypes'
  BY DEF FlowInvariant, FlowTypes
<1>3. WaitersFollow'
  BY <1>1 DEF FlowInvariant, WaitersFollow
<1>4. LookupsFollow'
  BY DEF FlowInvariant, LookupsFollow
<1>5. RunsAreRegistered' /\ RunsAreWanted'
  BY <1>1 DEF FlowInvariant, RunsAreRegistered, RunsAreWanted
<1>6. BuildsKeep
  BY DEF BuildsKeep, KeepsBuild, Over
<1>7. SessionsKeep
  BY IdleLists DEF SessionsKeep, KeepsSession
<1>8. QED
  BY <1>2, <1>3, <1>4, <1>5, <1>6, <1>7 DEF FlowInvariant

LEMMA LookupPlace ==
    ASSUME CacheInvariant, NEW a \in Callers \cup Builds, look[a].at # "none"
    PROVE  /\ ProcessOf(a) \in Processes /\ KeyOf(a) \in Keys
           /\ look \in [Callers \cup Builds -> LookRecords]
           /\ evictor \in [Processes -> Evictions]
           /\ look[a] \in LookRecords /\ look[a].seen \in Builds \cup {None}
           /\ entry \in [Keys -> Builds \cup {None}]
           /\ verified \in [Processes -> [Keys -> Builds \cup {None}]]
BY DEF CacheInvariant, FlowInvariant, FlowTypes, LookupsFollow, ProcessOf, KeyOf, LookRecords,
       StorageInvariant, StorageTypes

LEMMA VerifyTypes ==
    ASSUME verified \in [Processes -> [Keys -> Builds \cup {None}]],
           NEW p \in Processes, NEW k \in Keys, NEW b \in Builds \cup {None}, Verify(p, k, b)
    PROVE  verified' \in [Processes -> [Keys -> Builds \cup {None}]]
BY DEF Verify

LEMMA AdmitKept ==
    ASSUME CacheInvariant, NEW a \in Callers \cup Builds, Admit(a)
    PROVE  CacheKept
<1> DEFINE p == ProcessOf(a)
           k == KeyOf(a)
           b == entry[k]
           memo == b # None /\ verified[p][k] = b
           at == IF b = None THEN "discard" ELSE IF memo THEN "read" ELSE "manifest"
           r == [NoLookup EXCEPT !.at = at, !.seen = b, !.memo = memo]
<1>1. look[a].at = "admit"
  BY DEF Admit
<1>2. /\ p \in Processes /\ k \in Keys /\ b \in Builds \cup {None}
      /\ look \in [Callers \cup Builds -> LookRecords]
      /\ evictor \in [Processes -> Evictions]
      /\ verified \in [Processes -> [Keys -> Builds \cup {None}]]
  BY <1>1, LookupPlace
<1>3. /\ look' = [look EXCEPT ![a] = r]
      /\ Verify(p, k, IF memo THEN b ELSE None)
      /\ UNCHANGED <<entry, tampered, staging, trash, live, retained, files, build, caller,
                     inflight, evictor, asks>>
  BY DEF Admit, NoFault, disk
<1>4. memo \in BOOLEAN /\ at \in {"discard", "read", "manifest"}
  OBVIOUS
<1> HIDE DEF at, memo, b, p, k
<1>5. r \in LookRecords
  BY <1>2, <1>4 DEF LookRecords, NoLookup
<1> HIDE DEF r
<1>6. /\ look' \in [Callers \cup Builds -> LookRecords]
      /\ \A x \in Callers \cup Builds : look'[x].at # "none" => look[x].at # "none"
  BY <1>1, <1>2, <1>3, <1>5
<1>7. FlowInvariant' /\ SessionsKeep /\ BuildsKeep
  BY <1>2, <1>3, <1>6, QuietKeeps
<1>8. verified' \in [Processes -> [Keys -> Builds \cup {None}]]
  <2>1. (IF memo THEN b ELSE None) \in Builds \cup {None}
    BY <1>2
  <2>2. QED
    BY <1>2, <1>3, <2>1, VerifyTypes
<1>9. DiskShrinks
  BY <1>3, <1>8, DiskStays
<1>10. QED
  BY <1>7, <1>9, StorageKept

(* A manifest that is missing ends the lookup; another one is read instead. *)
LEMMA ReadManifestKept ==
    ASSUME CacheInvariant, NEW a \in Callers \cup Builds, ReadManifest(a)
    PROVE  CacheKept
<1> DEFINE b == entry[KeyOf(a)]
           r == [look[a] EXCEPT !.at = "read", !.seen = b, !.replaced = (b # look[a].seen)]
<1>1. /\ look[a].at = "manifest"
      /\ UNCHANGED <<entry, tampered, staging, trash, live, retained, files, evictor, asks,
                     verified>>
  BY DEF ReadManifest, NoFault, disk
<1>2. /\ KeyOf(a) \in Keys /\ b \in Builds \cup {None} /\ look[a] \in LookRecords
      /\ look \in [Callers \cup Builds -> LookRecords]
      /\ evictor \in [Processes -> Evictions]
      /\ verified \in [Processes -> [Keys -> Builds \cup {None}]]
  BY <1>1, LookupPlace
<1>3. DiskShrinks
  BY <1>1, <1>2, DiskStays
<1>4. CASE b = None
  <2>1. GoesOn(a, None)
    BY <1>4 DEF ReadManifest
  <2>2. QED
    BY <1>1, <1>3, <2>1, GoesOnKeeps, StorageKept
<1>5. CASE b # None
  <2>1. look' = [look EXCEPT ![a] = r] /\ UNCHANGED <<build, inflight, caller>>
    BY <1>5 DEF ReadManifest
  <2>2. (b # look[a].seen) \in BOOLEAN
    OBVIOUS
  <2> HIDE DEF b
  <2>3. r \in LookRecords
    BY <1>2, <2>2 DEF LookRecords
  <2> HIDE DEF r
  <2>4. /\ look' \in [Callers \cup Builds -> LookRecords]
        /\ \A x \in Callers \cup Builds : look'[x].at # "none" => look[x].at # "none"
    BY <1>1, <1>2, <2>1, <2>3
  <2>5. FlowInvariant' /\ SessionsKeep /\ BuildsKeep
    BY <1>1, <1>2, <2>1, <2>4, QuietKeeps
  <2>6. QED
    BY <1>3, <2>5, StorageKept
<1>6. QED
  BY <1>4, <1>5

LEMMA ReadFilesKept ==
    ASSUME CacheInvariant, NEW a \in Callers \cup Builds, ReadFiles(a)
    PROVE  CacheKept
<1>1. /\ look[a].at = "read"
      /\ look' = [look EXCEPT ![a].at = IF FilesMatch(a) THEN "touch" ELSE "discard"]
      /\ IF FilesMatch(a) THEN UNCHANGED verified ELSE Verify(ProcessOf(a), KeyOf(a), None)
      /\ UNCHANGED <<entry, tampered, staging, trash, live, retained, files, build, caller,
                     inflight, evictor, asks>>
  BY DEF ReadFiles, NoFault, disk
<1>2. /\ ProcessOf(a) \in Processes /\ KeyOf(a) \in Keys
      /\ look \in [Callers \cup Builds -> LookRecords]
      /\ evictor \in [Processes -> Evictions]
      /\ verified \in [Processes -> [Keys -> Builds \cup {None}]]
  BY <1>1, LookupPlace
<1>3. /\ look' \in [Callers \cup Builds -> LookRecords]
      /\ \A x \in Callers \cup Builds : look'[x].at # "none" => look[x].at # "none"
  BY <1>1, <1>2 DEF LookRecords
<1>4. FlowInvariant' /\ SessionsKeep /\ BuildsKeep
  BY <1>1, <1>2, <1>3, QuietKeeps
<1>5. DiskShrinks
  BY <1>1, <1>2, VerifyTypes, DiskStays
<1>6. QED
  BY <1>4, <1>5, StorageKept

LEMMA TouchKept ==
    ASSUME CacheInvariant, NEW a \in Callers \cup Builds, Touch(a)
    PROVE  CacheKept
<1> DEFINE p == ProcessOf(a)
           k == KeyOf(a)
<1>1. /\ look[a].at = "touch"
      /\ UNCHANGED <<entry, tampered, staging, trash, live, retained, files, evictor, asks>>
  BY DEF Touch, NoFault, disk
<1>2. /\ p \in Processes /\ k \in Keys /\ look[a].seen \in Builds \cup {None}
      /\ verified \in [Processes -> [Keys -> Builds \cup {None}]]
  BY <1>1, LookupPlace
<1>3. PICK found \in Builds \cup {None} :
         /\ GoesOn(a, found)
         /\ UNCHANGED verified \/ \E b \in Builds \cup {None} : Verify(p, k, b)
  BY <1>2 DEF Touch
<1> HIDE DEF p, k
<1>4. FlowInvariant' /\ SessionsKeep /\ BuildsKeep
  BY <1>1, <1>3, GoesOnKeeps
<1>5. DiskShrinks
  BY <1>1, <1>2, <1>3, VerifyTypes, DiskStays
<1>6. QED
  BY <1>4, <1>5, StorageKept

LEMMA ReadCancelledKept ==
    ASSUME CacheInvariant, NEW a \in Callers \cup Builds, ReadCancelled(a)
    PROVE  CacheKept
<1>1. /\ look[a].at # "none" /\ Throws(a)
      /\ UNCHANGED <<entry, tampered, staging, trash, live, retained, files, evictor, asks,
                     verified>>
  BY DEF ReadCancelled, NoFault, disk
<1>2. DiskShrinks
  BY <1>1, DiskStays DEF CacheInvariant, StorageInvariant, StorageTypes
<1>3. QED
  BY <1>1, <1>2, ThrowsKeeps, StorageKept

(* An entry that is discarded or evicted.                                   *)
LEMMA EntryGone ==
    ASSUME CacheInvariant, NEW k \in Keys, entry' = [entry EXCEPT ![k] = None],
           tampered' \subseteq tampered, UNCHANGED <<staging, live, retained, verified>>,
           \/ UNCHANGED <<trash, files>>
           \/ \E p \in Processes : \E b :
                 /\ trash' = trash \cup {Retired("entry", b)}
                 /\ files' = [files EXCEPT ![p] = @ \cup {Kept(Retired("entry", b))}]
    PROVE  DiskShrinks
<1>1. /\ entry' \in [Keys -> Builds \cup {None}] /\ \A j \in Keys : entry'[j] \in {entry[j], None}
      /\ tampered' \subseteq Builds /\ staging \subseteq Builds /\ live \subseteq Builds
      /\ files = [p \in Processes |-> files[p]]
      /\ verified' \in [Processes -> [Keys -> Builds \cup {None}]]
  BY DEF CacheInvariant, StorageInvariant, StorageTypes
<1>2. \A b, x : Retired("entry", b) # Retired("staging", x)
  BY DEF Retired
<1>3. \A x \in Builds : Retired("staging", x) \in trash' => Retired("staging", x) \in trash
  BY <1>2
<1>4. /\ files' = [p \in Processes |-> files'[p]]
      /\ \A p \in Processes : \A f \in files'[p] :
            (\E x \in Builds : f.item = Retired("staging", x)) => f \in files[p]
  <2>1. CASE UNCHANGED <<trash, files>>
    BY <1>1, <2>1
  <2>2. CASE \E p \in Processes : \E b :
                 files' = [files EXCEPT ![p] = @ \cup {Kept(Retired("entry", b))}]
    <3>1. PICK p \in Processes :
                 \E b : files' = [files EXCEPT ![p] = @ \cup {Kept(Retired("entry", b))}]
      BY <2>2
    <3> PICK b : files' = [files EXCEPT ![p] = @ \cup {Kept(Retired("entry", b))}]
      BY <3>1
    <3>2. Kept(Retired("entry", b)).item = Retired("entry", b)
      BY DEF Kept
    <3>3. ASSUME NEW q \in Processes, NEW f \in files'[q], NEW x \in Builds,
                 f.item = Retired("staging", x)
          PROVE  f \in files[q]
      <4>1. f # Kept(Retired("entry", b))
        BY <1>2, <3>2, <3>3
      <4>2. QED
        BY <1>1, <3>1, <3>3, <4>1
    <3>4. files' = [q \in Processes |-> files'[q]]
      BY <1>1, <3>1
    <3>5. QED
      BY <3>3, <3>4
  <2>3. QED
    BY <2>1, <2>2
<1>5. QED
  BY <1>1, <1>3, <1>4 DEF DiskShrinks

LEMMA DiscardKeeps ==
    ASSUME CacheInvariant, NEW a \in Callers \cup Builds, DiscardRemoved(a) \/ DiscardKept(a)
    PROVE  CacheKept
<1>1. look[a].at # "none"
  BY DEF DiscardRemoved, DiscardKept
<1>2. ProcessOf(a) \in Processes /\ KeyOf(a) \in Keys
  BY <1>1, LookupPlace
<1>3. CASE DiscardRemoved(a)
  <2>1. /\ GoesOn(a, None) /\ UNCHANGED <<evictor, asks>>
        /\ entry' = [entry EXCEPT ![KeyOf(a)] = None] /\ tampered' \subseteq tampered
        /\ UNCHANGED <<staging, trash, live, retained, files, verified>>
    BY <1>3 DEF DiscardRemoved, NoFault
  <2>2. DiskShrinks
    BY <1>2, <2>1, EntryGone
  <2>3. QED
    BY <1>1, <2>1, <2>2, GoesOnKeeps, StorageKept
<1>4. CASE DiscardKept(a)
  <2>1. /\ Throws(a) /\ UNCHANGED <<evictor, asks>>
        /\ entry' = [entry EXCEPT ![KeyOf(a)] = None] /\ tampered' \subseteq tampered
        /\ UNCHANGED <<staging, live, retained, verified>>
        /\ trash' = trash \cup {Retired("entry", entry[KeyOf(a)])}
        /\ files' = [files EXCEPT ![ProcessOf(a)] =
                       @ \cup {Kept(Retired("entry", entry[KeyOf(a)]))}]
    BY <1>4 DEF DiscardKept, Fault
  <2>2. DiskShrinks
    BY <1>2, <2>1, EntryGone
  <2>3. QED
    BY <1>1, <2>1, <2>2, ThrowsKeeps, StorageKept
<1>5. QED
  BY <1>3, <1>4

LEMMA LookupKept ==
    ASSUME CacheInvariant, NEW a \in Callers \cup Builds, Lookup(a)
    PROVE  CacheKept
BY AdmitKept, ReadManifestKept, ReadFilesKept, TouchKept, ReadCancelledKept, DiscardKeeps DEF Lookup

-----------------------------------------------------------------------------
(* Steps of builds *)

LEMMA BuildPlace ==
    ASSUME CacheInvariant, NEW b \in Builds, Open(b), build[b].phase \notin {"lookup", "winner"}
    PROVE  /\ build[b].home \in Processes /\ build[b].key \in Keys
           /\ build[b].project \in Builds \cup {None}
           /\ look \in [Callers \cup Builds -> LookRecords] /\ look[b].at = "none"
           /\ evictor \in [Processes -> Evictions]
           /\ build[b].phase # "evicting" => \A p \in Processes : evictor[p].by # b
           /\ \A p \in Processes : evictor[p].by = b => build[b].home = p
           /\ entry \in [Keys -> Builds \cup {None}] /\ tampered \subseteq Builds
           /\ staging \subseteq Builds /\ live \subseteq Builds
           /\ verified \in [Processes -> [Keys -> Builds \cup {None}]]
           /\ files = [p \in Processes |-> files[p]]
           /\ DiskOf(b)
<1> USE DEF CacheInvariant, FlowInvariant, StorageInvariant
<1>1. build[b].home \in Processes /\ build[b].key \in Keys
  BY DEF FlowTypes, Open
<1>2. build[b].project \in Builds \cup {None}
  BY DEF FlowTypes, BuildRecords
<1>3. /\ look \in [Callers \cup Builds -> LookRecords] /\ look[b].at = "none"
      /\ evictor \in [Processes -> Evictions]
      /\ build[b].phase # "evicting" => \A p \in Processes : evictor[p].by # b
      /\ \A p \in Processes : evictor[p].by = b => build[b].home = p
  BY DEF FlowTypes, LookupsFollow
<1>4. QED
  BY <1>1, <1>2, <1>3 DEF StorageTypes

LEMMA StageKept ==
    ASSUME CacheInvariant, NEW b \in Builds, Stage(b)
    PROVE  CacheKept
<1> DEFINE p == build[b].home
<1>1. build[b].phase = "stage" /\ Open(b) /\ ~Over(b)
  BY DEF Stage, Open, Over
<1>2. PICK left \in SUBSET trash :
         LET gone == trash \ left
             owned == {f \in files[p] : f.item \notin gone}
         IN  /\ trash' = trash \ gone
             /\ staging' = {x \in staging : Retired("staging", x) \notin gone} \cup {b}
             /\ files' = [files EXCEPT ![p] = owned \cup
                  {[item |-> i, keyed |-> FALSE] : i \in left \ {f.item : f \in owned}}]
  BY DEF Stage, Swept
<1>3. /\ live' = IF build[b].aborted THEN live ELSE live \cup {b}
      /\ Phase(b, "export", None)
      /\ UNCHANGED <<entry, tampered, inflight, verified, retained, evictor, look, caller, asks>>
  BY DEF Stage, FaultIf, Fault, NoFault
<1>4. /\ p \in Processes /\ look \in [Callers \cup Builds -> LookRecords] /\ look[b].at = "none"
      /\ evictor \in [Processes -> Evictions] /\ \A q \in Processes : evictor[q].by # b
      /\ entry \in [Keys -> Builds \cup {None}] /\ tampered \subseteq Builds
      /\ staging \subseteq Builds /\ live \subseteq Builds
      /\ verified \in [Processes -> [Keys -> Builds \cup {None}]]
      /\ files = [q \in Processes |-> files[q]] /\ DiskOf(b)
  BY <1>1, BuildPlace
<1>5. FlowInvariant' /\ SessionsKeep /\ BuildsKeep
  BY <1>1, <1>3, <1>4, PhaseKeeps DEF Phases
<1>6. build'[b].phase = "export"
  BY <1>3 DEF Phase, CacheInvariant, FlowInvariant, FlowTypes, BuildRecords
<1> HIDE DEF p
<1>7. /\ trash' \subseteq trash /\ b \in staging'
      /\ \A x \in Builds \ {b} : x \in staging' <=> x \in staging
  <2>1. \A x \in staging : Retired("staging", x) \notin trash
    BY <1>4 DEF CacheInvariant, StorageInvariant, DiskOf
  <2>2. QED
    BY <1>2, <2>1
<1>8. /\ files' = [q \in Processes |-> files'[q]]
      /\ \A q \in Processes : \A f \in files'[q] : f \in files[q] \/ f.item \in trash
  <2> DEFINE gone == trash \ left
             owned == {f \in files[p] : f.item \notin gone}
             unknown == {[item |-> i, keyed |-> FALSE] : i \in left \ {f.item : f \in owned}}
  <2>1. files' = [files EXCEPT ![p] = owned \cup unknown]
    BY <1>2
  <2>2. owned \subseteq files[p] /\ \A f \in unknown : f.item \in trash
    OBVIOUS
  <2> HIDE DEF owned, unknown
  <2>3. QED
    BY <1>4, <2>1, <2>2
<1>9. \A x \in Builds \ {b} : StaysOnDisk(x)
  BY <1>3, <1>7, <1>8 DEF StaysOnDisk
<1>10. DiskOf(b)'
  <2>1. \A k \in Keys : entry'[k] # b
    BY <1>1, <1>3, <1>4 DEF DiskOf
  <2>2. Retired("staging", b) \notin trash /\ Retired("staging", b) \notin trash'
    BY <1>1, <1>4, <1>7 DEF DiskOf
  <2>3. \A q \in Processes : \A f \in files'[q] : f.item # Retired("staging", b)
    BY <1>1, <1>4, <1>8, <2>2 DEF DiskOf
  <2>4. \A q \in Processes : ~In(b, retained'[q])
    BY <1>1, <1>3, <1>4 DEF DiskOf
  <2>5. \A c \in Callers : ~In(b, caller'[c].todo)
    BY <1>1, <1>3, <1>4 DEF DiskOf
  <2>6. QED
    BY <1>6, <1>7, <2>1, <2>2, <2>3, <2>4, <2>5 DEF DiskOf, Retired
<1>11. /\ staging' \subseteq Builds /\ live' \subseteq Builds
       /\ \A x \in live' : x \in live \/ build'[x].phase # "done"
  BY <1>2, <1>3, <1>4, <1>6
<1>12. QED
  BY <1>3, <1>4, <1>5, <1>8, <1>9, <1>10, <1>11, StorageKeptBut

LEMMA StageAbortedKept ==
    ASSUME CacheInvariant, NEW b \in Builds, StageAborted(b)
    PROVE  CacheKept
<1>1. /\ Open(b) /\ build[b].phase = "stage" /\ Finish(b, None)
      /\ UNCHANGED <<entry, tampered, staging, trash, live, verified, retained, files, evictor,
                     look, asks>>
  BY DEF StageAborted, Open, NoFault, disk
<1>2. FlowInvariant' /\ SessionsKeep /\ BuildsKeep
  <2>1. /\ look \in [Callers \cup Builds -> LookRecords] /\ look[b].at = "none"
        /\ evictor \in [Processes -> Evictions] /\ \A q \in Processes : evictor[q].by # b
    BY <1>1, BuildPlace
  <2>2. QED
    BY <1>1, <2>1, FinishKeeps
<1>3. DiskShrinks
  BY <1>1, DiskStays DEF CacheInvariant, StorageInvariant, StorageTypes
<1>4. QED
  BY <1>2, <1>3, StorageKept

LEMMA ExportEndsKept ==
    ASSUME CacheInvariant, NEW b \in Builds, Exported(b) \/ ExportFails(b) \/ PublishFails(b)
    PROVE  CacheKept
<1>1. PICK to \in {"publish", "retire"} :
      /\ build[b].phase \in {"export", "publish"} /\ Phase(b, to, None)
      /\ live' \subseteq live /\ (build[b].phase = "export" => b \notin live')
      /\ UNCHANGED <<entry, tampered, staging, trash, verified, retained, files, evictor,
                     look, asks, caller, inflight>>
  BY DEF Exported, ExportFails, PublishFails, NoFault, Fault, disk, memory
<1>2. Open(b)
  BY <1>1 DEF Open
<1>3. FlowInvariant' /\ SessionsKeep /\ BuildsKeep
  <2>1. /\ look \in [Callers \cup Builds -> LookRecords] /\ look[b].at = "none"
        /\ evictor \in [Processes -> Evictions] /\ \A q \in Processes : evictor[q].by # b
    BY <1>1, <1>2, BuildPlace
  <2>2. to \in Phases \ {"none", "done", "lost"}
    BY DEF Phases
  <2>3. QED
    BY <1>1, <1>2, <2>1, <2>2, PhaseKeeps
<1>4. DiskShrinks
  BY <1>1 DEF CacheInvariant, StorageInvariant, StorageTypes, DiskShrinks
<1>5. QED
  BY <1>3, <1>4, StorageKept

LEMMA PublishKept ==
    ASSUME CacheInvariant, NEW b \in Builds, Publish(b)
    PROVE  CacheKept
<1> DEFINE p == build[b].home
           k == build[b].key
<1>1. /\ build[b].phase = "publish" /\ Open(b)
      /\ UNCHANGED <<tampered, staging, trash, live, inflight, retained, files, evictor,
                     caller, asks>>
  BY DEF Publish, Open, NoFault
<1>2. /\ p \in Processes /\ k \in Keys
      /\ look \in [Callers \cup Builds -> LookRecords] /\ look[b].at = "none"
      /\ evictor \in [Processes -> Evictions] /\ \A q \in Processes : evictor[q].by # b
      /\ entry \in [Keys -> Builds \cup {None}] /\ tampered \subseteq Builds
      /\ staging \subseteq Builds /\ live \subseteq Builds
      /\ verified \in [Processes -> [Keys -> Builds \cup {None}]]
      /\ files = [q \in Processes |-> files[q]] /\ DiskOf(b)
  BY <1>1, BuildPlace
<1>3. CASE entry[k] = None
  <2>1. /\ entry' = [entry EXCEPT ![k] = b] /\ Verify(p, k, b) /\ Phase(b, "retire", b)
        /\ UNCHANGED look
    BY <1>3 DEF Publish
  <2> HIDE DEF p, k
  <2>2. FlowInvariant' /\ SessionsKeep /\ BuildsKeep
    BY <1>1, <1>2, <2>1, PhaseKeeps DEF Phases
  <2>3. build'[b].phase = "retire"
    BY <2>1 DEF Phase, CacheInvariant, FlowInvariant, FlowTypes, BuildRecords
  <2>4. /\ entry' \in [Keys -> Builds \cup {None}]
        /\ verified' \in [Processes -> [Keys -> Builds \cup {None}]]
        /\ \A x \in Builds \ {b} : StaysOnDisk(x)
    BY <1>1, <1>2, <2>1, VerifyTypes DEF StaysOnDisk
  <2>5. b \notin live /\ ~Over(b)
    BY <1>1, <1>2 DEF DiskOf, Over
  <2>6. DiskOf(b)'
    <3>1. \A q \in Processes : ~In(b, retained'[q])
      BY <1>1, <1>2 DEF DiskOf
    <3>2. \A c \in Callers : ~In(b, caller'[c].todo)
      BY <1>1, <1>2 DEF DiskOf
    <3>3. Retired("staging", b) \notin trash'
      BY <1>1, <1>2, <2>5 DEF DiskOf
    <3>4. \A q \in Processes : \A f \in files'[q] : f.item # Retired("staging", b)
      BY <1>1, <1>2, <2>5 DEF DiskOf
    <3>5. QED
      BY <1>1, <2>3, <2>5, <3>1, <3>2, <3>3, <3>4 DEF DiskOf, Retired
  <2>7. QED
    BY <1>1, <1>2, <2>2, <2>4, <2>6, StorageKeptBut
<1>4. CASE entry[k] # None
  <2>1. /\ Phase(b, "winner", None) /\ look' = [look EXCEPT ![b].at = "admit"]
        /\ UNCHANGED <<entry, verified>>
    BY <1>4 DEF Publish
  <2> HIDE DEF p, k
  <2>2. /\ look' \in [Callers \cup Builds -> LookRecords]
        /\ \A a \in (Callers \cup Builds) \ {b} : look'[a].at = look[a].at
    BY <1>2, <2>1 DEF LookRecords
  <2>3. FlowInvariant' /\ SessionsKeep /\ BuildsKeep
    BY <1>1, <1>2, <2>1, <2>2, PhaseKeeps DEF Phases
  <2>4. DiskShrinks
    BY <1>1, <1>2, <2>1, DiskStays
  <2>5. QED
    BY <2>3, <2>4, StorageKept
<1>5. QED
  BY <1>3, <1>4

LEMMA RetireStagingKept ==
    ASSUME CacheInvariant, NEW b \in Builds, RetireStaging(b)
    PROVE  CacheKept
<1>1. /\ build[b].phase = "retire" /\ Open(b) /\ staging' = staging \ {b}
      /\ UNCHANGED <<entry, tampered, trash, live, verified, retained, files, evictor, look, asks>>
  BY DEF RetireStaging, Open, NoFault
<1>2. FlowInvariant' /\ SessionsKeep /\ BuildsKeep
  <2>1. /\ look \in [Callers \cup Builds -> LookRecords] /\ look[b].at = "none"
        /\ evictor \in [Processes -> Evictions] /\ \A q \in Processes : evictor[q].by # b
        /\ build[b].project \in Builds \cup {None}
    BY <1>1, BuildPlace
  <2>2. CASE build[b].project = None
    <3>1. Finish(b, None)
      BY <2>2 DEF RetireStaging
    <3>2. QED
      BY <1>1, <2>1, <3>1, FinishKeeps
  <2>3. CASE build[b].project # None
    <3>1. Phase(b, "evict", build[b].project) /\ UNCHANGED <<inflight, caller>>
      BY <2>3 DEF RetireStaging
    <3>2. QED
      BY <1>1, <2>1, <3>1, PhaseKeeps DEF Phases
  <2>4. QED
    BY <2>2, <2>3
<1>3. b \notin live
  BY <1>1, BuildPlace DEF DiskOf
<1>4. DiskShrinks
  BY <1>1, <1>3 DEF CacheInvariant, StorageInvariant, StorageTypes, DiskShrinks
<1>5. QED
  BY <1>2, <1>4, StorageKept

LEMMA RetireFailsKept ==
    ASSUME CacheInvariant, NEW b \in Builds, RetireFails(b)
    PROVE  CacheKept
<1> DEFINE p == build[b].home
<1>1. /\ build[b].phase = "retire" /\ Open(b) /\ ~Over(b)
      /\ \/ /\ staging' = staging \ {b}
            /\ trash' = trash \cup {Retired("staging", b)}
         \/ UNCHANGED <<staging, trash>>
      /\ files' = [files EXCEPT ![p] = @ \cup {Kept(Retired("staging", b))}]
      /\ Finish(b, build[b].project)
      /\ UNCHANGED <<entry, tampered, live, verified, retained, evictor, look, asks>>
  BY DEF RetireFails, Open, Over, Fault
<1>2. /\ p \in Processes
      /\ entry \in [Keys -> Builds \cup {None}] /\ tampered \subseteq Builds
      /\ staging \subseteq Builds /\ live \subseteq Builds
      /\ verified \in [Processes -> [Keys -> Builds \cup {None}]]
      /\ files = [q \in Processes |-> files[q]] /\ DiskOf(b) /\ b \notin live
  BY <1>1, BuildPlace DEF DiskOf
<1>3. FlowInvariant' /\ SessionsKeep /\ BuildsKeep
  BY <1>1, BuildPlace, FinishKeeps
<1>4. build'[b].phase = "done"
  BY <1>1 DEF Finish, CacheInvariant, FlowInvariant, FlowTypes, BuildRecords
<1> HIDE DEF p
<1>5. \A x \in Builds : x # b => Retired("staging", x) # Retired("staging", b)
  BY DEF Retired
<1>6. Kept(Retired("staging", b)).item = Retired("staging", b)
  BY DEF Kept
<1>7. /\ files' = [q \in Processes |-> files'[q]]
      /\ \A q \in Processes : \A f \in files'[q] :
            f \in files[q] \/ f = Kept(Retired("staging", b))
  BY <1>1, <1>2
<1>8. ASSUME NEW x \in Builds \ {b}
      PROVE  StaysOnDisk(x)
  BY <1>1, <1>5, <1>6, <1>7 DEF StaysOnDisk
<1>9. DiskOf(b)'
  <2>1. \A q \in Processes : ~In(b, retained'[q])
    BY <1>1, <1>2 DEF DiskOf
  <2>2. ASSUME NEW c \in Callers
        PROVE  ~In(b, caller'[c].todo)
    <3>1. caller'[c].todo = <<>> \/ caller'[c].todo = caller[c].todo
      BY <1>3 DEF SessionsKeep, KeepsSession
    <3>2. QED
      BY <1>1, <1>2, <3>1, EmptyList DEF DiskOf
  <2>3. Retired("staging", b) \in trash' => b \notin staging'
    BY <1>1, <1>2 DEF DiskOf
  <2>4. Over(b)'
    BY <1>4 DEF Over
  <2>5. QED
    BY <1>1, <1>2, <1>4, <2>1, <2>2, <2>3, <2>4 DEF DiskOf, Retired
<1>10. staging' \subseteq Builds
  BY <1>1, <1>2
<1>11. QED
  BY <1>1, <1>2, <1>3, <1>7, <1>8, <1>9, <1>10, StorageKeptBut

(* Kuna outlives its build, which is remembered for the next close.         *)
LEMMA ExportRetainedKept ==
    ASSUME CacheInvariant, NEW b \in Builds, ExportRetained(b)
    PROVE  CacheKept
<1> USE CacheConstants DEF CacheInvariant
<1> DEFINE p == build[b].home
<1>1. /\ build[b].phase = "export" /\ Open(b) /\ ~Over(b) /\ b \in live
      /\ retained' = [retained EXCEPT ![p] = Append(retained[p], b)]
      /\ Finish(b, None)
      /\ UNCHANGED <<entry, tampered, staging, trash, live, verified, files, evictor, look, asks>>
  BY DEF ExportRetained, Open, Over, Fault, disk
<1>2. /\ look \in [Callers \cup Builds -> LookRecords] /\ look[b].at = "none"
      /\ evictor \in [Processes -> Evictions] /\ \A q \in Processes : evictor[q].by # b
      /\ p \in Processes /\ DiskOf(b)
  BY <1>1, BuildPlace
<1>3. /\ FlowInvariant' /\ SessionsKeep
      /\ build'[b].home = build[b].home /\ build'[b].key = build[b].key
      /\ build'[b].phase = "done"
      /\ \A x \in Builds \ {b} : build'[x] = build[x]
  BY <1>1, <1>2, IdleLists, FinishKeepsFlow
<1> HIDE DEF p
<1>4. /\ retained' \in [Processes -> Seq(Builds)]
      /\ \A q \in Processes : \A x : In(x, retained'[q]) <=> In(x, retained[q]) \/ (q = p /\ x = b)
      /\ \A q \in Processes : NoDuplicates(retained'[q])
  <2>1. retained \in [Processes -> Seq(Builds)]
    BY DEF StorageInvariant, StorageTypes
  <2>2. ~In(b, retained[p]) /\ NoDuplicates(retained[p])
    BY <1>1, <1>2 DEF DiskOf, StorageInvariant, ListsAreSets
  <2>3. /\ Append(retained[p], b) \in Seq(Builds)
        /\ \A x : In(x, Append(retained[p], b)) <=> In(x, retained[p]) \/ x = b
        /\ NoDuplicates(Append(retained[p], b))
    BY <1>2, <2>1, <2>2, AppendedElements
  <2>4. \A q \in Processes \ {p} : retained'[q] = retained[q]
    BY <1>1, <2>1
  <2>5. retained'[p] = Append(retained[p], b)
    BY <1>1, <1>2, <2>1
  <2>6. QED
    BY <1>1, <1>2, <2>1, <2>3, <2>4, <2>5 DEF StorageInvariant, ListsAreSets
<1>5. StorageTypes'
  BY <1>1, <1>3, <1>4, TodoKept DEF StorageInvariant, StorageTypes
<1>6. ListsAreSets'
  BY <1>3, <1>4, TodoKept DEF ListsAreSets
<1>7. ASSUME NEW x \in Builds \ {b}
      PROVE  DiskOf(x)'
  <2>1. Shrinks(x)
    BY ZenonT(30), <1>1, <1>3, <1>4, TodoKept DEF Shrinks, StaysOnDisk
  <2>2. KeepsBuild(x)
    BY <1>3 DEF KeepsBuild, Over
  <2>3. QED
    BY <2>1, <2>2, DiskKept DEF StorageInvariant
<1>8. DiskOf(b)'
  <2>1. \A k \in Keys : entry'[k] # b
    BY <1>1, <1>2 DEF DiskOf
  <2>2. Retired("staging", b) \notin trash'
    BY <1>1, <1>2 DEF DiskOf
  <2>3. \A q \in Processes : \A f \in files'[q] : f.item # Retired("staging", b)
    BY <1>1, <1>2 DEF DiskOf
  <2>4. \A q \in Processes : In(b, retained'[q]) => q = p
    BY <1>1, <1>2, <1>4 DEF DiskOf
  <2>5. \A c \in Callers : ~In(b, caller'[c].todo)
    BY <1>1, <1>2, <1>3, TodoKept DEF DiskOf
  <2>6. b \in staging'
    BY <1>1, <1>2 DEF DiskOf
  <2>7. QED
    BY <1>3, <2>1, <2>2, <2>3, <2>4, <2>5, <2>6 DEF DiskOf, Retired, p
<1>9. RetainedAreAnswered'
  <2>1. ASSUME NEW x \in Builds, NEW q \in Processes, In(x, retained'[q])
        PROVE  \E c \in Callers : caller'[c].state # "closed" /\ Matches(c, x)'
    <3>1. PICK c \in Callers : caller[c].state # "closed" /\ Matches(c, x)
      <4>1. CASE x = b
        BY <1>1, <4>1 DEF FlowInvariant, RunsAreWanted, WaitersFollow, Leaves, Waits
      <4>2. CASE x # b
        BY <1>4, <2>1, <4>2 DEF StorageInvariant, RetainedAreAnswered
      <4>3. QED
        BY <4>1, <4>2
    <3>2. build'[x].home = build[x].home /\ build'[x].key = build[x].key
      BY <1>3
    <3>3. caller'[c].state # "closed" /\ Matches(c, x)'
      BY <1>3, <3>1, <3>2 DEF SessionsKeep, KeepsSession, Matches
    <3>4. QED
      BY <3>3
  <2>2. QED
    BY <2>1 DEF RetainedAreAnswered
<1>10. ASSUME CloseInvariant
       PROVE  CloseInvariant'
  <2>1. LiveAreRetained'
    <3>1. ASSUME NEW x \in live, build'[x].phase = "done"
          PROVE  In(x, retained'[build'[x].home])
      <4>1. x \in Builds
        BY DEF StorageInvariant, StorageTypes
      <4>2. CASE x = b
        BY <1>2, <1>3, <1>4, <4>2 DEF p
      <4>3. CASE x # b
        <5>1. build'[x] = build[x] /\ In(x, retained[build[x].home])
          BY <1>3, <1>10, <3>1, <4>1, <4>3 DEF CloseInvariant, LiveAreRetained
        <5>2. build[x].home \in Processes
          BY <3>1, <4>1, <5>1 DEF FlowInvariant, FlowTypes
        <5>3. QED
          BY <1>4, <5>1, <5>2
      <4>4. QED
        BY <4>2, <4>3
    <3>2. QED
      BY <1>1, <3>1 DEF LiveAreRetained
  <2>2. TodoIsRetained'
    <3>1. ASSUME NEW c \in Callers, NEW x \in Builds, In(x, caller'[c].todo)
          PROVE  In(x, retained'[caller'[c].home])
      <4>1. In(x, caller[c].todo) /\ caller'[c].home = caller[c].home
        BY <1>3, <3>1, TodoKept
      <4>2. In(x, retained[caller[c].home])
        BY <1>10, <4>1 DEF CloseInvariant, TodoIsRetained
      <4>3. caller[c].home \in Processes
        BY <4>1, EmptyList DEF StorageInvariant, StorageTypes, FlowInvariant, FlowTypes
      <4>4. QED
        BY <1>4, <4>1, <4>2, <4>3
    <3>2. QED
      BY <3>1 DEF TodoIsRetained
  <2>3. OneCloses'
    BY <1>3, <1>10, ClosersKept DEF CloseInvariant
  <2>4. QED
    BY <2>1, <2>2, <2>3 DEF CloseInvariant
<1>11. QED
  BY <1>3, <1>5, <1>6, <1>7, <1>8, <1>9, <1>10 DEF StorageInvariant, CacheKept

LEMMA ProduceKept ==
    ASSUME CacheInvariant, NEW b \in Builds, Produce(b)
    PROVE  CacheKept
BY StageKept, StageAbortedKept, ExportEndsKept, ExportRetainedKept, PublishKept,
   RetireStagingKept, RetireFailsKept DEF Produce

-----------------------------------------------------------------------------
(* Steps of an eviction *)

LEMMA BuildingKeys ==
    ASSUME CacheInvariant, NEW p
    PROVE  {build[b].key : b \in Unfinished(p)} \in SUBSET (Keys \cup {None})
BY DEF CacheInvariant, FlowInvariant, FlowTypes, BuildRecords, Unfinished

LEMMA EvictAroundKept ==
    ASSUME CacheInvariant, NEW b \in Builds, EvictAround(b)
    PROVE  CacheKept
<1> DEFINE p == build[b].home
           running == {build[x].key : x \in Unfinished(p)}
           e == [by |-> b, keep |-> build[b].key, building |-> running, victim |-> None]
<1>1. /\ build[b].phase = "evict" /\ Open(b)
      /\ evictor' = [evictor EXCEPT ![p] = e]
      /\ Phase(b, "evicting", build[b].project)
      /\ UNCHANGED <<entry, tampered, staging, trash, live, inflight, verified, retained, files,
                     look, caller, asks>>
  BY DEF EvictAround, BeginEviction, Open, NoFault, disk
<1>2. /\ look \in [Callers \cup Builds -> LookRecords] /\ look[b].at = "none"
      /\ evictor \in [Processes -> Evictions] /\ \A q \in Processes : evictor[q].by # b
      /\ build[b].project \in Builds \cup {None} /\ p \in Processes /\ build[b].key \in Keys
  BY <1>1, BuildPlace
<1>3. e \in Evictions /\ e.by = b
  <2>1. running \in SUBSET (Keys \cup {None})
    BY BuildingKeys
  <2> HIDE DEF running
  <2>2. QED
    BY <1>2, <2>1 DEF Evictions
<1> HIDE DEF e
<1>4. /\ evictor' \in [Processes -> Evictions]
      /\ \A q \in Processes :
            /\ evictor'[q].by = b => build[b].home = q
            /\ \A x \in Builds \ {b} : evictor'[q].by = x => evictor[q].by = x
  BY <1>1, <1>2, <1>3
<1> HIDE DEF p
<1>5. FlowInvariant' /\ SessionsKeep /\ BuildsKeep
  BY <1>1, <1>2, <1>4, PhaseKeeps DEF Phases
<1>6. DiskShrinks
  BY <1>1, DiskStays DEF CacheInvariant, StorageInvariant, StorageTypes
<1>7. QED
  BY <1>5, <1>6, StorageKept

LEMMA EvictionPlace ==
    ASSUME CacheInvariant, NEW p \in Processes
    PROVE  /\ evictor \in [Processes -> Evictions]
           /\ evictor[p].by \in Builds \cup {None, "maintenance"}
           /\ evictor[p].victim \in Keys \cup {None}
           /\ look \in [Callers \cup Builds -> LookRecords]
           /\ verified \in [Processes -> [Keys -> Builds \cup {None}]]
BY DEF CacheInvariant, FlowInvariant, FlowTypes, Evictions, StorageInvariant, StorageTypes

LEMMA MaintainKept ==
    ASSUME CacheInvariant, NEW p \in Processes, Maintain(p)
    PROVE  CacheKept
<1> USE CacheConstants
<1> DEFINE running == {build[b].key : b \in Unfinished(p)}
           e == [by |-> "maintenance", keep |-> None, building |-> running, victim |-> None]
<1>1. /\ evictor' = [evictor EXCEPT ![p] = e]
      /\ UNCHANGED <<entry, tampered, staging, trash, live, inflight, verified, retained, files,
                     build, look, caller, asks>>
  BY DEF Maintain, BeginEviction, Fault, disk
<1>2. evictor \in [Processes -> Evictions] /\ look \in [Callers \cup Builds -> LookRecords]
  BY EvictionPlace
<1>3. e \in Evictions /\ e.by \notin Builds
  <2>1. running \in SUBSET (Keys \cup {None})
    BY BuildingKeys
  <2> HIDE DEF running
  <2>2. QED
    BY <2>1 DEF Evictions
<1> HIDE DEF e
<1>4. /\ evictor' \in [Processes -> Evictions]
      /\ \A q \in Processes, b \in Builds : evictor'[q].by = b => evictor[q].by = b
  BY <1>1, <1>2, <1>3
<1>5. FlowInvariant' /\ SessionsKeep /\ BuildsKeep
  BY <1>1, <1>2, <1>4, QuietKeeps
<1>6. DiskShrinks
  BY <1>1, DiskStays DEF CacheInvariant, StorageInvariant, StorageTypes
<1>7. QED
  BY <1>5, <1>6, StorageKept

(* A victim is chosen, or is gone.                                          *)
LEMMA VictimTypes ==
    ASSUME CacheInvariant, NEW p \in Processes, NEW k \in Keys \cup {None},
           evictor' = [evictor EXCEPT ![p].victim = k]
    PROVE  /\ evictor' \in [Processes -> Evictions]
           /\ \A q \in Processes : evictor'[q].by = evictor[q].by
<1> DEFINE e == [evictor[p] EXCEPT !.victim = k]
<1>1. evictor \in [Processes -> Evictions] /\ evictor' = [evictor EXCEPT ![p] = e]
  BY EvictionPlace
<1>2. evictor[p] \in Evictions
  BY <1>1
<1>3. e \in Evictions /\ e.by = evictor[p].by
  BY <1>2 DEF Evictions
<1> HIDE DEF e
<1>4. QED
  BY <1>1, <1>3

LEMMA ChooseKept ==
    ASSUME CacheInvariant, NEW p \in Processes, NEW k \in Keys, ChooseVictim(p, k)
    PROVE  CacheKept
<1>1. /\ evictor' = [evictor EXCEPT ![p].victim = k] /\ Verify(p, k, None)
      /\ UNCHANGED <<entry, tampered, staging, trash, live, inflight, retained, files, build,
                     look, caller, asks>>
  BY DEF ChooseVictim, NoFault, disk
<1>2. /\ evictor \in [Processes -> Evictions]
      /\ look \in [Callers \cup Builds -> LookRecords]
      /\ verified \in [Processes -> [Keys -> Builds \cup {None}]]
  BY EvictionPlace
<1>3. /\ evictor' \in [Processes -> Evictions]
      /\ \A q \in Processes : evictor'[q].by = evictor[q].by
  BY <1>1, VictimTypes
<1>4. FlowInvariant' /\ SessionsKeep /\ BuildsKeep
  BY <1>1, <1>2, <1>3, QuietKeeps
<1>5. DiskShrinks
  BY <1>1, <1>2, VerifyTypes, DiskStays
<1>6. QED
  BY <1>4, <1>5, StorageKept

(* The end of an eviction is the end of the build that asked for it.        *)
LEMMA EvictionEndsKeeps ==
    ASSUME CacheInvariant, NEW p \in Processes, EvictionEnds(p), UNCHANGED <<look, asks>>
    PROVE  FlowInvariant' /\ SessionsKeep /\ BuildsKeep
<1> USE CacheConstants
<1>1. /\ evictor \in [Processes -> Evictions]
      /\ look \in [Callers \cup Builds -> LookRecords]
  BY EvictionPlace
<1>2. /\ evictor' \in [Processes -> Evictions]
      /\ \A q \in Processes, b \in Builds :
            evictor'[q].by = b => q # p /\ evictor[q].by = b
  <2>1. NoEviction \in Evictions /\ NoEviction.by = None
    BY DEF NoEviction, Evictions
  <2>2. evictor' = [evictor EXCEPT ![p] = NoEviction]
    BY DEF EvictionEnds
  <2>3. QED
    BY <1>1, <2>1, <2>2
<1>3. CASE evictor[p].by \in Builds
  <2>1. PICK b \in Builds : b = evictor[p].by
    BY <1>3
  <2>2. Finish(b, build[b].project)
    BY <2>1 DEF EvictionEnds
  <2>3. build[b].phase = "evicting" /\ build[b].home = p /\ Open(b)
    BY <2>1 DEF CacheInvariant, FlowInvariant, LookupsFollow, Open
  <2>4. build[b].project \in Builds \cup {None} /\ look[b].at = "none"
    BY <2>3, BuildPlace
  <2>5. \A q \in Processes : evictor[q].by = b => build[b].home = q
    BY <2>3, BuildPlace
  <2>6. \A q \in Processes : evictor'[q].by # b
    BY <1>2, <2>3, <2>5
  <2>7. QED
    BY <1>1, <1>2, <2>2, <2>3, <2>4, <2>6, FinishKeeps
<1>4. CASE evictor[p].by \notin Builds
  <2>1. UNCHANGED <<build, inflight, caller>>
    BY <1>4 DEF EvictionEnds
  <2>2. QED
    BY <1>1, <1>2, <2>1, QuietKeeps
<1>5. QED
  BY <1>3, <1>4

LEMMA EvictionKept ==
    ASSUME CacheInvariant, NEW p \in Processes,
           EvictVictim(p) \/ EvictionFails(p) \/ EvictionDone(p)
    PROVE  CacheKept
<1> USE CacheConstants
<1> DEFINE k == evictor[p].victim
<1>1. /\ evictor \in [Processes -> Evictions] /\ k \in Keys \cup {None}
      /\ look \in [Callers \cup Builds -> LookRecords]
      /\ verified \in [Processes -> [Keys -> Builds \cup {None}]]
  BY EvictionPlace
<1>2. CASE EvictVictim(p)
  <2>1. /\ k \in Keys /\ entry' = [entry EXCEPT ![k] = None] /\ tampered' \subseteq tampered
        /\ evictor' = [evictor EXCEPT ![p].victim = None]
        /\ UNCHANGED <<staging, trash, live, inflight, verified, retained, files, build, look,
                       caller, asks>>
    BY <1>1, <1>2 DEF EvictVictim, NoFault
  <2> HIDE DEF k
  <2>2. /\ evictor' \in [Processes -> Evictions]
        /\ \A q \in Processes : evictor'[q].by = evictor[q].by
    BY <2>1, VictimTypes
  <2>3. FlowInvariant' /\ SessionsKeep /\ BuildsKeep
    BY <1>1, <2>1, <2>2, QuietKeeps
  <2>4. DiskShrinks
    BY <2>1, EntryGone
  <2>5. QED
    BY <2>3, <2>4, StorageKept
<1>3. CASE EvictionFails(p)
  <2>1. /\ k \in Keys /\ entry' = [entry EXCEPT ![k] = None] /\ tampered' \subseteq tampered
        /\ trash' = trash \cup {Retired("entry", entry[k])}
        /\ files' = [files EXCEPT ![p] = @ \cup {Kept(Retired("entry", entry[k]))}]
        /\ EvictionEnds(p)
        /\ UNCHANGED <<staging, live, verified, retained, look, asks>>
    BY <1>1, <1>3 DEF EvictionFails, Fault
  <2> HIDE DEF k
  <2>2. DiskShrinks
    BY <2>1, EntryGone
  <2>3. QED
    BY <2>1, <2>2, EvictionEndsKeeps, StorageKept
<1>4. CASE EvictionDone(p)
  <2>1. EvictionEnds(p) /\ UNCHANGED <<entry, tampered, staging, trash, live, verified, retained,
                                       files, look, asks>>
    BY <1>4 DEF EvictionDone, NoFault, disk
  <2>2. DiskShrinks
    BY <1>1, <2>1, DiskStays
  <2>3. QED
    BY <2>1, <2>2, EvictionEndsKeeps, StorageKept
<1>5. QED
  BY <1>2, <1>3, <1>4

LEMMA EvictKept ==
    ASSUME CacheInvariant, NEW p \in Processes, Evict(p)
    PROVE  CacheKept
BY MaintainKept, ChooseKept, EvictionKept DEF Evict

-----------------------------------------------------------------------------
(* Steps of sessions *)

LEMMA SplicedList ==
    ASSUME NEW S, NEW q \in Seq(S), NEW b
    PROVE  /\ Spliced(q, b) \in Seq(S)
           /\ \A x : In(x, Spliced(q, b)) => In(x, q)
           /\ NoDuplicates(q) => NoDuplicates(Spliced(q, b))
           /\ In(b, q) => \A x : In(x, Spliced(q, b)) <=> In(x, q) /\ x # b
<1>1. CASE b \in ToSet(q)
  <2>1. Spliced(q, b) = Without(q, {b})
    BY <1>1 DEF Spliced
  <2>2. QED
    BY <2>1, WithoutElements
<1>2. CASE b \notin ToSet(q) /\ q = <<>>
  <2>1. Spliced(q, b) = q
    BY <1>2 DEF Spliced
  <2>2. QED
    BY <1>2, <2>1, ListSet
<1>3. CASE b \notin ToSet(q) /\ q # <<>>
  <2> DEFINE n == Len(q) - 1
  <2>1. n \in Nat /\ Len(q) = n + 1
    BY <1>3, LenProperties, EmptySeq
  <2>2. Spliced(q, b) = SubSeq(q, 1, n)
    BY <1>3 DEF Spliced, Front
  <2> HIDE DEF n
  <2>3. /\ SubSeq(q, 1, n) \in Seq(S) /\ Len(SubSeq(q, 1, n)) = n
        /\ \A i \in 1 .. n : SubSeq(q, 1, n)[i] = q[i]
    BY <2>1
  <2>4. ~In(b, q)
    BY <1>3, ListSet
  <2>5. QED
    BY <2>1, <2>2, <2>3, <2>4 DEF In, NoDuplicates
<1>4. QED
  BY <1>1, <1>2, <1>3

SessionFor(p, k) == [NoSession EXCEPT !.state = "looking", !.home = p, !.key = k]
LEMMA NewSession ==
    ASSUME NEW p \in Processes, NEW k \in Keys
    PROVE  LET s == SessionFor(p, k)
           IN  /\ s \in SessionRecords /\ s.state = "looking" /\ s.home = p /\ s.key = k
               /\ s.build = None /\ s.todo = <<>>
<1>1. NoSession \in SessionRecords /\ NoSession.build = None /\ NoSession.todo = <<>>
  BY DEF NoSession, SessionRecords, SessionStates
<1>2. ASSUME NEW z \in SessionRecords, z.build = None, z.todo = <<>>
      PROVE  LET s == [z EXCEPT !.state = "looking", !.home = p, !.key = k]
             IN  /\ s \in SessionRecords /\ s.state = "looking" /\ s.home = p /\ s.key = k
                 /\ s.build = None /\ s.todo = <<>>
  BY <1>2 DEF SessionRecords, SessionStates
<1>3. QED
  BY <1>1, <1>2 DEF SessionFor

LEMMA LookupBegins ==
    ASSUME FlowInvariant, NEW c \in Callers, look' = [look EXCEPT ![c].at = "admit"]
    PROVE  /\ look' \in [Callers \cup Builds -> LookRecords]
           /\ \A x \in (Callers \cup Builds) \ {c} : look'[x].at = look[x].at
BY DEF FlowInvariant, FlowTypes, LookRecords

LEMMA OpenSessionKept ==
    ASSUME CacheInvariant, NEW c \in Callers, NEW p \in Processes, NEW k \in asks[p],
           OpenSession(c, p, k)
    PROVE  CacheKept
<1> USE CacheConstants DEF CacheInvariant
<1> DEFINE s == SessionFor(p, k)
<1>1. /\ caller[c].state = "closed" /\ look' = [look EXCEPT ![c].at = "admit"]
      /\ caller' = [caller EXCEPT ![c] = s]
      /\ UNCHANGED <<entry, tampered, staging, trash, live, inflight, verified, retained, files,
                     evictor, build, asks>>
  BY DEF OpenSession, SessionFor, NoFault, disk, memory
<1>2. k \in Keys
  BY CacheAssumption DEF FlowInvariant, FlowTypes
<1>3. /\ s \in SessionRecords /\ s.state = "looking" /\ s.home = p /\ s.key = k
      /\ s.build = None /\ s.todo = <<>>
  BY <1>2, NewSession
<1> HIDE DEF s
<1>4. /\ caller' \in [Callers -> SessionRecords] /\ caller'[c] = s
      /\ \A d \in Callers \ {c} : caller'[d] = caller[d]
  BY <1>1, <1>3, SessionReplaced
<1>5. \A b \in Builds : ~Leaves(c, b)
  BY <1>1 DEF Leaves
<1>6. FlowInvariant'
  <2>1. /\ look' \in [Callers \cup Builds -> LookRecords]
        /\ \A x \in (Callers \cup Builds) \ {c} : look'[x].at = look[x].at
    BY <1>1, LookupBegins
  <2>2. QED
    BY <1>1, <1>2, <1>3, <1>4, <1>5, <2>1, MoveKeepsFlow
<1>7. SessionsKeep
  BY <1>1, <1>3, <1>4 DEF SessionsKeep, KeepsSession, CloseStates
<1>8. BuildsKeep
  BY <1>1 DEF BuildsKeep, KeepsBuild, Over
<1>9. DiskShrinks
  BY <1>1, DiskStays DEF StorageInvariant, StorageTypes
<1>10. QED
  BY <1>6, <1>7, <1>8, <1>9, StorageKept

LEMMA LooksAgainKept ==
    ASSUME CacheInvariant, NEW c \in Callers, AskAgain(c) \/ Invalidate(c)
    PROVE  CacheKept
<1> USE CacheConstants DEF CacheInvariant
<1>1. /\ caller[c].state \in Active /\ look' = [look EXCEPT ![c].at = "admit"]
      /\ UNCHANGED <<entry, tampered, staging, trash, live, inflight, verified, retained, files,
                     evictor, build, asks>>
  BY DEF AskAgain, Invalidate, NoFault, disk, memory, Active
<1> DEFINE s == [caller[c] EXCEPT !.state = "looking"]
           z == [s EXCEPT !.project = None]
<1>2. caller[c] \in SessionRecords
  BY DEF FlowInvariant, FlowTypes
<1>3. /\ s \in SessionRecords /\ s.state = "looking" /\ s.home = caller[c].home
      /\ s.key = caller[c].key /\ s.build = caller[c].build
      /\ s.closing = caller[c].closing /\ s.todo = caller[c].todo
  BY <1>2, SessionFields DEF SessionStates
<1>4. caller' = [caller EXCEPT ![c] = s] \/ caller' = [caller EXCEPT ![c] = z]
  <2>1. AskAgain(c) => caller' = [caller EXCEPT ![c] = s]
    BY DEF AskAgain, FlowInvariant, FlowTypes
  <2>2. Invalidate(c) => caller' = [caller EXCEPT ![c] = z]
    BY DEF Invalidate, FlowInvariant, FlowTypes
  <2>3. QED
    BY <2>1, <2>2
<1> HIDE DEF s
<1>5. /\ z \in SessionRecords /\ z.state = "looking" /\ z.home = caller[c].home
      /\ z.key = caller[c].key /\ z.build = caller[c].build
      /\ z.closing = caller[c].closing /\ z.todo = caller[c].todo
  BY <1>3, SessionFields
<1> HIDE DEF z
<1>6. /\ look' \in [Callers \cup Builds -> LookRecords]
      /\ \A x \in (Callers \cup Builds) \ {c} : look'[x].at = look[x].at
  BY <1>1, LookupBegins
<1>7. FlowInvariant' /\ SessionsKeep /\ BuildsKeep
  BY <1>1, <1>3, <1>4, <1>5, <1>6, SessionMoves DEF Active
<1>8. DiskShrinks
  BY <1>1, DiskStays DEF StorageInvariant, StorageTypes
<1>9. QED
  BY <1>7, <1>8, StorageKept

LEMMA BeginCloseKept ==
    ASSUME CacheInvariant, NEW c \in Callers, BeginClose(c)
    PROVE  CacheKept
<1>1. /\ FlowInvariant' /\ SessionsKeep
      /\ \A x \in Builds : /\ build'[x].home = build[x].home /\ build'[x].key = build[x].key
                           /\ build'[x].phase = build[x].phase
  BY IdleLists, CloseKeepsFlow DEF CacheInvariant
<1>2. BuildsKeep
  BY <1>1 DEF BuildsKeep, KeepsBuild, Over
<1>3. DiskShrinks
  <2>1. UNCHANGED <<entry, tampered, staging, trash, live, retained, files, verified>>
    BY DEF BeginClose, disk, memory
  <2>2. QED
    BY <2>1, DiskStays DEF CacheInvariant, StorageInvariant, StorageTypes
<1>4. QED
  BY <1>1, <1>2, <1>3, StorageKept

(* A close goes on, and only what it works on changes.                      *)
LEMMA ListMoves ==
    ASSUME CacheInvariant, FlowInvariant', NEW c \in Callers,
           \A d \in Callers \ {c} : caller'[d] = caller[d],
           caller'[c].home = caller[c].home, caller'[c].key = caller[c].key,
           caller[c].state # "closed", caller'[c].state # "closed",
           caller'[c].todo # <<>> => caller'[c].state = "retrying",
           NoDuplicates(caller'[c].todo),
           \A x : In(x, caller'[c].todo) =>
              In(x, caller[c].todo) \/ In(x, retained[caller[c].home]),
           UNCHANGED <<entry, tampered, staging, trash, live, verified, retained, files, build>>,
           OneCloseAtATime /\ OneCloses => OneCloses'
    PROVE  CacheKept
<1> USE CacheConstants DEF CacheInvariant
<1>1. caller[c].home \in Processes
  BY DEF FlowInvariant, FlowTypes
<1>2. StorageTypes'
  BY DEF StorageInvariant, StorageTypes
<1>3. ListsAreSets'
  BY DEF StorageInvariant, ListsAreSets
<1>4. RetainedAreAnswered'
  <2>1. \A d \in Callers, b \in Builds :
           caller[d].state # "closed" /\ Matches(d, b) =>
              caller'[d].state # "closed" /\ Matches(d, b)'
    BY DEF Matches
  <2>2. QED
    BY <2>1 DEF StorageInvariant, RetainedAreAnswered
<1>5. ASSUME NEW b \in Builds
      PROVE  DiskOf(b)'
  <2>1. DiskOf(b)
    BY DEF StorageInvariant
  <2>2. \A d \in Callers : In(b, caller'[d].todo) =>
           build'[b].phase = "done" /\ build'[b].home = caller'[d].home
    BY <1>1, <2>1 DEF DiskOf
  <2>3. QED
    BY <2>1, <2>2 DEF DiskOf, Retired, Over
<1>6. ASSUME OneCloseAtATime, CloseInvariant
      PROVE  CloseInvariant'
  <2>1. LiveAreRetained'
    BY <1>6 DEF CloseInvariant, LiveAreRetained
  <2>2. TodoIsRetained'
    BY <1>6 DEF CloseInvariant, TodoIsRetained
  <2>3. OneCloses'
    BY <1>6 DEF CloseInvariant
  <2>4. QED
    BY <2>1, <2>2, <2>3 DEF CloseInvariant
<1>7. QED
  BY <1>2, <1>3, <1>4, <1>5, <1>6 DEF StorageInvariant, CacheKept

(* What is known of a session that closes.                                  *)
LEMMA ClosingPlace ==
    ASSUME CacheInvariant, NEW c \in Callers,
           caller[c].state \in {"idle", "serving", "failed", "settling", "retrying"}
    PROVE  /\ caller[c] \in SessionRecords /\ caller[c].build = None
           /\ caller[c].home \in Processes /\ caller[c].key \in Keys
           /\ caller[c].todo \in Seq(Builds) /\ NoDuplicates(caller[c].todo)
           /\ look \in [Callers \cup Builds -> LookRecords] /\ look[c].at = "none"
           /\ retained[caller[c].home] \in Seq(Builds)
           /\ NoDuplicates(retained[caller[c].home])
           /\ verified \in [Processes -> [Keys -> Builds \cup {None}]]
<1> USE DEF CacheInvariant, FlowInvariant, StorageInvariant
<1>1. /\ caller[c] \in SessionRecords /\ caller[c].build = None
      /\ caller[c].home \in Processes /\ caller[c].key \in Keys
      /\ look \in [Callers \cup Builds -> LookRecords] /\ look[c].at = "none"
  BY DEF FlowTypes, WaitersFollow, LookupsFollow
<1>2. caller[c].todo \in Seq(Builds)
  BY <1>1 DEF SessionRecords
<1>3. QED
  BY <1>1, <1>2 DEF StorageTypes, ListsAreSets

(* A close goes on: what the flow of the sessions knows of it.              *)
LEMMA CloserKeepsFlow ==
    ASSUME CacheInvariant, NEW c \in Callers, NEW s \in SessionRecords,
           caller[c].state \in {"idle", "serving", "failed", "settling", "retrying"},
           caller' = [caller EXCEPT ![c] = s], s.state \notin {"waiting", "closed"},
           s.build = caller[c].build, s.home = caller[c].home, s.key = caller[c].key,
           \A b \in Builds : Open(b) /\ build[b].aborted /\ Leaves(c, b) => Leaves(c, b)',
           UNCHANGED <<build, inflight, evictor, asks, look>>
    PROVE  /\ FlowInvariant' /\ caller'[c] = s
           /\ \A d \in Callers \ {c} : caller'[d] = caller[d]
<1> USE CacheConstants
<1>1. /\ caller' \in [Callers -> SessionRecords] /\ caller'[c] = s
      /\ \A d \in Callers \ {c} : caller'[d] = caller[d]
  BY SessionReplaced DEF CacheInvariant
<1>2. /\ caller[c].build = None /\ caller[c].home \in Processes /\ caller[c].key \in Keys
      /\ look \in [Callers \cup Builds -> LookRecords] /\ look[c].at = "none"
      /\ caller[c].state # "waiting"
  BY ClosingPlace
<1>3. FlowInvariant'
  BY <1>1, <1>2, MoveKeepsFlow DEF CacheInvariant
<1>4. QED
  BY <1>1, <1>3

LEMMA SettleKept ==
    ASSUME CacheInvariant, NEW c \in Callers, Settle(c)
    PROVE  CacheKept
<1> USE CacheConstants
<1>1. /\ caller[c].closing /\ caller[c].state \in {"idle", "serving", "failed"}
      /\ OneCloseAtATime => Closing(caller[c].home) = {}
      /\ caller' = [caller EXCEPT ![c].state = "settling", ![c].awaited = Awaited(c)]
      /\ UNCHANGED <<entry, tampered, staging, trash, live, inflight, verified, retained, files,
                     evictor, build, look, asks>>
  BY DEF Settle, NoFault, disk, memory
<1>2. /\ caller[c] \in SessionRecords /\ caller[c].todo = <<>>
      /\ NoDuplicates(caller[c].todo)
  BY <1>1, ClosingPlace, IdleLists
<1> PICK awaited : awaited = Awaited(c)
  OBVIOUS
<1> DEFINE s == [caller[c] EXCEPT !.state = "settling"]
           z == [s EXCEPT !.awaited = awaited]
<1>3. /\ s \in SessionRecords /\ s.state = "settling" /\ s.home = caller[c].home
      /\ s.key = caller[c].key /\ s.build = caller[c].build
      /\ s.closing = caller[c].closing /\ s.todo = caller[c].todo
  BY <1>2, SessionFields DEF SessionStates
<1>4. caller' = [caller EXCEPT ![c] = z]
  BY <1>1 DEF CacheInvariant, FlowInvariant, FlowTypes
<1> HIDE DEF s
<1>5. awaited \in SUBSET Builds
  BY DEF Awaited, Unfinished
<1>6. /\ z \in SessionRecords /\ z.state = "settling" /\ z.home = caller[c].home
      /\ z.key = caller[c].key /\ z.build = caller[c].build /\ z.awaited = awaited
      /\ z.closing = caller[c].closing /\ z.todo = caller[c].todo
  BY <1>3, <1>5, AwaitedReplaced
<1> HIDE DEF z
<1>7. caller'[c] = z
  BY <1>4 DEF CacheInvariant, FlowInvariant, FlowTypes
<1>8. ASSUME NEW b \in Builds, Open(b), build[b].aborted, Leaves(c, b)
      PROVE  Leaves(c, b)'
  <2>1. b \in Awaited(c) /\ Matches(c, b)
    BY <1>8 DEF Leaves, Matches, Awaited, Unfinished, Open
  <2>2. caller'[c].closing /\ Matches(c, b)'
    BY <1>1, <1>6, <1>7, <2>1 DEF Matches
  <2>3. caller'[c].state = "settling" /\ b \in caller'[c].awaited
    BY <1>6, <1>7, <2>1
  <2>4. QED
    BY <2>2, <2>3 DEF Leaves
<1>9. FlowInvariant' /\ \A d \in Callers \ {c} : caller'[d] = caller[d]
  BY <1>1, <1>4, <1>6, <1>8, CloserKeepsFlow
<1>10. ASSUME OneCloseAtATime, OneCloses
       PROVE  OneCloses'
  <2>1. \A d \in Callers : ~(caller[d].home = caller[c].home /\ caller[d].state \in CloseStates)
    BY <1>1, <1>10 DEF Closing
  <2>2. QED
    BY <1>6, <1>7, <1>9, <1>10, <2>1 DEF OneCloses
<1>11. QED
  BY <1>1, <1>2, <1>6, <1>7, <1>9, <1>10, ListMoves, EmptyList

LEMMA SettledKept ==
    ASSUME CacheInvariant, NEW c \in Callers, Settled(c)
    PROVE  CacheKept
<1> USE CacheConstants
<1> DEFINE todo == Without(retained[caller[c].home], {b \in Builds : build[b].key # caller[c].key})
           s == [caller[c] EXCEPT !.state = "retrying"]
           y == [s EXCEPT !.awaited = {}]
           z == [y EXCEPT !.todo = todo]
<1>1. /\ caller[c].state = "settling" /\ \A b \in caller[c].awaited : build[b].phase = "done"
      /\ caller' = [caller EXCEPT ![c].state = "retrying", ![c].awaited = {}, ![c].todo = todo]
      /\ UNCHANGED <<entry, tampered, staging, trash, live, inflight, verified, retained, files,
                     evictor, build, look, asks>>
  BY DEF Settled, NoFault, disk, memory
<1>2. /\ caller[c] \in SessionRecords /\ retained[caller[c].home] \in Seq(Builds)
      /\ NoDuplicates(retained[caller[c].home])
  BY <1>1, ClosingPlace
<1>3. /\ todo \in Seq(Builds) /\ NoDuplicates(todo)
      /\ \A x : In(x, todo) => In(x, retained[caller[c].home])
  BY <1>2, WithoutElements
<1> HIDE DEF todo
<1>4. /\ s \in SessionRecords /\ s.state = "retrying" /\ s.home = caller[c].home
      /\ s.key = caller[c].key /\ s.build = caller[c].build
  BY <1>2, SessionFields DEF SessionStates
<1>5. caller' = [caller EXCEPT ![c] = z]
  BY <1>1 DEF CacheInvariant, FlowInvariant, FlowTypes
<1> HIDE DEF s
<1>6. /\ y \in SessionRecords /\ y.state = "retrying" /\ y.home = caller[c].home
      /\ y.key = caller[c].key /\ y.build = caller[c].build
  <2>1. {} \in SUBSET Builds
    OBVIOUS
  <2>2. QED
    BY <1>4, <2>1, SessionFields
<1> HIDE DEF y
<1>7. /\ z \in SessionRecords /\ z.state = "retrying" /\ z.home = caller[c].home
      /\ z.key = caller[c].key /\ z.build = caller[c].build /\ z.todo = todo
  BY <1>3, <1>6, SessionFields
<1> HIDE DEF z
<1>8. \A b \in Builds : ~(Open(b) /\ Leaves(c, b))
  BY <1>1 DEF Leaves, Open
<1>9. /\ FlowInvariant' /\ caller'[c] = z
      /\ \A d \in Callers \ {c} : caller'[d] = caller[d]
  BY <1>1, <1>5, <1>7, <1>8, CloserKeepsFlow
<1>10. OneCloses => OneCloses'
  <2>1. \A d \in Callers : /\ caller'[d].state \in CloseStates => caller[d].state \in CloseStates
                           /\ caller'[d].home = caller[d].home
    BY <1>1, <1>7, <1>9 DEF CloseStates
  <2>2. QED
    BY <2>1 DEF OneCloses
<1>11. QED
  BY <1>1, <1>3, <1>7, <1>9, <1>10, ListMoves

(* One entry of the list of a close is done with.                           *)
LEMMA TodoShrinks ==
    ASSUME CacheInvariant, NEW c \in Callers, caller[c].state = "retrying", caller[c].todo # <<>>,
           caller' = [caller EXCEPT ![c].todo = Tail(@)],
           UNCHANGED <<build, inflight, evictor, asks, look>>
    PROVE  /\ FlowInvariant' /\ \A d \in Callers \ {c} : caller'[d] = caller[d]
           /\ caller'[c].state = "retrying" /\ caller'[c].home = caller[c].home
           /\ caller'[c].key = caller[c].key /\ NoDuplicates(caller'[c].todo)
           /\ Head(caller[c].todo) \in Builds /\ In(Head(caller[c].todo), caller[c].todo)
           /\ \A x : In(x, caller'[c].todo) <=> In(x, caller[c].todo) /\ x # Head(caller[c].todo)
           /\ OneCloses => OneCloses'
<1> USE CacheConstants
<1> DEFINE q == caller[c].todo
           z == [caller[c] EXCEPT !.todo = Tail(q)]
<1>1. /\ caller[c] \in SessionRecords /\ q \in Seq(Builds) /\ NoDuplicates(q)
  BY ClosingPlace
<1>2. /\ Tail(q) \in Seq(Builds) /\ Head(q) \in Builds /\ In(Head(q), q)
      /\ \A x : In(x, Tail(q)) <=> In(x, q) /\ x # Head(q)
      /\ NoDuplicates(Tail(q))
  BY <1>1, TailElements
<1>3. caller' = [caller EXCEPT ![c] = z]
  BY DEF CacheInvariant, FlowInvariant, FlowTypes
<1>4. /\ z \in SessionRecords /\ z.state = caller[c].state /\ z.home = caller[c].home
      /\ z.key = caller[c].key /\ z.build = caller[c].build /\ z.todo = Tail(q)
  BY <1>1, <1>2, SessionFields
<1> HIDE DEF z
<1>5. \A b \in Builds : ~Leaves(c, b)
  BY DEF Leaves
<1>6. /\ FlowInvariant' /\ caller'[c] = z
      /\ \A d \in Callers \ {c} : caller'[d] = caller[d]
  BY <1>3, <1>4, <1>5, CloserKeepsFlow
<1>7. OneCloses => OneCloses'
  BY <1>4, <1>6 DEF OneCloses, CloseStates
<1>8. QED
  BY <1>2, <1>4, <1>6, <1>7

LEMMA StopIncompleteKept ==
    ASSUME CacheInvariant, NEW c \in Callers, StopIncomplete(c)
    PROVE  CacheKept
<1>1. /\ caller[c].state = "retrying" /\ caller[c].todo # <<>>
      /\ caller' = [caller EXCEPT ![c].todo = Tail(@)]
      /\ UNCHANGED <<entry, tampered, staging, trash, live, inflight, verified, retained, files,
                     evictor, build, look, asks>>
  BY DEF StopIncomplete, NoFault, disk, memory
<1>2. /\ FlowInvariant' /\ \A d \in Callers \ {c} : caller'[d] = caller[d]
      /\ caller'[c].state = "retrying" /\ caller'[c].home = caller[c].home
      /\ caller'[c].key = caller[c].key /\ NoDuplicates(caller'[c].todo)
      /\ \A x : In(x, caller'[c].todo) => In(x, caller[c].todo)
      /\ OneCloses => OneCloses'
  BY <1>1, TodoShrinks
<1>3. QED
  BY <1>1, <1>2, ListMoves

LEMMA StopCompleteKept ==
    ASSUME CacheInvariant, NEW c \in Callers, StopComplete(c)
    PROVE  CacheKept
<1> USE CacheConstants DEF CacheInvariant
<1> PICK p : p = caller[c].home
  OBVIOUS
<1> PICK b : b = Head(caller[c].todo)
  OBVIOUS
<1>1. /\ caller[c].state = "retrying" /\ caller[c].todo # <<>>
      /\ caller' = [caller EXCEPT ![c].todo = Tail(@)]
      /\ live' = live \ {b}
      /\ retained' = [retained EXCEPT ![p] = Spliced(retained[p], b)]
      /\ \/ staging' = staging \ {b} /\ UNCHANGED files
         \/ /\ files' = [files EXCEPT ![p] = @ \cup {Kept(Retired("staging", b))}]
            /\ UNCHANGED staging
      /\ UNCHANGED <<entry, tampered, trash, inflight, verified, evictor, build, look, asks>>
  BY DEF StopComplete, FaultIf, Fault, NoFault
<1>2. /\ FlowInvariant' /\ \A d \in Callers \ {c} : caller'[d] = caller[d]
      /\ caller'[c].state = "retrying" /\ caller'[c].home = p
      /\ caller'[c].key = caller[c].key /\ NoDuplicates(caller'[c].todo)
      /\ b \in Builds /\ In(b, caller[c].todo)
      /\ \A x : In(x, caller'[c].todo) <=> In(x, caller[c].todo) /\ x # b
      /\ OneCloses => OneCloses'
  BY <1>1, TodoShrinks
<1>3. /\ p \in Processes /\ retained \in [Processes -> Seq(Builds)] /\ NoDuplicates(retained[p])
      /\ entry \in [Keys -> Builds \cup {None}] /\ tampered \subseteq Builds
      /\ staging \subseteq Builds /\ live \subseteq Builds
      /\ verified \in [Processes -> [Keys -> Builds \cup {None}]]
      /\ files = [q \in Processes |-> files[q]]
      /\ \A x \in Builds : DiskOf(x)
  BY <1>1, ClosingPlace DEF StorageInvariant, StorageTypes
<1>4. build[b].phase = "done" /\ build[b].home = p /\ Over(b)
  BY <1>2, <1>3 DEF DiskOf, Over
<1>5. /\ retained' \in [Processes -> Seq(Builds)]
      /\ \A q \in Processes : \A x : In(x, retained'[q]) => In(x, retained[q])
      /\ \A q \in Processes : NoDuplicates(retained'[q])
      /\ \A q \in Processes \ {p} : retained'[q] = retained[q]
      /\ In(b, retained[p]) => \A x : In(x, retained'[p]) <=> In(x, retained[p]) /\ x # b
  <2>1. /\ Spliced(retained[p], b) \in Seq(Builds)
        /\ \A x : In(x, Spliced(retained[p], b)) => In(x, retained[p])
        /\ NoDuplicates(Spliced(retained[p], b))
        /\ In(b, retained[p]) =>
              \A x : In(x, Spliced(retained[p], b)) <=> In(x, retained[p]) /\ x # b
    BY <1>3, SplicedList
  <2>2. retained'[p] = Spliced(retained[p], b)
    BY <1>1, <1>3
  <2>3. \A q \in Processes \ {p} : retained'[q] = retained[q]
    BY <1>1, <1>3
  <2>4. \A q \in Processes : NoDuplicates(retained[q])
    BY DEF StorageInvariant, ListsAreSets
  <2>5. retained' \in [Processes -> Seq(Builds)]
    BY <1>1, <1>3, <2>1
  <2>6. ASSUME NEW q \in Processes
        PROVE  /\ \A x : In(x, retained'[q]) => In(x, retained[q])
               /\ NoDuplicates(retained'[q])
    BY <2>1, <2>2, <2>3, <2>4
  <2>7. QED
    BY <2>1, <2>2, <2>3, <2>5, <2>6
<1>6. /\ files' = [q \in Processes |-> files'[q]]
      /\ \A q \in Processes : \A f \in files'[q] :
            f \in files[q] \/ f.item = Retired("staging", b)
  <2>1. Kept(Retired("staging", b)).item = Retired("staging", b)
    BY DEF Kept
  <2>2. /\ files' = [q \in Processes |-> files'[q]]
        /\ \A q \in Processes : \A f \in files'[q] :
              f \in files[q] \/ f = Kept(Retired("staging", b))
    <3>1. CASE UNCHANGED files
      BY <1>3, <3>1
    <3>2. CASE files' = [files EXCEPT ![p] = @ \cup {Kept(Retired("staging", b))}]
      BY <1>3, <3>2
    <3>3. QED
      BY <1>1, <3>1, <3>2
  <2>3. QED
    BY <2>1, <2>2
<1>7. StorageTypes'
  BY <1>1, <1>2, <1>3, <1>5, <1>6 DEF StorageInvariant, StorageTypes
<1>8. ListsAreSets'
  BY <1>2, <1>5 DEF StorageInvariant, ListsAreSets
<1>9. \A d \in Callers :
         /\ caller[d].state # "closed" => caller'[d].state # "closed"
         /\ caller'[d].home = caller[d].home /\ caller'[d].key = caller[d].key
         /\ \A x : In(x, caller'[d].todo) => In(x, caller[d].todo)
  BY <1>2
<1>10. RetainedAreAnswered'
  BY <1>1, <1>5, <1>9 DEF StorageInvariant, RetainedAreAnswered, Matches
<1>11. ASSUME NEW x \in Builds \ {b}
       PROVE  DiskOf(x)'
  <2>1. Retired("staging", x) # Retired("staging", b)
    BY DEF Retired
  <2>2. StaysOnDisk(x)
    BY <1>1, <1>6, <2>1 DEF StaysOnDisk
  <2>3. Shrinks(x)
    BY <1>5, <1>9, <2>2 DEF Shrinks
  <2>4. KeepsBuild(x)
    BY <1>1 DEF KeepsBuild, Over
  <2>5. QED
    BY <1>3, <2>3, <2>4, DiskKept DEF StorageInvariant
<1>12. DiskOf(b)'
  <2>1. DiskOf(b)
    BY <1>2, <1>3
  <2>2. b \notin live' /\ Over(b)' /\ build' = build
    BY <1>1, <1>4 DEF Over
  <2>3. Retired("staging", b) \in trash' => b \notin staging'
    BY <1>1, <2>1 DEF DiskOf
  <2>4. \A q \in Processes : In(b, retained'[q]) => build[b].phase = "done" /\ build[b].home = q
    BY <1>5, <2>1 DEF DiskOf
  <2>5. \A d \in Callers : In(b, caller'[d].todo) =>
           build[b].phase = "done" /\ build[b].home = caller'[d].home
    BY <1>9, <2>1 DEF DiskOf
  <2>6. QED
    BY <1>4, <2>2, <2>3, <2>4, <2>5 DEF DiskOf, Retired
<1>13. ASSUME CloseInvariant
       PROVE  CloseInvariant'
  <2>1. In(b, retained[p])
    BY <1>2, <1>13 DEF CloseInvariant, TodoIsRetained
  <2>2. LiveAreRetained'
    <3>1. ASSUME NEW x \in live', build[x].phase = "done"
          PROVE  In(x, retained'[build[x].home])
      <4>1. x \in live /\ x # b /\ x \in Builds
        BY <1>1, <1>3
      <4>2. In(x, retained[build[x].home]) /\ build[x].home \in Processes
        BY <1>13, <3>1, <4>1 DEF CloseInvariant, LiveAreRetained, FlowInvariant, FlowTypes
      <4>3. QED
        BY <1>5, <2>1, <4>1, <4>2
    <3>2. QED
      BY <1>1, <3>1 DEF LiveAreRetained
  <2>3. TodoIsRetained'
    <3>1. ASSUME NEW d \in Callers, NEW x \in Builds, In(x, caller'[d].todo)
          PROVE  In(x, retained'[caller'[d].home])
      <4>1. In(x, caller[d].todo) /\ In(x, retained[caller[d].home])
        BY <1>9, <1>13, <3>1 DEF CloseInvariant, TodoIsRetained
      <4>2. caller[d].state = "retrying" /\ caller[d].home \in Processes
        BY <4>1, EmptyList DEF StorageInvariant, StorageTypes, FlowInvariant, FlowTypes
      <4>3. CASE d = c
        BY <1>2, <1>5, <2>1, <3>1, <4>1, <4>3
      <4>4. CASE d # c
        <5>1. caller[d].home # p
          BY <1>1, <1>13, <4>2, <4>4 DEF CloseInvariant, OneCloses, CloseStates
        <5>2. QED
          BY <1>5, <1>9, <4>1, <4>2, <5>1
      <4>5. QED
        BY <4>3, <4>4
    <3>2. QED
      BY <3>1 DEF TodoIsRetained
  <2>4. QED
    BY <1>2, <1>13, <2>2, <2>3 DEF CloseInvariant
<1>14. QED
  BY <1>2, <1>7, <1>8, <1>10, <1>11, <1>12, <1>13 DEF StorageInvariant, CacheKept

LEMMA RetryFilesKept ==
    ASSUME CacheInvariant, NEW c \in Callers, RetryFiles(c)
    PROVE  CacheKept
<1> USE CacheConstants DEF CacheInvariant
<1> PICK p : p = caller[c].home
  OBVIOUS
<1> DEFINE mine == {f \in files[p] : f.keyed /\ build[f.item[2]].key = caller[c].key}
<1>1. /\ caller[c].state = "retrying" /\ caller[c].todo = <<>>
      /\ UNCHANGED <<entry, tampered, live, inflight, verified, retained, evictor, build, look,
                    asks>>
  BY DEF RetryFiles, NoFault
<1>2. PICK kept \in SUBSET mine :
         LET gone == {f.item : f \in mine \ kept}
         IN  /\ files' = [files EXCEPT ![p] = @ \ (mine \ kept)]
             /\ trash' = trash \ gone
             /\ staging' = {x \in staging : Retired("staging", x) \notin gone}
             /\ caller' = [caller EXCEPT ![c] =
                  IF Owed(c, kept) THEN [@ EXCEPT !.state = "failed"] ELSE NoSession]
  BY DEF RetryFiles
<1>3. /\ p \in Processes /\ retained \in [Processes -> Seq(Builds)]
      /\ entry \in [Keys -> Builds \cup {None}] /\ tampered \subseteq Builds
      /\ staging \subseteq Builds /\ live \subseteq Builds
      /\ verified \in [Processes -> [Keys -> Builds \cup {None}]]
      /\ files = [q \in Processes |-> files[q]]
      /\ \A x \in Builds : DiskOf(x)
      /\ caller[c] \in SessionRecords /\ caller[c].build = None /\ caller[c].key \in Keys
      /\ look \in [Callers \cup Builds -> LookRecords] /\ look[c].at = "none"
  BY <1>1, ClosingPlace DEF StorageInvariant, StorageTypes
<1> DEFINE s == [caller[c] EXCEPT !.state = "failed"]
           z == IF Owed(c, kept) THEN s ELSE NoSession
<1>4. /\ s \in SessionRecords /\ s.state = "failed" /\ s.home = p
      /\ s.key = caller[c].key /\ s.build = None /\ s.todo = <<>>
  BY ZenonT(30), <1>1, <1>3, SessionFields DEF SessionStates
<1>5. caller' = [caller EXCEPT ![c] = z]
  BY <1>2
<1>6. /\ NoSession \in SessionRecords /\ NoSession.state = "closed" /\ NoSession.build = None
      /\ NoSession.todo = <<>>
  BY DEF NoSession, SessionRecords, SessionStates
<1> HIDE DEF s
<1>7. /\ z \in SessionRecords /\ z.state \in {"failed", "closed"} /\ z.build = None /\ z.todo = <<>>
      /\ z.state # "closed" \/ Owed(c, kept) => z.home = p /\ z.key = caller[c].key
      /\ Owed(c, kept) => z.state # "closed"
  BY <1>4, <1>6
<1> HIDE DEF z
<1>8. /\ caller' \in [Callers -> SessionRecords] /\ caller'[c] = z
      /\ \A d \in Callers \ {c} : caller'[d] = caller[d]
  BY <1>5, <1>7, SessionReplaced
<1>9. FlowInvariant'
  <2>1. \A b \in Builds : ~Leaves(c, b)
    BY <1>1 DEF Leaves
  <2>2. caller[c].state # "waiting" /\ caller'[c].state # "waiting" /\ caller'[c].build = None
    BY <1>1, <1>7, <1>8
  <2>3. caller'[c].state # "closed" => caller'[c].home \in Processes /\ caller'[c].key \in Keys
    BY <1>3, <1>7, <1>8
  <2>4. QED
    BY <1>1, <1>3, <1>8, <2>1, <2>2, <2>3, MoveKeepsFlow
<1>10. /\ files' = [q \in Processes |-> files'[q]]
       /\ \A q \in Processes : files'[q] \subseteq files[q]
       /\ trash' \subseteq trash /\ staging' \subseteq staging
       /\ \A x \in live : x \in staging => x \in staging'
  <2>1. files' = [files EXCEPT ![p] = @ \ (mine \ kept)] /\ trash' \subseteq trash
        /\ staging' \subseteq staging
    BY <1>2
  <2>2. ASSUME NEW x \in live, x \in staging
        PROVE  x \in staging'
    <3>1. \A f \in files[p] : f.item # Retired("staging", x)
      BY <1>3 DEF DiskOf
    <3>2. Retired("staging", x) \notin {f.item : f \in mine \ kept}
      BY <3>1
    <3>3. QED
      BY <1>2, <2>2, <3>2
  <2> HIDE DEF mine
  <2>3. QED
    BY <1>3, <2>1, <2>2
<1>11. \A d \in Callers : \A x : In(x, caller'[d].todo) =>
          In(x, caller[d].todo) /\ caller'[d].home = caller[d].home
  BY <1>7, <1>8, EmptyList
<1>12. ASSUME NEW x \in Builds
       PROVE  DiskOf(x)'
  <2>1. StaysOnDisk(x)
    BY <1>1, <1>10 DEF StaysOnDisk
  <2>2. Shrinks(x)
    BY <1>1, <1>11, <2>1 DEF Shrinks
  <2>3. KeepsBuild(x)
    BY <1>1 DEF KeepsBuild, Over
  <2>4. QED
    BY <1>3, <2>2, <2>3, DiskKept DEF StorageInvariant
<1>13. StorageTypes'
  <2>1. \A d \in Callers : caller'[d].todo # <<>> => caller'[d].state = "retrying"
    BY <1>7, <1>8 DEF StorageInvariant, StorageTypes
  <2>2. staging' \subseteq Builds
    BY <1>3, <1>10
  <2>3. QED
    BY <1>1, <1>3, <1>10, <2>1, <2>2 DEF StorageTypes
<1>14. ListsAreSets'
  BY <1>1, <1>7, <1>8, EmptyList DEF StorageInvariant, ListsAreSets
<1>15. RetainedAreAnswered'
  <2>1. ASSUME NEW x \in Builds, NEW q \in Processes, In(x, retained[q])
        PROVE  \E d \in Callers : caller'[d].state # "closed" /\ Matches(d, x)'
    <3>1. PICK d \in Callers : caller[d].state # "closed" /\ Matches(d, x)
      BY <2>1 DEF StorageInvariant, RetainedAreAnswered
    <3>2. CASE d # c
      BY <1>1, <1>8, <3>1, <3>2 DEF Matches
    <3>3. CASE d = c
      <4>1. build[x].home = q
        BY <1>3, <2>1 DEF DiskOf
      <4>2. p = q /\ build[x].key = caller[c].key
        BY <3>1, <3>3, <4>1 DEF Matches
      <4>3. x \in ToSet(retained[p])
        BY <1>3, <2>1, <4>2, ListSet
      <4>4. Owed(c, kept)
        BY <4>2, <4>3 DEF Owed
      <4>5. caller'[c].state # "closed" /\ caller'[c].home = p /\ caller'[c].key = caller[c].key
        BY <1>7, <1>8, <4>4
      <4>6. Matches(c, x)'
        BY <1>1, <4>1, <4>2, <4>5 DEF Matches
      <4>7. QED
        BY <4>5, <4>6
    <3>4. QED
      BY <3>2, <3>3
  <2>2. QED
    BY <1>1, <2>1 DEF RetainedAreAnswered
<1>16. ASSUME CloseInvariant
       PROVE  CloseInvariant'
  <2>1. LiveAreRetained'
    BY <1>1, <1>16 DEF CloseInvariant, LiveAreRetained
  <2>2. TodoIsRetained'
    BY <1>1, <1>11, <1>16 DEF CloseInvariant, TodoIsRetained
  <2>3. OneCloses'
    BY <1>7, <1>8, <1>16 DEF CloseInvariant, OneCloses, CloseStates
  <2>4. QED
    BY <2>1, <2>2, <2>3 DEF CloseInvariant
<1>17. QED
  BY <1>9, <1>12, <1>13, <1>14, <1>15, <1>16 DEF StorageInvariant, CacheKept

LEMMA SessionKept ==
    ASSUME CacheInvariant, NEW c \in Callers, Session(c)
    PROVE  CacheKept
<1>1. asks \in [Processes -> SUBSET Keys]
  BY CacheAssumption DEF CacheInvariant, FlowInvariant, FlowTypes
<1>2. QED
  BY <1>1, OpenSessionKept, LooksAgainKept, BeginCloseKept, SettleKept, SettledKept,
     StopIncompleteKept, StopCompleteKept, RetryFilesKept DEF Session

-----------------------------------------------------------------------------
(* The invariant, and what follows from it *)

LEMMA TamperKept ==
    ASSUME CacheInvariant, NEW k \in Keys, Tamper(k)
    PROVE  CacheKept
<1> USE DEF CacheInvariant
<1>1. /\ entry[k] \in Builds /\ tampered' = tampered \cup {entry[k]}
      /\ UNCHANGED <<entry, staging, trash, live, inflight, verified, retained, files, evictor,
                     build, look, caller, asks>>
  BY DEF Tamper, Content, Fault, memory, StorageInvariant, StorageTypes
<1>2. FlowInvariant' /\ SessionsKeep /\ BuildsKeep
  BY <1>1, QuietKeeps DEF FlowInvariant, FlowTypes
<1>3. DiskShrinks
  BY <1>1 DEF StorageInvariant, StorageTypes, DiskShrinks
<1>4. QED
  BY <1>2, <1>3, StorageKept

LEMMA CrashKept ==
    ASSUME CacheInvariant, NEW p \in Processes, Crash(p)
    PROVE  CacheKept
<1> USE CacheConstants DEF CacheInvariant
<1>1. /\ FlowInvariant'
      /\ \A x \in Builds :
            /\ build'[x].home = build[x].home /\ build'[x].key = build[x].key
            /\ build'[x].phase = IF build[x].home = p THEN "lost" ELSE build[x].phase
      /\ \A c \in Callers :
            IF caller[c].home = p
            THEN caller'[c].state = "closed" /\ caller'[c].todo = <<>>
            ELSE caller'[c] = caller[c]
  BY CrashKeepsFlow
<1>2. /\ verified' = [verified EXCEPT ![p] = [k \in Keys |-> None]]
      /\ retained' = [retained EXCEPT ![p] = <<>>]
      /\ files' = [files EXCEPT ![p] = {}]
      /\ UNCHANGED <<entry, tampered, staging, trash, live>>
  BY DEF Crash, disk
<1>3. /\ entry \in [Keys -> Builds \cup {None}] /\ tampered \subseteq Builds
      /\ staging \subseteq Builds /\ live \subseteq Builds
      /\ verified \in [Processes -> [Keys -> Builds \cup {None}]]
      /\ retained \in [Processes -> Seq(Builds)]
      /\ files = [q \in Processes |-> files[q]]
  BY DEF StorageInvariant, StorageTypes
<1>4. /\ retained' \in [Processes -> Seq(Builds)]
      /\ \A q \in Processes \ {p} : retained'[q] = retained[q]
      /\ retained'[p] = <<>>
  <2>1. <<>> \in Seq(Builds)
    OBVIOUS
  <2>2. QED
    BY <1>2, <1>3, <2>1
<1>5. files' = [q \in Processes |-> files'[q]] /\ \A q \in Processes : files'[q] \subseteq files[q]
  BY <1>2, <1>3
<1>6. verified' \in [Processes -> [Keys -> Builds \cup {None}]]
  BY <1>2, <1>3
<1>7. StorageTypes'
  <2>1. \A c \in Callers : caller'[c].todo # <<>> => caller'[c].state = "retrying"
    BY <1>1 DEF StorageInvariant, StorageTypes
  <2>2. QED
    BY <1>2, <1>3, <1>4, <1>5, <1>6, <2>1 DEF StorageTypes
<1>8. ListsAreSets'
  <2>1. \A q \in Processes : NoDuplicates(retained'[q])
    BY <1>4, EmptyList DEF StorageInvariant, ListsAreSets
  <2>2. \A c \in Callers : NoDuplicates(caller'[c].todo)
    BY <1>1, EmptyList DEF StorageInvariant, ListsAreSets
  <2>3. QED
    BY <2>1, <2>2 DEF ListsAreSets
<1>9. \A q \in Processes : \A x : In(x, retained'[q]) => q # p /\ In(x, retained[q])
  BY <1>4, EmptyList
<1>10. \A c \in Callers : \A x : In(x, caller'[c].todo) =>
          In(x, caller[c].todo) /\ caller[c].home # p /\ caller'[c] = caller[c]
  BY <1>1, EmptyList
<1>11. ASSUME NEW x \in Builds
       PROVE  DiskOf(x)'
  <2>1. DiskOf(x)
    BY DEF StorageInvariant
  <2>2. Over(x) => Over(x)'
    BY <1>1 DEF Over
  <2>3. x \in live' => x \in staging' /\ build'[x].phase \in {"export", "done", "lost"}
    BY <1>1, <1>2, <2>1 DEF DiskOf
  <2>4. \A k \in Keys : entry'[k] = x =>
           x \notin live' /\ build'[x].phase \in {"retire", "evict", "evicting", "done", "lost"}
    BY <1>1, <1>2, <2>1 DEF DiskOf
  <2>5. Retired("staging", x) \in trash' => x \notin staging' /\ Over(x)'
    BY <1>2, <2>1, <2>2 DEF DiskOf
  <2>6. \A q \in Processes : \A f \in files'[q] :
           f.item = Retired("staging", x) => x \notin live' /\ Over(x)'
    BY <1>2, <1>5, <2>1, <2>2 DEF DiskOf
  <2>7. \A q \in Processes : In(x, retained'[q]) => build'[x].phase = "done" /\ build'[x].home = q
    BY <1>1, <1>9, <2>1 DEF DiskOf
  <2>8. \A c \in Callers : In(x, caller'[c].todo) =>
           build'[x].phase = "done" /\ build'[x].home = caller'[c].home
    BY <1>1, <1>10, <2>1 DEF DiskOf
  <2>9. QED
    BY <2>3, <2>4, <2>5, <2>6, <2>7, <2>8 DEF DiskOf, Retired
<1>12. RetainedAreAnswered'
  <2>1. ASSUME NEW x \in Builds, NEW q \in Processes, In(x, retained'[q])
        PROVE  \E c \in Callers : caller'[c].state # "closed" /\ Matches(c, x)'
    <3>1. q # p /\ In(x, retained[q])
      BY <1>9, <2>1
    <3>2. PICK c \in Callers : caller[c].state # "closed" /\ Matches(c, x)
      BY <3>1 DEF StorageInvariant, RetainedAreAnswered
    <3>3. caller[c].home # p
      BY <3>1, <3>2 DEF Matches, StorageInvariant, DiskOf
    <3>4. QED
      BY <1>1, <3>2, <3>3 DEF Matches
  <2>2. QED
    BY <2>1 DEF RetainedAreAnswered
<1>13. ASSUME CloseInvariant
       PROVE  CloseInvariant'
  <2>1. LiveAreRetained'
    <3>1. ASSUME NEW x \in live, build'[x].phase = "done"
          PROVE  In(x, retained'[build'[x].home])
      <4>1. x \in Builds /\ build[x].home # p /\ build[x].phase = "done"
        BY <1>1, <1>3, <3>1
      <4>2. In(x, retained[build[x].home]) /\ build[x].home \in Processes
        BY <1>13, <4>1 DEF CloseInvariant, LiveAreRetained, FlowInvariant, FlowTypes
      <4>3. QED
        BY <1>1, <1>4, <4>1, <4>2
    <3>2. QED
      BY <1>2, <3>1 DEF LiveAreRetained
  <2>2. TodoIsRetained'
    <3>1. ASSUME NEW c \in Callers, NEW x \in Builds, In(x, caller'[c].todo)
          PROVE  In(x, retained'[caller'[c].home])
      <4>1. In(x, caller[c].todo) /\ caller[c].home # p /\ caller'[c] = caller[c]
        BY <1>10, <3>1
      <4>2. caller[c].home \in Processes /\ In(x, retained[caller[c].home])
        BY <1>13, <4>1, EmptyList DEF StorageInvariant, StorageTypes, FlowInvariant, FlowTypes,
                                      CloseInvariant, TodoIsRetained
      <4>3. QED
        BY <1>4, <4>1, <4>2
    <3>2. QED
      BY <3>1 DEF TodoIsRetained
  <2>3. OneCloses'
    <3>1. \A c \in Callers : caller'[c].state \in CloseStates => caller'[c] = caller[c]
      BY <1>1 DEF CloseStates
    <3>2. QED
      BY <1>13, <3>1 DEF CloseInvariant, OneCloses
  <2>4. QED
    BY <2>1, <2>2, <2>3 DEF CloseInvariant
<1>14. QED
  BY <1>1, <1>7, <1>8, <1>11, <1>12, <1>13 DEF StorageInvariant, CacheKept

LEMMA CacheStep ==
    ASSUME CacheInvariant, [Next]_vars
    PROVE  CacheKept
<1>1. CASE \E a \in Callers \cup Builds : Lookup(a)
  BY <1>1, LookupKept
<1>2. CASE \E b \in Builds : Produce(b) \/ EvictAround(b)
  BY <1>2, ProduceKept, EvictAroundKept
<1>3. CASE \E p \in Processes : Evict(p) \/ Crash(p)
  BY <1>3, EvictKept, CrashKept
<1>4. CASE \E c \in Callers : Session(c)
  BY <1>4, SessionKept
<1>5. CASE \E k \in Keys : Tamper(k)
  BY <1>5, TamperKept
<1>6. CASE UNCHANGED vars
  <2>1. UNCHANGED <<entry, tampered, staging, trash, live, inflight, verified, retained, files,
                    evictor, build, look, caller, asks>>
    BY <1>6 DEF vars, disk, memory
  <2>2. FlowInvariant' /\ SessionsKeep /\ BuildsKeep
    BY <2>1, QuietKeeps DEF CacheInvariant, FlowInvariant, FlowTypes
  <2>3. DiskShrinks
    BY <2>1, DiskStays DEF CacheInvariant, StorageInvariant, StorageTypes
  <2>4. QED
    BY <2>2, <2>3, StorageKept
<1>7. QED
  BY <1>1, <1>2, <1>3, <1>4, <1>5, <1>6 DEF Next

LEMMA CacheStart == Init => CacheInvariant /\ CloseInvariant
<1> SUFFICES ASSUME Init
             PROVE  CacheInvariant /\ CloseInvariant
  OBVIOUS
<1> USE CacheConstants
<1>1. /\ entry = [k \in Keys |-> None]
      /\ tampered = {} /\ staging = {} /\ trash = {} /\ live = {}
      /\ build = [b \in Builds |-> NoBuild]
      /\ look = [a \in Callers \cup Builds |-> NoLookup]
      /\ inflight = [p \in Processes |-> [k \in Keys |-> None]]
      /\ verified = [p \in Processes |-> [k \in Keys |-> None]]
      /\ retained = [p \in Processes |-> <<>>]
      /\ files = [p \in Processes |-> {}]
      /\ caller = [c \in Callers |-> NoSession]
      /\ evictor = [p \in Processes |-> NoEviction]
      /\ asks \in Asks
  BY DEF Init
<1>2. /\ NoSession \in SessionRecords /\ NoSession.state = "closed" /\ NoSession.build = None
      /\ NoSession.todo = <<>>
  BY DEF NoSession, SessionRecords, SessionStates
<1>3. /\ NoBuild \in BuildRecords /\ NoBuild.phase = "none" /\ NoBuild.home = None
  BY DEF NoBuild, BuildRecords, Phases
<1>4. /\ NoLookup \in LookRecords /\ NoLookup.at = "none"
      /\ NoEviction \in Evictions /\ NoEviction.by = None
  BY DEF NoLookup, LookRecords, NoEviction, Evictions
<1>5. FlowTypes
  BY <1>1, <1>2, <1>3, <1>4 DEF FlowTypes
<1>6. WaitersFollow /\ LookupsFollow
  BY <1>1, <1>2, <1>4 DEF WaitersFollow, Waits, LookupsFollow
<1>7. RunsAreRegistered /\ RunsAreWanted
  BY <1>1, <1>3 DEF RunsAreRegistered, RunsAreWanted, Open
<1>8. <<>> \in Seq(Builds)
  OBVIOUS
<1>9. StorageTypes
  BY <1>1, <1>2, <1>8 DEF StorageTypes
<1>10. RetainedAreAnswered /\ ListsAreSets
  BY <1>1, <1>2, EmptyList DEF RetainedAreAnswered, ListsAreSets
<1>11. \A b \in Builds : DiskOf(b)
  BY <1>1, <1>2, EmptyList DEF DiskOf
<1>12. CloseInvariant
  BY <1>1, <1>2, EmptyList
     DEF CloseInvariant, LiveAreRetained, TodoIsRetained, OneCloses, CloseStates
<1>13. QED
  BY <1>5, <1>6, <1>7, <1>9, <1>10, <1>11, <1>12
     DEF CacheInvariant, FlowInvariant, StorageInvariant

(* In every reachable state sessions, builds and the disk are as             *)
(* FlowInvariant and StorageInvariant say.                                  *)
THEOREM CacheIsInvariant == Spec => []CacheInvariant
<1>1. CacheInvariant /\ [Next]_vars => CacheInvariant'
  BY CacheStep DEF CacheKept
<1>2. QED
  BY CacheStart, <1>1, PTL DEF Spec

(* Entries, staging, lists and registrations have their types, and no list  *)
(* of retained processes names anything but a build.                        *)
THEOREM CacheTypeCorrect == Spec => []TypeOK
<1>1. CacheInvariant => TypeOK
  <2>1. SUFFICES ASSUME CacheInvariant
                 PROVE  TypeOK
    OBVIOUS
  <2>2. ASSUME NEW p \in Processes
        PROVE  ToSet(retained[p]) \subseteq Builds
    <3>1. retained[p] \in Seq(Builds)
      BY <2>1 DEF CacheInvariant, StorageInvariant, StorageTypes
    <3>2. QED
      BY <3>1, LenProperties DEF ToSet
  <2>3. QED
    BY <2>1, <2>2 DEF CacheInvariant, StorageInvariant, StorageTypes, FlowInvariant, FlowTypes,
                      TypeOK
<1>2. QED
  BY CacheIsInvariant, <1>1, PTL

(* Whichever process cleans up, evicts, sweeps or dies, a Kuna that may be  *)
(* writing keeps its staging, and what is published has no writer.          *)
THEOREM StagingIsKept == Spec => []WritersKeepTheirStaging
<1>1. CacheInvariant => WritersKeepTheirStaging
  BY DEF CacheInvariant, StorageInvariant, StorageTypes, DiskOf, WritersKeepTheirStaging
<1>2. QED
  BY CacheIsInvariant, <1>1, PTL

(* No request waits for a run that is winding down.                         *)
THEOREM WaitersAreServed == Spec => []NoWaiterIsAborted
<1>1. CacheInvariant => NoWaiterIsAborted
  BY DEF CacheInvariant, FlowInvariant, WaitersFollow, NoWaiterIsAborted
<1>2. QED
  BY CacheIsInvariant, <1>1, PTL

(* However many requests for a key come, a process runs one Kuna for it.    *)
THEOREM RunsAreShared == Spec => []OneRunPerKey
<1>1. CacheInvariant => OneRunPerKey
  <2>1. SUFFICES ASSUME CacheInvariant, NEW p \in Processes,
                        NEW b1 \in Unfinished(p), NEW b2 \in Unfinished(p),
                        build[b1].key = build[b2].key, ~build[b1].aborted, ~build[b2].aborted
                 PROVE  b1 = b2
    BY DEF OneRunPerKey
  <2>2. /\ b1 \in Builds /\ b2 \in Builds /\ Open(b1) /\ Open(b2)
        /\ build[b1].home = p /\ build[b2].home = p
    BY <2>1 DEF Unfinished, Open
  <2>3. QED
    BY <2>1, <2>2 DEF CacheInvariant, FlowInvariant, RunsAreRegistered
<1>2. QED
  BY CacheIsInvariant, <1>1, PTL

(* Where sessions of a process close one at a time, a closed session left no *)
(* Kuna behind that only it had asked for.                                  *)
THEOREM ClosesLeaveNoKuna ==
    ASSUME OneCloseAtATime
    PROVE  Spec => []ClosedSessionsLeaveNoKuna
<1>1. CacheInvariant /\ CloseInvariant => ClosedSessionsLeaveNoKuna
  <2>1. SUFFICES ASSUME CacheInvariant, CloseInvariant, NEW b \in live, build[b].phase # "lost"
                 PROVE  \E c \in Callers : Matches(c, b)
    BY DEF ClosedSessionsLeaveNoKuna, Matches
  <2>2. b \in Builds /\ build[b].phase \in {"export", "done"}
    BY <2>1 DEF CacheInvariant, StorageInvariant, StorageTypes, DiskOf
  <2>3. CASE build[b].phase = "export"
    BY <2>1, <2>2, <2>3 DEF CacheInvariant, FlowInvariant, RunsAreWanted, WaitersFollow, Open,
                            Leaves
  <2>4. CASE build[b].phase = "done"
    <3>1. In(b, retained[build[b].home]) /\ build[b].home \in Processes
      BY <2>1, <2>2, <2>4 DEF CloseInvariant, LiveAreRetained, CacheInvariant, FlowInvariant,
                              FlowTypes
    <3>2. QED
      BY <2>1, <2>2, <3>1 DEF CacheInvariant, StorageInvariant, RetainedAreAnswered
  <2>5. QED
    BY <2>2, <2>3, <2>4
<1>2. CacheInvariant /\ CloseInvariant /\ [Next]_vars => CloseInvariant'
  BY CacheStep DEF CacheKept
<1>3. Init => CloseInvariant
  BY CacheStart
<1>4. QED
  BY CacheIsInvariant, <1>1, <1>2, <1>3, PTL DEF Spec

=============================================================================
