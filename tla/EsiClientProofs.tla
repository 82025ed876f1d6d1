-------------------------- MODULE EsiClientProofs --------------------------
(***************************************************************************)
(* The ESI client: the semaphore's lanes, the gate built on them, and the   *)
(* sign-in whose access token every request carries.  What the semaphore,   *)
(* esi_gate and token_refresh runs check on small instances is proved for   *)
(* any number of waiters, permits, calls, tabs, logins and rotations.       *)
(***************************************************************************)
EXTENDS EsiGate, TokenRefresh, FiniteSetTheorems, SequenceTheorems, WellFoundedInduction, TLAPS

-----------------------------------------------------------------------------
(***************************************************************************)
(* The semaphore.  A good pool: its lanes are in order, nobody is in two    *)
(* places, and its counters count.                                          *)
(***************************************************************************)

Record == [who : Waiter, ticket : Ticket \cup {NoTicket}, seq : Nat]

Pool == [lanes : [Priority -> Seq(Record)], held : Nat, lowHeld : Nat,
         permit : [Waiter -> Priority \cup {None}]]

Out(p, Lanes) == {w \in Waiter : p.permit[w] \in Lanes}

(* Each lane in the order of arrival, and no arrival number in two of them. *)
InOrder(p) ==
    /\ \A l \in Priority : \A i, j \in DOMAIN p.lanes[l] :
          i < j => p.lanes[l][i].seq < p.lanes[l][j].seq
    /\ \A l, m \in Priority : \A i \in DOMAIN p.lanes[l], j \in DOMAIN p.lanes[m] :
          p.lanes[l][i].seq = p.lanes[m][j].seq => l = m

(* Nobody waits at two places, or holds a permit and waits.                 *)
OnePlace(p) ==
    /\ \A l, m \in Priority : \A i \in DOMAIN p.lanes[l], j \in DOMAIN p.lanes[m] :
          p.lanes[l][i].who = p.lanes[m][j].who => l = m /\ i = j
    /\ \A l \in Priority : \A i \in DOMAIN p.lanes[l] : p.permit[p.lanes[l][i].who] = None

Counted(p) ==
    /\ IsFiniteSet(Out(p, Priority))
    /\ p.held = Cardinality(Out(p, Priority)) /\ p.held <= Limit
    /\ p.lowHeld = Cardinality(Out(p, {"low"})) /\ p.lowHeld <= lowLimit

Good(p) == p \in Pool /\ InOrder(p) /\ OnePlace(p) /\ Counted(p)

(* Nobody who waits may be admitted.                                        *)
Stuck(p) == p.held >= Limit \/ nextLane(p) = None

-----------------------------------------------------------------------------
(***************************************************************************)
(* A lane that is filtered or merged.  The inductions are over numbers, by  *)
(* the least counterexample.                                                *)
(***************************************************************************)

(* A set of numbers has a least one.                                        *)
LEMMA Least ==
  ASSUME NEW T \in SUBSET Nat, T # {}
  PROVE  \E m \in T : \A n \in T : m <= n
<1> DEFINE R == OpToRel(<, Nat)
<1>1. IsWellFoundedOn(R, Nat)
  BY NatLessThanWellFounded
<1>2. PICK m \in T : \A n \in T : ~(<<n, m>> \in R)
  <2> HIDE DEF R
  <2> QED BY <1>1, WFMin
<1>3. \A n \in T : ~(n < m)
  BY <1>2 DEF OpToRel
<1> QED BY <1>3

(* Ranks count a finite set of numbers from 1, in their order.              *)
LEMMA Ranks ==
  ASSUME NEW S \in SUBSET Nat, IsFiniteSet(S)
  PROVE  /\ Cardinality(S) \in Nat
         /\ \A n \in S : Rank(n, S) \in 1..Cardinality(S)
         /\ \A m, n \in S : m < n => Rank(m, S) < Rank(n, S)
         /\ \A k \in 1..Cardinality(S) : \E n \in S : Rank(n, S) = k
<1> DEFINE c == Cardinality(S)
           UpTo(n) == {m \in S : m <= n}
           f == [n \in S |-> Rank(n, S)]
<1>1. c \in Nat
  BY FS_CardinalityType
<1>2. \A n \in S : /\ IsFiniteSet(UpTo(n)) /\ Cardinality(UpTo(n)) \in Nat
                   /\ Cardinality(UpTo(n)) <= c /\ UpTo(n) # {}
  BY FS_Subset, FS_CardinalityType
<1>3. \A n \in S : Rank(n, S) \in 1..c
  BY <1>1, <1>2, FS_EmptySet DEF Rank
<1>4. ASSUME NEW m \in S, NEW n \in S, m < n
      PROVE  Rank(m, S) < Rank(n, S)
  <2>1. UpTo(m) \in SUBSET UpTo(n)
    <3>1. ASSUME NEW k \in S, k <= m
          PROVE  k <= n
      <4>1. k \in Nat /\ m \in Nat /\ n \in Nat
        OBVIOUS
      <4> QED BY <1>4, <3>1, <4>1
    <3> QED BY <3>1
  <2>2. n \in UpTo(n) /\ n \notin UpTo(m)
    BY <1>4
  <2>3. Cardinality(UpTo(m)) <= Cardinality(UpTo(n))
        /\ Cardinality(UpTo(m)) # Cardinality(UpTo(n))
    BY <1>2, <2>1, <2>2, FS_Subset
  <2> QED BY <1>2, <2>3 DEF Rank
<1>5. f \in Injection(S, 1..c)
  <2>1. f \in [S -> 1..c]
    BY <1>3
  <2>2. ASSUME NEW m \in S, NEW n \in S, f[m] = f[n]
        PROVE  m = n
    <3>1. ~(m < n) /\ ~(n < m)
      BY <1>3, <1>4, <2>2
    <3> QED BY <3>1
  <2> QED BY <2>1, <2>2 DEF Injection, IsInjective
<1>6. IsFiniteSet(1..c) /\ Cardinality(1..c) = c
  BY <1>1, FS_Interval
<1>7. f \in Surjection(S, 1..c)
  <2> HIDE DEF f
  <2> QED BY <1>5, <1>6, FS_Injection
<1>8. \A k \in 1..c : \E n \in S : Rank(n, S) = k
  BY <1>7 DEF Surjection
<1> QED BY <1>1, <1>3, <1>4, <1>8

(* A filtered lane has the positions it kept, in their order.               *)
LEMMA KeptIs ==
  ASSUME NEW T, NEW s \in Seq(T), NEW I \in SUBSET DOMAIN s
  PROVE  /\ Kept(s, I) \in Seq(T)
         /\ \E f \in [DOMAIN Kept(s, I) -> I] :
              /\ \A n \in DOMAIN Kept(s, I) : Kept(s, I)[n] = s[f[n]]
              /\ \A m, n \in DOMAIN Kept(s, I) : m < n => f[m] < f[n]
              /\ \A i \in I : \E n \in DOMAIN Kept(s, I) : f[n] = i
<1> DEFINE c == Cardinality(I)
           At(n) == CHOOSE i \in I : Rank(i, I) = n
           f == [n \in 1..c |-> At(n)]
<1>1. DOMAIN s = 1..Len(s) /\ Len(s) \in Nat /\ \A i \in DOMAIN s : s[i] \in T
  OBVIOUS
<1>2. I \in SUBSET Nat /\ IsFiniteSet(I)
  <2>1. IsFiniteSet(DOMAIN s)
    BY <1>1, FS_Interval
  <2> QED BY <1>1, <2>1, FS_Subset
<1>3. /\ c \in Nat
      /\ \A i \in I : Rank(i, I) \in 1..c
      /\ \A i, j \in I : i < j => Rank(i, I) < Rank(j, I)
      /\ \A k \in 1..c : \E i \in I : Rank(i, I) = k
  BY <1>2, Ranks
<1>4. \A n \in 1..c : At(n) \in I /\ Rank(At(n), I) = n
  BY <1>3
<1>5. Kept(s, I) = [n \in 1..c |-> s[f[n]]]
  BY DEF Kept
<1>6. Kept(s, I) \in Seq(T)
  BY <1>1, <1>3, <1>4, <1>5
<1>7. ASSUME NEW m \in 1..c, NEW n \in 1..c, m < n
      PROVE  f[m] < f[n]
  <2> DEFINE a == At(m)
             b == At(n)
  <2>1. a \in I /\ b \in I /\ Rank(a, I) = m /\ Rank(b, I) = n
    BY <1>4
  <2> HIDE DEF a, b
  <2>2. ~(a = b) /\ ~(b < a)
    BY <1>3, <1>7, <2>1
  <2>3. a < b
    BY <1>2, <2>1, <2>2
  <2> QED BY <2>3 DEF a, b
<1>8. ASSUME NEW i \in I
      PROVE  \E n \in 1..c : f[n] = i
  <2> DEFINE n == Rank(i, I)
             a == At(n)
  <2>1. n \in 1..c /\ a \in I /\ Rank(a, I) = Rank(i, I)
    BY <1>3, <1>4
  <2>2. f[n] = a
    BY <2>1
  <2> HIDE DEF a, n
  <2>3. ~(a < i) /\ ~(i < a)
    BY <1>3, <2>1
  <2>4. a = i
    BY <1>2, <2>1, <2>3
  <2> QED BY <2>1, <2>2, <2>4
<1>9. f \in [1..c -> I]
  BY <1>4
<1>10. DOMAIN Kept(s, I) = 1..c /\ \A n \in 1..c : Kept(s, I)[n] = s[f[n]]
  BY <1>5
<1> HIDE DEF f, c
<1>11. /\ f \in [DOMAIN Kept(s, I) -> I]
       /\ \A n \in DOMAIN Kept(s, I) : Kept(s, I)[n] = s[f[n]]
       /\ \A m, n \in DOMAIN Kept(s, I) : m < n => f[m] < f[n]
       /\ \A i \in I : \E n \in DOMAIN Kept(s, I) : f[n] = i
  BY <1>7, <1>8, <1>9, <1>10
<1> QED BY <1>6, <1>11

(* Two lanes merged: what was in either, sorted by arrival.                 *)
LEMMA MergedIs ==
  ASSUME NEW s \in Seq(Record), NEW t \in Seq(Record),
         \A x, y \in Elements(s) \cup Elements(t) : x.seq = y.seq => x = y
  PROVE  /\ Merged(s, t) \in Seq(Record)
         /\ Elements(Merged(s, t)) = Elements(s) \cup Elements(t)
         /\ \A m, n \in DOMAIN Merged(s, t) : m < n => Merged(s, t)[m].seq < Merged(s, t)[n].seq
<1> DEFINE all == Elements(s) \cup Elements(t)
           seqs == {x.seq : x \in all}
           c == Cardinality(all)
           At(n) == CHOOSE x \in all : Rank(x.seq, seqs) = n
           num == [x \in all |-> x.seq]
<1>1. all \subseteq Record /\ IsFiniteSet(all)
  <2>1. ASSUME NEW l \in Seq(Record)
        PROVE  Elements(l) \subseteq Record /\ IsFiniteSet(Elements(l))
    <3>1. l \in [1..Len(l) -> Record] /\ Len(l) \in Nat
      OBVIOUS
    <3>2. Elements(l) \subseteq Record
      BY <3>1 DEF Elements
    <3>3. l \in Surjection(1..Len(l), Elements(l))
      BY <3>1 DEF Surjection, Elements
    <3> QED BY <3>1, <3>2, <3>3, FS_Interval, FS_Surjection
  <2> QED BY <2>1, FS_Union
<1>2. num \in Bijection(all, seqs)
  <2>1. num \in [all -> seqs] /\ \A x, y \in all : num[x] = num[y] => x = y
    OBVIOUS
  <2>2. \A n \in seqs : \E x \in all : num[x] = n
    OBVIOUS
  <2> QED BY <2>1, <2>2 DEF Bijection, Injection, IsInjective, Surjection
<1>3. seqs \in SUBSET Nat /\ IsFiniteSet(seqs) /\ Cardinality(seqs) = c
  <2>1. seqs \in SUBSET Nat
    BY <1>1 DEF Record
  <2>2. ExistsBijection(all, seqs)
    BY <1>2 DEF ExistsBijection
  <2> HIDE DEF seqs, all, num
  <2> QED BY <1>1, <2>1, <2>2, FS_Bijection
<1>4. /\ c \in Nat
      /\ \A x \in all : Rank(x.seq, seqs) \in 1..c
      /\ \A x, y \in all : x.seq < y.seq => Rank(x.seq, seqs) < Rank(y.seq, seqs)
      /\ \A k \in 1..c : \E x \in all : Rank(x.seq, seqs) = k
  <2>1. \A x \in all : x.seq \in seqs
    OBVIOUS
  <2>2. \A n \in seqs : \E x \in all : x.seq = n
    OBVIOUS
  <2> HIDE DEF seqs, all, c
  <2>3. /\ c \in Nat
        /\ \A n \in seqs : Rank(n, seqs) \in 1..c
        /\ \A m, n \in seqs : m < n => Rank(m, seqs) < Rank(n, seqs)
        /\ \A k \in 1..c : \E n \in seqs : Rank(n, seqs) = k
    BY <1>3, Ranks
  <2>4. \A k \in 1..c : \E x \in all : Rank(x.seq, seqs) = k
    BY <2>2, <2>3
  <2> QED BY <2>1, <2>3, <2>4
<1>5. \A n \in 1..c : At(n) \in all /\ Rank(At(n).seq, seqs) = n
  BY <1>4
<1>6. Merged(s, t) = [n \in 1..c |-> At(n)]
  BY DEF Merged
<1> HIDE DEF seqs, all, c, At
<1>7. Merged(s, t) \in Seq(Record)
  BY <1>1, <1>4, <1>5, <1>6
<1>8. \A x \in all : x.seq \in Nat
  BY <1>1 DEF Record
<1>9. ASSUME NEW m \in 1..c, NEW n \in 1..c, m < n
      PROVE  Merged(s, t)[m].seq < Merged(s, t)[n].seq
  <2>1. /\ At(m) \in all /\ At(n) \in all
        /\ Rank(At(m).seq, seqs) = m /\ Rank(At(n).seq, seqs) = n
    BY <1>5
  <2>2. At(m).seq \in Nat /\ At(n).seq \in Nat
    BY <1>8, <2>1
  <2>3. ~(At(n).seq < At(m).seq) /\ At(m).seq # At(n).seq
    BY <1>4, <1>9, <2>1
  <2> QED BY <1>6, <2>2, <2>3
<1>10. ASSUME NEW x \in all
       PROVE  \E n \in 1..c : At(n) = x
  <2> DEFINE n == Rank(x.seq, seqs)
  <2>1. n \in 1..c /\ At(n) \in all /\ Rank(At(n).seq, seqs) = Rank(x.seq, seqs)
    BY <1>4, <1>5
  <2>2. ~(At(n).seq < x.seq) /\ ~(x.seq < At(n).seq)
    BY <1>4, <2>1
  <2>3. At(n).seq = x.seq
    BY <1>8, <2>1, <2>2
  <2>4. At(n) = x
    BY <2>1, <2>3 DEF all
  <2> QED BY <2>1, <2>4
<1>11. Elements(Merged(s, t)) = all
  BY <1>5, <1>6, <1>10 DEF Elements
<1> QED BY <1>6, <1>7, <1>9, <1>11 DEF all

-----------------------------------------------------------------------------
(***************************************************************************)
(* drain admits one waiter at a time, the first of the highest lane that    *)
(* may go.                                                                  *)
(***************************************************************************)

(* drain's loop: whatever each turn keeps, a set G of turns and pools, it   *)
(* has kept at the end.                                                     *)
LEMMA DrainLoop ==
  ASSUME NEW p, NEW G, <<0, p>> \in G,
         \A n \in Nat : \A q : <<n, q>> \in G => <<n + 1, admit(q)>> \in G
  PROVE  <<Limit, drain(p)>> \in G
<1> DEFINE Loop(f, m) == f = [n \in 0..m |-> IF n = 0 THEN p ELSE admit(f[n - 1])]
           after == CHOOSE f : Loop(f, Limit)
<1>0. Limit \in Nat
  BY SemaphoreAssumptions
<1>1. \A m \in 0..Limit : \E f : Loop(f, m)
  <2> DEFINE Bad == {m \in 0..Limit : ~\E f : Loop(f, m)}
  <2> SUFFICES ASSUME Bad # {}
               PROVE  FALSE
    OBVIOUS
  <2>1. PICK m \in Bad : \A n \in Bad : m <= n
    <3>1. Bad \in SUBSET Nat
      BY <1>0
    <3> HIDE DEF Bad
    <3> QED BY <3>1, Least
  <2>2. m # 0
    <3> DEFINE g == [n \in 0..0 |-> p]
    <3>1. Loop(g, 0)
      OBVIOUS
    <3> QED BY <2>1, <3>1
  <2>3. m - 1 \in 0..Limit /\ m - 1 \notin Bad /\ m \in Nat
    BY <2>1, <2>2, <1>0
  <2>4. PICK f : Loop(f, m - 1)
    BY <2>3
  <2> DEFINE g == [n \in 0..m |-> IF n = m THEN admit(f[m - 1]) ELSE f[n]]
  <2>5. \A n \in 0..(m - 1) : f[n] = IF n = 0 THEN p ELSE admit(f[n - 1])
    BY <2>4
  <2>6. \A n \in 0..m : g[n] = IF n = 0 THEN p ELSE admit(g[n - 1])
    <3> SUFFICES ASSUME NEW n \in 0..m
                 PROVE  g[n] = IF n = 0 THEN p ELSE admit(g[n - 1])
      OBVIOUS
    <3>1. CASE n = m
      <4>1. g[m - 1] = f[m - 1] /\ g[m] = admit(f[m - 1])
        BY <2>2, <2>3
      <4> QED BY <2>2, <3>1, <4>1
    <3>2. CASE n # m /\ n # 0
      <4>1. n \in 0..(m - 1) /\ n - 1 \in 0..m /\ n - 1 # m
        BY <2>3, <3>2
      <4>2. g[n] = f[n] /\ g[n - 1] = f[n - 1]
        BY <3>2, <4>1
      <4> QED BY <2>5, <3>2, <4>1, <4>2
    <3>3. CASE n # m /\ n = 0
      BY <2>3, <2>5, <3>3
    <3> QED BY <3>1, <3>2, <3>3
  <2>7. g = [n \in 0..m |-> IF n = 0 THEN p ELSE admit(g[n - 1])]
    <3>1. g = [n \in 0..m |-> g[n]]
      OBVIOUS
    <3> HIDE DEF g
    <3> QED BY <2>6, <3>1
  <2> HIDE DEF g
  <2> QED BY <2>1, <2>7
<1>2. Loop(after, Limit)
  <2>1. Limit \in 0..Limit
    BY <1>0
  <2>2. \E f : Loop(f, Limit)
    <3> HIDE DEF Loop
    <3> QED BY <1>1, <2>1
  <2> QED BY <2>2
<1>3. drain(p) = after[Limit]
  BY DEF drain
<1> HIDE DEF after
<1>4. \A n \in 0..Limit : after[n] = IF n = 0 THEN p ELSE admit(after[n - 1])
  BY <1>2
<1>5. \A n \in 0..Limit : <<n, after[n]>> \in G
  <2> DEFINE Bad == {n \in 0..Limit : <<n, after[n]>> \notin G}
  <2> SUFFICES ASSUME Bad # {}
               PROVE  FALSE
    OBVIOUS
  <2>1. PICK n \in Bad : \A m \in Bad : n <= m
    <3>1. Bad \in SUBSET Nat
      BY <1>0
    <3> HIDE DEF Bad
    <3> QED BY <3>1, Least
  <2>2. n # 0
    BY <1>0, <1>4, <2>1
  <2>3. n - 1 \in 0..Limit /\ n - 1 \notin Bad /\ n \in 0..Limit /\ n - 1 \in Nat
    BY <2>1, <2>2, <1>0
  <2>4. <<n - 1, after[n - 1]>> \in G /\ after[n] = admit(after[n - 1]) /\ (n - 1) + 1 = n
    BY <1>4, <2>2, <2>3
  <2> QED BY <2>1, <2>3, <2>4
<1> QED BY <1>0, <1>3, <1>5

LEMMA NoneApart == None \notin Priority
  BY SemaphoreAssumptions DEF Priority

LEMMA TailIs ==
  ASSUME NEW T, NEW s \in Seq(T), s # <<>>
  PROVE  /\ Tail(s) \in Seq(T) /\ DOMAIN Tail(s) = 1..(Len(s) - 1)
         /\ \A i \in 1..(Len(s) - 1) : Tail(s)[i] = s[i + 1]
         /\ Head(s) = s[1] /\ Len(s) \in Nat \ {0} /\ DOMAIN s = 1..Len(s) /\ s[1] \in T
  BY HeadTailProperties

(* Who waits, by name.                                                      *)
LEMMA PoolTypes ==
  ASSUME NEW p \in Pool
  PROVE  /\ \A l \in Priority : p.lanes[l] \in Seq(Record)
         /\ \A l \in Priority : \A i \in DOMAIN p.lanes[l] :
              /\ i \in Nat /\ p.lanes[l][i] \in Record
              /\ p.lanes[l][i].who \in Waiter /\ p.lanes[l][i].seq \in Nat
         /\ \A w, l : l \in Priority /\ In(p, w, l) => w \in Waiter
         /\ \A v, w : CameBefore(p, v, w) => Waiting(p, v) /\ Waiting(p, w)
<1>1. \A l \in Priority : p.lanes[l] \in Seq(Record)
  BY DEF Pool
<1>2. \A l \in Priority : \A i \in DOMAIN p.lanes[l] : i \in Nat /\ p.lanes[l][i] \in Record
  BY <1>1
<1>3. \A x \in Record : x.who \in Waiter /\ x.seq \in Nat
  BY DEF Record
<1>4. \A w, l : l \in Priority /\ In(p, w, l) => w \in Waiter
  BY <1>2, <1>3 DEF In
<1>5. \A v, w : CameBefore(p, v, w) => Waiting(p, v) /\ Waiting(p, w)
  BY DEF CameBefore, Waiting, In
<1> QED BY <1>1, <1>2, <1>3, <1>4, <1>5

LEMMA OneLane ==
  ASSUME NEW p, OnePlace(p), NEW w, NEW l \in Priority, NEW m \in Priority,
         In(p, w, l), In(p, w, m)
  PROVE  l = m
  BY DEF OnePlace, In

(* The next lane's waiters come before all others.                          *)
LEMMA NextLaneIs ==
  ASSUME NEW p \in Pool, nextLane(p) # None
  PROVE  /\ nextLane(p) \in Priority
         /\ p.lanes[nextLane(p)] # <<>>
         /\ nextLane(p) = "low" => p.lowHeld < lowLimit
         /\ \A m \in Priority : p.lanes[m] # <<>> => m = nextLane(p) \/ outranks(nextLane(p), m)
  BY DEF nextLane, Priority, outranks

LEMMA NoNextLane ==
  ASSUME NEW p \in Pool, nextLane(p) = None
  PROVE  /\ \A m \in Priority : m # "low" => p.lanes[m] = <<>>
         /\ p.lanes["low"] = <<>> \/ ~(p.lowHeld < lowLimit)
  BY NoneApart DEF nextLane, Priority

(* One turn of the loop that admits somebody.                               *)
Admitted(q, a, h, l) ==
    /\ l \in Priority /\ In(q, h, l)
    /\ a.permit = [q.permit EXCEPT ![h] = l]
    /\ a.held = q.held + 1
    /\ \A w, m : m \in Priority => (In(a, w, m) <=> In(q, w, m) /\ w # h)
    /\ \A v, w : CameBefore(a, v, w) <=> CameBefore(q, v, w) /\ v # h /\ w # h
    /\ \A w, m : m \in Priority /\ In(q, w, m) /\ w # h =>
                    outranks(l, m) \/ (l = m /\ CameBefore(q, h, w))

LEMMA AdmitStuck ==
  ASSUME NEW q, Stuck(q)
  PROVE  admit(q) = q
  BY DEF Stuck, admit

LEMMA AdmitTakes ==
  ASSUME NEW q, Good(q), ~Stuck(q)
  PROVE  Good(admit(q)) /\ \E h, l : Admitted(q, admit(q), h, l)
<1> DEFINE l == nextLane(q)
           s == q.lanes[l]
           h == Head(s).who
           a == admit(q)
           from(m, i) == IF m = l THEN i + 1 ELSE i
<1>1. /\ q \in Pool /\ InOrder(q) /\ OnePlace(q) /\ Counted(q)
      /\ l # None /\ ~(q.held >= Limit)
  BY DEF Good, Stuck
<1>2. /\ l \in Priority /\ s # <<>> /\ (l = "low" => q.lowHeld < lowLimit)
      /\ \A m \in Priority : q.lanes[m] # <<>> => m = l \/ outranks(l, m)
  BY <1>1, NextLaneIs
<1>3. /\ \A m \in Priority : q.lanes[m] \in Seq(Record)
      /\ \A m \in Priority : \A i \in DOMAIN q.lanes[m] :
           i \in Nat /\ q.lanes[m][i] \in Record /\ q.lanes[m][i].who \in Waiter
           /\ q.lanes[m][i].seq \in Nat
  BY <1>1, PoolTypes
<1>4. /\ Tail(s) \in Seq(Record) /\ DOMAIN Tail(s) = 1..(Len(s) - 1)
      /\ \A i \in 1..(Len(s) - 1) : Tail(s)[i] = s[i + 1]
      /\ Head(s) = s[1] /\ Len(s) \in Nat \ {0} /\ DOMAIN s = 1..Len(s) /\ s[1] \in Record
  BY <1>2, <1>3, TailIs
<1>5. /\ a.lanes = [q.lanes EXCEPT ![l] = Tail(s)] /\ a.held = q.held + 1
      /\ a.lowHeld = IF l = "low" THEN q.lowHeld + 1 ELSE q.lowHeld
      /\ a.permit = [q.permit EXCEPT ![h] = l]
      /\ a = [lanes |-> a.lanes, held |-> a.held, lowHeld |-> a.lowHeld, permit |-> a.permit]
  BY <1>1, <1>2 DEF admit, Pool
<1>6. h \in Waiter /\ q.permit \in [Waiter -> Priority \cup {None}] /\ DOMAIN q.lanes = Priority
      /\ q.held \in Nat /\ q.lowHeld \in Nat
  BY <1>1, <1>4 DEF Pool, Record
<1> HIDE DEF a, l, h, s
<1>7. \A m \in Priority : a.lanes[m] = IF m = l THEN Tail(s) ELSE q.lanes[m]
  BY <1>5, <1>6
<1>8. a \in Pool
  <2>1. a.lanes \in [Priority -> Seq(Record)]
    BY <1>2, <1>3, <1>4, <1>5, <1>6
  <2>2. a.held \in Nat /\ a.lowHeld \in Nat /\ a.permit \in [Waiter -> Priority \cup {None}]
    BY <1>2, <1>5, <1>6
  <2> QED BY <1>5, <2>1, <2>2 DEF Pool
<1>9. \A m \in Priority : \A i \in DOMAIN a.lanes[m] :
        /\ from(m, i) \in DOMAIN q.lanes[m] /\ from(m, i) \in Nat /\ i \in Nat
        /\ a.lanes[m][i] = q.lanes[m][from(m, i)]
        /\ m = l => from(m, i) # 1
  <2> SUFFICES ASSUME NEW m \in Priority, NEW i \in DOMAIN a.lanes[m]
               PROVE  /\ from(m, i) \in DOMAIN q.lanes[m] /\ from(m, i) \in Nat /\ i \in Nat
                      /\ a.lanes[m][i] = q.lanes[m][from(m, i)]
                      /\ m = l => from(m, i) # 1
    OBVIOUS
  <2>1. CASE m = l
    <3>1. a.lanes[m] = Tail(s) /\ q.lanes[m] = s /\ from(m, i) = i + 1
      BY <1>7, <2>1 DEF s
    <3>2. i \in 1..(Len(s) - 1) /\ Tail(s)[i] = s[i + 1]
      BY <1>4, <3>1
    <3>3. i \in Nat /\ i + 1 \in 1..Len(s) /\ i + 1 # 1
      BY <1>4, <3>2
    <3> QED BY <1>4, <3>1, <3>2, <3>3
  <2>2. CASE m # l
    BY <1>3, <1>7, <2>2
  <2> QED BY <2>1, <2>2
<1>10. \A m \in Priority : \A i \in DOMAIN q.lanes[m] :
         (m = l /\ i = 1) \/ \E j \in DOMAIN a.lanes[m] : from(m, j) = i
  <2> SUFFICES ASSUME NEW m \in Priority, NEW i \in DOMAIN q.lanes[m], ~(m = l /\ i = 1)
               PROVE  \E j \in DOMAIN a.lanes[m] : from(m, j) = i
    OBVIOUS
  <2>1. CASE m = l
    <3>1. i \in 1..Len(s) /\ i # 1 /\ DOMAIN a.lanes[m] = 1..(Len(s) - 1)
      BY <1>4, <1>7, <2>1 DEF s
    <3>2. i - 1 \in DOMAIN a.lanes[m] /\ from(m, i - 1) = i
      BY <1>4, <2>1, <3>1
    <3> QED BY <3>2
  <2>2. CASE m # l
    BY <1>7, <2>2
  <2> QED BY <2>1, <2>2
<1>11. 1 \in DOMAIN q.lanes[l] /\ q.lanes[l][1].who = h
  BY <1>4 DEF s, h
<1> HIDE DEF from
<1>12. \A m \in Priority : \A i, j \in DOMAIN a.lanes[m] : i < j => from(m, i) < from(m, j)
  BY <1>9 DEF from
<1>13. \A m \in Priority : \A i, j \in DOMAIN a.lanes[m] : from(m, i) = from(m, j) => i = j
  BY <1>9 DEF from
<1>14. InOrder(a)
  BY <1>1, <1>9, <1>12 DEF InOrder
<1>15. \A m \in Priority : \A i \in DOMAIN q.lanes[m] :
         q.lanes[m][i].who = h <=> m = l /\ i = 1
  BY <1>1, <1>2, <1>11 DEF OnePlace
<1>16. \A m \in Priority : \A i \in DOMAIN a.lanes[m] : a.lanes[m][i].who # h
  BY <1>9, <1>15
<1>17. OnePlace(a)
  <2>1. \A m \in Priority : \A i \in DOMAIN a.lanes[m] :
          a.permit[a.lanes[m][i].who] = q.permit[a.lanes[m][i].who]
    BY <1>3, <1>5, <1>6, <1>9, <1>16
  <2>2. \A m \in Priority : \A i \in DOMAIN a.lanes[m] : a.permit[a.lanes[m][i].who] = None
    BY <1>1, <1>9, <2>1 DEF OnePlace
  <2>3. \A m, n \in Priority : \A i \in DOMAIN a.lanes[m], j \in DOMAIN a.lanes[n] :
          a.lanes[m][i].who = a.lanes[n][j].who => m = n /\ i = j
    BY <1>1, <1>9, <1>13 DEF OnePlace
  <2> QED BY <2>2, <2>3 DEF OnePlace
<1>18. Counted(a)
  <2>1. q.permit[h] = None /\ h \notin Out(q, Priority) /\ h \notin Out(q, {"low"})
    BY <1>1, <1>2, <1>11, NoneApart DEF OnePlace, Out, Priority
  <2>2. Out(a, Priority) = Out(q, Priority) \cup {h}
    BY <1>2, <1>5, <1>6 DEF Out
  <2>3. Out(a, {"low"}) = IF l = "low" THEN Out(q, {"low"}) \cup {h} ELSE Out(q, {"low"})
    BY <1>5, <1>6, <2>1 DEF Out
  <2>4. Out(q, {"low"}) \in SUBSET Out(q, Priority)
    BY DEF Out, Priority
  <2>5. /\ IsFiniteSet(Out(q, Priority)) /\ IsFiniteSet(Out(q, {"low"}))
        /\ q.held = Cardinality(Out(q, Priority)) /\ q.lowHeld = Cardinality(Out(q, {"low"}))
        /\ q.lowHeld <= lowLimit
    BY <1>1, <2>4, FS_Subset DEF Counted
  <2>6. /\ IsFiniteSet(Out(a, Priority)) /\ a.held = Cardinality(Out(a, Priority))
    BY <1>5, <2>1, <2>2, <2>5, FS_AddElement
  <2>7. a.lowHeld = Cardinality(Out(a, {"low"}))
    <3>1. CASE l = "low"
      BY <1>5, <2>1, <2>3, <2>5, <3>1, FS_AddElement
    <3>2. CASE l # "low"
      BY <1>5, <2>3, <2>5, <3>2
    <3> QED BY <3>1, <3>2
  <2>8. Limit \in Nat /\ lowLimit \in Nat
    BY SemaphoreAssumptions DEF lowLimit
  <2>9. a.held <= Limit /\ a.lowHeld <= lowLimit
    BY <1>1, <1>2, <1>5, <1>6, <2>5, <2>8
  <2> QED BY <2>6, <2>7, <2>9 DEF Counted
<1>19. \A w, m : m \in Priority => (In(a, w, m) <=> In(q, w, m) /\ w # h)
  <2> SUFFICES ASSUME NEW w, NEW m \in Priority
               PROVE  In(a, w, m) <=> In(q, w, m) /\ w # h
    OBVIOUS
  <2>1. ASSUME In(a, w, m)
        PROVE  In(q, w, m) /\ w # h
    BY <1>9, <1>16, <2>1 DEF In
  <2>2. ASSUME In(q, w, m), w # h
        PROVE  In(a, w, m)
    <3>1. PICK i \in DOMAIN q.lanes[m] : q.lanes[m][i].who = w
      BY <2>2 DEF In
    <3>2. PICK j \in DOMAIN a.lanes[m] : from(m, j) = i
      BY <1>10, <1>15, <2>2, <3>1
    <3> QED BY <1>9, <3>1, <3>2 DEF In
  <2> QED BY <2>1, <2>2
<1>20. \A v, w : CameBefore(a, v, w) <=> CameBefore(q, v, w) /\ v # h /\ w # h
  <2> SUFFICES ASSUME NEW v, NEW w
               PROVE  CameBefore(a, v, w) <=> CameBefore(q, v, w) /\ v # h /\ w # h
    OBVIOUS
  <2>1. ASSUME CameBefore(a, v, w)
        PROVE  CameBefore(q, v, w) /\ v # h /\ w # h
    BY <1>9, <1>16, <2>1 DEF CameBefore
  <2>2. ASSUME CameBefore(q, v, w), v # h, w # h
        PROVE  CameBefore(a, v, w)
    <3>1. PICK m \in Priority, n \in Priority : \E i \in DOMAIN q.lanes[m], j \in DOMAIN q.lanes[n] :
             q.lanes[m][i].who = v /\ q.lanes[n][j].who = w
             /\ q.lanes[m][i].seq < q.lanes[n][j].seq
      BY <2>2 DEF CameBefore
    <3>2. PICK i \in DOMAIN q.lanes[m], j \in DOMAIN q.lanes[n] :
             q.lanes[m][i].who = v /\ q.lanes[n][j].who = w
             /\ q.lanes[m][i].seq < q.lanes[n][j].seq
      BY <3>1
    <3>3. PICK i2 \in DOMAIN a.lanes[m] : from(m, i2) = i
      BY <1>10, <1>15, <2>2, <3>2
    <3>4. PICK j2 \in DOMAIN a.lanes[n] : from(n, j2) = j
      BY <1>10, <1>15, <2>2, <3>2
    <3>5. a.lanes[m][i2] = q.lanes[m][i] /\ a.lanes[n][j2] = q.lanes[n][j]
      BY <1>9, <3>3, <3>4
    <3> QED BY <3>2, <3>5 DEF CameBefore
  <2> QED BY <2>1, <2>2
<1>21. \A w, m : m \in Priority /\ In(q, w, m) /\ w # h =>
                    outranks(l, m) \/ (l = m /\ CameBefore(q, h, w))
  <2> SUFFICES ASSUME NEW w, NEW m \in Priority, In(q, w, m), w # h
               PROVE  outranks(l, m) \/ (l = m /\ CameBefore(q, h, w))
    OBVIOUS
  <2>1. PICK i \in DOMAIN q.lanes[m] : q.lanes[m][i].who = w
    BY DEF In
  <2>2. l = m \/ outranks(l, m)
    <3>1. q.lanes[m] # <<>>
      BY <2>1
    <3> QED BY <1>2, <3>1
  <2>3. CASE l = m
    <3>1. 1 < i
      BY <1>4, <1>11, <2>1, <2>3 DEF s
    <3>2. CameBefore(q, h, w)
      BY <1>1, <1>2, <1>11, <2>1, <2>3, <3>1 DEF InOrder, CameBefore
    <3> QED BY <2>3, <3>2
  <2> QED BY <2>2, <2>3
<1>22. In(q, h, l)
  BY <1>11 DEF In
<1>23. Admitted(q, a, h, l)
  BY <1>2, <1>5, <1>19, <1>20, <1>21, <1>22 DEF Admitted
<1> QED BY <1>1, <1>8, <1>14, <1>17, <1>18, <1>23 DEF a, Good

(***************************************************************************)
(* q comes from p by admissions alone: whoever left got a permit of its     *)
(* lane, and came before all who still wait.                                *)
(***************************************************************************)
Served(p, q) ==
    /\ \A w, l : l \in Priority /\ In(q, w, l) => In(p, w, l)
    /\ \A v, w : CameBefore(q, v, w) <=>
                    CameBefore(p, v, w) /\ Waiting(q, v) /\ Waiting(q, w)
    /\ \A w \in Waiter :
          /\ Waiting(p, w) /\ ~Waiting(q, w) =>
                q.permit[w] \in Priority /\ In(p, w, q.permit[w])
          /\ ~Waiting(p, w) \/ Waiting(q, w) => q.permit[w] = p.permit[w]
    /\ \A v, w, l, m : /\ l \in Priority /\ m \in Priority
                       /\ In(p, v, l) /\ ~Waiting(q, v) /\ In(q, w, m)
                       => outranks(l, m) \/ (l = m /\ CameBefore(p, v, w))

LEMMA ServedNobody ==
  ASSUME NEW p \in Pool
  PROVE  Served(p, p)
<1>1. \A v, w : CameBefore(p, v, w) => Waiting(p, v) /\ Waiting(p, w)
  BY PoolTypes
<1>2. \A w, l : l \in Priority /\ In(p, w, l) => Waiting(p, w)
  BY DEF Waiting
<1> QED BY <1>1, <1>2 DEF Served

LEMMA ServedOneMore ==
  ASSUME NEW p, NEW q, NEW a, NEW h, NEW k, Good(p), Good(q), Good(a),
         Served(p, q), Admitted(q, a, h, k)
  PROVE  Served(p, a)
<1>1. p \in Pool /\ q \in Pool /\ a \in Pool /\ OnePlace(p) /\ OnePlace(q)
  BY DEF Good
<1>2. h \in Waiter /\ k \in Priority /\ In(q, h, k) /\ In(p, h, k)
  BY <1>1, PoolTypes DEF Admitted, Served
<1>3. \A w : Waiting(a, w) <=> Waiting(q, w) /\ w # h
  BY DEF Admitted, Waiting
<1>4. Waiting(q, h) /\ Waiting(p, h) /\ ~Waiting(a, h)
  BY <1>2, <1>3 DEF Waiting
<1>5. \A w, l : l \in Priority /\ In(a, w, l) => In(p, w, l)
  BY DEF Served, Admitted
<1>6. \A v, w : CameBefore(a, v, w) <=>
                    CameBefore(p, v, w) /\ Waiting(a, v) /\ Waiting(a, w)
  BY <1>3 DEF Served, Admitted
<1>7. \A w \in Waiter : a.permit[w] = IF w = h THEN k ELSE q.permit[w]
  BY <1>1 DEF Admitted, Pool
<1>8. \A w : Waiting(q, w) => Waiting(p, w)
  BY DEF Served, Waiting
<1>9. ASSUME NEW w \in Waiter
      PROVE  /\ Waiting(p, w) /\ ~Waiting(a, w) =>
                   a.permit[w] \in Priority /\ In(p, w, a.permit[w])
             /\ ~Waiting(p, w) \/ Waiting(a, w) => a.permit[w] = p.permit[w]
  <2>1. CASE w = h
    BY <1>2, <1>4, <1>7, <2>1
  <2>2. CASE w # h
    BY <1>3, <1>7, <2>2 DEF Served
  <2> QED BY <2>1, <2>2
<1>10. ASSUME NEW v, NEW w, NEW l \in Priority, NEW m \in Priority,
              In(p, v, l), ~Waiting(a, v), In(a, w, m)
       PROVE  outranks(l, m) \/ (l = m /\ CameBefore(p, v, w))
  <2>1. In(q, w, m) /\ w # h
    BY <1>10 DEF Admitted
  <2>2. CASE ~Waiting(q, v)
    BY <1>10, <2>1, <2>2 DEF Served
  <2>3. CASE Waiting(q, v)
    <3>1. v = h
      BY <1>3, <1>10, <2>3
    <3>2. l = k
      BY <1>1, <1>2, <1>10, <3>1, OneLane
    <3>3. outranks(k, m) \/ (k = m /\ CameBefore(q, h, w))
      BY <2>1 DEF Admitted
    <3>4. CameBefore(q, h, w) => CameBefore(p, h, w)
      BY DEF Served
    <3> QED BY <3>1, <3>2, <3>3, <3>4
  <2> QED BY <2>2, <2>3
<1> QED BY <1>5, <1>6, <1>9, <1>10 DEF Served

(* What drain returns, from any good pool.                                  *)
LEMMA DrainServes ==
  ASSUME NEW p, Good(p)
  PROVE  Good(drain(p)) /\ Stuck(drain(p)) /\ Served(p, drain(p))
<1> DEFINE OK(n, q) == Good(q) /\ Served(p, q) /\ (Stuck(q) \/ q.held >= n)
           G == {x \in Nat \X Pool : OK(x[1], x[2])}
<1>1. Limit \in Nat
  BY SemaphoreAssumptions
<1>2. <<0, p>> \in G
  <2>1. p \in Pool /\ p.held >= 0
    BY DEF Good, Pool
  <2>2. OK(0, p)
    BY <2>1, ServedNobody
  <2> QED BY <2>1, <2>2
<1>3. ASSUME NEW n \in Nat, NEW q, <<n, q>> \in G
      PROVE  <<n + 1, admit(q)>> \in G
  <2>1. q \in Pool /\ Good(q) /\ Served(p, q) /\ (Stuck(q) \/ q.held >= n)
    BY <1>3
  <2>2. CASE Stuck(q)
    <3>1. admit(q) = q
      BY <2>2, AdmitStuck
    <3> QED BY <2>1, <2>2, <3>1
  <2>3. CASE ~Stuck(q)
    <3>1. Good(admit(q)) /\ \E h, l : Admitted(q, admit(q), h, l)
      BY <2>1, <2>3, AdmitTakes
    <3>2. PICK h, l : Admitted(q, admit(q), h, l)
      BY <3>1
    <3>3. Served(p, admit(q))
      BY <2>1, <3>1, <3>2, ServedOneMore
    <3>4. admit(q).held = q.held + 1 /\ q.held \in Nat /\ q.held >= n
      BY <2>1, <2>3, <3>2 DEF Admitted, Pool
    <3>5. admit(q) \in Pool /\ admit(q).held >= n + 1
      BY <3>1, <3>4 DEF Good
    <3> QED BY <3>1, <3>3, <3>5
  <2> QED BY <2>2, <2>3
<1>4. <<Limit, drain(p)>> \in G
  <2> HIDE DEF G
  <2> QED BY <1>2, <1>3, DrainLoop
<1>5. OK(Limit, drain(p))
  BY <1>4
<1> QED BY <1>1, <1>5 DEF Stuck

-----------------------------------------------------------------------------
(***************************************************************************)
(* What each call does to the lanes before it drains them.                  *)
(***************************************************************************)

(***************************************************************************)
(* The pool as each call leaves it before it drains.                        *)
(***************************************************************************)

Seqs(p) == UNION {{x.seq : x \in Elements(p.lanes[l])} : l \in Priority}

LEMMA SeqsFinite ==
  ASSUME NEW p \in Pool
  PROVE  /\ Seqs(p) \in SUBSET Nat /\ IsFiniteSet(Seqs(p))
         /\ \A l \in Priority : \A i \in DOMAIN p.lanes[l] : p.lanes[l][i].seq \in Seqs(p)
<1> DEFINE At(l) == {x.seq : x \in Elements(p.lanes[l])}
<1>1. ASSUME NEW l \in Priority
      PROVE  At(l) \in SUBSET Nat /\ IsFiniteSet(At(l))
  <2> DEFINE s == p.lanes[l]
             f == [i \in 1..Len(s) |-> s[i].seq]
  <2>1. s \in Seq(Record) /\ Len(s) \in Nat /\ DOMAIN s = 1..Len(s)
        /\ \A i \in DOMAIN s : s[i].seq \in Nat
    BY PoolTypes
  <2>2. f \in Surjection(1..Len(s), At(l))
    BY <2>1 DEF Surjection, Elements
  <2>3. IsFiniteSet(1..Len(s))
    BY <2>1, FS_Interval
  <2>4. At(l) \in SUBSET Nat
    BY <2>1 DEF Elements
  <2> HIDE DEF At, f
  <2> QED BY <2>2, <2>3, <2>4, FS_Surjection
<1>2. Seqs(p) = At("high") \cup At("normal") \cup At("low")
  BY DEF Seqs, Priority
<1>3. \A l \in Priority : \A i \in DOMAIN p.lanes[l] : p.lanes[l][i].seq \in At(l)
  BY DEF Elements
<1>4. \A l \in Priority : At(l) \subseteq Seqs(p)
  BY DEF Seqs
<1> HIDE DEF At
<1>5. "high" \in Priority /\ "normal" \in Priority /\ "low" \in Priority
  BY DEF Priority
<1>6. IsFiniteSet(At("high") \cup At("normal"))
  BY <1>1, <1>5, FS_Union
<1>7. IsFiniteSet(Seqs(p))
  BY <1>1, <1>2, <1>5, <1>6, FS_Union
<1> QED BY <1>1, <1>2, <1>3, <1>4, <1>5, <1>7

LEMMA SameCount ==
  ASSUME NEW p, NEW a, Counted(p), a.permit = p.permit, a.held = p.held, a.lowHeld = p.lowHeld
  PROVE  Counted(a)
BY DEF Counted, Out

(* acquire: w is last in its lane, and behind everybody.                    *)
LEMMA QueuedIs ==
  ASSUME NEW p, Good(p), NEW w \in Waiter, ~Waiting(p, w), p.permit[w] = None,
         NEW ticket \in Ticket \cup {NoTicket}, NEW lane \in Priority,
         NEW a, a = Queued(p, w, ticket, lane)
  PROVE  /\ Good(a) /\ a.permit = p.permit
         /\ \A v, m : m \in Priority =>
              (In(a, v, m) <=> In(p, v, m) \/ (v = w /\ m = lane))
         /\ \A u, v : CameBefore(a, u, v) <=>
                         CameBefore(p, u, v) \/ (Waiting(p, u) /\ v = w)
<1> DEFINE seqs == Seqs(p)
           c == Cardinality(seqs)
           moved(m) == [i \in DOMAIN p.lanes[m] |-> [p.lanes[m][i] EXCEPT !.seq = Rank(@, seqs)]]
           last == [who |-> w, ticket |-> ticket, seq |-> c + 1]
           end == Len(p.lanes[lane]) + 1
<1>1. p \in Pool /\ InOrder(p) /\ OnePlace(p) /\ Counted(p)
  BY DEF Good
<1>2. /\ \A m \in Priority : p.lanes[m] \in Seq(Record)
      /\ \A m \in Priority : \A i \in DOMAIN p.lanes[m] :
           /\ i \in Nat /\ p.lanes[m][i] \in Record
           /\ p.lanes[m][i].who \in Waiter /\ p.lanes[m][i].seq \in Nat
  BY <1>1, PoolTypes
<1>3. /\ seqs \in SUBSET Nat /\ IsFiniteSet(seqs)
      /\ \A m \in Priority : \A i \in DOMAIN p.lanes[m] : p.lanes[m][i].seq \in seqs
  BY <1>1, SeqsFinite
<1>4. /\ c \in Nat
      /\ \A n \in seqs : Rank(n, seqs) \in 1..c
      /\ \A k, n \in seqs : k < n => Rank(k, seqs) < Rank(n, seqs)
  BY <1>3, Ranks
<1>5. /\ a.lanes = [m \in Priority |-> IF m = lane THEN Append(moved(m), last) ELSE moved(m)]
      /\ a.permit = p.permit /\ a.held = p.held /\ a.lowHeld = p.lowHeld
      /\ a = [lanes |-> a.lanes, held |-> a.held, lowHeld |-> a.lowHeld, permit |-> a.permit]
  BY <1>1 DEF Queued, Seqs, Pool
<1> HIDE DEF seqs, c
<1>6. \A m \in Priority : \A i \in DOMAIN p.lanes[m] :
        /\ moved(m)[i] \in Record
        /\ moved(m)[i].who = p.lanes[m][i].who
        /\ moved(m)[i].seq = Rank(p.lanes[m][i].seq, seqs)
  <2> SUFFICES ASSUME NEW m \in Priority, NEW i \in DOMAIN p.lanes[m]
               PROVE  /\ moved(m)[i] \in Record
                      /\ moved(m)[i].who = p.lanes[m][i].who
                      /\ moved(m)[i].seq = Rank(p.lanes[m][i].seq, seqs)
    OBVIOUS
  <2>1. p.lanes[m][i] \in Record /\ Rank(p.lanes[m][i].seq, seqs) \in Nat
    BY <1>2, <1>3, <1>4
  <2> QED BY <2>1 DEF Record
<1>7. \A m \in Priority : /\ moved(m) \in Seq(Record) /\ DOMAIN moved(m) = DOMAIN p.lanes[m]
                          /\ Len(moved(m)) = Len(p.lanes[m])
  <2> SUFFICES ASSUME NEW m \in Priority
               PROVE  /\ moved(m) \in Seq(Record) /\ DOMAIN moved(m) = DOMAIN p.lanes[m]
                      /\ Len(moved(m)) = Len(p.lanes[m])
    OBVIOUS
  <2> DEFINE n == Len(p.lanes[m])
  <2>1. DOMAIN p.lanes[m] = 1..n /\ n \in Nat
    BY <1>2
  <2>2. moved(m) = [i \in 1..n |-> moved(m)[i]]
    BY <2>1
  <2>3. \A i \in 1..n : moved(m)[i] \in Record
    BY <1>6, <2>1
  <2> HIDE DEF moved, n
  <2>4. moved(m) \in Seq(Record) /\ Len(moved(m)) = n
    BY <2>1, <2>2, <2>3
  <2> QED BY <2>1, <2>2, <2>4 DEF n
<1>8. last \in Record /\ last.who = w /\ last.seq = c + 1
  BY <1>4 DEF Record
<1> HIDE DEF moved, last
<1>9. \A m \in Priority : a.lanes[m] = IF m = lane THEN Append(moved(m), last) ELSE moved(m)
  BY <1>5
<1>10. /\ Append(moved(lane), last) \in Seq(Record) /\ end \in Nat \ {0}
       /\ DOMAIN Append(moved(lane), last) = 1..end
       /\ DOMAIN p.lanes[lane] = 1..(end - 1)
       /\ \A i \in DOMAIN p.lanes[lane] : Append(moved(lane), last)[i] = moved(lane)[i]
       /\ Append(moved(lane), last)[end] = last
  <2>1. moved(lane) \in Seq(Record) /\ Len(moved(lane)) = end - 1 /\ end \in Nat \ {0}
        /\ DOMAIN p.lanes[lane] = 1..(end - 1)
    BY <1>2, <1>7
  <2>2. /\ Append(moved(lane), last) \in Seq(Record)
        /\ Len(Append(moved(lane), last)) = Len(moved(lane)) + 1
        /\ \A i \in 1..Len(moved(lane)) : Append(moved(lane), last)[i] = moved(lane)[i]
        /\ Append(moved(lane), last)[Len(moved(lane)) + 1] = last
    BY <1>8, <2>1, AppendProperties
  <2> HIDE DEF end
  <2>3. Len(moved(lane)) + 1 = end /\ DOMAIN Append(moved(lane), last) = 1..end
    BY <2>1, <2>2
  <2> QED BY <2>1, <2>2, <2>3
<1> HIDE DEF end
<1>11. \A m \in Priority : a.lanes[m] \in Seq(Record)
  BY <1>7, <1>9, <1>10
<1>12. \A m \in Priority : \A i \in DOMAIN a.lanes[m] :
         \/ i \in DOMAIN p.lanes[m]
         \/ m = lane /\ i = end
  <2> SUFFICES ASSUME NEW m \in Priority, NEW i \in DOMAIN a.lanes[m]
               PROVE  i \in DOMAIN p.lanes[m] \/ (m = lane /\ i = end)
    OBVIOUS
  <2>1. CASE m = lane
    <3>1. i \in 1..end
      BY <1>9, <1>10, <2>1
    <3>2. i \in 1..(end - 1) \/ i = end
      BY <1>10, <3>1
    <3> QED BY <1>10, <2>1, <3>2
  <2>2. CASE m # lane
    BY <1>7, <1>9, <2>2
  <2> QED BY <2>1, <2>2
<1>13. \A m \in Priority : \A i \in DOMAIN p.lanes[m] :
         /\ i \in DOMAIN a.lanes[m]
         /\ a.lanes[m][i].who = p.lanes[m][i].who
         /\ a.lanes[m][i].seq = Rank(p.lanes[m][i].seq, seqs)
         /\ a.lanes[m][i].seq < c + 1
  <2> SUFFICES ASSUME NEW m \in Priority, NEW i \in DOMAIN p.lanes[m]
               PROVE  /\ i \in DOMAIN a.lanes[m]
                      /\ a.lanes[m][i].who = p.lanes[m][i].who
                      /\ a.lanes[m][i].seq = Rank(p.lanes[m][i].seq, seqs)
                      /\ a.lanes[m][i].seq < c + 1
    OBVIOUS
  <2>1. i \in DOMAIN a.lanes[m] /\ a.lanes[m][i] = moved(m)[i]
    <3>1. CASE m = lane
      <4>1. i \in 1..(end - 1) /\ a.lanes[m] = Append(moved(lane), last)
        BY <1>9, <1>10, <3>1
      <4>2. i \in 1..end
        BY <1>10, <4>1
      <4> QED BY <1>10, <3>1, <4>1, <4>2
    <3>2. CASE m # lane
      BY <1>7, <1>9, <3>2
    <3> QED BY <3>1, <3>2
  <2>2. p.lanes[m][i].seq \in seqs
    BY <1>3
  <2>3. Rank(p.lanes[m][i].seq, seqs) \in 1..c
    BY <1>4, <2>2
  <2>4. \A n \in 1..c : n < c + 1
    BY <1>4
  <2> QED BY <1>6, <2>1, <2>3, <2>4
<1>14. /\ end \notin DOMAIN p.lanes[lane] /\ end \in DOMAIN a.lanes[lane]
       /\ \A i \in DOMAIN p.lanes[lane] : i \in Nat /\ i < end
       /\ a.lanes[lane][end] = last
  <2>1. a.lanes[lane] = Append(moved(lane), last)
    BY <1>9
  <2>2. end \in 1..end /\ end \notin 1..(end - 1) /\ \A i \in 1..(end - 1) : i \in Nat /\ i < end
    BY <1>10
  <2> QED BY <1>10, <2>1, <2>2
<1>15. \A m \in Priority : \A i \in DOMAIN p.lanes[m] : p.lanes[m][i].who # w
  BY DEF Waiting, In
<1>16. \A l, m \in Priority : \A i \in DOMAIN p.lanes[l], j \in DOMAIN p.lanes[m] :
         a.lanes[l][i].seq < a.lanes[m][j].seq <=> p.lanes[l][i].seq < p.lanes[m][j].seq
  <2> SUFFICES ASSUME NEW l \in Priority, NEW m \in Priority,
                      NEW i \in DOMAIN p.lanes[l], NEW j \in DOMAIN p.lanes[m]
               PROVE  a.lanes[l][i].seq < a.lanes[m][j].seq <=> p.lanes[l][i].seq < p.lanes[m][j].seq
    OBVIOUS
  <2> DEFINE x == p.lanes[l][i].seq
             y == p.lanes[m][j].seq
  <2>1. x \in seqs /\ y \in seqs /\ x \in Nat /\ y \in Nat
    BY <1>2, <1>3
  <2>2. Rank(x, seqs) \in Nat /\ Rank(y, seqs) \in Nat
    BY <1>4, <2>1
  <2>3. a.lanes[l][i].seq = Rank(x, seqs) /\ a.lanes[m][j].seq = Rank(y, seqs)
    BY <1>13
  <2> HIDE DEF x, y
  <2>4. Rank(x, seqs) < Rank(y, seqs) <=> x < y
    <3>1. x < y => Rank(x, seqs) < Rank(y, seqs)
      BY <1>4, <2>1
    <3>2. y < x => Rank(y, seqs) < Rank(x, seqs)
      BY <1>4, <2>1
    <3>3. x = y => Rank(y, seqs) = Rank(x, seqs)
      OBVIOUS
    <3> QED BY <2>1, <2>2, <3>1, <3>2, <3>3
  <2> QED BY <2>3, <2>4 DEF x, y
<1>17. \A l, m \in Priority : \A i \in DOMAIN p.lanes[l], j \in DOMAIN p.lanes[m] :
         a.lanes[l][i].seq = a.lanes[m][j].seq => p.lanes[l][i].seq = p.lanes[m][j].seq
  <2> SUFFICES ASSUME NEW l \in Priority, NEW m \in Priority,
                      NEW i \in DOMAIN p.lanes[l], NEW j \in DOMAIN p.lanes[m],
                      a.lanes[l][i].seq = a.lanes[m][j].seq
               PROVE  p.lanes[l][i].seq = p.lanes[m][j].seq
    OBVIOUS
  <2>1. a.lanes[l][i].seq \in Nat
    <3>1. p.lanes[l][i].seq \in seqs
      BY <1>3
    <3> QED BY <1>4, <1>13, <3>1
  <2>2. ~(p.lanes[l][i].seq < p.lanes[m][j].seq) /\ ~(p.lanes[m][j].seq < p.lanes[l][i].seq)
    BY <1>16, <2>1
  <2>3. p.lanes[l][i].seq \in Nat /\ p.lanes[m][j].seq \in Nat
    BY <1>2
  <2> QED BY <2>2, <2>3
<1>18. a.lanes[lane][end].who = w /\ a.lanes[lane][end].seq = c + 1
  BY <1>8, <1>14
<1>0. a \in Pool
  <2>1. a.lanes \in [Priority -> Seq(Record)]
    BY <1>5, <1>11
  <2> QED BY <1>1, <1>5, <2>1 DEF Pool
<1>19. InOrder(a)
  <2>1. \A l \in Priority : \A i, j \in DOMAIN a.lanes[l] :
          i < j => a.lanes[l][i].seq < a.lanes[l][j].seq
    <3> SUFFICES ASSUME NEW l \in Priority, NEW i \in DOMAIN a.lanes[l],
                        NEW j \in DOMAIN a.lanes[l], i < j
                 PROVE  a.lanes[l][i].seq < a.lanes[l][j].seq
      OBVIOUS
    <3>1. CASE i \in DOMAIN p.lanes[l] /\ j \in DOMAIN p.lanes[l]
      BY <1>1, <1>16, <3>1 DEF InOrder
    <3>2. CASE i \in DOMAIN p.lanes[l] /\ j \notin DOMAIN p.lanes[l]
      BY <1>12, <1>13, <1>18, <3>2
    <3>3. CASE i \notin DOMAIN p.lanes[l]
      <4>1. i = end /\ l = lane
        BY <1>12, <3>3
      <4>2. j = end \/ (j \in DOMAIN p.lanes[lane] /\ j < end /\ j \in Nat)
        BY <1>2, <1>14, <1>12, <4>1
      <4> QED BY <1>10, <1>14, <4>1, <4>2
    <3> QED BY <3>1, <3>2, <3>3
  <2>2. \A l, m \in Priority : \A i \in DOMAIN a.lanes[l], j \in DOMAIN a.lanes[m] :
          a.lanes[l][i].seq = a.lanes[m][j].seq => l = m
    <3> SUFFICES ASSUME NEW l \in Priority, NEW m \in Priority, NEW i \in DOMAIN a.lanes[l],
                        NEW j \in DOMAIN a.lanes[m], a.lanes[l][i].seq = a.lanes[m][j].seq
                 PROVE  l = m
      OBVIOUS
    <3>1. CASE i \in DOMAIN p.lanes[l] /\ j \in DOMAIN p.lanes[m]
      BY <1>1, <1>17, <3>1 DEF InOrder
    <3>2. CASE i \in DOMAIN p.lanes[l] /\ j \notin DOMAIN p.lanes[m]
      BY <1>4, <1>12, <1>13, <1>18, <3>2
    <3>3. CASE i \notin DOMAIN p.lanes[l] /\ j \in DOMAIN p.lanes[m]
      BY <1>4, <1>12, <1>13, <1>18, <3>3
    <3>4. CASE i \notin DOMAIN p.lanes[l] /\ j \notin DOMAIN p.lanes[m]
      BY <1>12, <3>4
    <3> QED BY <3>1, <3>2, <3>3, <3>4
  <2> QED BY <2>1, <2>2 DEF InOrder
<1>20. OnePlace(a)
  <2>1. \A m \in Priority : \A i \in DOMAIN a.lanes[m] : a.permit[a.lanes[m][i].who] = None
    BY <1>1, <1>5, <1>12, <1>13, <1>18 DEF OnePlace
  <2>2. \A l, m \in Priority : \A i \in DOMAIN a.lanes[l], j \in DOMAIN a.lanes[m] :
          a.lanes[l][i].who = a.lanes[m][j].who => l = m /\ i = j
    <3> SUFFICES ASSUME NEW l \in Priority, NEW m \in Priority, NEW i \in DOMAIN a.lanes[l],
                        NEW j \in DOMAIN a.lanes[m], a.lanes[l][i].who = a.lanes[m][j].who
                 PROVE  l = m /\ i = j
      OBVIOUS
    <3>1. CASE i \in DOMAIN p.lanes[l] /\ j \in DOMAIN p.lanes[m]
      BY <1>1, <1>13, <3>1 DEF OnePlace
    <3>2. CASE i \in DOMAIN p.lanes[l] /\ j \notin DOMAIN p.lanes[m]
      BY <1>12, <1>13, <1>15, <1>18, <3>2
    <3>3. CASE i \notin DOMAIN p.lanes[l] /\ j \in DOMAIN p.lanes[m]
      BY <1>12, <1>13, <1>15, <1>18, <3>3
    <3>4. CASE i \notin DOMAIN p.lanes[l] /\ j \notin DOMAIN p.lanes[m]
      BY <1>12, <3>4
    <3> QED BY <3>1, <3>2, <3>3, <3>4
  <2> QED BY <2>1, <2>2 DEF OnePlace
<1>21. Good(a)
  BY <1>0, <1>1, <1>5, <1>19, <1>20, SameCount DEF Good
<1>22. \A v, m : m \in Priority => (In(a, v, m) <=> In(p, v, m) \/ (v = w /\ m = lane))
  BY <1>12, <1>13, <1>14, <1>18 DEF In
<1>23. \A u, v : CameBefore(a, u, v) <=> CameBefore(p, u, v) \/ (Waiting(p, u) /\ v = w)
  <2> SUFFICES ASSUME NEW u, NEW v
               PROVE  CameBefore(a, u, v) <=> CameBefore(p, u, v) \/ (Waiting(p, u) /\ v = w)
    OBVIOUS
  <2>1. ASSUME CameBefore(p, u, v)
        PROVE  CameBefore(a, u, v)
    BY <1>13, <1>16, <2>1 DEF CameBefore
  <2>2. ASSUME Waiting(p, u), v = w
        PROVE  CameBefore(a, u, v)
    BY <1>13, <1>14, <1>18, <2>2 DEF CameBefore, Waiting, In
  <2>3. ASSUME CameBefore(a, u, v)
        PROVE  CameBefore(p, u, v) \/ (Waiting(p, u) /\ v = w)
    <3>1. PICK l \in Priority, m \in Priority : \E i \in DOMAIN a.lanes[l], j \in DOMAIN a.lanes[m] :
             a.lanes[l][i].who = u /\ a.lanes[m][j].who = v
             /\ a.lanes[l][i].seq < a.lanes[m][j].seq
      BY <2>3 DEF CameBefore
    <3>2. PICK i \in DOMAIN a.lanes[l], j \in DOMAIN a.lanes[m] :
             a.lanes[l][i].who = u /\ a.lanes[m][j].who = v
             /\ a.lanes[l][i].seq < a.lanes[m][j].seq
      BY <3>1
    <3>3. CASE i \in DOMAIN p.lanes[l] /\ j \in DOMAIN p.lanes[m]
      <4>1. CameBefore(p, u, v)
        BY <1>13, <1>16, <3>2, <3>3 DEF CameBefore
      <4> QED BY <4>1
    <3>4. CASE i \in DOMAIN p.lanes[l] /\ j \notin DOMAIN p.lanes[m]
      <4>1. Waiting(p, u) /\ v = w
        BY <1>12, <1>13, <1>18, <3>2, <3>4 DEF Waiting, In
      <4> QED BY <4>1
    <3>5. CASE i \notin DOMAIN p.lanes[l]
      <4>1. a.lanes[l][i].seq = c + 1
        BY <1>12, <1>18, <3>5
      <4>2. a.lanes[m][j].seq \in Nat /\ a.lanes[m][j].seq <= c + 1
        BY <1>0, <1>4, <1>12, <1>13, <1>18, PoolTypes
      <4> QED BY <1>4, <3>2, <4>1, <4>2
    <3> QED BY <3>3, <3>4, <3>5
  <2> QED BY <2>1, <2>2, <2>3
<1> QED BY <1>5, <1>21, <1>22, <1>23

(* The waiters of a are waiters of p: some may have changed lanes, or gone. *)
Rearranged(p, a) ==
    /\ a \in Pool
    /\ a.permit = p.permit /\ a.held = p.held /\ a.lowHeld = p.lowHeld
    /\ \A m \in Priority : \A i \in DOMAIN a.lanes[m] :
          \E l \in Priority : \E j \in DOMAIN p.lanes[l] : a.lanes[m][i] = p.lanes[l][j]
    /\ \A m \in Priority : \A i, j \in DOMAIN a.lanes[m] :
          i < j => a.lanes[m][i].seq < a.lanes[m][j].seq
    /\ \A l, m \in Priority : \A i \in DOMAIN a.lanes[l], j \in DOMAIN a.lanes[m] :
          a.lanes[l][i].who = a.lanes[m][j].who => l = m

LEMMA StillGood ==
  ASSUME NEW p, NEW a, Good(p), Rearranged(p, a)
  PROVE  /\ Good(a)
         /\ \A u, v : CameBefore(a, u, v) <=>
                         CameBefore(p, u, v) /\ Waiting(a, u) /\ Waiting(a, v)
<1>0. /\ a \in Pool
      /\ a.permit = p.permit /\ a.held = p.held /\ a.lowHeld = p.lowHeld
      /\ \A m \in Priority : \A i \in DOMAIN a.lanes[m] :
            \E l \in Priority : \E j \in DOMAIN p.lanes[l] : a.lanes[m][i] = p.lanes[l][j]
      /\ \A m \in Priority : \A i, j \in DOMAIN a.lanes[m] :
            i < j => a.lanes[m][i].seq < a.lanes[m][j].seq
      /\ \A l, m \in Priority : \A i \in DOMAIN a.lanes[l], j \in DOMAIN a.lanes[m] :
            a.lanes[l][i].who = a.lanes[m][j].who => l = m
  BY DEF Rearranged
<1> USE <1>0
<1>1. p \in Pool /\ InOrder(p) /\ OnePlace(p) /\ Counted(p)
  BY DEF Good
<1>2. /\ \A m \in Priority : \A i \in DOMAIN p.lanes[m] : i \in Nat /\ p.lanes[m][i].seq \in Nat
      /\ \A m \in Priority : \A i \in DOMAIN a.lanes[m] : i \in Nat /\ a.lanes[m][i].seq \in Nat
  BY <1>1, PoolTypes
<1>3. ASSUME NEW l \in Priority, NEW m \in Priority,
             NEW i \in DOMAIN p.lanes[l], NEW j \in DOMAIN p.lanes[m],
             p.lanes[l][i].seq = p.lanes[m][j].seq
      PROVE  l = m /\ i = j
  <2>1. l = m
    BY <1>1, <1>3 DEF InOrder
  <2>2. i \in Nat /\ j \in Nat /\ p.lanes[l][i].seq \in Nat
    BY <1>2
  <2>3. ~(i < j) /\ ~(j < i)
    BY <1>1, <1>3, <2>1, <2>2 DEF InOrder
  <2> QED BY <2>1, <2>2, <2>3
<1>4. InOrder(a)
  <2> SUFFICES ASSUME NEW l \in Priority, NEW m \in Priority,
                      NEW i \in DOMAIN a.lanes[l], NEW j \in DOMAIN a.lanes[m],
                      a.lanes[l][i].seq = a.lanes[m][j].seq
               PROVE  l = m
    BY DEF InOrder
  <2>1. PICK k \in Priority : \E x \in DOMAIN p.lanes[k] : a.lanes[l][i] = p.lanes[k][x]
    OBVIOUS
  <2>2. PICK n \in Priority : \E y \in DOMAIN p.lanes[n] : a.lanes[m][j] = p.lanes[n][y]
    OBVIOUS
  <2>3. a.lanes[l][i] = a.lanes[m][j]
    BY <1>3, <2>1, <2>2
  <2> QED BY <2>3
<1>5. OnePlace(a)
  <2>1. ASSUME NEW l \in Priority, NEW m \in Priority,
               NEW i \in DOMAIN a.lanes[l], NEW j \in DOMAIN a.lanes[m],
               a.lanes[l][i].who = a.lanes[m][j].who
        PROVE  l = m /\ i = j
    <3>1. l = m
      BY <2>1
    <3>2. PICK k \in Priority : \E x \in DOMAIN p.lanes[k] : a.lanes[l][i] = p.lanes[k][x]
      OBVIOUS
    <3>3. PICK n \in Priority : \E y \in DOMAIN p.lanes[n] : a.lanes[m][j] = p.lanes[n][y]
      OBVIOUS
    <3>4. a.lanes[l][i] = a.lanes[m][j]
      BY <1>1, <2>1, <3>2, <3>3 DEF OnePlace
    <3>5. i \in Nat /\ j \in Nat /\ a.lanes[l][i].seq \in Nat
      BY <1>2
    <3>6. ~(i < j) /\ ~(j < i)
      BY <3>1, <3>4, <3>5
    <3> QED BY <3>1, <3>5, <3>6
  <2>2. \A m \in Priority : \A i \in DOMAIN a.lanes[m] : a.permit[a.lanes[m][i].who] = None
    BY <1>1 DEF OnePlace
  <2> QED BY <2>1, <2>2 DEF OnePlace
<1>6. Good(a)
  BY <1>1, <1>4, <1>5, SameCount DEF Good
<1>7. ASSUME NEW u, NEW v, CameBefore(a, u, v)
      PROVE  CameBefore(p, u, v) /\ Waiting(a, u) /\ Waiting(a, v)
  <2>1. Waiting(a, u) /\ Waiting(a, v)
    BY <1>7, PoolTypes
  <2>2. PICK l \in Priority, m \in Priority : \E i \in DOMAIN a.lanes[l], j \in DOMAIN a.lanes[m] :
           a.lanes[l][i].who = u /\ a.lanes[m][j].who = v
           /\ a.lanes[l][i].seq < a.lanes[m][j].seq
    BY <1>7 DEF CameBefore
  <2>3. PICK i \in DOMAIN a.lanes[l], j \in DOMAIN a.lanes[m] :
           a.lanes[l][i].who = u /\ a.lanes[m][j].who = v
           /\ a.lanes[l][i].seq < a.lanes[m][j].seq
    BY <2>2
  <2>4. PICK k \in Priority : \E x \in DOMAIN p.lanes[k] : a.lanes[l][i] = p.lanes[k][x]
    OBVIOUS
  <2>5. PICK n \in Priority : \E y \in DOMAIN p.lanes[n] : a.lanes[m][j] = p.lanes[n][y]
    OBVIOUS
  <2>6. CameBefore(p, u, v)
    BY <2>3, <2>4, <2>5 DEF CameBefore
  <2> QED BY <2>1, <2>6
<1>8. ASSUME NEW u, NEW v, CameBefore(p, u, v), Waiting(a, u), Waiting(a, v)
      PROVE  CameBefore(a, u, v)
  <2>1. PICK l \in Priority : \E i \in DOMAIN a.lanes[l] : a.lanes[l][i].who = u
    BY <1>8 DEF Waiting, In
  <2>2. PICK i \in DOMAIN a.lanes[l] : a.lanes[l][i].who = u
    BY <2>1
  <2>3. PICK m \in Priority : \E j \in DOMAIN a.lanes[m] : a.lanes[m][j].who = v
    BY <1>8 DEF Waiting, In
  <2>4. PICK j \in DOMAIN a.lanes[m] : a.lanes[m][j].who = v
    BY <2>3
  <2>5. PICK k \in Priority, n \in Priority : \E x \in DOMAIN p.lanes[k], y \in DOMAIN p.lanes[n] :
           p.lanes[k][x].who = u /\ p.lanes[n][y].who = v
           /\ p.lanes[k][x].seq < p.lanes[n][y].seq
    BY <1>8 DEF CameBefore
  <2>6. PICK x \in DOMAIN p.lanes[k], y \in DOMAIN p.lanes[n] :
           p.lanes[k][x].who = u /\ p.lanes[n][y].who = v
           /\ p.lanes[k][x].seq < p.lanes[n][y].seq
    BY <2>5
  <2>7. a.lanes[l][i] = p.lanes[k][x]
    <3>1. PICK b \in Priority : \E z \in DOMAIN p.lanes[b] : a.lanes[l][i] = p.lanes[b][z]
      OBVIOUS
    <3> QED BY <1>1, <2>2, <2>6, <3>1 DEF OnePlace
  <2>8. a.lanes[m][j] = p.lanes[n][y]
    <3>1. PICK b \in Priority : \E z \in DOMAIN p.lanes[b] : a.lanes[m][j] = p.lanes[b][z]
      OBVIOUS
    <3> QED BY <1>1, <2>4, <2>6, <3>1 DEF OnePlace
  <2> QED BY <2>2, <2>4, <2>6, <2>7, <2>8 DEF CameBefore
<1> QED BY <1>6, <1>7, <1>8

(* release: the permit is back, and everybody waits where he did.           *)
LEMMA ReturnedIs ==
  ASSUME NEW p, Good(p), NEW w \in Waiter, p.permit[w] # None, NEW a, a = Returned(p, w)
  PROVE  /\ Good(a)
         /\ a.permit = [p.permit EXCEPT ![w] = None]
         /\ \A v, m : In(a, v, m) <=> In(p, v, m)
         /\ \A u, v : CameBefore(a, u, v) <=> CameBefore(p, u, v)
<1> DEFINE k == p.permit[w]
<1>1. p \in Pool /\ InOrder(p) /\ OnePlace(p) /\ Counted(p)
  BY DEF Good
<1>2. /\ a.lanes = p.lanes /\ a.permit = [p.permit EXCEPT ![w] = None]
      /\ a.held = p.held - 1
      /\ a.lowHeld = IF k = "low" THEN p.lowHeld - 1 ELSE p.lowHeld
      /\ a = [lanes |-> a.lanes, held |-> a.held, lowHeld |-> a.lowHeld, permit |-> a.permit]
  BY <1>1 DEF Returned, Pool
<1>3. /\ p.permit \in [Waiter -> Priority \cup {None}] /\ k \in Priority
      /\ p.held \in Nat /\ p.lowHeld \in Nat /\ p.lanes \in [Priority -> Seq(Record)]
  BY <1>1 DEF Pool
<1>4. \A v \in Waiter : a.permit[v] = IF v = w THEN None ELSE p.permit[v]
  BY <1>2, <1>3
<1>5. /\ IsFiniteSet(Out(p, Priority)) /\ IsFiniteSet(Out(p, {"low"}))
      /\ p.held = Cardinality(Out(p, Priority)) /\ p.lowHeld = Cardinality(Out(p, {"low"}))
      /\ p.held <= Limit /\ p.lowHeld <= lowLimit
  <2>1. Out(p, {"low"}) \in SUBSET Out(p, Priority)
    BY DEF Out, Priority
  <2> QED BY <1>1, <2>1, FS_Subset DEF Counted
<1>6. Out(a, Priority) = Out(p, Priority) \ {w} /\ w \in Out(p, Priority)
  BY <1>3, <1>4, NoneApart DEF Out
<1>7. /\ IsFiniteSet(Out(a, Priority)) /\ a.held = Cardinality(Out(a, Priority))
      /\ a.held \in Nat /\ a.held <= p.held
  <2>1. IsFiniteSet(Out(a, Priority)) /\ Cardinality(Out(a, Priority)) = Cardinality(Out(p, Priority)) - 1
    BY <1>5, <1>6, FS_RemoveElement
  <2>2. Cardinality(Out(a, Priority)) \in Nat
    BY <2>1, FS_CardinalityType
  <2> QED BY <1>2, <1>3, <1>5, <2>1, <2>2
<1>8. /\ a.lowHeld = Cardinality(Out(a, {"low"}))
      /\ a.lowHeld \in Nat /\ a.lowHeld <= p.lowHeld
  <2>1. CASE k = "low"
    <3>1. Out(a, {"low"}) = Out(p, {"low"}) \ {w} /\ w \in Out(p, {"low"})
      BY <1>4, <2>1, NoneApart DEF Out, Priority
    <3>2. IsFiniteSet(Out(a, {"low"})) /\ Cardinality(Out(a, {"low"})) = Cardinality(Out(p, {"low"})) - 1
      BY <1>5, <3>1, FS_RemoveElement
    <3>3. Cardinality(Out(a, {"low"})) \in Nat
      BY <3>2, FS_CardinalityType
    <3> QED BY <1>2, <1>3, <1>5, <2>1, <3>2, <3>3
  <2>2. CASE k # "low"
    <3>1. Out(a, {"low"}) = Out(p, {"low"})
      BY <1>4, <2>2, NoneApart DEF Out, Priority
    <3> QED BY <1>2, <1>3, <1>5, <2>2, <3>1
  <2> QED BY <2>1, <2>2
<1>9. a \in Pool
  <2>1. a.permit \in [Waiter -> Priority \cup {None}]
    BY <1>2, <1>3
  <2> QED BY <1>2, <1>3, <1>7, <1>8, <2>1 DEF Pool
<1>10. Counted(a)
  <2>1. Limit \in Nat /\ lowLimit \in Nat
    BY SemaphoreAssumptions DEF lowLimit
  <2>2. a.held <= Limit /\ a.lowHeld <= lowLimit
    BY <1>3, <1>5, <1>7, <1>8, <2>1
  <2> QED BY <1>7, <1>8, <2>2 DEF Counted
<1>11. InOrder(a)
  BY <1>1, <1>2 DEF InOrder
<1>12. OnePlace(a)
  <2>1. \A m \in Priority : \A i \in DOMAIN p.lanes[m] : p.lanes[m][i].who \in Waiter
    BY <1>1, PoolTypes
  <2> QED BY <1>1, <1>2, <1>4, <2>1 DEF OnePlace
<1>13. Good(a)
  BY <1>9, <1>10, <1>11, <1>12 DEF Good
<1> QED BY <1>2, <1>13 DEF In, CameBefore

(* What Array.filter leaves of a lane that is in order.                     *)
LEMMA KeptHas ==
  ASSUME NEW s \in Seq(Record), NEW I \in SUBSET DOMAIN s,
         \A i, j \in DOMAIN s : i < j => s[i].seq < s[j].seq
  PROVE  /\ Kept(s, I) \in Seq(Record)
         /\ \A n \in DOMAIN Kept(s, I) : \E i \in I : Kept(s, I)[n] = s[i]
         /\ \A i \in I : \E n \in DOMAIN Kept(s, I) : Kept(s, I)[n] = s[i]
         /\ \A m, n \in DOMAIN Kept(s, I) : m < n => Kept(s, I)[m].seq < Kept(s, I)[n].seq
<1> DEFINE k == Kept(s, I)
<1>0. s \in Seq(Record) /\ I \in SUBSET DOMAIN s
  OBVIOUS
<1>1. PICK f \in [DOMAIN k -> I] :
         /\ \A n \in DOMAIN k : k[n] = s[f[n]]
         /\ \A m, n \in DOMAIN k : m < n => f[m] < f[n]
         /\ \A i \in I : \E n \in DOMAIN k : f[n] = i
  BY ONLY <1>0, KeptIs
<1>2. k \in Seq(Record)
  BY KeptIs
<1> HIDE DEF k
<1>3. \A n \in DOMAIN k : f[n] \in I /\ f[n] \in DOMAIN s
  OBVIOUS
<1>4. \A n \in DOMAIN k : \E i \in I : k[n] = s[i]
  BY <1>1, <1>3
<1>5. \A i \in I : \E n \in DOMAIN k : k[n] = s[i]
  BY <1>1
<1>6. \A m, n \in DOMAIN k : m < n => k[m].seq < k[n].seq
  BY <1>1, <1>3
<1> QED BY <1>2, <1>4, <1>5, <1>6 DEF k

(* onAbort: w has left, and nobody else's place has changed.                *)
LEMMA AbortedIs ==
  ASSUME NEW p, Good(p), NEW w, NEW a, a = Aborted(p, w)
  PROVE  /\ Good(a) /\ a.permit = p.permit /\ a.held = p.held /\ a.lowHeld = p.lowHeld
         /\ \A v, m : m \in Priority => (In(a, v, m) <=> In(p, v, m) /\ v # w)
         /\ \A u, v : CameBefore(a, u, v) <=> CameBefore(p, u, v) /\ u # w /\ v # w
<1> DEFINE Rest(m) == {i \in DOMAIN p.lanes[m] : p.lanes[m][i].who # w}
<1>1. p \in Pool /\ InOrder(p) /\ OnePlace(p)
  BY DEF Good
<1>2. /\ a.lanes = [m \in Priority |-> Kept(p.lanes[m], Rest(m))]
      /\ a.permit = p.permit /\ a.held = p.held /\ a.lowHeld = p.lowHeld
      /\ a = [lanes |-> a.lanes, held |-> a.held, lowHeld |-> a.lowHeld, permit |-> a.permit]
  BY <1>1 DEF Pool, Aborted
<1>3. ASSUME NEW m \in Priority
      PROVE  /\ a.lanes[m] \in Seq(Record)
             /\ \A n \in DOMAIN a.lanes[m] : \E i \in Rest(m) : a.lanes[m][n] = p.lanes[m][i]
             /\ \A i \in Rest(m) : \E n \in DOMAIN a.lanes[m] : a.lanes[m][n] = p.lanes[m][i]
             /\ \A i, j \in DOMAIN a.lanes[m] : i < j => a.lanes[m][i].seq < a.lanes[m][j].seq
  <2> DEFINE s == p.lanes[m]
             I == Rest(m)
  <2>1. s \in Seq(Record) /\ \A i, j \in DOMAIN s : i < j => s[i].seq < s[j].seq
    BY <1>1, PoolTypes DEF InOrder
  <2>2. I \in SUBSET DOMAIN s
    OBVIOUS
  <2>3. a.lanes[m] = Kept(s, I)
    BY <1>2
  <2> HIDE DEF s, I
  <2>4. /\ Kept(s, I) \in Seq(Record)
        /\ \A n \in DOMAIN Kept(s, I) : \E i \in I : Kept(s, I)[n] = s[i]
        /\ \A i \in I : \E n \in DOMAIN Kept(s, I) : Kept(s, I)[n] = s[i]
        /\ \A i, n \in DOMAIN Kept(s, I) : i < n => Kept(s, I)[i].seq < Kept(s, I)[n].seq
    BY <2>1, <2>2, KeptHas
  <2> QED BY <2>3, <2>4 DEF s, I
<1>4. a \in Pool
  <2>1. a.lanes \in [Priority -> Seq(Record)]
    BY <1>2, <1>3
  <2> QED BY <1>1, <1>2, <2>1 DEF Pool
<1>5. \A m \in Priority : \A i \in DOMAIN a.lanes[m] :
         \E l \in Priority : \E j \in DOMAIN p.lanes[l] : a.lanes[m][i] = p.lanes[l][j]
  BY <1>3
<1>6. \A l, m \in Priority : \A i \in DOMAIN a.lanes[l], j \in DOMAIN a.lanes[m] :
         a.lanes[l][i].who = a.lanes[m][j].who => l = m
  <2> SUFFICES ASSUME NEW l \in Priority, NEW m \in Priority,
                      NEW i \in DOMAIN a.lanes[l], NEW j \in DOMAIN a.lanes[m],
                      a.lanes[l][i].who = a.lanes[m][j].who
               PROVE  l = m
    OBVIOUS
  <2>1. PICK x \in DOMAIN p.lanes[l] : a.lanes[l][i] = p.lanes[l][x]
    BY <1>3
  <2>2. PICK y \in DOMAIN p.lanes[m] : a.lanes[m][j] = p.lanes[m][y]
    BY <1>3
  <2> QED BY <1>1, <2>1, <2>2 DEF OnePlace
<1>7. \A v, m : m \in Priority => (In(a, v, m) <=> In(p, v, m) /\ v # w)
  <2> SUFFICES ASSUME NEW v, NEW m \in Priority
               PROVE  In(a, v, m) <=> In(p, v, m) /\ v # w
    OBVIOUS
  <2>1. ASSUME In(a, v, m)
        PROVE  In(p, v, m) /\ v # w
    <3>1. PICK n \in DOMAIN a.lanes[m] : a.lanes[m][n].who = v
      BY <2>1 DEF In
    <3>2. PICK i \in Rest(m) : a.lanes[m][n] = p.lanes[m][i]
      BY <1>3
    <3> QED BY <3>1, <3>2 DEF In
  <2>2. ASSUME In(p, v, m), v # w
        PROVE  In(a, v, m)
    <3>1. PICK i \in DOMAIN p.lanes[m] : p.lanes[m][i].who = v
      BY <2>2 DEF In
    <3>2. i \in Rest(m)
      BY <2>2, <3>1
    <3> QED BY <1>3, <3>1, <3>2 DEF In
  <2> QED BY <2>1, <2>2
<1>8. \A v : Waiting(a, v) <=> Waiting(p, v) /\ v # w
  BY <1>7 DEF Waiting
<1>9. /\ Good(a)
      /\ \A u, v : CameBefore(a, u, v) <=>
                      CameBefore(p, u, v) /\ Waiting(a, u) /\ Waiting(a, v)
  <2>1. \A m \in Priority : \A i, j \in DOMAIN a.lanes[m] :
           i < j => a.lanes[m][i].seq < a.lanes[m][j].seq
    BY <1>3
  <2> HIDE DEF Rest
  <2>2. Rearranged(p, a)
    BY <1>2, <1>4, <1>5, <1>6, <2>1 DEF Rearranged
  <2> QED BY <2>2, StillGood
<1>10. \A u, v : CameBefore(p, u, v) => Waiting(p, u) /\ Waiting(p, v)
  BY <1>1, PoolTypes
<1> QED BY <1>2, <1>7, <1>8, <1>9, <1>10

(* promote: the waiters that move are in the higher lane now, and the order *)
(* in which all of them came is the same.                                   *)
LEMMA PromotedIs ==
  ASSUME NEW p, Good(p), NEW from \in Priority, NEW to \in Priority, from # to,
         NEW moves \in SUBSET DOMAIN p.lanes[from], NEW a,
         a = Promoted(p, from, to, moves)
  PROVE  /\ Good(a) /\ a.permit = p.permit
         /\ \A v, m : m \in Priority =>
              (In(a, v, m) <=> IF \E i \in moves : p.lanes[from][i].who = v
                               THEN m = to ELSE In(p, v, m))
         /\ \A u, v : CameBefore(a, u, v) <=> CameBefore(p, u, v)
<1> DEFINE s == p.lanes[from]
           t == p.lanes[to]
           I == DOMAIN s \ moves
           Moves(v) == \E i \in moves : s[i].who = v
<1>1. p \in Pool /\ InOrder(p) /\ OnePlace(p)
  BY DEF Good
<1>2. /\ s \in Seq(Record) /\ \A i, j \in DOMAIN s : i < j => s[i].seq < s[j].seq
      /\ t \in Seq(Record)
      /\ \A i, j \in DOMAIN s : s[i].seq = s[j].seq => i = j
      /\ \A i, j \in DOMAIN t : t[i].seq = t[j].seq => i = j
      /\ \A i \in DOMAIN s, j \in DOMAIN t : s[i].seq # t[j].seq
  <2>1. ASSUME NEW l \in Priority, NEW i \in DOMAIN p.lanes[l], NEW j \in DOMAIN p.lanes[l],
               p.lanes[l][i].seq = p.lanes[l][j].seq
        PROVE  i = j
    <3>1. i \in Nat /\ j \in Nat /\ p.lanes[l][i].seq \in Nat
      BY <1>1, PoolTypes
    <3>2. ~(i < j) /\ ~(j < i)
      BY <1>1, <2>1, <3>1 DEF InOrder
    <3> QED BY <3>1, <3>2
  <2> QED BY <1>1, <2>1, PoolTypes DEF InOrder
<1>3. I \in SUBSET DOMAIN s
  OBVIOUS
<1>4. /\ a.lanes = [p.lanes EXCEPT ![from] = Kept(s, I), ![to] = Merged(t, Kept(s, moves))]
      /\ a.permit = p.permit /\ a.held = p.held /\ a.lowHeld = p.lowHeld
      /\ a = [lanes |-> a.lanes, held |-> a.held, lowHeld |-> a.lowHeld, permit |-> a.permit]
  BY <1>1 DEF Pool, Promoted
<1>5. /\ a.lanes[from] = Kept(s, I) /\ a.lanes[to] = Merged(t, Kept(s, moves))
      /\ \A m \in Priority \ {from, to} : a.lanes[m] = p.lanes[m]
  BY <1>1, <1>4 DEF Pool
<1> HIDE DEF s, t, I
<1>6. /\ Kept(s, I) \in Seq(Record)
      /\ \A n \in DOMAIN Kept(s, I) : \E i \in I : Kept(s, I)[n] = s[i]
      /\ \A i \in I : \E n \in DOMAIN Kept(s, I) : Kept(s, I)[n] = s[i]
      /\ \A m, n \in DOMAIN Kept(s, I) : m < n => Kept(s, I)[m].seq < Kept(s, I)[n].seq
  BY <1>2, <1>3, KeptHas
<1>7. /\ Kept(s, moves) \in Seq(Record)
      /\ \A n \in DOMAIN Kept(s, moves) : \E i \in moves : Kept(s, moves)[n] = s[i]
      /\ \A i \in moves : \E n \in DOMAIN Kept(s, moves) : Kept(s, moves)[n] = s[i]
  BY <1>2, KeptHas DEF s
<1>8. \A i \in moves : i \in DOMAIN s
  BY DEF s
<1>9. \A x, y \in Elements(t) \cup Elements(Kept(s, moves)) : x.seq = y.seq => x = y
  <2>1. \A x \in Elements(t) : \E j \in DOMAIN t : x = t[j]
    BY DEF Elements
  <2>2. \A x \in Elements(Kept(s, moves)) : \E i \in DOMAIN s : x = s[i]
    BY <1>7, <1>8 DEF Elements
  <2> QED BY <1>2, <2>1, <2>2
<1>10. /\ Merged(t, Kept(s, moves)) \in Seq(Record)
       /\ Elements(Merged(t, Kept(s, moves))) = Elements(t) \cup Elements(Kept(s, moves))
       /\ \A i, j \in DOMAIN Merged(t, Kept(s, moves)) :
             i < j => Merged(t, Kept(s, moves))[i].seq < Merged(t, Kept(s, moves))[j].seq
  BY <1>2, <1>7, <1>9, MergedIs
<1>11. Elements(Kept(s, moves)) = {s[i] : i \in moves}
  BY <1>7 DEF Elements
<1>12. /\ \A n \in DOMAIN a.lanes[to] : \/ \E j \in DOMAIN t : a.lanes[to][n] = t[j]
                                        \/ \E i \in moves : a.lanes[to][n] = s[i]
       /\ \A j \in DOMAIN t : \E n \in DOMAIN a.lanes[to] : a.lanes[to][n] = t[j]
       /\ \A i \in moves : \E n \in DOMAIN a.lanes[to] : a.lanes[to][n] = s[i]
  <2>1. \A x : x \in Elements(a.lanes[to]) <=> x \in Elements(t) \/ \E i \in moves : x = s[i]
    BY <1>5, <1>10, <1>11
  <2>2. \A x : x \in Elements(a.lanes[to]) <=> \E n \in DOMAIN a.lanes[to] : x = a.lanes[to][n]
    BY DEF Elements
  <2>3. \A x : x \in Elements(t) <=> \E j \in DOMAIN t : x = t[j]
    BY DEF Elements
  <2>4. \A n \in DOMAIN a.lanes[to] : \/ \E j \in DOMAIN t : a.lanes[to][n] = t[j]
                                      \/ \E i \in moves : a.lanes[to][n] = s[i]
    BY <2>1, <2>2, <2>3
  <2>5. \A j \in DOMAIN t : \E n \in DOMAIN a.lanes[to] : a.lanes[to][n] = t[j]
    BY <2>1, <2>2, <2>3
  <2>6. \A i \in moves : \E n \in DOMAIN a.lanes[to] : a.lanes[to][n] = s[i]
    BY <2>1, <2>2
  <2> QED BY <2>4, <2>5, <2>6
<1>13. \A m \in Priority :
          /\ a.lanes[m] \in Seq(Record)
          /\ \A i, j \in DOMAIN a.lanes[m] : i < j => a.lanes[m][i].seq < a.lanes[m][j].seq
  <2> SUFFICES ASSUME NEW m \in Priority
               PROVE  /\ a.lanes[m] \in Seq(Record)
                      /\ \A i, j \in DOMAIN a.lanes[m] :
                            i < j => a.lanes[m][i].seq < a.lanes[m][j].seq
    OBVIOUS
  <2>1. CASE m = from
    BY <1>5, <1>6, <2>1
  <2>2. CASE m = to
    BY <1>5, <1>10, <2>2
  <2>3. CASE m \notin {from, to}
    BY <1>1, <1>5, <2>3, PoolTypes DEF InOrder
  <2> QED BY <2>1, <2>2, <2>3
<1>14. a \in Pool
  <2>1. a.lanes \in [Priority -> Seq(Record)]
    <3>1. DOMAIN a.lanes = Priority /\ a.lanes = [m \in Priority |-> a.lanes[m]]
      BY <1>1, <1>4 DEF Pool
    <3> QED BY <1>13, <3>1
  <2> QED BY <1>1, <1>4, <2>1 DEF Pool
<1>15. \A m \in Priority : \A n \in DOMAIN a.lanes[m] :
          \/ m = to /\ \E i \in moves : a.lanes[m][n] = s[i]
          \/ /\ \E i \in DOMAIN p.lanes[m] : a.lanes[m][n] = p.lanes[m][i]
             /\ ~Moves(a.lanes[m][n].who)
  <2> SUFFICES ASSUME NEW m \in Priority, NEW n \in DOMAIN a.lanes[m]
               PROVE  \/ m = to /\ \E i \in moves : a.lanes[m][n] = s[i]
                      \/ /\ \E i \in DOMAIN p.lanes[m] : a.lanes[m][n] = p.lanes[m][i]
                         /\ ~Moves(a.lanes[m][n].who)
    OBVIOUS
  <2>1. ASSUME NEW l \in Priority, l # from, NEW i \in DOMAIN p.lanes[l]
        PROVE  ~Moves(p.lanes[l][i].who)
    BY <1>1, <1>8, <2>1 DEF OnePlace, s
  <2>2. ASSUME NEW i \in I
        PROVE  i \in DOMAIN s /\ ~Moves(s[i].who)
    BY <1>1, <1>8, <2>2 DEF OnePlace, s, I
  <2> HIDE DEF Moves
  <2>3. CASE m = from
    <3>1. PICK i \in I : a.lanes[m][n] = s[i]
      BY <1>5, <1>6, <2>3
    <3> QED BY <2>2, <2>3, <3>1 DEF s
  <2>4. CASE m = to /\ ~\E i \in moves : a.lanes[m][n] = s[i]
    <3>1. PICK j \in DOMAIN t : a.lanes[m][n] = t[j]
      BY <1>12, <2>4
    <3> QED BY <2>1, <2>4, <3>1 DEF t
  <2>5. CASE m \notin {from, to}
    BY <1>5, <2>1, <2>5
  <2> QED BY <2>3, <2>4, <2>5
<1>16. \A v, m : m \in Priority =>
          (In(a, v, m) <=> IF Moves(v) THEN m = to ELSE In(p, v, m))
  <2> SUFFICES ASSUME NEW v, NEW m \in Priority
               PROVE  In(a, v, m) <=> IF Moves(v) THEN m = to ELSE In(p, v, m)
    OBVIOUS
  <2>1. ASSUME In(a, v, m)
        PROVE  IF Moves(v) THEN m = to ELSE In(p, v, m)
    <3>1. PICK n \in DOMAIN a.lanes[m] : a.lanes[m][n].who = v
      BY <2>1 DEF In
    <3>2. CASE m = to /\ \E i \in moves : a.lanes[m][n] = s[i]
      <4>1. Moves(v)
        BY <3>1, <3>2
      <4> QED BY <3>2, <4>1
    <3>3. CASE /\ \E i \in DOMAIN p.lanes[m] : a.lanes[m][n] = p.lanes[m][i]
               /\ ~Moves(a.lanes[m][n].who)
      <4>1. ~Moves(v)
        BY <3>1, <3>3
      <4>2. In(p, v, m)
        BY <3>1, <3>3 DEF In
      <4> QED BY <4>1, <4>2
    <3> QED BY <1>15, <3>2, <3>3
  <2>2. ASSUME Moves(v), m = to
        PROVE  In(a, v, m)
    <3>1. PICK i \in moves : s[i].who = v
      BY <2>2
    <3> QED BY <1>12, <2>2, <3>1 DEF In
  <2>3. ASSUME ~Moves(v), In(p, v, m)
        PROVE  In(a, v, m)
    <3>1. PICK i \in DOMAIN p.lanes[m] : p.lanes[m][i].who = v
      BY <2>3 DEF In
    <3>2. CASE m = from
      <4>1. i \in I
        BY <2>3, <3>1, <3>2 DEF I, s
      <4> QED BY <1>5, <1>6, <3>1, <3>2, <4>1 DEF In, s
    <3>3. CASE m = to
      BY <1>12, <3>1, <3>3 DEF In, t
    <3>4. CASE m \notin {from, to}
      BY <1>5, <3>1, <3>4 DEF In
    <3> QED BY <3>2, <3>3, <3>4
  <2> HIDE DEF Moves
  <2> QED BY <2>1, <2>2, <2>3
<1>17. \A m \in Priority : \A i \in DOMAIN a.lanes[m] :
          \E l \in Priority : \E j \in DOMAIN p.lanes[l] : a.lanes[m][i] = p.lanes[l][j]
  BY <1>8, <1>15 DEF s
<1>18. \A l, m \in Priority : \A i \in DOMAIN a.lanes[l], j \in DOMAIN a.lanes[m] :
          a.lanes[l][i].who = a.lanes[m][j].who => l = m
  <2> SUFFICES ASSUME NEW l \in Priority, NEW m \in Priority, NEW v, In(a, v, l), In(a, v, m)
               PROVE  l = m
    BY DEF In
  <2> HIDE DEF Moves
  <2>1. CASE Moves(v)
    BY <1>16, <2>1
  <2>2. CASE ~Moves(v)
    <3>1. In(p, v, l) /\ In(p, v, m)
      BY <1>16, <2>2
    <3> QED BY <1>1, <3>1, OneLane
  <2> QED BY <2>1, <2>2
<1>19. /\ Good(a)
       /\ \A u, v : CameBefore(a, u, v) <=>
                       CameBefore(p, u, v) /\ Waiting(a, u) /\ Waiting(a, v)
  <2>1. Rearranged(p, a)
    BY <1>4, <1>13, <1>14, <1>17, <1>18 DEF Rearranged
  <2> QED BY <2>1, StillGood
<1>20. \A v : Waiting(p, v) => Waiting(a, v)
  <2> HIDE DEF Moves
  <2> QED BY <1>16 DEF Waiting
<1>21. \A u, v : CameBefore(p, u, v) => Waiting(p, u) /\ Waiting(p, v)
  BY <1>1, PoolTypes
<1>22. \A u, v : CameBefore(a, u, v) <=> CameBefore(p, u, v)
  BY <1>19, <1>20, <1>21
<1> QED BY <1>4, <1>16, <1>19, <1>22 DEF s

-----------------------------------------------------------------------------
(***************************************************************************)
(* The promise: one queue in the order of arrival (PermitPool).             *)
(***************************************************************************)

LEMMA WaitsIs ==
  ASSUME NEW p, Good(p)
  PROVE  /\ Waits(p) \in [Waiter -> Priority \cup {None}]
         /\ \A w \in Waiter : Waits(p)[w] = None <=> ~Waiting(p, w)
         /\ \A w \in Waiter, l \in Priority : Waits(p)[w] = l <=> In(p, w, l)
<1>1. OnePlace(p)
  BY DEF Good
<1>2. ASSUME NEW w \in Waiter
      PROVE  /\ WaitsIn(p, w) \in Priority \cup {None}
             /\ WaitsIn(p, w) = None <=> ~Waiting(p, w)
             /\ \A l \in Priority : WaitsIn(p, w) = l <=> In(p, w, l)
  <2>1. CASE ~Waiting(p, w)
    BY <2>1, NoneApart DEF WaitsIn, Waiting
  <2>2. CASE Waiting(p, w)
    <3>1. PICK l \in Priority : In(p, w, l)
      BY <2>2 DEF Waiting
    <3>2. \A m \in Priority : In(p, w, m) => m = l
      BY <1>1, <3>1, OneLane
    <3>3. (CHOOSE m \in Priority : In(p, w, m)) = l
      BY <3>1, <3>2
    <3>4. WaitsIn(p, w) = l
      BY <2>2, <3>3 DEF WaitsIn
    <3> QED BY <2>2, <3>1, <3>2, <3>4, NoneApart
  <2> QED BY <2>1, <2>2
<1> QED BY <1>2 DEF Waits

LEMMA SameCardinality == \A S : Promise!Cardinality(S) = Cardinality(S)
  BY DEF Promise!Cardinality, Cardinality

(* The promise's sets, in the semaphore's terms.                            *)
LEMMA PromiseIs ==
  ASSUME NEW p, Good(p)
  PROVE  /\ Promise!Within(Waits(p)) = {w \in Waiter : Waiting(p, w)}
         /\ Promise!Priority = Priority
         /\ Cardinality(Promise!Holders(p.permit, Priority)) = p.held
         /\ Cardinality(Promise!Holders(p.permit, {"low"})) = p.lowHeld
         /\ p.held <= Limit /\ p.lowHeld <= lowLimit
         /\ p.held \in Nat /\ p.lowHeld \in Nat
  BY WaitsIs DEF Promise!Within, Promise!Priority, Priority, Promise!Holders, Good, Counted, Out, Pool

(***************************************************************************)
(* drain admits as the promise says.                                        *)
(***************************************************************************)
LEMMA AdmitsFrom ==
  ASSUME NEW x, Good(x), pool' = drain(x)
  PROVE  Promise!Admits(Waits(x), Arrivals(x), x.permit)
<1> DEFINE y == drain(x)
           Gone == {w \in Waiter : Waiting(x, w) /\ ~Waiting(y, w)}
           Left == Promise!Within(Waits(x)) \ Gone
<1>1. Good(y) /\ Stuck(y) /\ Served(x, y)
  BY DrainServes
<1>2. Limit \in Nat /\ lowLimit \in Nat
  BY SemaphoreAssumptions DEF lowLimit
<1>3. Waits(pool)' = Waits(y) /\ Arrivals(pool)' = Arrivals(y) /\ pool'.permit = y.permit
  BY DEF Waits, WaitsIn, Waiting, In, Arrivals, CameBefore
<1> HIDE DEF y
<1>4. /\ x \in Pool /\ y \in Pool /\ OnePlace(x)
      /\ x.permit \in [Waiter -> Priority \cup {None}]
      /\ y.permit \in [Waiter -> Priority \cup {None}]
  BY <1>1 DEF Good, Pool
<1>5. \A w, l : l \in Priority /\ In(y, w, l) => In(x, w, l)
  BY <1>1 DEF Served
<1>6. \A w : Waiting(y, w) => Waiting(x, w)
  BY <1>5 DEF Waiting
<1>7. /\ Gone \in SUBSET Promise!Within(Waits(x))
      /\ Left = {w \in Waiter : Waiting(y, w)}
  BY <1>6, PromiseIs
<1> HIDE DEF Left
<1>8. Waits(y) = [w \in Waiter |-> IF w \in Gone THEN None ELSE Waits(x)[w]]
  <2>1. ASSUME NEW w \in Waiter
        PROVE  Waits(y)[w] = IF w \in Gone THEN None ELSE Waits(x)[w]
    <3>1. CASE w \in Gone
      BY <1>1, <3>1, WaitsIs
    <3>2. CASE w \notin Gone /\ ~Waiting(y, w)
      BY <1>1, <3>2, WaitsIs
    <3>3. CASE Waiting(y, w)
      <4>1. PICK l \in Priority : In(y, w, l)
        BY <3>3 DEF Waiting
      <4>2. Waits(y)[w] = l /\ Waits(x)[w] = l
        BY <1>1, <1>5, <4>1, WaitsIs
      <4> QED BY <3>3, <4>2
    <3> QED BY <3>1, <3>2, <3>3
  <2>2. Waits(y) \in [Waiter -> Priority \cup {None}]
    BY <1>1, WaitsIs
  <2> QED BY <2>1, <2>2
<1>9. Arrivals(y) = Arrivals(x) \cap (Left \X Left)
  <2>1. \A v, w \in Waiter : CameBefore(y, v, w) <=>
           CameBefore(x, v, w) /\ v \in Left /\ w \in Left
    BY <1>1, <1>7 DEF Served
  <2> QED BY <1>7, <2>1 DEF Arrivals
<1>10. y.permit = [w \in Waiter |-> IF w \in Gone THEN Waits(x)[w] ELSE x.permit[w]]
  <2>1. ASSUME NEW w \in Waiter
        PROVE  y.permit[w] = IF w \in Gone THEN Waits(x)[w] ELSE x.permit[w]
    <3>1. CASE w \in Gone
      <4>1. y.permit[w] \in Priority /\ In(x, w, y.permit[w])
        BY <1>1, <3>1 DEF Served
      <4> QED BY <3>1, <4>1, WaitsIs
    <3>2. CASE w \notin Gone
      BY <1>1, <3>2 DEF Served
    <3> QED BY <3>1, <3>2
  <2> QED BY <1>4, <2>1
<1>11. /\ Cardinality(Promise!Holders(y.permit, Promise!Priority)) <= Limit
       /\ Cardinality(Promise!Holders(y.permit, {"low"})) <= lowLimit
  BY <1>1, PromiseIs
<1>12. \A v \in Gone, w \in Left :
          \/ Promise!Outranks(Waits(x)[v], Waits(x)[w])
          \/ Waits(x)[v] = Waits(x)[w] /\ <<v, w>> \in Arrivals(x)
  <2> SUFFICES ASSUME NEW v \in Gone, NEW w \in Left
               PROVE  \/ Promise!Outranks(Waits(x)[v], Waits(x)[w])
                      \/ Waits(x)[v] = Waits(x)[w] /\ <<v, w>> \in Arrivals(x)
    OBVIOUS
  <2>1. v \in Waiter /\ w \in Waiter /\ Waiting(x, v) /\ ~Waiting(y, v) /\ Waiting(y, w)
    BY <1>7
  <2>2. PICK l \in Priority : In(x, v, l)
    BY <2>1 DEF Waiting
  <2>3. PICK m \in Priority : In(y, w, m)
    BY <2>1 DEF Waiting
  <2>4. outranks(l, m) \/ (l = m /\ CameBefore(x, v, w))
    BY <1>1, <2>1, <2>2, <2>3 DEF Served
  <2>5. Waits(x)[v] = l /\ Waits(x)[w] = m
    BY <1>5, <2>1, <2>2, <2>3, WaitsIs
  <2> QED BY <2>1, <2>4, <2>5 DEF outranks, Promise!Outranks, Arrivals
<1>13. \/ Left = {}
       \/ Cardinality(Promise!Holders(y.permit, Promise!Priority)) = Limit
       \/ Promise!LowIsFull(y.permit) /\ \A w \in Left : Waits(x)[w] = "low"
  <2>1. CASE y.held >= Limit
    BY <1>1, <1>2, <2>1, PromiseIs
  <2>2. CASE nextLane(y) = None
    <3>1. /\ \A m \in Priority : m # "low" => y.lanes[m] = <<>>
          /\ y.lanes["low"] = <<>> \/ ~(y.lowHeld < lowLimit)
      BY <1>4, <2>2, NoNextLane
    <3>2. \A w, m : m \in Priority /\ In(y, w, m) => m = "low" /\ y.lanes["low"] # <<>>
      BY <3>1 DEF In
    <3>3. \A w \in Left : In(x, w, "low") /\ w \in Waiter /\ y.lanes["low"] # <<>>
      BY <1>5, <1>7, <3>2 DEF Waiting
    <3>4. \A w \in Left : Waits(x)[w] = "low"
      BY <3>3, WaitsIs DEF Priority
    <3>5. Left # {} => Promise!LowIsFull(y.permit)
      <4>1. Left # {} => y.lowHeld >= lowLimit
        BY <1>1, <1>2, <3>1, <3>3, PromiseIs
      <4>2. Cardinality(Promise!Holders(y.permit, {"low"})) = y.lowHeld
        BY <1>1, PromiseIs
      <4> QED BY <4>1, <4>2, SameCardinality DEF Promise!LowIsFull
    <3> QED BY <3>4, <3>5
  <2> QED BY <1>1, <2>1, <2>2 DEF Stuck
<1> HIDE DEF Gone
<1>14. /\ Waits(pool)' = [w \in Waiter |-> IF w \in Gone THEN None ELSE Waits(x)[w]]
       /\ Arrivals(pool)' = Arrivals(x) \cap (Left \X Left)
       /\ (pool.permit)' = [w \in Waiter |-> IF w \in Gone THEN Waits(x)[w] ELSE x.permit[w]]
  BY <1>3, <1>8, <1>9, <1>10
<1>15. /\ Promise!Cardinality(Promise!Holders((pool.permit)', Promise!Priority)) <= Limit
       /\ Promise!Cardinality(Promise!Holders((pool.permit)', {"low"})) <= lowLimit
       /\ \/ Left = {}
          \/ Promise!Cardinality(Promise!Holders((pool.permit)', Promise!Priority)) = Limit
          \/ Promise!LowIsFull((pool.permit)') /\ \A w \in Left : Waits(x)[w] = "low"
  BY <1>3, <1>11, <1>13, SameCardinality
<1> QED BY <1>7, <1>12, <1>14, <1>15 DEF Promise!Admits, Left

LEMMA WaitsSame ==
  ASSUME NEW p, NEW a, Good(p), Good(a), NEW w \in Waiter,
         \A m \in Priority : In(a, w, m) <=> In(p, w, m)
  PROVE  Waits(a)[w] = Waits(p)[w]
<1>1. Waits(p)[w] \in Priority \cup {None} /\ Waits(a)[w] \in Priority \cup {None}
  BY WaitsIs
<1>2. CASE Waits(p)[w] \in Priority
  BY <1>2, WaitsIs
<1>3. CASE Waits(a)[w] \in Priority
  BY <1>3, WaitsIs
<1> QED BY <1>1, <1>2, <1>3

(* Of the waiters S: who waits or holds a permit in b did in a, and who held*)
(* one holds one.                                                           *)
Keeps(a, b, S) ==
    \A w \in S : /\ Waiting(b, w) \/ b.permit[w] # None => Waiting(a, w) \/ a.permit[w] # None
                 /\ a.permit[w] # None => b.permit[w] # None

LEMMA DrainKeeps ==
  ASSUME NEW x, Good(x)
  PROVE  Keeps(x, drain(x), Waiter)
<1> DEFINE y == drain(x)
<1>1. Good(y) /\ Served(x, y)
  BY DrainServes
<1> HIDE DEF y
<1> SUFFICES ASSUME NEW w \in Waiter
             PROVE  /\ Waiting(y, w) \/ y.permit[w] # None => Waiting(x, w) \/ x.permit[w] # None
                    /\ x.permit[w] # None => y.permit[w] # None
  BY DEF Keeps, y
<1>2. Waiting(x, w) => x.permit[w] = None
  BY DEF Good, OnePlace, Waiting, In
<1>3. Waiting(y, w) => Waiting(x, w)
  BY <1>1 DEF Served, Waiting
<1>4. ~Waiting(x, w) => y.permit[w] = x.permit[w]
  BY <1>1 DEF Served
<1> QED BY <1>2, <1>3, <1>4

-----------------------------------------------------------------------------
(* Between the calls the pool is good, and nobody waits who may go.         *)
SemInv == Good(pool) /\ Stuck(pool) /\ priority \in [Ticket -> Priority]

LEMMA AfterDrain ==
  ASSUME NEW x, Good(x), pool' = drain(x)
  PROVE  Good(pool)' /\ Stuck(pool)'
<1> DEFINE y == drain(x)
<1>1. Good(y) /\ Stuck(y) /\ pool' = y
  BY DrainServes
<1> HIDE DEF y
<1> QED BY <1>1 DEF Good, Pool, InOrder, OnePlace, Counted, Out, Stuck, nextLane

LEMMA LaneTyped ==
  ASSUME SemInv, NEW ticket \in Ticket \cup {NoTicket}
  PROVE  LaneOf(ticket) \in Priority
  BY DEF SemInv, LaneOf, Priority

(* The promise's Ask.                                                       *)
LEMMA Asks ==
  ASSUME SemInv, NEW w \in Waiter, NEW ticket \in Ticket \cup {NoTicket}, acquire(w, ticket)
  PROVE  /\ SemInv'
         /\ Promise!Ask(w, LaneOf(ticket))
         /\ Keeps(pool, pool', Waiter \ {w})
<1> DEFINE lane == LaneOf(ticket)
           x == Queued(pool, w, ticket, lane)
<1>1. Good(pool) /\ priority \in [Ticket -> Priority] /\ lane \in Priority
  BY LaneTyped DEF SemInv
<1>2. /\ ~Waiting(pool, w) /\ pool.permit[w] = None
      /\ pool' = drain(x) /\ priority' = priority
  BY DEF acquire
<1> HIDE DEF x, lane
<1>3. /\ Good(x) /\ x.permit = pool.permit
      /\ \A v, m : m \in Priority =>
           (In(x, v, m) <=> In(pool, v, m) \/ (v = w /\ m = lane))
      /\ \A u, v : CameBefore(x, u, v) <=>
                      CameBefore(pool, u, v) \/ (Waiting(pool, u) /\ v = w)
  BY <1>1, <1>2, QueuedIs DEF x
<1>4. SemInv'
  BY <1>1, <1>2, <1>3, AfterDrain DEF SemInv
<1>5. Waits(x) = [Waits(pool) EXCEPT ![w] = lane]
  <2>1. ASSUME NEW v \in Waiter
        PROVE  Waits(x)[v] = IF v = w THEN lane ELSE Waits(pool)[v]
    <3>1. CASE v = w
      <4>1. In(x, v, lane)
        BY <1>1, <1>3, <3>1
      <4> QED BY <1>1, <1>3, <3>1, <4>1, WaitsIs
    <3>2. CASE v # w
      <4>1. \A m \in Priority : In(x, v, m) <=> In(pool, v, m)
        BY <1>3, <3>2
      <4> QED BY <1>1, <1>3, <3>2, <4>1, WaitsSame
    <3> QED BY <3>1, <3>2
  <2>2. Waits(x) \in [Waiter -> Priority \cup {None}] /\ Waits(pool) \in [Waiter -> Priority \cup {None}]
    BY <1>1, <1>3, WaitsIs
  <2> QED BY <2>1, <2>2
<1>6. Arrivals(x) = Arrivals(pool) \cup (Promise!Within(Waits(pool)) \X {w})
  <2>1. Promise!Within(Waits(pool)) = {v \in Waiter : Waiting(pool, v)}
    BY <1>1, PromiseIs
  <2>2. \A u, v \in Waiter : <<u, v>> \in Arrivals(x) <=>
           <<u, v>> \in Arrivals(pool) \/ (Waiting(pool, u) /\ v = w)
    BY <1>3 DEF Arrivals
  <2>3. Arrivals(x) \subseteq Waiter \X Waiter /\ Arrivals(pool) \subseteq Waiter \X Waiter
    BY DEF Arrivals
  <2> QED BY <2>1, <2>2, <2>3
<1>7. Waits(pool)[w] = None
  BY <1>1, <1>2, WaitsIs
<1>8. Promise!Admits(Waits(x), Arrivals(x), x.permit)
  BY <1>2, <1>3, AdmitsFrom
<1>9. Promise!Admits([Waits(pool) EXCEPT ![w] = lane],
                     Arrivals(pool) \cup (Promise!Within(Waits(pool)) \X {w}), pool.permit)
  BY <1>3, <1>5, <1>6, <1>8
<1>10. Keeps(pool, pool', Waiter \ {w})
  <2>1. \A v \in Waiter \ {w} : Waiting(x, v) => Waiting(pool, v)
    BY <1>3 DEF Waiting
  <2> QED BY <1>2, <1>3, <2>1, DrainKeeps DEF Keeps
<1> QED BY <1>2, <1>4, <1>7, <1>9, <1>10 DEF Promise!Ask, lane

(* The promise's GiveUp.                                                    *)
LEMMA GivesUp ==
  ASSUME SemInv, NEW w \in Waiter, onAbort(w)
  PROVE  /\ SemInv'
         /\ Promise!GiveUp(w)
         /\ Keeps(pool, pool', Waiter)
         /\ ~Waiting(pool', w) /\ pool'.permit[w] = None
<1> DEFINE a == Aborted(pool, w)
<1>1. Good(pool) /\ Stuck(pool) /\ priority \in [Ticket -> Priority]
  BY DEF SemInv
<1>2. Waiting(pool, w) /\ pool' = a /\ priority' = priority
  BY DEF onAbort
<1>0. a = Aborted(pool, w)
  OBVIOUS
<1> HIDE DEF a
<1>3. /\ Good(a) /\ a.permit = pool.permit /\ a.held = pool.held /\ a.lowHeld = pool.lowHeld
      /\ \A v, m : m \in Priority => (In(a, v, m) <=> In(pool, v, m) /\ v # w)
      /\ \A u, v : CameBefore(a, u, v) <=> CameBefore(pool, u, v) /\ u # w /\ v # w
  BY <1>0, <1>1, AbortedIs
<1>4. \A m \in Priority : pool.lanes[m] = <<>> => a.lanes[m] = <<>>
  <2> SUFFICES ASSUME NEW m \in Priority, pool.lanes[m] = <<>>, a.lanes[m] # <<>>
               PROVE  FALSE
    OBVIOUS
  <2>1. a.lanes[m] \in Seq(Record)
    BY <1>3 DEF Good, Pool
  <2>2. 1 \in DOMAIN a.lanes[m]
    BY <2>1, EmptySeq
  <2>3. In(a, a.lanes[m][1].who, m)
    BY <2>2 DEF In
  <2>4. In(pool, a.lanes[m][1].who, m)
    BY <1>3, <2>3
  <2> QED BY <2>4 DEF In
<1>5. Stuck(a)
  BY <1>1, <1>3, <1>4, NoneApart DEF Stuck, nextLane, Priority
<1>6. SemInv'
  <2>1. Good(pool)' /\ Stuck(pool)'
    BY <1>2, <1>3, <1>5 DEF Good, Pool, InOrder, OnePlace, Counted, Out, Stuck, nextLane
  <2> QED BY <1>1, <1>2, <2>1 DEF SemInv
<1>7. Waits(a) = [Waits(pool) EXCEPT ![w] = None]
  <2>1. ASSUME NEW v \in Waiter
        PROVE  Waits(a)[v] = IF v = w THEN None ELSE Waits(pool)[v]
    <3>1. CASE v = w
      <4>1. ~Waiting(a, v)
        BY <1>3, <3>1 DEF Waiting
      <4> QED BY <1>3, <3>1, <4>1, WaitsIs
    <3>2. CASE v # w
      <4>1. \A m \in Priority : In(a, v, m) <=> In(pool, v, m)
        BY <1>3, <3>2
      <4> QED BY <1>1, <1>3, <3>2, <4>1, WaitsSame
    <3> QED BY <3>1, <3>2
  <2>2. Waits(a) \in [Waiter -> Priority \cup {None}] /\ Waits(pool) \in [Waiter -> Priority \cup {None}]
    BY <1>1, <1>3, WaitsIs
  <2> QED BY <2>1, <2>2
<1>8. Arrivals(a) = {p \in Arrivals(pool) : p[1] # w /\ p[2] # w}
  BY <1>3 DEF Arrivals
<1>9. Waits(pool)' = Waits(a) /\ Arrivals(pool)' = Arrivals(a)
  BY <1>2 DEF Waits, WaitsIn, Waiting, In, Arrivals, CameBefore
<1>10. Waits(pool)[w] # None
  BY <1>1, <1>2, WaitsIs
<1>11. Promise!GiveUp(w)
  BY <1>2, <1>3, <1>7, <1>8, <1>9, <1>10 DEF Promise!GiveUp
<1>12. \A v : Waiting(a, v) <=> Waiting(pool, v) /\ v # w
  BY <1>3 DEF Waiting
<1>13. pool.permit[w] = None
  BY <1>1, <1>2 DEF Good, OnePlace, Waiting, In
<1> QED BY <1>2, <1>3, <1>6, <1>11, <1>12, <1>13 DEF Keeps

(* The promise's GiveBack, or nothing.                                      *)
LEMMA GivesBack ==
  ASSUME SemInv, NEW w \in Waiter, release(w)
  PROVE  /\ SemInv'
         /\ IF pool.permit[w] = None THEN UNCHANGED semVars ELSE Promise!GiveBack(w)
         /\ pool.permit[w] # None =>
               /\ Keeps(pool, pool', Waiter \ {w})
               /\ ~Waiting(pool', w) /\ pool'.permit[w] = None
<1>1. Good(pool) /\ Stuck(pool) /\ priority \in [Ticket -> Priority] /\ priority' = priority
  BY DEF SemInv, release
<1>2. CASE pool.permit[w] = None
  <2>1. UNCHANGED semVars
    BY <1>1, <1>2 DEF release, semVars
  <2>2. SemInv'
    BY <2>1 DEF SemInv, semVars, Good, Pool, InOrder, OnePlace, Counted, Out, Stuck, nextLane
  <2> QED BY <1>2, <2>1, <2>2
<1>3. CASE pool.permit[w] # None
  <2> DEFINE x == Returned(pool, w)
  <2>1. pool' = drain(x)
    BY <1>3 DEF release
  <2>2. /\ Good(x) /\ x.permit = [pool.permit EXCEPT ![w] = None]
        /\ \A v, m : In(x, v, m) <=> In(pool, v, m)
        /\ \A u, v : CameBefore(x, u, v) <=> CameBefore(pool, u, v)
    BY <1>1, <1>3, ReturnedIs
  <2> HIDE DEF x
  <2>3. SemInv'
    BY <1>1, <2>1, <2>2, AfterDrain DEF SemInv
  <2>4. Waits(x) = Waits(pool)
    <3>1. \A v \in Waiter : Waits(x)[v] = Waits(pool)[v]
      BY <1>1, <2>2, WaitsSame
    <3>2. Waits(x) \in [Waiter -> Priority \cup {None}] /\ Waits(pool) \in [Waiter -> Priority \cup {None}]
      BY <1>1, <2>2, WaitsIs
    <3> QED BY <3>1, <3>2
  <2>5. Arrivals(x) = Arrivals(pool)
    BY <2>2 DEF Arrivals
  <2>6. Promise!Admits(Waits(x), Arrivals(x), x.permit)
    BY <2>1, <2>2, AdmitsFrom
  <2>7. Promise!Admits(Waits(pool), Arrivals(pool), [pool.permit EXCEPT ![w] = None])
    BY <2>2, <2>4, <2>5, <2>6
  <2>8. \A v : Waiting(x, v) <=> Waiting(pool, v)
    BY <2>2 DEF Waiting
  <2>9. ~Waiting(pool, w) /\ x.permit[w] = None /\ \A v \in Waiter \ {w} : x.permit[v] = pool.permit[v]
    BY <1>1, <1>3, <2>2 DEF Good, Pool, OnePlace, Waiting, In
  <2>10. Keeps(x, pool', Waiter)
    BY <2>1, <2>2, DrainKeeps
  <2>11. /\ Keeps(pool, pool', Waiter \ {w})
         /\ ~Waiting(pool', w) /\ pool'.permit[w] = None
    BY <2>8, <2>9, <2>10 DEF Keeps
  <2> QED BY <1>3, <2>3, <2>7, <2>11 DEF Promise!GiveBack
<1> QED BY <1>2, <1>3

(* The promise's Raise, or nothing where nobody moves.                      *)
LEMMA Raises ==
  ASSUME SemInv, NEW ticket \in Ticket, NEW to \in Priority, promote(ticket, to)
  PROVE  /\ SemInv'
         /\ \/ pool' = pool
            \/ \E S \in SUBSET Promise!Within(Waits(pool)) : Promise!Raise(S, to)
         /\ Keeps(pool, pool', Waiter)
<1> DEFINE from == priority[ticket]
           moves == {i \in DOMAIN pool.lanes[from] : pool.lanes[from][i].ticket = ticket}
           x == Promoted(pool, from, to, moves)
           S == {v \in Waiter : \E i \in moves : pool.lanes[from][i].who = v}
<1>1. Good(pool) /\ Stuck(pool) /\ priority \in [Ticket -> Priority]
  BY DEF SemInv
<1>2. /\ outranks(to, from) /\ priority' = [priority EXCEPT ![ticket] = to]
      /\ moves = {} => pool' = pool
      /\ moves # {} => pool' = drain(x)
  BY DEF promote
<1>3. from \in Priority /\ from # to /\ moves \in SUBSET DOMAIN pool.lanes[from]
  BY <1>1, <1>2 DEF outranks
<1>4. priority' \in [Ticket -> Priority]
  BY <1>1, <1>2
<1>5. CASE moves = {}
  <2>1. pool' = pool
    BY <1>2, <1>5
  <2>2. SemInv'
    BY <1>1, <1>4, <2>1 DEF SemInv, Good, Pool, InOrder, OnePlace, Counted, Out, Stuck, nextLane
  <2>3. Keeps(pool, pool', Waiter)
    BY <2>1 DEF Keeps
  <2> QED BY <2>1, <2>2, <2>3
<1>6. CASE moves # {}
  <2>1. pool' = drain(x)
    BY <1>2, <1>6
  <2>2. x = Promoted(pool, from, to, moves)
    OBVIOUS
  <2> HIDE DEF x, from, moves
  <2>3. /\ Good(x) /\ x.permit = pool.permit
        /\ \A v, m : m \in Priority =>
             (In(x, v, m) <=> IF \E i \in moves : pool.lanes[from][i].who = v
                              THEN m = to ELSE In(pool, v, m))
        /\ \A u, v : CameBefore(x, u, v) <=> CameBefore(pool, u, v)
    BY <1>1, <1>3, <2>2, PromotedIs
  <2>4. \A v \in S : In(pool, v, from) /\ v \in Waiter
    BY <1>3 DEF In
  <2>5. S # {}
    <3>1. PICK i \in moves : TRUE
      BY <1>6
    <3>2. pool \in Pool /\ i \in DOMAIN pool.lanes[from]
      BY <1>1, <1>3 DEF Good
    <3>3. pool.lanes[from][i].who \in Waiter
      BY <1>3, <3>2, PoolTypes
    <3> QED BY <3>1, <3>3
  <2>6. \A v \in Waiter, m \in Priority : In(x, v, m) <=> IF v \in S THEN m = to ELSE In(pool, v, m)
    BY <2>3
  <2> HIDE DEF S
  <2>7. SemInv'
    BY <1>1, <1>4, <2>1, <2>3, AfterDrain DEF SemInv
  <2>8. S \in SUBSET Promise!Within(Waits(pool))
    <3>1. \A v \in S : v \in Waiter /\ Waiting(pool, v)
      BY <1>3, <2>4 DEF Waiting
    <3> QED BY <1>1, <3>1, PromiseIs
  <2>9. \A v \in S : Promise!Outranks(to, Waits(pool)[v])
    <3>1. \A v \in S : Waits(pool)[v] = from
      BY <1>1, <1>3, <2>4, WaitsIs
    <3> QED BY <1>2, <3>1 DEF outranks, Promise!Outranks, from
  <2>10. Waits(x) = [v \in Waiter |-> IF v \in S THEN to ELSE Waits(pool)[v]]
    <3>1. ASSUME NEW v \in Waiter
          PROVE  Waits(x)[v] = IF v \in S THEN to ELSE Waits(pool)[v]
      <4>1. CASE v \in S
        <5>1. In(x, v, to)
          BY <2>6, <4>1
        <5> QED BY <2>3, <4>1, <5>1, WaitsIs
      <4>2. CASE v \notin S
        <5>1. \A m \in Priority : In(x, v, m) <=> In(pool, v, m)
          BY <2>6, <4>2
        <5> QED BY <1>1, <2>3, <4>2, <5>1, WaitsSame
      <4> QED BY <4>1, <4>2
    <3>2. Waits(x) \in [Waiter -> Priority \cup {None}]
      BY <2>3, WaitsIs
    <3> QED BY <3>1, <3>2
  <2>11. Arrivals(x) = Arrivals(pool)
    BY <2>3 DEF Arrivals
  <2>12. Promise!Admits(Waits(x), Arrivals(x), x.permit)
    BY <2>1, <2>3, AdmitsFrom
  <2>13. Promise!Admits([v \in Waiter |-> IF v \in S THEN to ELSE Waits(pool)[v]],
                        Arrivals(pool), pool.permit)
    BY <2>3, <2>10, <2>11, <2>12
  <2>14. Promise!Raise(S, to)
    BY <2>5, <2>9, <2>13 DEF Promise!Raise
  <2>15. Keeps(pool, pool', Waiter)
    <3>1. \A v \in Waiter : Waiting(x, v) => Waiting(pool, v)
      BY <1>3, <2>4, <2>6 DEF Waiting
    <3> QED BY <2>1, <2>3, <3>1, DrainKeeps DEF Keeps
  <2> QED BY <2>7, <2>8, <2>14, <2>15
<1> QED BY <1>5, <1>6

LEMMA EmptyIsGood == Good(EmptyPool) /\ Stuck(EmptyPool)
<1> DEFINE e == EmptyPool
<1>1. /\ e.held = 0 /\ e.lowHeld = 0 /\ e.permit = [w \in Waiter |-> None]
      /\ \A m \in Priority : e.lanes[m] = <<>>
      /\ e.lanes = [m \in Priority |-> <<>>]
      /\ e = [lanes |-> e.lanes, held |-> e.held, lowHeld |-> e.lowHeld, permit |-> e.permit]
  BY DEF EmptyPool
<1> HIDE DEF e
<1>2. e \in Pool
  <2>1. <<>> \in Seq(Record)
    BY EmptySeq
  <2>2. e.lanes \in [Priority -> Seq(Record)] /\ e.permit \in [Waiter -> Priority \cup {None}]
    BY <1>1, <2>1
  <2>3. e.held \in Nat /\ e.lowHeld \in Nat
    BY <1>1
  <2> QED BY <1>1, <2>2, <2>3 DEF Pool
<1>3. InOrder(e) /\ OnePlace(e)
  BY <1>1 DEF InOrder, OnePlace
<1>4. Out(e, Priority) = {} /\ Out(e, {"low"}) = {}
  BY <1>1, NoneApart DEF Out, Priority
<1>5. Counted(e)
  <2>1. IsFiniteSet({}) /\ Cardinality({}) = 0
    BY FS_EmptySet
  <2>2. 0 <= Limit /\ 0 <= lowLimit
    BY SemaphoreAssumptions DEF lowLimit
  <2> QED BY <1>1, <1>4, <2>1, <2>2 DEF Counted
<1>6. Stuck(e)
  BY <1>1 DEF Stuck, nextLane, Priority
<1> QED BY <1>2, <1>3, <1>5, <1>6 DEF Good, e

LEMMA SemStart == SemInit => SemInv /\ Promise!Init
<1> SUFFICES ASSUME SemInit
             PROVE  SemInv /\ Promise!Init
  OBVIOUS
<1>1. pool = EmptyPool /\ priority \in [Ticket -> Priority]
  BY DEF SemInit, Priority
<1>2. SemInv
  BY <1>1, EmptyIsGood DEF SemInv
<1>3. \A w, m : m \in Priority => ~In(pool, w, m)
  BY <1>1 DEF EmptyPool, In
<1>4. Waits(pool) = [w \in Waiter |-> None]
  <2>1. \A w \in Waiter : Waits(pool)[w] = None
    BY <1>1, <1>3, EmptyIsGood, WaitsIs DEF Waiting
  <2> QED BY <1>1, <2>1, EmptyIsGood, WaitsIs
<1>5. Arrivals(pool) = {}
  BY <1>1 DEF Arrivals, CameBefore, EmptyPool
<1>6. pool.permit = [w \in Waiter |-> None]
  BY <1>1 DEF EmptyPool
<1> QED BY <1>2, <1>4, <1>5, <1>6 DEF Promise!Init

LEMMA PoolUnchanged ==
  ASSUME Good(pool) /\ Stuck(pool), pool' = pool
  PROVE  /\ Good(pool)' /\ Stuck(pool)'
         /\ UNCHANGED Promise!vars
<1>1. Good(pool)' /\ Stuck(pool)'
  BY DEF Good, Pool, InOrder, OnePlace, Counted, Out, Stuck, nextLane
<1>2. Waits(pool)' = Waits(pool) /\ Arrivals(pool)' = Arrivals(pool) /\ (pool.permit)' = pool.permit
  BY DEF Waits, WaitsIn, Waiting, In, Arrivals, CameBefore
<1> QED BY <1>1, <1>2 DEF Promise!vars

LEMMA SemStep == SemInv /\ [SemNext]_semVars => SemInv' /\ [Promise!Next]_Promise!vars
<1> SUFFICES ASSUME SemInv, [SemNext]_semVars
             PROVE  SemInv' /\ [Promise!Next]_Promise!vars
  OBVIOUS
<1>1. Good(pool) /\ Stuck(pool) /\ priority \in [Ticket -> Priority]
  BY DEF SemInv
<1>2. CASE \E w \in Waiter : onAbort(w)
  <2>1. PICK w \in Waiter : onAbort(w)
    BY <1>2
  <2> QED BY <2>1, GivesUp DEF Promise!Next
<1>3. CASE \E w \in Waiter : release(w)
  <2>1. PICK w \in Waiter : release(w)
    BY <1>3
  <2>2. CASE pool.permit[w] = None
    <3>1. SemInv' /\ UNCHANGED semVars
      BY <2>1, <2>2, GivesBack
    <3> QED BY <1>1, <3>1, PoolUnchanged DEF semVars
  <2>3. CASE pool.permit[w] # None
    <3>1. SemInv' /\ Promise!GiveBack(w)
      BY <2>1, <2>3, GivesBack
    <3> QED BY <3>1 DEF Promise!Next
  <2> QED BY <2>2, <2>3
<1>4. CASE \E w \in Waiter : \E k \in Ticket \cup {NoTicket} : acquire(w, k)
  <2>1. PICK w \in Waiter, k \in Ticket \cup {NoTicket} : acquire(w, k)
    BY <1>4
  <2>2. SemInv' /\ Promise!Ask(w, LaneOf(k))
    BY <2>1, Asks
  <2>3. LaneOf(k) \in Promise!Priority
    BY LaneTyped DEF Priority, Promise!Priority
  <2> QED BY <2>2, <2>3 DEF Promise!Next
<1>5. CASE \E k \in Ticket : NewTicket(k)
  <2>1. PICK k \in Ticket : NewTicket(k)
    BY <1>5
  <2>2. pool' = pool /\ \E first \in {"high", "low"} : priority' = [priority EXCEPT ![k] = first]
    BY <2>1 DEF NewTicket
  <2>3. priority' \in [Ticket -> Priority]
    BY <1>1, <2>2 DEF Priority
  <2>4. Good(pool)' /\ Stuck(pool)' /\ UNCHANGED Promise!vars
    BY <1>1, <2>2, PoolUnchanged
  <2> QED BY <2>3, <2>4 DEF SemInv
<1>6. CASE \E k \in Ticket : \E to \in Priority : promote(k, to)
  <2>1. PICK k \in Ticket, to \in Priority : promote(k, to)
    BY <1>6
  <2>2. /\ SemInv'
        /\ \/ pool' = pool
           \/ \E S \in SUBSET Promise!Within(Waits(pool)) : Promise!Raise(S, to)
    BY <2>1, Raises
  <2>3. CASE pool' = pool
    BY <1>1, <2>2, <2>3, PoolUnchanged
  <2>4. CASE \E S \in SUBSET Promise!Within(Waits(pool)) : Promise!Raise(S, to)
    <3>1. to \in Promise!Priority
      BY DEF Priority, Promise!Priority
    <3> QED BY <2>2, <2>4, <3>1 DEF Promise!Next
  <2> QED BY <2>2, <2>3, <2>4
<1>7. CASE UNCHANGED semVars
  <2>1. pool' = pool /\ priority' = priority
    BY <1>7 DEF semVars
  <2>2. Good(pool)' /\ Stuck(pool)' /\ UNCHANGED Promise!vars
    BY <1>1, <2>1, PoolUnchanged
  <2> QED BY <1>1, <2>1, <2>2 DEF SemInv
<1> QED BY <1>2, <1>3, <1>4, <1>5, <1>6, <1>7 DEF SemNext

LEMMA AreAccounted == SemInv => PermitsAccounted
<1> SUFFICES ASSUME SemInv
             PROVE  PermitsAccounted
  OBVIOUS
<1>1. pool \in Pool /\ Counted(pool) /\ priority \in [Ticket -> Priority]
  BY DEF SemInv, Good
<1>2. pool.held = Cardinality(Out(pool, Priority)) /\ pool.lowHeld = Cardinality(Out(pool, {"low"}))
  BY <1>1 DEF Counted
<1>3. \A m \in Priority : \A i \in DOMAIN pool.lanes[m] : pool.lanes[m][i] \in Record
  BY <1>1, PoolTypes
<1>4. pool.permit \in [Waiter -> Priority \cup {None}]
  BY <1>1 DEF Pool
<1> QED BY <1>1, <1>2, <1>3, <1>4 DEF PermitsAccounted, Out, Record

(* In every state no permit is lost and none is given back twice: held and  *)
(* lowHeld count the permits that are out.                                  *)
THEOREM PermitsCorrect == SemSpec => []PermitsAccounted
<1>1. SemInit => SemInv
  BY SemStart
<1>2. SemInv /\ [SemNext]_semVars => SemInv'
  BY SemStep
<1>3. SemInv => PermitsAccounted
  BY AreAccounted
<1> QED BY <1>1, <1>2, <1>3, PTL DEF SemSpec

(* The three lanes, with their filters, merges and the loop that drains     *)
(* them, implement the one queue of PermitPool.                             *)
THEOREM PromiseKept == SemSpec => KeepsItsPromise
<1>1. SemInit => SemInv /\ Promise!Init
  BY SemStart
<1>2. SemInv /\ [SemNext]_semVars => SemInv' /\ [Promise!Next]_Promise!vars
  BY SemStep
<1> QED BY <1>1, <1>2, PTL DEF SemSpec, KeepsItsPromise, Promise!Spec

-----------------------------------------------------------------------------
(***************************************************************************)
(* The gate.                                                                *)
(***************************************************************************)
Reading == Nat \cup {None}

BudgetState == [errorRemain : Reading, errorResetAt : Reading,
                rateRemain : Reading, rateResetAt : Reading,
                circuitUntil : Reading, circuitShutAt : Reading, nextAdmissionAt : Nat]

CallPhase == {"idle", "sleeping", "queued", "sent", "retrying", "done"}

(* A call when the clock shows t.                                           *)
CallState(t) == [phase : CallPhase, until : 0..(t + MaxWait), spacing : 0..MaxSpacing,
                 startedAt : 0..t, retry : BOOLEAN, aborted : BOOLEAN]

(* Who waits or holds a permit is between the two, and who is out holds one.*)
Held ==
    \A c \in Waiter :
        /\ pool.permit[c] # None \/ Waiting(pool, c) => call[c].phase \in {"queued", "sent"}
        /\ call[c].phase = "sent" => pool.permit[c] # None

(* The next slot is behind every slot that is taken, and the slots are apart. *)
Slots ==
    /\ \A c \in Waiter : call[c].spacing > 0 =>
          call[c].until + call[c].spacing <= budget.nextAdmissionAt
    /\ BrakeSpreads

GateInv ==
    /\ now \in Nat /\ budget \in BudgetState /\ call \in [Waiter -> CallState(now)]
    /\ SemInv /\ Held /\ Slots

LEMMA Ticks == /\ {LowWater, MaxWait, MaxSpacing, MaxCircuit, ErrorWindow, RateWindow, MaxTime} \subseteq Nat
               /\ None \notin Nat
               /\ TicketOf \in [Waiter -> Ticket \cup {NoTicket}]
               /\ InitialLane \in [Ticket -> {"high", "low"}]
  BY EsiGateAssumptions

(* The spacing the brake asks for, and the slot a call would get.           *)
LEMMA BrakeTyped ==
  ASSUME now \in Nat, NEW remain \in Reading, NEW resetAt \in Reading
  PROVE  brakeMs(remain, resetAt) \in 0..MaxSpacing
<1>1. MaxSpacing \in Nat /\ LowWater \in Nat /\ None \notin Nat
  BY Ticks
<1>2. CASE remain = None \/ resetAt = None
  BY <1>1, <1>2 DEF brakeMs
<1>3. CASE /\ remain # None /\ resetAt # None
           /\ (resetAt <= now \/ remain > LowWater)
  BY <1>1, <1>3 DEF brakeMs
<1>4. CASE /\ remain # None /\ resetAt # None
           /\ ~(resetAt <= now \/ remain > LowWater)
  <2> DEFINE a == resetAt - now
             b == Larger(remain, 1)
  <2>1. remain \in Nat /\ resetAt \in Nat
    BY <1>4 DEF Reading
  <2>2. a \in Nat /\ b \in Nat \ {0}
    BY <1>4, <2>1 DEF Larger
  <2>3. brakeMs(remain, resetAt) = Smaller(a \div b, MaxSpacing)
    BY <1>4 DEF brakeMs
  <2> HIDE DEF a, b
  <2>4. a \div b \in Nat
    BY <2>2
  <2> QED BY <1>1, <2>3, <2>4 DEF Smaller
<1> QED BY <1>2, <1>3, <1>4

LEMMA PlanTyped ==
  ASSUME now \in Nat, budget \in BudgetState
  PROVE  /\ spacingMs \in 0..MaxSpacing
         /\ Earliest \in Nat /\ Earliest >= now /\ Earliest >= budget.nextAdmissionAt
<1>1. /\ budget.errorRemain \in Reading /\ budget.errorResetAt \in Reading
      /\ budget.rateRemain \in Reading /\ budget.rateResetAt \in Reading
      /\ budget.circuitUntil \in Reading /\ budget.nextAdmissionAt \in Nat
  BY DEF BudgetState
<1>2. MaxSpacing \in Nat
  BY Ticks
<1>3. spacingMs \in 0..MaxSpacing
  <2>1. /\ brakeMs(budget.errorRemain, budget.errorResetAt) \in 0..MaxSpacing
        /\ brakeMs(budget.rateRemain, budget.rateResetAt) \in 0..MaxSpacing
    BY <1>1, BrakeTyped
  <2> QED BY <1>2, <2>1 DEF spacingMs, Larger
<1>4. Earliest \in Nat /\ Earliest >= now /\ Earliest >= budget.nextAdmissionAt
  <2> DEFINE shut == IF budget.circuitUntil = None THEN 0 ELSE budget.circuitUntil
  <2>1. shut \in Nat
    BY <1>1 DEF Reading
  <2>2. Earliest = Larger(now, Larger(shut, budget.nextAdmissionAt))
    BY DEF Earliest
  <2> HIDE DEF shut
  <2> QED BY <1>1, <2>1, <2>2 DEF Larger
<1> QED BY <1>3, <1>4

LEMMA ReservedTyped ==
  ASSUME now \in Nat, budget \in BudgetState
  PROVE  /\ Reserved \in BudgetState
         /\ Reserved.circuitShutAt = budget.circuitShutAt
         /\ Reserved.nextAdmissionAt >= budget.nextAdmissionAt
         /\ spacingMs > 0 => Reserved.nextAdmissionAt = Earliest + spacingMs
<1>1. /\ spacingMs \in Nat
      /\ Earliest \in Nat /\ Earliest >= budget.nextAdmissionAt /\ budget.nextAdmissionAt \in Nat
  BY PlanTyped, Ticks DEF BudgetState
<1>2. CASE spacingMs = 0
  BY <1>1, <1>2 DEF Reserved
<1>3. CASE spacingMs # 0
  <2>1. Reserved = [budget EXCEPT !.nextAdmissionAt = Earliest + spacingMs]
    BY <1>3 DEF Reserved
  <2> HIDE DEF Reserved
  <2>2. Reserved \in BudgetState /\ Reserved.nextAdmissionAt = Earliest + spacingMs
        /\ Reserved.circuitShutAt = budget.circuitShutAt
    BY <1>1, <2>1 DEF BudgetState
  <2> QED BY <1>1, <2>2
<1> QED BY <1>2, <1>3

(* What an answer leaves of the budget; only a success asked for since the  *)
(* circuit was shut opens it.                                               *)
LEMMA ObservedTyped ==
  ASSUME now \in Nat, budget \in BudgetState, NEW r \in Response, NEW t
  PROVE  /\ observeBudget(r, t) \in BudgetState
         /\ observeBudget(r, t).nextAdmissionAt = budget.nextAdmissionAt
         /\ budget.circuitShutAt # None /\ observeBudget(r, t).circuitShutAt = None =>
              t >= budget.circuitShutAt
<1> DEFINE next == [budget EXCEPT !.errorRemain = Or(r.errorRemain, @),
                                  !.errorResetAt = Or(resetInstant(r.errorReset), @),
                                  !.rateRemain = Or(r.rateRemain, @),
                                  !.rateResetAt = Or(resetInstant(r.rateReset), @)]
           until1 == Or(resetInstant(r.errorReset), now + ErrorWindow)
           until2 == Or(resetInstant(r.retryAfter), Or(resetInstant(r.rateReset), now + RateWindow))
           after == observeBudget(r, t)
<1>1. /\ r.status \in Nat /\ r.errorRemain \in Reading /\ r.errorReset \in Reading
      /\ r.rateRemain \in Reading /\ r.rateReset \in Reading /\ r.retryAfter \in Reading
      /\ MaxCircuit \in Nat /\ ErrorWindow \in Nat /\ RateWindow \in Nat /\ None \notin Nat
  BY EsiGateAssumptions DEF Reading
<1>2. \A n \in Reading : resetInstant(n) \in Reading
  BY <1>1 DEF resetInstant, Smaller, Reading
<1>3. \A m, n \in Reading : Or(m, n) \in Reading
  BY DEF Or
<1>4. now \in Reading /\ now + ErrorWindow \in Reading /\ now + RateWindow \in Reading /\ None \in Reading
  BY <1>1 DEF Reading
<1>5. until1 \in Reading /\ until2 \in Reading
  BY <1>1, <1>2, <1>3, <1>4
<1>6. /\ next \in BudgetState
      /\ next.circuitShutAt = budget.circuitShutAt
      /\ next.nextAdmissionAt = budget.nextAdmissionAt
  BY <1>1, <1>2, <1>3 DEF BudgetState
<1>7. \A u, s \in Reading : /\ Circuit(next, u, s) \in BudgetState
                            /\ Circuit(next, u, s).circuitShutAt = s
                            /\ Circuit(next, u, s).nextAdmissionAt = budget.nextAdmissionAt
  <2> HIDE DEF next
  <2> QED BY <1>6 DEF Circuit, BudgetState
<1>8. \/ after = Circuit(next, until1, now)
      \/ after = Circuit(next, until2, now)
      \/ startedAfterTheShut(t) /\ after = Circuit(next, None, None)
      \/ after = next
  BY DEF observeBudget
<1> HIDE DEF next, until1, until2, after
<1>9. after \in BudgetState /\ after.nextAdmissionAt = budget.nextAdmissionAt
  BY <1>4, <1>5, <1>6, <1>7, <1>8
<1>10. ASSUME budget.circuitShutAt # None, after.circuitShutAt = None
       PROVE  t >= budget.circuitShutAt
  <2>1. now # None
    BY <1>1
  <2>2. startedAfterTheShut(t)
    BY <1>4, <1>5, <1>6, <1>7, <1>8, <1>10, <2>1
  <2> QED BY <1>10, <2>2 DEF startedAfterTheShut
<1> QED BY <1>9, <1>10 DEF after

LEMMA SemStays ==
  ASSUME SemInv, UNCHANGED <<pool, priority>>
  PROVE  SemInv' /\ \A S : Keeps(pool, pool', S)
<1>1. Good(pool)' /\ Stuck(pool)'
  BY PoolUnchanged DEF SemInv
<1> QED BY <1>1 DEF SemInv, Keeps

(***************************************************************************)
(* A step that leaves c in the state r and the other calls alone keeps the  *)
(* invariant, provided r fits c's place in the pool and its slot is the one *)
(* it had or a new one behind the others.                                   *)
(***************************************************************************)
LEMMA CallMoves ==
  ASSUME GateInv, NEW c \in Waiter, NEW r \in CallState(now),
         call' = [call EXCEPT ![c] = r], now' = now,
         budget' \in BudgetState, budget'.nextAdmissionAt >= budget.nextAdmissionAt,
         SemInv', Keeps(pool, pool', Waiter \ {c}),
         pool'.permit[c] # None \/ Waiting(pool', c) => r.phase \in {"queued", "sent"},
         r.phase = "sent" => pool'.permit[c] # None,
         \/ r.spacing = 0
         \/ r.spacing = call[c].spacing /\ r.until = call[c].until
         \/ r.until >= budget.nextAdmissionAt /\ r.until + r.spacing <= budget'.nextAdmissionAt
  PROVE  GateInv'
<1>1. /\ now \in Nat /\ budget \in BudgetState /\ call \in [Waiter -> CallState(now)]
      /\ Held /\ Slots
  BY DEF GateInv
<1>2. \A d \in Waiter : call'[d] = IF d = c THEN r ELSE call[d]
  BY <1>1
<1>3. call' \in [Waiter -> CallState(now)]
  BY <1>1
<1>4. (call \in [Waiter -> CallState(now)])'
  BY <1>3 DEF CallState
<1>5. Held'
  <2>1. ASSUME NEW d \in Waiter
        PROVE  /\ pool'.permit[d] # None \/ Waiting(pool', d) => call'[d].phase \in {"queued", "sent"}
               /\ call'[d].phase = "sent" => pool'.permit[d] # None
    <3>1. CASE d = c
      BY <1>2, <3>1
    <3>2. CASE d # c
      BY <1>1, <1>2, <3>2 DEF Held, Keeps
    <3> QED BY <3>1, <3>2
  <2>2. \A d : Waiting(pool, d)' <=> Waiting(pool', d)
    BY DEF Waiting, In
  <2> QED BY <2>1, <2>2 DEF Held
<1>6. Slots'
  <2>1. /\ budget.nextAdmissionAt \in Nat /\ budget'.nextAdmissionAt \in Nat
    BY <1>1 DEF BudgetState
  <2>2. \A d \in Waiter : /\ call[d].spacing \in Nat /\ call[d].until \in Nat
                          /\ call'[d].spacing \in Nat /\ call'[d].until \in Nat
    <3>1. MaxWait \in Nat /\ MaxSpacing \in Nat
      BY Ticks
    <3>2. \A x \in CallState(now) : x.spacing \in Nat /\ x.until \in Nat
      BY <1>1, <3>1 DEF CallState
    <3> QED BY <1>1, <1>3, <3>2
  <2>3. ASSUME NEW d \in Waiter, call'[d].spacing > 0
        PROVE  call'[d].until + call'[d].spacing <= budget'.nextAdmissionAt
    <3>1. call[d].spacing > 0 => call[d].until + call[d].spacing <= budget'.nextAdmissionAt
      BY <1>1, <2>1, <2>2 DEF Slots
    <3>2. CASE d # c
      BY <1>2, <2>3, <3>1, <3>2
    <3>3. CASE d = c
      BY <1>2, <2>3, <3>1, <3>3
    <3> QED BY <3>2, <3>3
  <2>4. ASSUME NEW d \in Waiter, NEW e \in Waiter, d # e,
               call'[d].spacing > 0, call'[e].spacing > 0, call'[d].until <= call'[e].until
        PROVE  call'[e].until >= call'[d].until + call'[d].spacing
    <3> DEFINE Same(x) == call'[x].spacing = call[x].spacing /\ call'[x].until = call[x].until
               New(x) == /\ call'[x].until >= budget.nextAdmissionAt
                         /\ \A y \in Waiter \ {x} : Same(y)
    <3>1. \/ Same(d) /\ Same(e)
          \/ New(d) \/ New(e)
      BY <1>2, <2>4
    <3>2. CASE Same(d) /\ Same(e)
      BY <1>1, <2>4, <3>2 DEF Slots, BrakeSpreads
    <3>3. CASE New(d)
      <4>1. call[e].spacing > 0 /\ call[e].until + call[e].spacing <= budget.nextAdmissionAt
        BY <1>1, <2>4, <3>3 DEF Slots
      <4>2. call'[e].until < call'[d].until
        BY <2>1, <2>2, <2>4, <3>3, <4>1
      <4> QED BY <2>2, <2>4, <4>2
    <3>4. CASE New(e)
      <4>1. call[d].spacing > 0 /\ call[d].until + call[d].spacing <= budget.nextAdmissionAt
        BY <1>1, <2>4, <3>4 DEF Slots
      <4> QED BY <2>1, <2>2, <2>4, <3>4, <4>1
    <3> QED BY <3>1, <3>2, <3>3, <3>4
  <2> QED BY <2>3, <2>4 DEF Slots, BrakeSpreads
<1> QED BY <1>1, <1>4, <1>5, <1>6 DEF GateInv

(* What Ends, Send and Answer make of a call.                               *)
LEMMA IdleIs ==
  ASSUME NEW t \in Nat
  PROVE  /\ IdleCall \in CallState(t) /\ IdleCall.phase = "idle" /\ IdleCall.spacing = 0
         /\ LET r == [IdleCall EXCEPT !.phase = "done"]
            IN  r \in CallState(t) /\ r.phase = "done" /\ r.spacing = 0
         /\ LET r == [IdleCall EXCEPT !.phase = "retrying", !.retry = TRUE]
            IN  r \in CallState(t) /\ r.phase = "retrying" /\ r.spacing = 0
         /\ \A again \in BOOLEAN :
              LET r == [IdleCall EXCEPT !.phase = "sent", !.retry = again, !.startedAt = t]
              IN  r \in CallState(t) /\ r.phase = "sent" /\ r.spacing = 0
<1>1. 0 \in 0..(t + MaxWait) /\ 0 \in 0..MaxSpacing /\ 0 \in 0..t /\ t \in 0..t
  BY Ticks
<1>2. IdleCall \in CallState(t) /\ IdleCall.phase = "idle" /\ IdleCall.spacing = 0
  BY <1>1 DEF IdleCall, CallState, CallPhase
<1> QED BY <1>1, <1>2 DEF CallState, CallPhase

LEMMA BudgetStays ==
  ASSUME budget \in BudgetState, budget' = budget
  PROVE  budget' \in BudgetState /\ budget'.nextAdmissionAt >= budget.nextAdmissionAt
<1>1. \A n \in Nat : n >= n
  OBVIOUS
<1> QED BY <1>1 DEF BudgetState

(* An ended call keeps nothing.                                             *)
LEMMA CallEnds ==
  ASSUME GateInv, NEW c \in Waiter, Ends(c), now' = now,
         budget' \in BudgetState, budget'.nextAdmissionAt >= budget.nextAdmissionAt,
         SemInv', Keeps(pool, pool', Waiter \ {c}),
         pool'.permit[c] = None, ~Waiting(pool', c)
  PROVE  GateInv'
<1> DEFINE r == [IdleCall EXCEPT !.phase = "done"]
<1>1. call' = [call EXCEPT ![c] = r]
  BY DEF Ends
<1>2. r \in CallState(now) /\ r.phase = "done" /\ r.spacing = 0
  BY IdleIs DEF GateInv
<1> HIDE DEF r
<1> QED BY <1>1, <1>2, CallMoves

(* What the invariant says of one call.                                     *)
LEMMA OneCall ==
  ASSUME GateInv, NEW c \in Waiter
  PROVE  /\ now \in Nat /\ budget \in BudgetState /\ budget.nextAdmissionAt \in Nat
         /\ call \in [Waiter -> CallState(now)] /\ call[c] \in CallState(now)
         /\ SemInv
         /\ call[c].phase \notin {"queued", "sent"} => pool.permit[c] = None /\ ~Waiting(pool, c)
         /\ call[c].phase = "sent" => pool.permit[c] # None
         /\ TicketOf[c] \in Ticket \cup {NoTicket}
  BY Ticks DEF GateInv, Held, BudgetState

LEMMA TickKeeps ==
  ASSUME GateInv, Tick
  PROVE  GateInv'
<1>1. /\ now \in Nat /\ budget \in BudgetState /\ call \in [Waiter -> CallState(now)]
      /\ SemInv /\ Held /\ Slots
      /\ now' = now + 1 /\ pool' = pool /\ priority' = priority /\ budget' = budget /\ call' = call
  BY DEF GateInv, Tick
<1>2. CallState(now) \subseteq CallState(now + 1)
  <2>1. MaxWait \in Nat
    BY Ticks
  <2>2. 0..now \subseteq 0..(now + 1) /\ 0..(now + MaxWait) \subseteq 0..(now + 1 + MaxWait)
    BY <1>1, <2>1
  <2> QED BY <2>2 DEF CallState
<1>3. (call \in [Waiter -> CallState(now)])'
  <2>1. call' \in [Waiter -> CallState(now + 1)]
    BY <1>1, <1>2
  <2> QED BY <1>1, <2>1 DEF CallState
<1>4. SemInv'
  BY <1>1, SemStays
<1>5. Held' /\ Slots'
  BY <1>1 DEF Held, Slots, BrakeSpreads, Waiting, In
<1> QED BY <1>1, <1>3, <1>4, <1>5 DEF GateInv

LEMMA PlanKeeps ==
  ASSUME GateInv, NEW c \in Waiter, Plan(c)
  PROVE  GateInv'
<1>1. /\ now \in Nat /\ budget \in BudgetState /\ budget.nextAdmissionAt \in Nat
      /\ call \in [Waiter -> CallState(now)] /\ call[c] \in CallState(now)
      /\ SemInv /\ pool.permit[c] = None /\ ~Waiting(pool, c)
      /\ TicketOf[c] \in Ticket \cup {NoTicket} /\ now' = now
  BY OneCall DEF Plan
<1>2. CASE TooLong /\ Ends(c) /\ UNCHANGED <<pool, priority, budget>>
  BY <1>1, <1>2, SemStays, BudgetStays, CallEnds
<1>3. CASE /\ ~TooLong
           /\ budget' = Reserved
           /\ call' = [call EXCEPT ![c].phase = IF Earliest > now THEN "sleeping" ELSE "queued",
                                   ![c].until = Earliest, ![c].spacing = spacingMs]
           /\ IF Earliest > now THEN UNCHANGED <<pool, priority>> ELSE acquire(c, TicketOf[c])
  <2> DEFINE phase == IF Earliest > now THEN "sleeping" ELSE "queued"
             r == [call[c] EXCEPT !.phase = phase, !.until = Earliest, !.spacing = spacingMs]
  <2>1. /\ spacingMs \in 0..MaxSpacing /\ MaxSpacing \in Nat /\ MaxWait \in Nat
        /\ Earliest \in Nat /\ Earliest >= now /\ Earliest >= budget.nextAdmissionAt
    BY <1>1, PlanTyped, Ticks
  <2>2. Earliest \in 0..(now + MaxWait)
    BY <1>1, <1>3, <2>1 DEF TooLong
  <2>3. call' = [call EXCEPT ![c] = r]
    BY <1>1, <1>3
  <2>4. phase \in {"sleeping", "queued"} /\ phase \in CallPhase
    BY DEF CallPhase
  <2> HIDE DEF phase
  <2>5. r \in CallState(now) /\ r.phase = phase /\ r.until = Earliest /\ r.spacing = spacingMs
    BY <1>1, <2>1, <2>2, <2>4 DEF CallState
  <2>6. /\ budget' \in BudgetState /\ budget'.nextAdmissionAt >= budget.nextAdmissionAt
        /\ spacingMs > 0 => budget'.nextAdmissionAt = Earliest + spacingMs
    BY <1>1, <1>3, ReservedTyped
  <2>7. /\ SemInv' /\ Keeps(pool, pool', Waiter \ {c})
        /\ pool'.permit[c] # None \/ Waiting(pool', c) => phase \in {"queued", "sent"}
    <3>1. CASE Earliest > now
      BY <1>1, <1>3, <3>1, SemStays
    <3>2. CASE ~(Earliest > now)
      BY <1>1, <1>3, <3>2, Asks DEF phase
    <3> QED BY <3>1, <3>2
  <2>8. \/ r.spacing = 0
        \/ r.until >= budget.nextAdmissionAt /\ r.until + r.spacing <= budget'.nextAdmissionAt
    <3>1. Earliest + spacingMs <= Earliest + spacingMs
      BY <2>1
    <3> QED BY <2>1, <2>5, <2>6, <3>1
  <2> HIDE DEF r
  <2> QED BY <1>1, <2>3, <2>4, <2>5, <2>6, <2>7, <2>8, CallMoves
<1> QED BY <1>2, <1>3 DEF Plan

LEMMA PlanAbortedKeeps ==
  ASSUME GateInv, NEW c \in Waiter, PlanAborted(c)
  PROVE  GateInv'
<1>1. /\ now \in Nat /\ budget \in BudgetState
      /\ SemInv /\ pool.permit[c] = None /\ ~Waiting(pool, c)
      /\ now' = now /\ budget' = Reserved /\ Ends(c) /\ UNCHANGED <<pool, priority>>
  BY OneCall DEF PlanAborted
<1>2. budget' \in BudgetState /\ budget'.nextAdmissionAt >= budget.nextAdmissionAt
  BY <1>1, ReservedTyped
<1> QED BY <1>1, <1>2, SemStays, BudgetStays, CallEnds

LEMMA WakeKeeps ==
  ASSUME GateInv, NEW c \in Waiter, Wake(c)
  PROVE  GateInv'
<1> DEFINE r == [call[c] EXCEPT !.phase = "queued"]
<1>1. /\ now \in Nat /\ budget \in BudgetState /\ budget.nextAdmissionAt \in Nat
      /\ call \in [Waiter -> CallState(now)] /\ call[c] \in CallState(now) /\ SemInv
      /\ TicketOf[c] \in Ticket \cup {NoTicket}
  BY OneCall
<1>2. /\ acquire(c, TicketOf[c]) /\ now' = now /\ budget' = budget
      /\ call' = [call EXCEPT ![c] = r]
  BY <1>1 DEF Wake, Goes
<1>3. SemInv' /\ Keeps(pool, pool', Waiter \ {c})
  BY <1>1, <1>2, Asks
<1>4. /\ r \in CallState(now) /\ r.phase = "queued"
      /\ r.spacing = call[c].spacing /\ r.until = call[c].until
  BY <1>1 DEF CallState, CallPhase
<1> HIDE DEF r
<1> QED BY <1>1, <1>2, <1>3, <1>4, BudgetStays, CallMoves

(* However a call that is out ends, its permit is back.                     *)
LEMMA ReleaseEnds ==
  ASSUME GateInv, NEW c \in Waiter, release(c), pool.permit[c] # None
  PROVE  /\ SemInv' /\ Keeps(pool, pool', Waiter \ {c})
         /\ pool'.permit[c] = None /\ ~Waiting(pool', c)
  BY GivesBack DEF GateInv

LEMMA SendKeeps ==
  ASSUME GateInv, NEW c \in Waiter, Send(c)
  PROVE  GateInv'
<1>1. /\ now \in Nat /\ budget \in BudgetState /\ budget.nextAdmissionAt \in Nat
      /\ call \in [Waiter -> CallState(now)] /\ call[c] \in CallState(now) /\ SemInv
      /\ pool.permit[c] # None /\ now' = now /\ budget' = budget
  BY OneCall DEF Send
<1>2. CASE release(c) /\ Ends(c)
  BY <1>1, <1>2, ReleaseEnds, BudgetStays, CallEnds
<1>3. CASE /\ call' = [call EXCEPT ![c] = [IdleCall EXCEPT !.phase = "sent", !.retry = call[c].retry,
                                                           !.startedAt = now]]
           /\ UNCHANGED <<pool, priority>>
  <2> DEFINE r == [IdleCall EXCEPT !.phase = "sent", !.retry = call[c].retry, !.startedAt = now]
  <2>1. call[c].retry \in BOOLEAN
    BY <1>1 DEF CallState
  <2>2. call' = [call EXCEPT ![c] = r]
    BY <1>3
  <2>5. r \in CallState(now) /\ r.phase = "sent" /\ r.spacing = 0
    BY <1>1, <2>1, IdleIs
  <2> HIDE DEF r
  <2>6. SemInv' /\ Keeps(pool, pool', Waiter \ {c})
    BY <1>1, <1>3, SemStays
  <2>7. pool'.permit[c] # None
    BY <1>1, <1>3
  <2> QED BY <1>1, <2>2, <2>5, <2>6, <2>7, BudgetStays, CallMoves
<1> QED BY <1>2, <1>3 DEF Send

LEMMA AnswerKeeps ==
  ASSUME GateInv, NEW c \in Waiter, NEW r \in Response, Answer(c, r)
  PROVE  GateInv'
<1>1. /\ now \in Nat /\ budget \in BudgetState /\ budget.nextAdmissionAt \in Nat
      /\ call \in [Waiter -> CallState(now)]
      /\ pool.permit[c] # None /\ now' = now /\ budget' = observeBudget(r, call[c].startedAt)
      /\ release(c)
  BY OneCall DEF Answer
<1>2. budget' \in BudgetState /\ budget'.nextAdmissionAt = budget.nextAdmissionAt
  BY <1>1, ObservedTyped
<1>3. budget'.nextAdmissionAt >= budget.nextAdmissionAt
  BY <1>1, <1>2
<1>4. /\ SemInv' /\ Keeps(pool, pool', Waiter \ {c})
      /\ pool'.permit[c] = None /\ ~Waiting(pool', c)
  BY <1>1, ReleaseEnds
<1>5. CASE Ends(c)
  BY <1>1, <1>2, <1>3, <1>4, <1>5, CallEnds
<1>6. CASE call' = [call EXCEPT ![c] = [IdleCall EXCEPT !.phase = "retrying", !.retry = TRUE]]
  <2> DEFINE x == [IdleCall EXCEPT !.phase = "retrying", !.retry = TRUE]
  <2>2. call' = [call EXCEPT ![c] = x]
    BY <1>6
  <2>4. x \in CallState(now) /\ x.phase = "retrying" /\ x.spacing = 0
    BY <1>1, IdleIs
  <2> HIDE DEF x
  <2> QED BY <1>1, <1>2, <1>3, <1>4, <2>2, <2>4, CallMoves
<1> QED BY <1>5, <1>6 DEF Answer

LEMMA NetworkErrorKeeps ==
  ASSUME GateInv, NEW c \in Waiter, NetworkError(c)
  PROVE  GateInv'
<1>1. /\ budget \in BudgetState /\ budget.nextAdmissionAt \in Nat
      /\ pool.permit[c] # None /\ now' = now /\ budget' = budget
      /\ release(c) /\ Ends(c)
  BY OneCall DEF NetworkError
<1> QED BY <1>1, ReleaseEnds, BudgetStays, CallEnds

LEMMA AbortKeeps ==
  ASSUME GateInv, NEW c \in Waiter, Abort(c)
  PROVE  GateInv'
<1>1. /\ now \in Nat /\ budget \in BudgetState /\ budget.nextAdmissionAt \in Nat
      /\ call \in [Waiter -> CallState(now)] /\ call[c] \in CallState(now) /\ SemInv
      /\ now' = now /\ budget' = budget
  BY OneCall DEF Abort
<1>2. CASE call[c].phase = "sleeping" /\ Ends(c) /\ UNCHANGED <<pool, priority>>
  <2>1. pool.permit[c] = None /\ ~Waiting(pool, c)
    BY <1>2, OneCall
  <2> QED BY <1>1, <1>2, <2>1, SemStays, BudgetStays, CallEnds
<1>3. CASE onAbort(c) /\ Ends(c)
  <2>1. /\ SemInv' /\ Keeps(pool, pool', Waiter \ {c})
        /\ pool'.permit[c] = None /\ ~Waiting(pool', c)
    BY <1>1, <1>3, GivesUp DEF Keeps
  <2> QED BY <1>1, <1>3, <2>1, BudgetStays, CallEnds
<1>4. CASE /\ call[c].phase = "queued" /\ pool.permit[c] # None
           /\ call' = [call EXCEPT ![c].aborted = TRUE]
           /\ UNCHANGED <<pool, priority>>
  <2> DEFINE r == [call[c] EXCEPT !.aborted = TRUE]
  <2>1. call' = [call EXCEPT ![c] = r]
    BY <1>1, <1>4
  <2>2. /\ r \in CallState(now) /\ r.phase = "queued"
        /\ r.spacing = call[c].spacing /\ r.until = call[c].until
    BY <1>1, <1>4 DEF CallState
  <2> HIDE DEF r
  <2> QED BY <1>1, <1>4, <2>1, <2>2, SemStays, BudgetStays, CallMoves
<1>5. CASE call[c].phase = "sent" /\ release(c) /\ Ends(c)
  <2>1. pool.permit[c] # None
    BY <1>5, OneCall
  <2> QED BY <1>1, <1>5, <2>1, ReleaseEnds, BudgetStays, CallEnds
<1> QED BY <1>2, <1>3, <1>4, <1>5 DEF Abort

LEMMA PromoteKeeps ==
  ASSUME GateInv, NEW k \in Ticket, NEW to \in {"high", "normal"}, promoteEsiLane(k, to)
  PROVE  GateInv'
<1>1. /\ now \in Nat /\ budget \in BudgetState /\ call \in [Waiter -> CallState(now)]
      /\ SemInv /\ Held /\ Slots
      /\ promote(k, to) /\ now' = now /\ budget' = budget /\ call' = call /\ to \in Priority
  BY DEF GateInv, promoteEsiLane, Priority
<1>2. SemInv' /\ Keeps(pool, pool', Waiter)
  BY <1>1, Raises
<1>3. (call \in [Waiter -> CallState(now)])'
  BY <1>1 DEF CallState
<1>4. Held'
  <2>1. \A d : Waiting(pool, d)' <=> Waiting(pool', d)
    BY DEF Waiting, In
  <2> QED BY <1>1, <1>2, <2>1 DEF Held, Keeps
<1>5. Slots'
  BY <1>1 DEF Slots, BrakeSpreads
<1> QED BY <1>1, <1>2, <1>3, <1>4, <1>5 DEF GateInv

LEMMA GateStays ==
  ASSUME GateInv, UNCHANGED gateVars
  PROVE  GateInv'
<1>1. /\ now \in Nat /\ budget \in BudgetState /\ call \in [Waiter -> CallState(now)]
      /\ SemInv /\ Held /\ Slots
      /\ now' = now /\ budget' = budget /\ call' = call /\ pool' = pool /\ priority' = priority
  BY DEF GateInv, gateVars
<1>2. (call \in [Waiter -> CallState(now)])'
  BY <1>1 DEF CallState
<1>3. SemInv'
  BY <1>1, SemStays
<1>4. Held' /\ Slots'
  BY <1>1 DEF Held, Slots, BrakeSpreads, Waiting, In
<1> QED BY <1>1, <1>2, <1>3, <1>4 DEF GateInv

LEMMA GateStep == GateInv /\ [GateNext]_gateVars => GateInv'
<1> SUFFICES ASSUME GateInv, [GateNext]_gateVars
             PROVE  GateInv'
  OBVIOUS
<1>1. CASE \E c \in Waiter : \/ Plan(c) \/ PlanAborted(c) \/ Wake(c) \/ Send(c)
                             \/ NetworkError(c) \/ Abort(c)
  BY <1>1, PlanKeeps, PlanAbortedKeeps, WakeKeeps, SendKeeps, NetworkErrorKeeps, AbortKeeps
<1>2. CASE \E c \in Waiter : \E r \in Response : Answer(c, r)
  BY <1>2, AnswerKeeps
<1>3. CASE \E k \in Ticket : \E to \in {"high", "normal"} : promoteEsiLane(k, to)
  BY <1>3, PromoteKeeps
<1> QED BY <1>1, <1>2, <1>3, TickKeeps, GateStays DEF GateNext

LEMMA GateStart == GateInit => GateInv
<1> SUFFICES ASSUME GateInit
             PROVE  GateInv
  OBVIOUS
<1>1. /\ pool = EmptyPool /\ priority = InitialLane /\ now = 0
      /\ budget = INITIAL_BUDGET /\ call = [c \in Waiter |-> IdleCall]
  BY DEF GateInit
<1>2. SemInv
  <2>1. priority \in [Ticket -> Priority]
    BY <1>1, Ticks DEF Priority
  <2> QED BY <1>1, <2>1, EmptyIsGood DEF SemInv
<1>3. budget \in BudgetState
  BY <1>1 DEF INITIAL_BUDGET, BudgetState, Reading
<1>4. IdleCall \in CallState(now) /\ IdleCall.phase = "idle" /\ IdleCall.spacing = 0
  BY <1>1, IdleIs
<1>5. call \in [Waiter -> CallState(now)]
  BY <1>1, <1>4
<1>6. Held
  <2>1. \A c \in Waiter : pool.permit[c] = None /\ ~Waiting(pool, c) /\ call[c].phase = "idle"
    BY <1>1, <1>4 DEF EmptyPool, Waiting, In
  <2> QED BY <2>1 DEF Held
<1>7. Slots
  <2>1. \A c \in Waiter : ~(call[c].spacing > 0)
    BY <1>1, <1>4
  <2> QED BY <2>1 DEF Slots, BrakeSpreads
<1> QED BY <1>1, <1>2, <1>3, <1>5, <1>6, <1>7 DEF GateInv

(* Every variable has its type, and no permit outlives its call: who holds  *)
(* or waits for one is between the two, however the other calls ended.      *)
THEOREM PermitsAreHeldByCalls == GateSpec => []PermitsHeldByCalls
<1>1. GateInv => PermitsHeldByCalls
  <2> SUFFICES ASSUME GateInv
               PROVE  PermitsHeldByCalls
    OBVIOUS
  <2>1. /\ now \in Nat /\ budget \in BudgetState /\ call \in [Waiter -> CallState(now)]
        /\ SemInv /\ Held
    BY DEF GateInv
  <2>2. \A f \in DOMAIN INITIAL_BUDGET : budget[f] \in Nat \cup {None}
    BY <2>1 DEF INITIAL_BUDGET, BudgetState, Reading
  <2>3. Types
    BY <2>1, <2>2 DEF Types, CallState, CallPhase
  <2> QED BY <2>1, <2>3, AreAccounted DEF PermitsHeldByCalls, Held
<1> QED BY <1>1, GateStart, GateStep, PTL DEF GateSpec

(* The slots of two calls the brake spaced out stay as far apart as it      *)
(* said, in whatever order they were planned and whichever of them asks     *)
(* again; the sends, which wait for a permit after the slot, may not.       *)
THEOREM BrakeKeepsSpreading == GateSpec => []BrakeSpreads
<1>1. GateInv => BrakeSpreads
  BY DEF GateInv, Slots
<1> QED BY <1>1, GateStart, GateStep, PTL DEF GateSpec

(* A success that was asked for before the circuit last shut never opens it.*)
THEOREM StragglersDoNotReopen == GateSpec => OnlyFreshAnswersReopen
<1> DEFINE Fresh ==
      budget.circuitShutAt # None /\ budget'.circuitShutAt = None =>
        \E c \in Waiter : /\ call[c].phase = "sent" /\ call'[c].phase # "sent"
                          /\ call[c].startedAt >= budget.circuitShutAt
<1>1. ASSUME GateInv, GateNext
      PROVE  Fresh
  <2>1. now \in Nat /\ budget \in BudgetState /\ call \in [Waiter -> CallState(now)]
    BY <1>1 DEF GateInv
  <2>2. CASE \E c \in Waiter : \E r \in Response : Answer(c, r)
    <3>1. PICK c \in Waiter, r \in Response : Answer(c, r)
      BY <2>2
    <3>2. call[c].phase = "sent" /\ budget' = observeBudget(r, call[c].startedAt)
      BY <3>1 DEF Answer
    <3>3. call'[c].phase # "sent"
      <4>1. \/ call' = [call EXCEPT ![c] = [IdleCall EXCEPT !.phase = "retrying", !.retry = TRUE]]
            \/ call' = [call EXCEPT ![c] = [IdleCall EXCEPT !.phase = "done"]]
        BY <3>1 DEF Answer, Ends
      <4> QED BY <2>1, <4>1, IdleIs
    <3> QED BY <2>1, <3>2, <3>3, ObservedTyped
  <2>3. CASE \E c \in Waiter : Plan(c) \/ PlanAborted(c)
    <3>1. budget' = budget \/ budget' = Reserved
      BY <2>3 DEF Plan, PlanAborted
    <3> QED BY <2>1, <3>1, ReservedTyped
  <2>4. CASE \/ Tick
             \/ \E c \in Waiter : Wake(c) \/ Send(c) \/ NetworkError(c) \/ Abort(c)
             \/ \E k \in Ticket : \E to \in {"high", "normal"} : promoteEsiLane(k, to)
    <3>1. budget' = budget
      BY <2>4 DEF Tick, Wake, Send, NetworkError, Abort, promoteEsiLane
    <3> QED BY <3>1
  <2> QED BY <1>1, <2>2, <2>3, <2>4 DEF GateNext
<1>2. GateInv /\ [GateNext]_gateVars => [Fresh]_gateVars
  BY <1>1
<1> QED BY <1>2, GateStart, GateStep, PTL DEF GateSpec, OnlyFreshAnswersReopen

-----------------------------------------------------------------------------
(***************************************************************************)
(* The sign-in.  The inductive invariants; TypeOK and the orphans need no   *)
(* lock, that EVE refuses only dead grants needs Web Locks.                 *)
(***************************************************************************)

Tokens == [grant : Grant, version : 1..MaxVersion \cup {Null}]

JobRecord == [pc : Phase, sent : Refresh \cup {Null}, answer : Tokens \cup {Null},
              existing : BOOLEAN, store : Refresh \cup {Null}, crossed : BOOLEAN]

(* persistTokens is at work: the answer has come and is not stored.         *)
Persisting(J) == J.pc \in {"answered", "seen", "checked", "putting"}

Storing(J) == J.pc \in {"checked", "putting"}

(* What each phase has in hand.                                             *)
ShapeOf(J) ==
    /\ J \in JobRecord
    /\ J.pc = "sent" => J.sent \in Refresh
    /\ Persisting(J) => J.answer \in Tokens
    /\ Storing(J) => J.store \in Refresh

Typed ==
    /\ TypeOK
    /\ \A j \in Job : ShapeOf(job[j])

(* A job that no removal crossed still finds the Character it read.         *)
UncrossedOf(J) ==
    ~J.crossed => /\ J.pc \in {"seen", "checked"} /\ J.existing => known
                  /\ J.pc = "putting" => known

(* The refresh token is the one EVE gave last, or a later one was lost.     *)
Latest(r) == sso.strayed[r.grant] \/ r.version = sso.newest[r.grant]

(* The grant is known beyond the login callback that brings it.             *)
Public(g) == \/ g < sso.issued
             \/ g = sso.issued /\ job[Login].pc = "idle"

Rotates(J) == Persisting(J) /\ J.answer.version # Null

(* What a tab sends and stores is the latest it could have.                 *)
TabOf(J) ==
    /\ J.pc = "sent" => Public(J.sent.grant) /\ Latest(J.sent)
    /\ Persisting(J) => Public(J.answer.grant)
    /\ Rotates(J) => Latest(J.answer)
    /\ Storing(J) => Public(J.store.grant) /\ Latest(J.store)
    /\ Storing(J) /\ Rotates(J) => J.store = J.answer

(* The login callback brings the first version of a grant nobody else has.  *)
LoginOf(J) ==
    /\ J.pc # "sent" /\ J.pc # "queued"
    /\ J.pc # "idle" => /\ J.answer = [grant |-> sso.issued, version |-> 1]
                        /\ sso.newest[sso.issued] = 1
                        /\ Storing(J) => J.store = J.answer

(* The row has the latest token, or a tab is about to put a later one.      *)
Renewing(g) == \E t \in Tab : Rotates(job[t]) /\ job[t].answer.grant = g

RowLatest ==
    token # Null => /\ Public(token.refresh.grant)
                    /\ Latest(token.refresh) \/ Renewing(token.refresh.grant)

Holding(J) == J.pc \notin {"idle", "queued"}

OneHolder == \A t, u \in Tab : Holding(job[t]) /\ Holding(job[u]) => t = u

Unissued == \A g \in Grant : g > sso.issued => sso.newest[g] = 1

Rotations ==
    /\ OneHolder /\ Unissued /\ RowLatest
    /\ LoginOf(job[Login])
    /\ \A t \in Tab : TabOf(job[t])

LatestInv == Typed /\ Rotations

UncrossedInv == \A j \in Job : UncrossedOf(job[j])

-----------------------------------------------------------------------------
(***************************************************************************)
(* Types and shapes.                                                        *)
(***************************************************************************)

LEMMA IdleShape == ShapeOf(Idle)
BY DEF ShapeOf, JobRecord, Phase, Idle, Persisting, Storing

(* A step that changes one job keeps the shapes of all.                     *)
LEMMA OneJob ==
  ASSUME Typed, NEW j \in Job, NEW J, ShapeOf(J), job' = [job EXCEPT ![j] = J]
  PROVE  /\ job' \in [Job -> JobRecord]
         /\ \A k \in Job : ShapeOf(job'[k])
         /\ job'[j] = J
         /\ \A k \in Job \ {j} : job'[k] = job[k]
<1>1. job \in [Job -> JobRecord]
  BY DEF Typed, TypeOK, JobRecord, Tokens
<1>2. J \in JobRecord
  BY DEF ShapeOf
<1>3. job'[j] = J /\ \A k \in Job \ {j} : job'[k] = job[k]
  BY <1>1
<1> QED BY <1>1, <1>2, <1>3 DEF Typed

LEMMA TypedInit == Init => Typed
<1> SUFFICES ASSUME Init PROVE Typed
  OBVIOUS
<1>1. \A j \in Job : job[j] = Idle
  BY DEF Init
<1>2. \A j \in Job : ShapeOf(job[j])
  BY <1>1, IdleShape
<1>3. job \in [Job -> JobRecord]
  BY IdleShape DEF Init, ShapeOf
<1>4. token \in Row
  BY TokenRefreshAssumptions DEF Init, Row, Refresh, Grant
<1>5. sso \in [issued : Grant, alive : [Grant -> BOOLEAN],
               newest : [Grant -> 1..MaxVersion], strayed : [Grant -> BOOLEAN]]
  BY TokenRefreshAssumptions DEF Init, Grant
<1>6. known \in BOOLEAN /\ acts \in 0..MaxActs
  BY TokenRefreshAssumptions DEF Init
<1> QED BY <1>2, <1>3, <1>4, <1>5, <1>6 DEF Typed, TypeOK, JobRecord, Tokens

(* A step that changes one job and none of the rows, nor EVE.               *)
LEMMA OneJobTyped ==
  ASSUME Typed, NEW j \in Job, NEW J, ShapeOf(J), job' = [job EXCEPT ![j] = J],
         UNCHANGED <<known, token, sso, acts>>
  PROVE  Typed'
<1>1. job' \in [Job -> JobRecord] /\ \A k \in Job : ShapeOf(job'[k])
  BY OneJob
<1> QED BY <1>1 DEF Typed, TypeOK, ShapeOf, JobRecord, Tokens

LEMMA GrantedTyped ==
  ASSUME Typed, NEW t \in Tab, Granted(t)
  PROVE  Typed'
<1>1. t \in Job /\ ShapeOf(job[t])
  BY DEF Typed, Job
<1>2. UNCHANGED <<known, token, sso, acts>>
  BY DEF Granted
<1>3. CASE job' = [job EXCEPT ![t] = Idle]
  BY <1>1, <1>2, <1>3, IdleShape, OneJobTyped
<1>4. CASE /\ token # Null
           /\ job' = [job EXCEPT ![t].pc = "sent", ![t].sent = token.refresh]
  <2> DEFINE J == [job[t] EXCEPT !.pc = "sent", !.sent = token.refresh]
  <2>1. token.refresh \in Refresh
    BY <1>4 DEF Typed, TypeOK, Row
  <2>2. ShapeOf(J)
    BY <1>1, <2>1 DEF ShapeOf, JobRecord, Phase, Persisting, Storing
  <2>3. job' = [job EXCEPT ![t] = J]
    BY <1>4
  <2> HIDE DEF J
  <2> QED BY <1>1, <1>2, <2>2, <2>3, OneJobTyped
<1> QED BY <1>3, <1>4 DEF Granted

(* What EVE answers to a refresh, and what it then takes for the newest.    *)
LEMMA RotatedTyped ==
  ASSUME Typed, NEW g \in Grant, NEW rotates \in BOOLEAN, Newest(g, rotates) <= MaxVersion
  PROVE  Newest(g, rotates) \in 1..MaxVersion /\ Rotated(g, rotates) \in Tokens
<1>1. sso.newest[g] \in 1..MaxVersion
  BY DEF Typed, TypeOK
<1> QED BY <1>1, TokenRefreshAssumptions DEF Newest, Rotated, Tokens

LEMMA RefreshAnsweredTyped ==
  ASSUME Typed, NEW t \in Tab, RefreshAnswered(t)
  PROVE  Typed'
<1> DEFINE g == job[t].sent.grant
<1>1. /\ t \in Job /\ ShapeOf(job[t])
      /\ job[t].sent \in Refresh /\ g \in Grant
  BY DEF Typed, Job, RefreshAnswered, ShapeOf, Refresh
<1>2. PICK rotates \in BOOLEAN :
         /\ Newest(g, rotates) <= MaxVersion
         /\ sso' = [sso EXCEPT !.newest[g] = Newest(g, rotates)]
         /\ job' = [job EXCEPT ![t].pc = "answered", ![t].answer = Rotated(g, rotates)]
  BY DEF RefreshAnswered
<1> DEFINE J == [job[t] EXCEPT !.pc = "answered", !.answer = Rotated(g, rotates)]
<1>3. Newest(g, rotates) \in 1..MaxVersion /\ Rotated(g, rotates) \in Tokens
  BY <1>1, <1>2, RotatedTyped
<1>4. ShapeOf(J)
  BY <1>1, <1>3 DEF ShapeOf, JobRecord, Phase, Persisting, Storing
<1>5. job' = [job EXCEPT ![t] = J]
  BY <1>2
<1>6. job' \in [Job -> JobRecord] /\ \A k \in Job : ShapeOf(job'[k])
  <2> HIDE DEF J
  <2> QED BY <1>1, <1>4, <1>5, OneJob
<1>7. sso' \in [issued : Grant, alive : [Grant -> BOOLEAN],
                newest : [Grant -> 1..MaxVersion], strayed : [Grant -> BOOLEAN]]
  BY <1>1, <1>2, <1>3 DEF Typed, TypeOK
<1>8. UNCHANGED <<known, token, acts>>
  BY DEF RefreshAnswered
<1> QED BY <1>6, <1>7, <1>8 DEF Typed, TypeOK, ShapeOf, JobRecord, Tokens

LEMMA RefreshRefusedTyped ==
  ASSUME Typed, NEW t \in Tab, RefreshRefused(t)
  PROVE  Typed'
BY IdleShape, OneJobTyped DEF RefreshRefused, Job

LEMMA RefreshLostTyped ==
  ASSUME Typed, NEW t \in Tab, RefreshLost(t)
  PROVE  Typed'
<1> DEFINE g == job[t].sent.grant
<1>1. t \in Job /\ job[t].sent \in Refresh /\ g \in Grant
  BY DEF Typed, Job, RefreshLost, ShapeOf, Refresh
<1>2. PICK rotates \in BOOLEAN :
         /\ rotates => Newest(g, rotates) <= MaxVersion
         /\ sso' = [sso EXCEPT !.newest[g] = Newest(g, rotates), !.strayed[g] = @ \/ rotates]
  BY DEF RefreshLost
<1>3. Newest(g, rotates) \in 1..MaxVersion
  BY <1>1, <1>2, RotatedTyped DEF Newest, Typed, TypeOK
<1>4. sso' \in [issued : Grant, alive : [Grant -> BOOLEAN],
                newest : [Grant -> 1..MaxVersion], strayed : [Grant -> BOOLEAN]]
  BY <1>1, <1>2, <1>3 DEF Typed, TypeOK
<1>5. job' = [job EXCEPT ![t] = Idle] /\ UNCHANGED <<known, token, acts>>
  BY DEF RefreshLost
<1>6. job' \in [Job -> JobRecord] /\ \A k \in Job : ShapeOf(job'[k])
  BY <1>1, <1>5, IdleShape, OneJob
<1> QED BY <1>4, <1>5, <1>6 DEF Typed, TypeOK, ShapeOf, JobRecord, Tokens

LEMMA completeLoginTyped ==
  ASSUME Typed, completeLogin
  PROVE  Typed'
<1> DEFINE g == sso.issued + 1
           J == [job[Login] EXCEPT !.pc = "answered", !.answer = [grant |-> g, version |-> 1]]
<1>1. Login \in Job /\ ShapeOf(job[Login])
  BY DEF Typed, Job
<1>2. g \in Grant /\ 1 \in 1..MaxVersion
  BY TokenRefreshAssumptions DEF completeLogin, Typed, TypeOK, Grant
<1>3. ShapeOf(J)
  BY <1>1, <1>2 DEF ShapeOf, JobRecord, Phase, Persisting, Storing, Tokens
<1>4. job' = [job EXCEPT ![Login] = J] /\ sso' = [sso EXCEPT !.issued = g]
  BY DEF completeLogin
<1>5. job' \in [Job -> JobRecord] /\ \A k \in Job : ShapeOf(job'[k])
  <2> HIDE DEF J
  <2> QED BY <1>1, <1>3, <1>4, OneJob
<1>6. sso' \in [issued : Grant, alive : [Grant -> BOOLEAN],
                newest : [Grant -> 1..MaxVersion], strayed : [Grant -> BOOLEAN]]
  BY <1>2, <1>4 DEF Typed, TypeOK
<1>7. UNCHANGED <<known, token, acts>>
  BY DEF completeLogin
<1> QED BY <1>5, <1>6, <1>7 DEF Typed, TypeOK, ShapeOf, JobRecord, Tokens

LEMMA ReadCharacterTyped ==
  ASSUME Typed, NEW j \in Job, ReadCharacter(j)
  PROVE  Typed'
<1> DEFINE J == [job[j] EXCEPT !.pc = "seen", !.existing = known]
<1>1. ShapeOf(job[j]) /\ known \in BOOLEAN /\ job[j].pc = "answered"
  BY DEF Typed, TypeOK, ReadCharacter
<1>2. ShapeOf(J)
  BY <1>1 DEF ShapeOf, JobRecord, Phase, Persisting, Storing
<1>3. job' = [job EXCEPT ![j] = J] /\ UNCHANGED <<known, token, sso, acts>>
  BY DEF ReadCharacter
<1> HIDE DEF J
<1> QED BY <1>2, <1>3, OneJobTyped

(* What persistTokens stores is a refresh token, or it stores nothing.      *)
LEMMA StoreTyped ==
  ASSUME Typed, NEW j \in Job, job[j].pc = "seen"
  PROVE  refreshTokenToStore(j) \in Refresh \cup {Null}
<1>1. job[j].answer \in Tokens
  BY DEF Typed, ShapeOf, Persisting
<1>2. token # Null => token.refresh \in Refresh
  BY DEF Typed, TypeOK, Row
<1>3. job[j].answer.version # Null => job[j].answer \in Refresh
  BY <1>1 DEF Tokens, Refresh
<1> QED BY <1>2, <1>3 DEF refreshTokenToStore

LEMMA ReadTokenTyped ==
  ASSUME Typed, NEW j \in Job, ReadToken(j)
  PROVE  Typed'
<1> DEFINE r == refreshTokenToStore(j)
           J == [job[j] EXCEPT !.pc = "checked", !.store = r]
<1>1. ShapeOf(job[j]) /\ job[j].pc = "seen" /\ r \in Refresh \cup {Null}
  BY StoreTyped DEF Typed, ReadToken
<1>2. UNCHANGED <<known, token, sso, acts>>
  BY DEF ReadToken
<1>3. CASE r = Null
  BY <1>2, <1>3, IdleShape, OneJobTyped DEF ReadToken
<1>4. CASE r # Null
  <2>1. ShapeOf(J)
    BY <1>1, <1>4 DEF ShapeOf, JobRecord, Phase, Persisting, Storing
  <2>2. job' = [job EXCEPT ![j] = J]
    BY <1>4 DEF ReadToken
  <2> HIDE DEF J
  <2> QED BY <1>2, <2>1, <2>2, OneJobTyped
<1> QED BY <1>3, <1>4

LEMMA PutCharacterTyped ==
  ASSUME Typed, NEW j \in Job, PutCharacter(j)
  PROVE  Typed'
<1> DEFINE J == [job[j] EXCEPT !.pc = "putting"]
<1>1. ShapeOf(job[j]) /\ job[j].pc = "checked"
  BY DEF Typed, PutCharacter
<1>2. ShapeOf(J)
  BY <1>1 DEF ShapeOf, JobRecord, Phase, Persisting, Storing
<1>3. job' = [job EXCEPT ![j] = J]
  BY DEF PutCharacter
<1>4. job' \in [Job -> JobRecord] /\ \A k \in Job : ShapeOf(job'[k])
  <2> HIDE DEF J
  <2> QED BY <1>2, <1>3, OneJob
<1>5. known' \in BOOLEAN /\ UNCHANGED <<token, sso, acts>>
  BY DEF PutCharacter, Typed, TypeOK, sameRecord
<1> QED BY <1>4, <1>5 DEF Typed, TypeOK, ShapeOf, JobRecord, Tokens

LEMMA PutTokenTyped ==
  ASSUME Typed, NEW j \in Job, PutToken(j)
  PROVE  Typed'
<1>1. job[j].store \in Refresh
  BY DEF Typed, ShapeOf, PutToken, Storing
<1>2. token' \in Row
  BY <1>1 DEF PutToken, Row
<1>3. job' \in [Job -> JobRecord] /\ \A k \in Job : ShapeOf(job'[k])
  BY IdleShape, OneJob DEF PutToken, Finally
<1>4. UNCHANGED <<known, sso, acts>>
  BY DEF PutToken
<1> QED BY <1>2, <1>3, <1>4 DEF Typed, TypeOK, ShapeOf, JobRecord, Tokens

LEMMA InterruptedTyped ==
  ASSUME Typed, NEW j \in Job, Interrupted(j)
  PROVE  Typed'
<1>1. job' \in [Job -> JobRecord] /\ \A k \in Job : ShapeOf(job'[k])
  BY IdleShape, OneJob DEF Interrupted
<1>2. acts' \in 0..MaxActs /\ UNCHANGED <<known, token>>
  BY TokenRefreshAssumptions DEF Interrupted, Typed, TypeOK
<1>3. ShapeOf(job[j])
  BY DEF Typed
<1>4. PICK rotates \in BOOLEAN :
         /\ rotates => /\ job[j].pc = "sent"
                       /\ sso.newest[job[j].sent.grant] < MaxVersion
         /\ sso' = IF rotates
                   THEN [sso EXCEPT !.newest[job[j].sent.grant] = @ + 1,
                                    !.strayed[job[j].sent.grant] = TRUE]
                   ELSE IF Rotation(j)
                   THEN [sso EXCEPT !.strayed[job[j].answer.grant] = TRUE]
                   ELSE sso
  BY DEF Interrupted
<1>5. rotates => /\ job[j].sent.grant \in Grant
                 /\ sso.newest[job[j].sent.grant] + 1 \in 1..MaxVersion
  BY <1>3, <1>4, TokenRefreshAssumptions DEF ShapeOf, Refresh, Typed, TypeOK
<1>6. sso' \in [issued : Grant, alive : [Grant -> BOOLEAN],
                newest : [Grant -> 1..MaxVersion], strayed : [Grant -> BOOLEAN]]
  BY <1>4, <1>5 DEF Typed, TypeOK
<1> QED BY <1>1, <1>2, <1>6 DEF Typed, TypeOK, ShapeOf, JobRecord, Tokens

LEMMA removeCharacterTyped ==
  ASSUME Typed, removeCharacter
  PROVE  Typed'
<1>1. \A j \in Job : \/ job'[j] = job[j]
                     \/ job'[j] = [job[j] EXCEPT !.crossed = TRUE]
  BY DEF removeCharacter
<1>2. ASSUME NEW j \in Job PROVE ShapeOf(job'[j])
  <2>1. ShapeOf(job[j])
    BY DEF Typed
  <2> QED BY <1>1, <2>1 DEF ShapeOf, JobRecord, Persisting, Storing
<1>3. job' \in [Job -> JobRecord]
  BY <1>2 DEF removeCharacter, ShapeOf
<1>4. known' = FALSE /\ token' = Null /\ acts' \in 0..MaxActs /\ UNCHANGED sso
  BY TokenRefreshAssumptions DEF removeCharacter, Typed, TypeOK
<1> QED BY <1>2, <1>3, <1>4 DEF Typed, TypeOK, ShapeOf, JobRecord, Tokens

LEMMA ExpireTyped ==
  ASSUME Typed, Expire
  PROVE  Typed'
<1>1. token' \in Row
  BY DEF Expire, Typed, TypeOK, Row
<1>2. acts' \in 0..MaxActs /\ UNCHANGED <<known, job, sso>>
  BY TokenRefreshAssumptions DEF Expire, Typed, TypeOK
<1> QED BY <1>1, <1>2 DEF Typed, TypeOK, ShapeOf, JobRecord, Tokens

LEMMA RevokeTyped ==
  ASSUME Typed, Revoke
  PROVE  Typed'
<1>0. PICK g : sso' = [sso EXCEPT !.alive[g] = FALSE]
  BY DEF Revoke
<1>1. sso' \in [issued : Grant, alive : [Grant -> BOOLEAN],
                newest : [Grant -> 1..MaxVersion], strayed : [Grant -> BOOLEAN]]
  BY <1>0 DEF Typed, TypeOK
<1>2. acts' \in 0..MaxActs /\ UNCHANGED <<known, token, job>>
  BY TokenRefreshAssumptions DEF Revoke, Typed, TypeOK
<1> QED BY <1>1, <1>2 DEF Typed, TypeOK, ShapeOf, JobRecord, Tokens

LEMMA TypedStep == Typed /\ [Next]_vars => Typed'
<1> SUFFICES ASSUME Typed, [Next]_vars PROVE Typed'
  OBVIOUS
<1>1. ASSUME NEW t \in Tab, getValidAccessToken(t) PROVE Typed'
  <2> DEFINE J == [job[t] EXCEPT !.pc = "queued"]
  <2>1. t \in Job /\ ShapeOf(job[t])
    BY DEF Typed, Job
  <2>2. ShapeOf(J)
    BY <2>1 DEF ShapeOf, JobRecord, Phase, Persisting, Storing
  <2>3. job' = [job EXCEPT ![t] = J] /\ UNCHANGED <<known, token, sso, acts>>
    BY <1>1 DEF getValidAccessToken
  <2> HIDE DEF J
  <2> QED BY <2>1, <2>2, <2>3, OneJobTyped
<1>2. CASE UNCHANGED vars
  BY <1>2 DEF vars, Typed, TypeOK, ShapeOf, JobRecord, Tokens
<1> QED
  BY <1>1, <1>2, GrantedTyped, RefreshAnsweredTyped, RefreshRefusedTyped,
     RefreshLostTyped, completeLoginTyped, ReadCharacterTyped, ReadTokenTyped,
     PutCharacterTyped, PutTokenTyped, InterruptedTyped, ExpireTyped, RevokeTyped,
     removeCharacterTyped
  DEF Next, Refreshes, Persists

(* The rows and the jobs of the sign-in keep their types: in particular a   *)
(* token row that is there can be refreshed.                                *)
THEOREM TypeCorrect == Spec => []TypeOK
<1>1. Spec => []Typed
  BY TypedInit, TypedStep, PTL DEF Spec
<1>2. Typed => TypeOK
  BY DEF Typed
<1> QED BY <1>1, <1>2, PTL

-----------------------------------------------------------------------------
(***************************************************************************)
(* Orphans.                                                                 *)
(***************************************************************************)

LEMMA UncrossedInit == Init => UncrossedInv
BY DEF Init, UncrossedInv, UncrossedOf, Idle

LEMMA UncrossedStep == Typed /\ UncrossedInv /\ [Next]_vars => UncrossedInv'
<1> SUFFICES ASSUME Typed, UncrossedInv, [Next]_vars,
                    NEW k \in Job
             PROVE  UncrossedOf(job[k])'
  BY DEF UncrossedInv
<1>1. UncrossedOf(job[k]) /\ ShapeOf(job[k]) /\ job \in [Job -> JobRecord] /\ known \in BOOLEAN
  BY DEF UncrossedInv, Typed, TypeOK, JobRecord, Tokens
<1>2. CASE known' = known /\ job'[k] = job[k]
  BY <1>1, <1>2 DEF UncrossedOf
<1>3. CASE job'[k].pc \notin {"seen", "checked", "putting"}
  BY <1>3 DEF UncrossedOf
<1>4. ASSUME NEW t \in Tab, getValidAccessToken(t) \/ Granted(t) \/ Refreshes(t)
      PROVE  UncrossedOf(job[k])'
  <2>1. t \in Job /\ known' = known /\ (k # t => job'[k] = job[k])
    BY <1>1, <1>4 DEF Job, getValidAccessToken, Granted, Refreshes, RefreshAnswered, RefreshRefused, RefreshLost
  <2>2. job'[t].pc \in {"idle", "queued", "sent", "answered"}
    <3>1. job[t] \in JobRecord
      BY <1>1, <2>1
    <3>2. CASE getValidAccessToken(t)
      BY <1>1, <2>1, <3>1, <3>2 DEF getValidAccessToken, JobRecord
    <3>3. CASE Granted(t)
      BY <1>1, <2>1, <3>1, <3>3 DEF Granted, JobRecord, Idle
    <3>4. CASE RefreshAnswered(t)
      BY <1>1, <2>1, <3>1, <3>4 DEF RefreshAnswered, JobRecord
    <3>5. CASE RefreshRefused(t) \/ RefreshLost(t)
      <4>1. job' = [job EXCEPT ![t] = Idle]
        BY <3>5 DEF RefreshRefused, RefreshLost
      <4> QED BY <1>1, <2>1, <4>1 DEF Idle
    <3> QED BY <1>4, <3>2, <3>3, <3>4, <3>5 DEF Refreshes
  <2> QED BY <1>2, <1>3, <2>1, <2>2
<1>5. CASE completeLogin
  <2>1. Login \in Job /\ known' = known /\ (k # Login => job'[k] = job[k])
    BY <1>1, <1>5 DEF Job, completeLogin
  <2>2. job'[Login].pc = "answered"
    BY <1>1, <1>5, <2>1 DEF JobRecord, completeLogin
  <2> QED BY <1>2, <1>3, <2>1, <2>2
<1>6. ASSUME NEW j \in Job, ReadCharacter(j)
      PROVE  UncrossedOf(job[k])'
  <2>1. CASE k = j
    BY <1>1, <1>6, <2>1 DEF ReadCharacter, UncrossedOf, JobRecord
  <2> QED BY <1>1, <1>2, <1>6, <2>1 DEF ReadCharacter
<1>7. ASSUME NEW j \in Job, ReadToken(j)
      PROVE  UncrossedOf(job[k])'
  <2>1. CASE k = j
    BY <1>1, <1>7, <2>1 DEF ReadToken, UncrossedOf, JobRecord, Idle
  <2> QED BY <1>1, <1>2, <1>7, <2>1 DEF ReadToken
<1>8. ASSUME NEW j \in Job, PutCharacter(j)
      PROVE  UncrossedOf(job[k])'
  <2>1. PICK same \in sameRecord(j) : known' = (known \/ ~same)
    BY <1>8 DEF PutCharacter
  <2>2. known => known'
    BY <2>1
  <2>3. CASE k = j
    <3>1. job'[k] = [job[k] EXCEPT !.pc = "putting"] /\ job[k].pc = "checked"
      BY <1>1, <1>8, <2>3 DEF PutCharacter
    <3>2. job'[k].pc = "putting" /\ job'[k].crossed = job[k].crossed
      BY <1>1, <3>1 DEF JobRecord
    <3>3. ~job[k].crossed => known'
      <4>1. CASE job[k].existing
        BY <1>1, <2>2, <3>1, <4>1 DEF UncrossedOf
      <4>2. CASE ~job[k].existing
        BY <2>1, <2>3, <4>2 DEF sameRecord
      <4> QED BY <4>1, <4>2
    <3> QED BY <3>2, <3>3 DEF UncrossedOf
  <2>4. CASE k # j
    <3>1. job'[k] = job[k]
      BY <1>1, <1>8, <2>4 DEF PutCharacter
    <3> QED BY <1>1, <2>2, <3>1 DEF UncrossedOf
  <2> QED BY <2>3, <2>4
<1>9. ASSUME NEW j \in Job, PutToken(j) \/ Interrupted(j)
      PROVE  UncrossedOf(job[k])'
  <2>1. known' = known /\ job' = [job EXCEPT ![j] = Idle]
    BY <1>9 DEF PutToken, Finally, Interrupted
  <2> QED BY <1>1, <1>2, <1>3, <2>1 DEF Idle
<1>10. CASE removeCharacter
  <2>1. \/ job'[k] = job[k] /\ job[k].pc = "idle"
        \/ job'[k] = [job[k] EXCEPT !.crossed = TRUE]
    BY <1>10 DEF removeCharacter
  <2> QED BY <1>1, <2>1 DEF UncrossedOf, JobRecord
<1>11. CASE Expire \/ Revoke \/ UNCHANGED vars
  BY <1>2, <1>11 DEF Expire, Revoke, vars
<1> QED
  BY <1>4, <1>5, <1>6, <1>7, <1>8, <1>9, <1>10, <1>11 DEF Next, Persists

(* Whatever the tabs, the login and the removal do to each other, and with  *)
(* or without Web Locks: a token row that appears without its Character was *)
(* written by a job that the removal crossed, and by nothing else.          *)
THEOREM OrphansCorrect == Spec => OnlyCrossingJobsOrphan
<1> DEFINE Orphan == token = Null /\ token' # Null /\ ~known'
                       => \E j \in Job : job[j].crossed /\ job'[j] = Idle
<1>1. ASSUME Typed, UncrossedInv, [Next]_vars PROVE [Orphan]_vars
  <2> SUFFICES ASSUME token = Null, token' # Null, ~known'
               PROVE  \E j \in Job : job[j].crossed /\ job'[j] = Idle
    OBVIOUS
  <2>1. PICK j \in Job : PutToken(j)
    BY <1>1 DEF Next, Refreshes, Persists, getValidAccessToken, Granted, RefreshAnswered, RefreshRefused,
       RefreshLost, completeLogin, ReadCharacter, ReadToken, PutCharacter, Interrupted, Expire,
       Revoke, removeCharacter, vars
  <2>2. job \in [Job -> JobRecord]
    BY <1>1 DEF Typed, TypeOK, JobRecord, Tokens
  <2>3. job'[j] = Idle /\ ~known /\ job[j].pc = "putting"
    BY <2>1, <2>2 DEF PutToken, Finally
  <2>4. UncrossedOf(job[j])
    BY <1>1 DEF UncrossedInv
  <2> QED BY <2>3, <2>4 DEF UncrossedOf
<1>2. Spec => [](Typed /\ UncrossedInv)
  <2>1. Init => Typed /\ UncrossedInv
    BY TypedInit, UncrossedInit
  <2>2. Typed /\ UncrossedInv /\ [Next]_vars => (Typed /\ UncrossedInv)'
    BY TypedStep, UncrossedStep
  <2> QED BY <2>1, <2>2, PTL DEF Spec
<1> QED BY <1>1, <1>2, PTL DEF Spec, OnlyCrossingJobsOrphan

-----------------------------------------------------------------------------
(***************************************************************************)
(* What EVE gave last.                                                      *)
(***************************************************************************)

LEMMA LatestInit == Init => LatestInv
<1> SUFFICES ASSUME Init PROVE LatestInv
  OBVIOUS
<1>1. Typed
  BY TypedInit
<1>2. \A j \in Job : job[j] = Idle
  BY DEF Init
<1>3. OneHolder /\ LoginOf(job[Login]) /\ \A t \in Tab : TabOf(job[t])
  BY <1>2 DEF OneHolder, Holding, LoginOf, TabOf, Persisting, Storing, Rotates, Idle, Job
<1>4. Unissued
  BY DEF Init, Unissued
<1>5. RowLatest
  BY <1>2, TokenRefreshAssumptions DEF Init, RowLatest, Public, Latest, Idle, Job, Grant
<1> QED BY <1>1, <1>3, <1>4, <1>5 DEF LatestInv, Rotations

(* Steps that touch neither the row nor EVE.                                *)
LEMMA Quiet ==
  ASSUME LatestInv, NEW j \in Job, NEW J \in JobRecord,
         job' = [job EXCEPT ![j] = J],
         UNCHANGED <<token, sso>>,
         j = Login => job[Login].pc # "idle" /\ LoginOf(J),
         j \in Tab => /\ TabOf(J)
                      /\ Rotates(job[j]) => Rotates(J) /\ J.answer = job[j].answer
                      /\ Holding(J) => \/ Holding(job[j])
                                       \/ \A u \in Tab : ~Holding(job[u])
  PROVE  Rotations'
<1>1. /\ OneHolder /\ Unissued /\ RowLatest /\ LoginOf(job[Login])
      /\ \A t \in Tab : TabOf(job[t])
      /\ job \in [Job -> JobRecord]
  BY DEF LatestInv, Rotations, Typed, TypeOK, JobRecord, Tokens
<1>2. /\ job'[j] = J /\ \A k \in Job \ {j} : job'[k] = job[k]
      /\ Tab \subseteq Job /\ Login \in Job /\ Login \notin Tab
  BY <1>1, TokenRefreshAssumptions DEF Job
<1>3. sso' = sso /\ token' = token /\ (job'[Login].pc # "idle" => job[Login].pc # "idle")
  BY <1>2
<1>4. OneHolder'
  BY <1>1, <1>2 DEF OneHolder
<1>5. Unissued'
  BY <1>1, <1>3 DEF Unissued
<1>6. LoginOf(job[Login])'
  BY <1>1, <1>2, <1>3 DEF LoginOf
<1>7. ASSUME NEW t \in Tab PROVE TabOf(job[t])'
  <2>1. TabOf(job'[t])
    BY <1>1, <1>2
  <2> QED BY <1>3, <2>1 DEF TabOf, Public, Latest, Rotates
<1>8. RowLatest'
  <2> SUFFICES ASSUME token # Null
               PROVE  /\ Public(token.refresh.grant)'
                      /\ Latest(token.refresh)' \/ Renewing(token.refresh.grant)'
    BY <1>3 DEF RowLatest
  <2>1. Public(token.refresh.grant)'
    BY <1>1, <1>3 DEF RowLatest, Public
  <2>2. CASE Latest(token.refresh)
    BY <1>3, <2>1, <2>2 DEF Latest
  <2>3. CASE Renewing(token.refresh.grant)
    <3>1. PICK t \in Tab : Rotates(job[t]) /\ job[t].answer.grant = token.refresh.grant
      BY <2>3 DEF Renewing
    <3>2. Rotates(job'[t]) /\ job'[t].answer.grant = token.refresh.grant
      BY <1>2, <3>1
    <3>3. Renewing(token.refresh.grant)'
      BY <1>3, <3>2 DEF Renewing, Rotates
    <3> QED BY <2>1, <3>3
  <2> QED BY <1>1, <2>2, <2>3 DEF RowLatest
<1> QED BY <1>4, <1>5, <1>6, <1>7, <1>8 DEF Rotations

(* What each part of the invariant says, to cite at once.                   *)
LEMMA Facts ==
  ASSUME LatestInv
  PROVE  /\ Typed /\ OneHolder /\ Unissued /\ RowLatest /\ LoginOf(job[Login])
         /\ \A t \in Tab : TabOf(job[t])
         /\ job \in [Job -> JobRecord]
         /\ \A j \in Job : ShapeOf(job[j])
         /\ Tab \subseteq Job /\ Login \in Job /\ Login \notin Tab
         /\ Idle \in JobRecord
         /\ token # Null => token.refresh \in Refresh
         /\ sso \in [issued : Grant, alive : [Grant -> BOOLEAN],
                     newest : [Grant -> 1..MaxVersion], strayed : [Grant -> BOOLEAN]]
BY IdleShape, TokenRefreshAssumptions
   DEF LatestInv, Rotations, Typed, TypeOK, JobRecord, Tokens, Job, Row, ShapeOf

LEMMA IdleGood == TabOf(Idle) /\ LoginOf(Idle) /\ ~Holding(Idle) /\ ~Rotates(Idle)
BY DEF TabOf, LoginOf, Idle, Holding, Persisting, Storing, Rotates

(* A tab alone at EVE: nobody renews, and the row has the latest.           *)
LEMMA Alone ==
  ASSUME LatestInv, NEW t \in Tab, job[t].pc = "sent"
  PROVE  /\ \A u \in Tab \ {t} : ~Holding(job[u])
         /\ token # Null => Latest(token.refresh) /\ Public(token.refresh.grant)
         /\ ~(job[Login].pc # "idle" /\ job[t].sent.grant = sso.issued)
         /\ job[t].sent \in Refresh
         /\ Public(job[t].sent.grant) /\ Latest(job[t].sent)
<1>1. Holding(job[t]) /\ ~Persisting(job[t]) /\ ShapeOf(job[t]) /\ TabOf(job[t])
  BY Facts DEF Holding, Persisting
<1>2. \A u \in Tab \ {t} : ~Holding(job[u])
  BY <1>1, Facts DEF OneHolder
<1>3. \A u \in Tab : ~Rotates(job[u])
  BY <1>1, <1>2 DEF Rotates, Persisting, Holding
<1>4. job[t].sent \in Refresh /\ Public(job[t].sent.grant) /\ Latest(job[t].sent)
  BY <1>1 DEF ShapeOf, TabOf
<1>5. ~(job[Login].pc # "idle" /\ job[t].sent.grant = sso.issued)
  BY <1>4, Facts DEF Public, Grant
<1> QED BY <1>2, <1>3, <1>4, <1>5, Facts DEF RowLatest, Renewing

LEMMA CallsLatest ==
  ASSUME LatestInv, NEW t \in Tab, getValidAccessToken(t)
  PROVE  Rotations'
<1> DEFINE J == [job[t] EXCEPT !.pc = "queued"]
<1>1. job[t] \in JobRecord /\ job[t].pc = "idle" /\ t \in Job /\ t # Login
  BY Facts DEF getValidAccessToken
<1>2. J \in JobRecord /\ J.pc = "queued"
  BY <1>1 DEF JobRecord, Phase
<1>3. job' = [job EXCEPT ![t] = J] /\ UNCHANGED <<token, sso>>
  BY DEF getValidAccessToken
<1>4. TabOf(J) /\ ~Holding(J) /\ ~Rotates(job[t])
  BY <1>1, <1>2 DEF TabOf, Holding, Rotates, Persisting, Storing
<1> HIDE DEF J
<1> QED BY <1>1, <1>2, <1>3, <1>4, Quiet

(* The lock is what makes the row's token the latest when it is sent.       *)
LEMMA GrantedLatest ==
  ASSUME WebLocks, LatestInv, NEW t \in Tab, Granted(t)
  PROVE  Rotations'
<1>1. job[t] \in JobRecord /\ job[t].pc = "queued" /\ t \in Job /\ t # Login
  BY Facts DEF Granted
<1>2. \A u \in Tab : ~Holding(job[u])
  BY DEF Granted, withRefreshLock, HoldsLock, Holding
<1>3. UNCHANGED <<token, sso>> /\ ~Rotates(job[t])
  BY <1>1 DEF Granted, Rotates, Persisting
<1>4. CASE job' = [job EXCEPT ![t] = Idle]
  BY <1>1, <1>3, <1>4, IdleGood, Facts, Quiet
<1>5. CASE /\ token # Null
           /\ job' = [job EXCEPT ![t].pc = "sent", ![t].sent = token.refresh]
  <2> DEFINE J == [job[t] EXCEPT !.pc = "sent", !.sent = token.refresh]
  <2>1. J \in JobRecord /\ J.pc = "sent" /\ J.sent = token.refresh
    BY <1>1, <1>5, Facts DEF JobRecord, Phase
  <2>2. ~Renewing(token.refresh.grant)
    BY <1>2 DEF Renewing, Rotates, Persisting, Holding
  <2>3. Public(token.refresh.grant) /\ Latest(token.refresh)
    BY <1>5, <2>2, Facts DEF RowLatest
  <2>4. TabOf(J)
    BY <2>1, <2>3 DEF TabOf, Persisting, Storing, Rotates
  <2>5. job' = [job EXCEPT ![t] = J]
    BY <1>5
  <2> HIDE DEF J
  <2> QED BY <1>1, <1>2, <1>3, <2>1, <2>4, <2>5, Quiet
<1> QED BY <1>4, <1>5 DEF Granted

(* EVE rotates, or not, the grant that a tab alone has sent.                *)
LEMMA Rotating ==
  ASSUME LatestInv, NEW t \in Tab, job[t].pc = "sent",
         \A k \in Job \ {t} : job'[k] = job[k], token' = token,
         sso'.issued = sso.issued,
         \A g \in Grant \ {job[t].sent.grant} : /\ sso'.newest[g] = sso.newest[g]
                                                /\ sso'.strayed[g] = sso.strayed[g],
         TabOf(job[t])',
         \/ Rotates(job'[t]) /\ job'[t].answer.grant = job[t].sent.grant
         \/ sso'.strayed[job[t].sent.grant]
         \/ /\ sso'.newest[job[t].sent.grant] = sso.newest[job[t].sent.grant]
            /\ sso'.strayed[job[t].sent.grant] = sso.strayed[job[t].sent.grant]
  PROVE  Rotations'
<1> DEFINE g0 == job[t].sent.grant
<1>1. /\ \A k \in Job \ {t} : job'[k] = job[k]
      /\ job'[Login] = job[Login]
  BY Facts
<1>2. /\ g0 \in Grant /\ g0 <= sso.issued /\ sso.issued \in Grant
      /\ job[Login].pc # "idle" => g0 # sso.issued
      /\ \A u \in Tab \ {t} : ~Holding(job[u])
  BY Alone, Facts DEF Public, Refresh, Grant
<1>3. OneHolder'
  BY <1>1, <1>2, Facts DEF OneHolder
<1>4. Unissued'
  BY <1>2, Facts DEF Unissued, Grant
<1>5. LoginOf(job[Login])'
  BY <1>1, <1>2, Facts DEF LoginOf
<1>6. ASSUME NEW u \in Tab PROVE TabOf(job[u])'
  <2>1. CASE u = t
    BY <2>1
  <2>2. CASE u # t
    BY <1>1, <1>2, <2>2, Facts DEF TabOf, Holding, Persisting, Storing, Rotates
  <2> QED BY <2>1, <2>2
<1>7. RowLatest'
  <2> SUFFICES ASSUME token # Null
               PROVE  /\ Public(token.refresh.grant)'
                      /\ Latest(token.refresh)' \/ Renewing(token.refresh.grant)'
    BY DEF RowLatest
  <2>1. /\ Public(token.refresh.grant) /\ Latest(token.refresh)
        /\ token.refresh.grant \in Grant
    BY Alone, Facts DEF Refresh
  <2>2. Public(token.refresh.grant)'
    BY <1>1, <2>1 DEF Public
  <2>3. Latest(token.refresh)' \/ Renewing(token.refresh.grant)'
    <3>1. CASE token.refresh.grant # g0
      BY <2>1, <3>1 DEF Latest
    <3>2. CASE token.refresh.grant = g0
      <4>1. CASE Rotates(job'[t]) /\ job'[t].answer.grant = g0
        BY <3>2, <4>1 DEF Renewing, Rotates
      <4> QED BY <2>1, <3>2, <4>1 DEF Latest
    <3> QED BY <3>1, <3>2
  <2> QED BY <2>2, <2>3
<1> QED BY <1>3, <1>4, <1>5, <1>6, <1>7 DEF Rotations

LEMMA RefreshAnsweredLatest ==
  ASSUME LatestInv, NEW t \in Tab, RefreshAnswered(t)
  PROVE  Rotations'
<1> DEFINE g == job[t].sent.grant
<1>1. /\ job[t].pc = "sent" /\ job[t] \in JobRecord /\ g \in Grant /\ t \in Job
      /\ Public(g) /\ Latest(job[t].sent)
  BY Alone, Facts DEF RefreshAnswered, Refresh
<1>2. PICK rotates \in BOOLEAN :
         /\ Newest(g, rotates) <= MaxVersion
         /\ sso' = [sso EXCEPT !.newest[g] = Newest(g, rotates)]
         /\ job' = [job EXCEPT ![t].pc = "answered", ![t].answer = Rotated(g, rotates)]
  BY DEF RefreshAnswered
<1>3. token' = token /\ \A k \in Job \ {t} : job'[k] = job[k]
  BY <1>2, Facts DEF RefreshAnswered
<1>4. /\ job'[t].pc = "answered" /\ job'[t].answer = Rotated(g, rotates)
      /\ job'[t].answer.grant = g
  BY <1>1, <1>2, Facts DEF JobRecord, Rotated
<1>5. /\ sso'.issued = sso.issued /\ sso'.strayed = sso.strayed
      /\ sso'.newest[g] = Newest(g, rotates)
      /\ \A h \in Grant \ {g} : sso'.newest[h] = sso.newest[h]
  BY <1>1, <1>2, Facts
<1>7. TabOf(job[t])'
  <2>1. Rotates(job'[t]) => job'[t].answer.version = sso'.newest[g]
    BY <1>4, <1>5 DEF Rotates, Rotated, Newest
  <2> QED BY <1>1, <1>3, <1>4, <1>5, <2>1, Facts DEF TabOf, Public, Latest, Rotates, Storing
<1>8. \/ Rotates(job'[t])
      \/ sso'.newest[g] = sso.newest[g]
  <2>1. CASE rotates
    <3>1. job'[t].answer.version = sso.newest[g] + 1 /\ sso.newest[g] \in Nat
      BY <1>1, <1>4, <2>1, Facts DEF Rotated
    <3> QED BY <1>4, <3>1, TokenRefreshAssumptions DEF Rotates, Persisting
  <2>2. CASE ~rotates
    BY <1>5, <2>2 DEF Newest
  <2> QED BY <2>1, <2>2
<1> QED BY <1>1, <1>3, <1>4, <1>5, <1>7, <1>8, Rotating

LEMMA RefreshRefusedLatest ==
  ASSUME LatestInv, NEW t \in Tab, RefreshRefused(t)
  PROVE  Rotations'
<1>1. /\ t \in Job /\ t # Login /\ ~Rotates(job[t])
      /\ job' = [job EXCEPT ![t] = Idle] /\ UNCHANGED <<token, sso>>
  BY Facts DEF RefreshRefused, Rotates, Persisting
<1> QED BY <1>1, IdleGood, Facts, Quiet

LEMMA RefreshLostLatest ==
  ASSUME LatestInv, NEW t \in Tab, RefreshLost(t)
  PROVE  Rotations'
<1> DEFINE g == job[t].sent.grant
<1>1. job[t].pc = "sent" /\ g \in Grant /\ t \in Job
  BY Alone, Facts DEF RefreshLost, Refresh
<1>2. PICK rotates \in BOOLEAN :
         sso' = [sso EXCEPT !.newest[g] = Newest(g, rotates), !.strayed[g] = @ \/ rotates]
  BY DEF RefreshLost
<1>3. job' = [job EXCEPT ![t] = Idle] /\ token' = token
  BY DEF RefreshLost
<1>4. job'[t] = Idle /\ \A k \in Job \ {t} : job'[k] = job[k]
  BY <1>1, <1>3, Facts
<1>5. /\ sso'.issued = sso.issued
      /\ sso'.newest = [sso.newest EXCEPT ![g] = Newest(g, rotates)]
      /\ sso'.strayed = [sso.strayed EXCEPT ![g] = @ \/ rotates]
  BY <1>2, Facts
<1>6. \A h \in Grant \ {g} : sso'.newest[h] = sso.newest[h] /\ sso'.strayed[h] = sso.strayed[h]
  BY <1>5, Facts
<1>7. \/ sso'.strayed[g]
      \/ sso'.newest[g] = sso.newest[g] /\ sso'.strayed[g] = sso.strayed[g]
  <2>1. CASE rotates
    BY <1>1, <1>5, <2>1, Facts
  <2>2. CASE ~rotates
    BY <1>1, <1>5, <2>2, Facts DEF Newest
  <2> QED BY <2>1, <2>2
<1>8. TabOf(job[t])'
  BY <1>4 DEF TabOf, Idle, Persisting, Storing, Rotates
<1> QED BY <1>1, <1>3, <1>4, <1>5, <1>6, <1>7, <1>8, Rotating

(* A login's grant is new, so nobody has a token of it.                     *)
LEMMA completeLoginLatest ==
  ASSUME LatestInv, completeLogin
  PROVE  Rotations'
<1> DEFINE g == sso.issued + 1
<1>1. /\ job[Login].pc = "idle" /\ g \in Grant
      /\ sso'.issued = g /\ sso'.newest = sso.newest /\ sso'.strayed = sso.strayed
      /\ token' = token
      /\ job' = [job EXCEPT ![Login].pc = "answered",
                            ![Login].answer = [grant |-> g, version |-> 1]]
  BY Facts, TokenRefreshAssumptions DEF completeLogin, Grant
<1>2. /\ job'[Login].pc = "answered"
      /\ job'[Login].answer = [grant |-> g, version |-> 1]
      /\ \A t \in Tab : job'[t] = job[t]
  BY <1>1, Facts DEF JobRecord
<1>3. OneHolder'
  BY <1>2, Facts DEF OneHolder
<1>4. Unissued'
  BY <1>1, Facts DEF Unissued, Grant
<1>5. sso.newest[g] = 1
  BY <1>1, Facts DEF Unissued, Grant
<1>6. LoginOf(job[Login])'
  BY <1>1, <1>2, <1>5 DEF LoginOf, Storing
<1>7. ASSUME NEW h \in Grant, Public(h) PROVE h < sso'.issued
  BY <1>1, <1>7, Facts DEF Public, Grant
<1>8. ASSUME NEW t \in Tab PROVE TabOf(job[t])'
  <2>1. TabOf(job[t]) /\ ShapeOf(job[t]) /\ job'[t] = job[t]
    BY <1>2, Facts
  <2>2. /\ Persisting(job[t]) => job[t].answer.grant \in Grant
        /\ job[t].pc = "sent" => job[t].sent.grant \in Grant
        /\ Storing(job[t]) => job[t].store.grant \in Grant
    BY <2>1 DEF ShapeOf, Tokens, Refresh
  <2> QED BY <1>1, <1>7, <2>1, <2>2 DEF TabOf, Public, Latest, Rotates
<1>9. RowLatest'
  <2> SUFFICES ASSUME token # Null
               PROVE  /\ Public(token.refresh.grant)'
                      /\ Latest(token.refresh)' \/ Renewing(token.refresh.grant)'
    BY <1>1 DEF RowLatest
  <2>1. token.refresh.grant \in Grant /\ Public(token.refresh.grant)
    BY Facts DEF RowLatest, Refresh
  <2>2. Public(token.refresh.grant)'
    BY <1>1, <1>7, <2>1 DEF Public
  <2>3. Latest(token.refresh) \/ Renewing(token.refresh.grant)
    BY Facts DEF RowLatest
  <2>4. Latest(token.refresh)' \/ Renewing(token.refresh.grant)'
    BY <1>1, <1>2, <2>3 DEF Latest, Renewing
  <2> QED BY <2>2, <2>4
<1> QED BY <1>3, <1>4, <1>6, <1>8, <1>9 DEF Rotations

LEMMA ReadCharacterLatest ==
  ASSUME LatestInv, NEW j \in Job, ReadCharacter(j)
  PROVE  Rotations'
<1> DEFINE J == [job[j] EXCEPT !.pc = "seen", !.existing = known]
<1>1. job[j] \in JobRecord /\ job[j].pc = "answered" /\ known \in BOOLEAN
  BY Facts DEF ReadCharacter, Typed, TypeOK
<1>2. J \in JobRecord /\ J.pc = "seen" /\ J.answer = job[j].answer
  BY <1>1 DEF JobRecord, Phase
<1>3. job' = [job EXCEPT ![j] = J] /\ UNCHANGED <<token, sso>>
  BY DEF ReadCharacter
<1>4. /\ Persisting(J) /\ Persisting(job[j]) /\ ~Storing(J)
      /\ Holding(job[j])
  BY <1>1, <1>2 DEF Persisting, Storing, Holding
<1>5. j \in Tab => TabOf(J) /\ (Rotates(job[j]) => Rotates(J))
  BY <1>2, <1>4, Facts DEF TabOf, Rotates
<1>6. j = Login => LoginOf(J) /\ job[Login].pc # "idle"
  BY <1>1, <1>2, <1>4, Facts DEF LoginOf
<1> HIDE DEF J
<1> QED BY <1>2, <1>3, <1>4, <1>5, <1>6, Quiet

(* With no new refresh token the row's is kept, and under the lock that is  *)
(* the latest.                                                              *)
LEMMA ReadTokenLatest ==
  ASSUME LatestInv, NEW j \in Job, ReadToken(j)
  PROVE  Rotations'
<1> DEFINE r == refreshTokenToStore(j)
           J == [job[j] EXCEPT !.pc = "checked", !.store = r]
<1>1. /\ job[j] \in JobRecord /\ job[j].pc = "seen" /\ job[j].answer \in Tokens
      /\ Persisting(job[j]) /\ Holding(job[j])
  BY Facts DEF ReadToken, ShapeOf, Persisting, Holding
<1>2. UNCHANGED <<token, sso>> /\ r \in Refresh \cup {Null}
  BY StoreTyped, Facts, <1>1 DEF ReadToken
<1>3. Rotates(job[j]) => r = job[j].answer /\ r # Null
  <2>1. Rotates(job[j]) => job[j].answer \in Refresh
    BY <1>1 DEF Rotates, Tokens, Refresh
  <2> QED BY <2>1, TokenRefreshAssumptions DEF Rotates, refreshTokenToStore
<1>4. CASE r = Null
  <2>1. job' = [job EXCEPT ![j] = Idle] /\ ~Rotates(job[j])
    BY <1>3, <1>4 DEF ReadToken
  <2>2. j = Login => job[Login].pc # "idle"
    BY <1>1
  <2> QED BY <1>2, <2>1, <2>2, IdleGood, Facts, Quiet
<1>5. CASE r # Null
  <2>1. r \in Refresh
    BY <1>2, <1>5
  <2>2. /\ J \in JobRecord /\ J.pc = "checked" /\ J.answer = job[j].answer
        /\ J.store = r
    BY <1>1, <2>1 DEF JobRecord, Phase
  <2>3. Persisting(J) /\ Storing(J) /\ (Rotates(J) <=> Rotates(job[j]))
    BY <1>1, <2>2 DEF Persisting, Storing, Rotates
  <2>4. job' = [job EXCEPT ![j] = J]
    BY <1>5 DEF ReadToken
  <2>5. ASSUME j \in Tab PROVE TabOf(J)
    <3>1. TabOf(job[j])
      BY <2>5, Facts
    <3>2. CASE Rotates(job[j])
      BY <1>1, <1>3, <2>2, <2>3, <3>1, <3>2 DEF TabOf
    <3>3. CASE ~Rotates(job[j])
      <4>1. r = token.refresh /\ token # Null
        BY <1>1, <1>5, <3>3 DEF Rotates, refreshTokenToStore
      <4>2. ~Renewing(token.refresh.grant)
        BY <1>1, <2>5, <3>3, Facts DEF Renewing, OneHolder, Rotates, Persisting, Holding
      <4>3. Public(r.grant) /\ Latest(r)
        BY <4>1, <4>2, Facts DEF RowLatest
      <4> QED BY <1>1, <2>2, <2>3, <3>1, <3>3, <4>3 DEF TabOf
    <3> QED BY <3>2, <3>3
  <2>6. j = Login => LoginOf(J) /\ job[Login].pc # "idle"
    <3>1. j = Login => Rotates(job[j])
      BY <1>1, TokenRefreshAssumptions, Facts DEF LoginOf, Rotates
    <3> QED BY <1>1, <1>3, <2>2, <3>1, Facts DEF LoginOf
  <2> HIDE DEF J
  <2> QED BY <1>1, <1>2, <2>2, <2>3, <2>4, <2>5, <2>6, Quiet
<1> QED BY <1>4, <1>5

LEMMA PutCharacterLatest ==
  ASSUME LatestInv, NEW j \in Job, PutCharacter(j)
  PROVE  Rotations'
<1> DEFINE J == [job[j] EXCEPT !.pc = "putting"]
<1>1. job[j] \in JobRecord /\ job[j].pc = "checked"
  BY Facts DEF PutCharacter
<1>2. /\ J \in JobRecord /\ J.pc = "putting" /\ J.answer = job[j].answer
      /\ J.store = job[j].store
  BY <1>1 DEF JobRecord, Phase
<1>3. job' = [job EXCEPT ![j] = J] /\ UNCHANGED <<token, sso>>
  BY DEF PutCharacter
<1>4. /\ Persisting(J) /\ Persisting(job[j]) /\ Storing(J) /\ Storing(job[j])
      /\ Holding(job[j])
  BY <1>1, <1>2 DEF Persisting, Storing, Holding
<1>5. j \in Tab => TabOf(J) /\ (Rotates(job[j]) => Rotates(J))
  BY <1>2, <1>4, Facts DEF TabOf, Rotates
<1>6. j = Login => LoginOf(J) /\ job[Login].pc # "idle"
  BY <1>1, <1>2, <1>4, Facts DEF LoginOf
<1> HIDE DEF J
<1> QED BY <1>2, <1>3, <1>4, <1>5, <1>6, Quiet

(* A job that ends leaves the others as they were.                          *)
LEMMA Ending ==
  ASSUME LatestInv, NEW j \in Job, job' = [job EXCEPT ![j] = Idle],
         sso'.issued = sso.issued
  PROVE  /\ \A g : Public(g) => \/ g < sso'.issued
                                \/ g = sso'.issued /\ job'[Login].pc = "idle"
         /\ \A k \in Job \ {j} : job'[k] = job[k]
         /\ job'[j] = Idle
         /\ OneHolder'
BY Facts, IdleGood DEF Public, OneHolder, Idle, Holding

LEMMA PutTokenLatest ==
  ASSUME LatestInv, NEW j \in Job, PutToken(j)
  PROVE  Rotations'
<1>1. /\ job' = [job EXCEPT ![j] = Idle] /\ sso' = sso
      /\ token' = [refresh |-> job[j].store, fresh |-> TRUE]
      /\ job[j].pc = "putting" /\ Storing(job[j]) /\ Persisting(job[j])
  BY DEF PutToken, Finally, Storing, Persisting
<1>2. /\ \A g : Public(g) => \/ g < sso'.issued
                             \/ g = sso'.issued /\ job'[Login].pc = "idle"
      /\ \A k \in Job \ {j} : job'[k] = job[k]
      /\ job'[j] = Idle
      /\ OneHolder'
  BY <1>1, Ending
<1>3. Unissued'
  BY <1>1, Facts DEF Unissued
<1>4. LoginOf(job[Login])'
  BY <1>1, <1>2, Facts DEF LoginOf, Idle
<1>5. ASSUME NEW t \in Tab PROVE TabOf(job[t])'
  <2>1. CASE t = j
    BY <1>2, <2>1 DEF TabOf, Idle, Persisting, Storing, Rotates
  <2>2. CASE t # j
    BY <1>1, <1>2, <2>2, Facts DEF TabOf, Public, Latest, Rotates
  <2> QED BY <2>1, <2>2
<1>6. \/ job[j].store.grant < sso.issued
      \/ job[j].store.grant = sso.issued /\ job'[Login].pc = "idle"
  <2>1. CASE j \in Tab
    BY <1>1, <1>2, <2>1, Facts DEF TabOf
  <2>2. CASE j = Login
    BY <1>1, <1>2, <2>2, Facts DEF LoginOf, Idle
  <2> QED BY <2>1, <2>2 DEF Job
<1>7. Latest(job[j].store)
  <2>1. CASE j \in Tab
    BY <1>1, <2>1, Facts DEF TabOf
  <2>2. CASE j = Login
    BY <1>1, <2>2, Facts DEF LoginOf, Latest
  <2> QED BY <2>1, <2>2 DEF Job
<1>8. RowLatest'
  BY <1>1, <1>6, <1>7 DEF RowLatest, Public, Latest
<1> QED BY <1>2, <1>3, <1>4, <1>5, <1>8 DEF Rotations

(* Whoever is cut off with a rotation in hand loses it for the row.         *)
LEMMA InterruptedLatest ==
  ASSUME LatestInv, NEW j \in Job, Interrupted(j)
  PROVE  Rotations'
<1> DEFINE g0 == job[j].sent.grant
           g1 == job[j].answer.grant
<1>1. /\ job' = [job EXCEPT ![j] = Idle] /\ token' = token
      /\ ShapeOf(job[j])
  BY Facts DEF Interrupted
<1>2. PICK rotates \in BOOLEAN :
         /\ rotates => job[j].pc = "sent"
         /\ sso' = IF rotates
                   THEN [sso EXCEPT !.newest[g0] = @ + 1, !.strayed[g0] = TRUE]
                   ELSE IF Rotation(j)
                   THEN [sso EXCEPT !.strayed[g1] = TRUE]
                   ELSE sso
  BY DEF Interrupted
<1>3. rotates => /\ j \in Tab /\ g0 \in Grant
                 /\ g0 < sso.issued \/ (g0 = sso.issued /\ job[Login].pc = "idle")
  <2> SUFFICES ASSUME rotates
               PROVE  /\ j \in Tab /\ g0 \in Grant
                      /\ g0 < sso.issued \/ (g0 = sso.issued /\ job[Login].pc = "idle")
    OBVIOUS
  <2>1. job[j].pc = "sent"
    BY <1>2
  <2>2. j \in Tab
    BY <2>1, Facts DEF LoginOf, Job
  <2> QED BY <2>1, <2>2, Alone DEF Public, Refresh
<1>4. Rotates(job[j]) => Rotation(j) /\ ~rotates /\ g1 \in Grant
  <2>1. Rotates(job[j]) => job[j].answer \in Refresh
    BY <1>1 DEF ShapeOf, Rotates, Tokens, Refresh
  <2>2. Rotates(job[j]) => ~rotates
    BY <1>2 DEF Rotates, Persisting
  <2> QED BY <2>1, <2>2, TokenRefreshAssumptions DEF Rotates, Rotation, Refresh
<1>5. /\ sso'.issued = sso.issued
      /\ \A g \in Grant : /\ sso.strayed[g] => sso'.strayed[g]
                          /\ sso'.newest[g] # sso.newest[g] => sso'.strayed[g] /\ rotates /\ g = g0
      /\ Rotates(job[j]) => sso'.strayed[g1]
  <2>1. CASE rotates
    BY <1>2, <1>3, <1>4, <2>1, Facts
  <2>2. CASE ~rotates /\ Rotation(j)
    BY <1>2, <1>4, <2>2, Facts
  <2>3. CASE ~rotates /\ ~Rotation(j)
    BY <1>2, <1>4, <2>3, Facts
  <2> QED BY <2>1, <2>2, <2>3
<1>6. /\ \A g : Public(g) => \/ g < sso'.issued
                             \/ g = sso'.issued /\ job'[Login].pc = "idle"
      /\ \A k \in Job \ {j} : job'[k] = job[k]
      /\ job'[j] = Idle
      /\ OneHolder'
  BY <1>1, <1>5, Ending
<1>7. \A r \in Refresh : Latest(r) => \/ sso'.strayed[r.grant]
                                      \/ r.version = sso'.newest[r.grant]
  BY <1>5 DEF Latest, Refresh
<1>8. Unissued'
  BY <1>3, <1>5, Facts DEF Unissued, Grant
<1>9. LoginOf(job[Login])'
  <2>1. CASE j = Login
    BY <1>6, <2>1 DEF LoginOf, Idle
  <2>2. CASE j # Login
    BY <1>3, <1>5, <1>6, <2>2, Facts DEF LoginOf, Grant
  <2> QED BY <2>1, <2>2
<1>10. ASSUME NEW t \in Tab PROVE TabOf(job[t])'
  <2>1. CASE t = j
    BY <1>6, <2>1 DEF TabOf, Idle, Persisting, Storing, Rotates
  <2>2. CASE t # j
    <3>1. TabOf(job[t]) /\ ShapeOf(job[t]) /\ job'[t] = job[t]
      BY <1>6, <2>2, Facts
    <3>2. /\ job[t].pc = "sent" => job[t].sent \in Refresh
          /\ Rotates(job[t]) => job[t].answer \in Refresh
          /\ Storing(job[t]) => job[t].store \in Refresh
      BY <3>1 DEF ShapeOf, Rotates, Tokens, Refresh
    <3> QED BY <1>6, <1>7, <3>1, <3>2 DEF TabOf, Public, Latest, Rotates
  <2> QED BY <2>1, <2>2
<1>11. RowLatest'
  <2> SUFFICES ASSUME token # Null
               PROVE  /\ Public(token.refresh.grant)'
                      /\ Latest(token.refresh)' \/ Renewing(token.refresh.grant)'
    BY <1>1 DEF RowLatest
  <2>1. token.refresh \in Refresh /\ Public(token.refresh.grant)
    BY Facts DEF RowLatest
  <2>2. Public(token.refresh.grant)'
    BY <1>1, <1>6, <2>1 DEF Public
  <2>3. CASE Latest(token.refresh)
    BY <1>1, <1>7, <2>1, <2>2, <2>3 DEF Latest
  <2>4. CASE Renewing(token.refresh.grant)
    <3>1. PICK t \in Tab : Rotates(job[t]) /\ job[t].answer.grant = token.refresh.grant
      BY <2>4 DEF Renewing
    <3>2. CASE t = j
      BY <1>1, <1>5, <2>2, <3>1, <3>2 DEF Latest
    <3>3. CASE t # j
      <4>1. job'[t] = job[t]
        BY <1>6, <3>3, Facts
      <4> QED BY <1>1, <2>2, <3>1, <4>1 DEF Renewing, Rotates
    <3> QED BY <3>2, <3>3
  <2> QED BY <2>3, <2>4, Facts DEF RowLatest
<1> QED BY <1>6, <1>8, <1>9, <1>10, <1>11 DEF Rotations

LEMMA removeCharacterLatest ==
  ASSUME LatestInv, removeCharacter
  PROVE  Rotations'
<1>1. /\ token' = Null /\ sso' = sso
      /\ \A j \in Job : \/ job'[j] = job[j]
                        \/ job'[j] = [job[j] EXCEPT !.crossed = TRUE]
  BY DEF removeCharacter
<1>2. \A j \in Job : /\ job'[j].pc = job[j].pc /\ job'[j].sent = job[j].sent
                     /\ job'[j].answer = job[j].answer /\ job'[j].store = job[j].store
  BY <1>1, Facts DEF JobRecord
<1>3. OneHolder' /\ Unissued' /\ RowLatest'
  BY <1>1, <1>2, Facts DEF OneHolder, Holding, Unissued, RowLatest
<1>4. LoginOf(job[Login])'
  BY <1>1, <1>2, Facts DEF LoginOf, Storing
<1>5. ASSUME NEW t \in Tab PROVE TabOf(job[t])'
  BY <1>1, <1>2, Facts DEF TabOf, Public, Latest, Rotates, Persisting, Storing
<1> QED BY <1>3, <1>4, <1>5 DEF Rotations

(* Time and the user's withdrawal leave the tokens where they are.          *)
LEMMA OthersLatest ==
  ASSUME LatestInv, Expire \/ Revoke \/ UNCHANGED vars
  PROVE  Rotations'
<1>1. /\ job' = job
      /\ sso'.issued = sso.issued /\ sso'.newest = sso.newest /\ sso'.strayed = sso.strayed
      /\ (token' = Null <=> token = Null)
      /\ token # Null => token'.refresh = token.refresh
  <2>1. CASE Expire
    <3>1. token \in Row /\ token' = [token EXCEPT !.fresh = FALSE]
      BY <2>1, Facts DEF Expire, Typed, TypeOK
    <3>2. token' \in Row /\ token'.refresh = token.refresh
      BY <3>1 DEF Row
    <3> QED BY <2>1, <3>1, <3>2, TokenRefreshAssumptions DEF Expire
  <2>2. CASE Revoke
    BY <2>2, Facts DEF Revoke
  <2>3. CASE UNCHANGED vars
    BY <2>3 DEF vars
  <2> QED BY <2>1, <2>2, <2>3
<1>2. OneHolder' /\ Unissued' /\ LoginOf(job[Login])'
  BY <1>1, Facts DEF OneHolder, Unissued, LoginOf
<1>3. ASSUME NEW t \in Tab PROVE TabOf(job[t])'
  BY <1>1, Facts DEF TabOf, Public, Latest, Rotates
<1>4. RowLatest'
  BY <1>1, Facts DEF RowLatest, Public, Latest, Renewing, Rotates
<1> QED BY <1>2, <1>3, <1>4 DEF Rotations

LEMMA LatestStep == WebLocks /\ LatestInv /\ [Next]_vars => LatestInv'
<1> SUFFICES ASSUME WebLocks, LatestInv, [Next]_vars PROVE Rotations'
  BY TypedStep, Facts DEF LatestInv
<1> QED
  BY CallsLatest, GrantedLatest, RefreshAnsweredLatest, RefreshRefusedLatest,
     RefreshLostLatest, completeLoginLatest, ReadCharacterLatest, ReadTokenLatest,
     PutCharacterLatest, PutTokenLatest, InterruptedLatest, removeCharacterLatest,
     OthersLatest
  DEF Next, Refreshes, Persists

(* With Web Locks, for any number of tabs, logins and rotations, and        *)
(* whether or not EVE lets an old token go on working: "invalid_grant"      *)
(* comes only for a grant that the user withdrew or whose last rotation     *)
(* never reached the row.                                                   *)
THEOREM RefusalsCorrect == WebLocks => (Spec => []OnlyDeadGrantsRefused)
<1> SUFFICES ASSUME WebLocks PROVE Spec => []OnlyDeadGrantsRefused
  OBVIOUS
<1>1. LatestInv /\ [Next]_vars => LatestInv'
  BY LatestStep
<1>2. LatestInv => OnlyDeadGrantsRefused
  <2> SUFFICES ASSUME LatestInv, NEW t \in Tab, job[t].pc = "sent",
                      sso.alive[job[t].sent.grant], ~sso.strayed[job[t].sent.grant]
               PROVE  Accepts(job[t].sent)
    BY DEF OnlyDeadGrantsRefused
  <2> QED BY Alone DEF Latest, Accepts
<1> QED BY LatestInit, <1>1, <1>2, PTL DEF Spec
=============================================================================
