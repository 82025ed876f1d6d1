--------------------------- MODULE TabLeaderProofs ---------------------------
(***************************************************************************)
(* What the tab_leader run checks for two tabs, proved for any number of    *)
(* tabs, seats, requests and changes: every safety property of TabLeader.   *)
(***************************************************************************)
EXTENDS TabLeader, SequenceTheorems, FiniteSetTheorems, TLAPS

-----------------------------------------------------------------------------
(***************************************************************************)
(* The invariant.  The operators take the election, the seats and who is    *)
(* visible as arguments, because a handler changes the election in several  *)
(* calls, before or after the tab's own state is what it will be.           *)
(***************************************************************************)

(* The election as the lock manager and the tabs see it; the queue holds a  *)
(* request once.                                                            *)
Election == [holder : Request \cup {None}, queue : Seq(Request),
             phase : [Request -> Phase], kind : [Request -> Kind],
             current : [Tab -> Request \cup {None}], leads : [Tab -> BOOLEAN]]

(* Whose callback runs, or may still run, with the lock.                    *)
Owning == {"granted", "held", "returning"}

(* Whatever has the lock is its one holder.                                 *)
LockOf(e) ==
    /\ e.holder # None => e.phase[e.holder] \in Owning
    /\ \A r \in Request : e.phase[r] \in Owning => e.holder = r

(* What is queued waits once, as the live request of a visible tab.         *)
QueueOf(e, V) ==
    /\ \A i, j \in DOMAIN e.queue : e.queue[i] = e.queue[j] => i = j
    /\ \A i \in DOMAIN e.queue :
        LET r == e.queue[i] IN
        /\ e.phase[r] = "queued" /\ e.kind[r] = "queue"
        /\ e.current[TabOf(r)] = r /\ V[TabOf(r)]

(* A live request is its tab's own, not yet over, and wanted: the tab has a *)
(* seat and, for the sweep, is visible.                                     *)
LiveOf(e, S, V, K, t) ==
    e.current[t] # None =>
        /\ TabOf(e.current[t]) = t
        /\ e.phase[e.current[t]] \notin {"free", "returning"}
        /\ S[t] > 0
        /\ K \/ V[t]

(* A tab leads exactly with the lock its callback took, or a stolen one.    *)
LeadOf(e) ==
    /\ \A t \in Tab : e.leads[t] =>
        e.current[t] # None /\ e.phase[e.current[t]] \in {"held", "stolen"}
    /\ \A r \in Request : e.phase[r] = "held" =>
        e.current[TabOf(r)] = r /\ e.leads[TabOf(r)]

Sound(e, S, V, K) ==
    /\ e \in Election
    /\ LockOf(e) /\ QueueOf(e, V) /\ LeadOf(e)
    /\ \A t \in Tab : LiveOf(e, S, V, K, t)

(* A tab has a slot free for every answer it still waits for.               *)
Spare(e, a) == \A t \in Tab : Cardinality(FreeSlots(e, t)) >= Len(a[t])

Answers == {"sent", "waiter", "nobody"}

(* TypeOK, with the sequences as sequences.                                 *)
Typed ==
    /\ keepWhileHidden \in BOOLEAN
    /\ seats \in [Tab -> 0..MaxSeats]
    /\ visible \in [Tab -> BOOLEAN] /\ paged \in [Tab -> BOOLEAN]
    /\ asks \in [Tab -> Seq(Answers)]
    /\ changes \in 0..MaxChanges

IInv ==
    /\ Typed
    /\ Sound(election, seats, visible, keepWhileHidden)
    /\ Spare(election, asks)

-----------------------------------------------------------------------------
(***************************************************************************)
(* Request slots.                                                           *)
(***************************************************************************)

LEMMA Requests ==
  /\ \A r \in Request : TabOf(r) \in Tab
  /\ None \notin Request
  /\ \A r \in Request : r # None
BY TabLeaderAssumptions DEF Request, TabOf

LEMMA SlotsFinite ==
  ASSUME NEW e, NEW t \in Tab
  PROVE  IsFiniteSet(FreeSlots(e, t)) /\ Cardinality(FreeSlots(e, t)) \in Nat
<1>1. IsFiniteSet({t} \X (1..Slots))
  <2>1. IsFiniteSet({t})
    BY FS_Singleton
  <2>2. IsFiniteSet(1..Slots)
    BY FS_Interval, TabLeaderAssumptions
  <2> QED BY <2>1, <2>2, FS_Product
<1>2. FreeSlots(e, t) \subseteq {t} \X (1..Slots)
  BY DEF FreeSlots, Request, TabOf
<1> QED BY <1>1, <1>2, FS_Subset, FS_CardinalityType

(* A slot taken is one slot fewer.                                          *)
LEMMA SlotsLost ==
  ASSUME NEW e, NEW f, NEW t \in Tab, NEW r,
         FreeSlots(e, t) \ {r} \subseteq FreeSlots(f, t)
  PROVE  Cardinality(FreeSlots(f, t)) >= Cardinality(FreeSlots(e, t)) - 1
<1>1. IsFiniteSet(FreeSlots(e, t)) /\ Cardinality(FreeSlots(e, t)) \in Nat
      /\ IsFiniteSet(FreeSlots(f, t)) /\ Cardinality(FreeSlots(f, t)) \in Nat
  BY SlotsFinite
<1>2. /\ IsFiniteSet(FreeSlots(e, t) \ {r})
      /\ Cardinality(FreeSlots(e, t) \ {r}) >= Cardinality(FreeSlots(e, t)) - 1
  <2> DEFINE F == FreeSlots(e, t)
  <2> HIDE DEF F
  <2>1. IsFiniteSet(F) /\ Cardinality(F) \in Nat
    BY <1>1 DEF F
  <2>2. CASE r \in F
    BY <2>1, <2>2, FS_RemoveElement DEF F
  <2>3. CASE r \notin F
    <3>1. F \ {r} = F
      BY <2>3
    <3> QED BY <2>1, <3>1 DEF F
  <2> QED BY <2>2, <2>3
<1>3. Cardinality(FreeSlots(e, t) \ {r}) \in Nat
  BY <1>2, FS_CardinalityType
<1>4. Cardinality(FreeSlots(e, t) \ {r}) <= Cardinality(FreeSlots(f, t))
  BY <1>1, FS_Subset
<1> QED BY <1>1, <1>2, <1>3, <1>4

LEMMA SlotsKept ==
  ASSUME NEW e, NEW f, NEW t \in Tab,
         FreeSlots(e, t) \subseteq FreeSlots(f, t)
  PROVE  Cardinality(FreeSlots(f, t)) >= Cardinality(FreeSlots(e, t))
<1>1. IsFiniteSet(FreeSlots(f, t)) /\ Cardinality(FreeSlots(f, t)) \in Nat
      /\ Cardinality(FreeSlots(e, t)) \in Nat
  BY SlotsFinite
<1> QED BY <1>1, FS_Subset

LEMMA SlotLeft ==
  ASSUME NEW e, NEW t \in Tab, NEW n \in Nat, Cardinality(FreeSlots(e, t)) > n
  PROVE  FreeSlots(e, t) # {}
BY FS_EmptySet, SlotsFinite

-----------------------------------------------------------------------------
(***************************************************************************)
(* What request and relinquish do to an election, field by field.           *)
(***************************************************************************)

LEMMA DroppedIs ==
  ASSUME NEW q \in Seq(Request), NEW r,
         \A i, j \in DOMAIN q : q[i] = q[j] => i = j
  PROVE  LET d == Dropped(q, r) IN
         /\ d \in Seq(Request)
         /\ \A i, j \in DOMAIN d : d[i] = d[j] => i = j
         /\ \A i \in DOMAIN d : d[i] # r /\ \E j \in DOMAIN q : d[i] = q[j]
<1>1. CASE \E k \in DOMAIN q : q[k] = r
  <2> DEFINE k == CHOOSE i \in DOMAIN q : q[i] = r
  <2>0. k \in DOMAIN q /\ q[k] = r
    BY <1>1
  <2>1. k \in 1..Len(q) /\ Len(q) \in Nat /\ \A i \in 1..Len(q) : q[i] \in Request
    BY <2>0
  <2> HIDE DEF k
  <2> DEFINE s1 == SubSeq(q, 1, k - 1)
             s2 == SubSeq(q, k + 1, Len(q))
  <2>2. /\ s1 \in Seq(Request) /\ Len(s1) = k - 1
        /\ \A i \in 1..(k - 1) : s1[i] = q[i]
    <3>1. \A i \in 1..(k - 1) : q[i] \in Request
      BY <2>1
    <3> QED BY <2>1, <3>1, SubSeqProperties
  <2>3. /\ s2 \in Seq(Request) /\ Len(s2) = Len(q) - k
        /\ \A i \in 1..(Len(q) - k) : s2[i] = q[k + i]
    <3>1. \A i \in (k + 1)..Len(q) : q[i] \in Request
      BY <2>1
    <3>2. /\ s2 \in Seq(Request)
          /\ Len(s2) = IF k + 1 <= Len(q) THEN Len(q) - (k + 1) + 1 ELSE 0
          /\ \A i \in 1..(Len(q) - (k + 1) + 1) : s2[i] = q[(k + 1) + i - 1]
      BY <2>1, <3>1, SubSeqProperties
    <3>3. \A i \in 1..(Len(q) - k) : i \in 1..(Len(q) - (k + 1) + 1) /\ (k + 1) + i - 1 = k + i
      BY <2>1
    <3> QED BY <2>1, <3>2, <3>3
  <2>4. Dropped(q, r) = s1 \o s2
    BY <1>1 DEF Dropped, k
  <2> HIDE DEF s1, s2
  <2>5. /\ s1 \o s2 \in Seq(Request)
        /\ Len(s1 \o s2) = Len(s1) + Len(s2)
        /\ \A i \in 1..(Len(s1) + Len(s2)) :
              (s1 \o s2)[i] = IF i <= Len(s1) THEN s1[i] ELSE s2[i - Len(s1)]
    BY <2>2, <2>3, ConcatProperties
  <2>6. Len(s1) + Len(s2) = Len(q) - 1
    BY <2>1, <2>2, <2>3
  <2> DEFINE d == Dropped(q, r)
             at(i) == IF i < k THEN i ELSE i + 1
  <2>7. DOMAIN d = 1..(Len(q) - 1)
    BY <2>4, <2>5, <2>6
  <2>8. \A i \in DOMAIN d : at(i) \in DOMAIN q /\ at(i) # k /\ d[i] = q[at(i)]
    <3> TAKE i \in DOMAIN d
    <3>0. i \in 1..(Len(q) - 1)
      BY <2>7
    <3>1. CASE i < k
      BY <3>0, <3>1, <2>1, <2>2, <2>4, <2>5, <2>6
    <3>2. CASE ~(i < k)
      <4>1. i - Len(s1) \in 1..(Len(q) - k) /\ k + (i - Len(s1)) = i + 1 /\ ~(i <= Len(s1))
        BY <3>0, <3>2, <2>1, <2>2
      <4>2. d[i] = q[i + 1]
        BY <3>0, <3>2, <4>1, <2>3, <2>4, <2>5, <2>6
      <4> QED BY <3>0, <3>2, <4>2, <2>1
    <3> QED BY <3>1, <3>2
  <2>9. \A i, j \in DOMAIN d : at(i) = at(j) => i = j
    BY <2>7, <2>1
  <2>10. d \in Seq(Request)
    BY <2>4, <2>5
  <2> HIDE DEF d, at
  <2>11. \A i \in DOMAIN d : d[i] # r
    BY <2>0, <2>8
  <2>12. \A i, j \in DOMAIN d : d[i] = d[j] => i = j
    BY <2>8, <2>9
  <2> QED BY <2>8, <2>10, <2>11, <2>12 DEF d
<1>2. CASE ~ \E k \in DOMAIN q : q[k] = r
  BY <1>2 DEF Dropped
<1> QED BY <1>1, <1>2

(* A request takes a free slot.  It queues, or is refused, or is granted,   *)
(* if need be at the holder's expense.                                      *)
Asked(e, f, t, kind, r) ==
    /\ f \in Election
    /\ r \in Request /\ TabOf(r) = t /\ e.phase[r] = "free"
    /\ f.current = [e.current EXCEPT ![t] = r]
    /\ f.kind = [e.kind EXCEPT ![r] = kind]
    /\ f.leads = e.leads
    /\ \/ /\ kind = "queue" /\ f.holder = e.holder /\ f.queue = Append(e.queue, r)
          /\ f.phase = [e.phase EXCEPT ![r] = "queued"]
       \/ /\ kind # "queue" /\ f.holder = e.holder /\ f.queue = e.queue
          /\ f.phase = [e.phase EXCEPT ![r] = "refused"]
       \/ /\ kind # "queue" /\ e.holder = None /\ f.holder = r /\ f.queue = e.queue
          /\ f.phase = [e.phase EXCEPT ![r] = "granted"]
       \/ /\ kind # "queue" /\ e.holder # None /\ f.holder = r /\ f.queue = e.queue
          /\ f.phase = [e.phase EXCEPT ![r] = "granted", ![e.holder] = Robbed(@)]

LEMMA RobbedIs == \A p \in Phase : Robbed(p) \in {"robbed", "stolen", "free"}
BY DEF Robbed, Phase

LEMMA requestDoes ==
  ASSUME NEW e \in Election, NEW t \in Tab, NEW kind \in Kind, FreeSlots(e, t) # {}
  PROVE  \E r \in Request : Asked(e, request(e, t, kind), t, kind, r)
<1> DEFINE r == CHOOSE x \in FreeSlots(e, t) : TRUE
           f == request(e, t, kind)
<1>1. r \in Request /\ TabOf(r) = t /\ e.phase[r] = "free"
  <2>1. r \in FreeSlots(e, t)
    OBVIOUS
  <2> QED BY <2>1 DEF FreeSlots
<1>2. /\ e.holder \in Request \cup {None} /\ e.queue \in Seq(Request)
      /\ e.phase \in [Request -> Phase] /\ e.kind \in [Request -> Kind]
      /\ e.current \in [Tab -> Request \cup {None}] /\ e.leads \in [Tab -> BOOLEAN]
  BY DEF Election
<1> DEFINE e1 == [e EXCEPT !.current[t] = r, !.kind[r] = kind]
           taken == [e1 EXCEPT !.holder = r, !.phase[r] = "granted"]
<1>3. f = CASE kind = "queue" -> [e1 EXCEPT !.queue = Append(@, r), !.phase[r] = "queued"]
            [] kind = "try" /\ (e.holder # None \/ e.queue # <<>>) -> [e1 EXCEPT !.phase[r] = "refused"]
            [] kind = "steal" /\ e.holder # None -> [taken EXCEPT !.phase[e.holder] = Robbed(@)]
            [] OTHER -> taken
  BY DEF request
<1> HIDE DEF r, f
<1>4. /\ e1 \in Election
      /\ e1.current = [e.current EXCEPT ![t] = r] /\ e1.kind = [e.kind EXCEPT ![r] = kind]
      /\ e1.leads = e.leads /\ e1.holder = e.holder /\ e1.queue = e.queue /\ e1.phase = e.phase
  BY <1>1, <1>2 DEF Election
<1>5. /\ taken \in Election
      /\ taken.current = e1.current /\ taken.kind = e1.kind /\ taken.leads = e1.leads
      /\ taken.holder = r /\ taken.queue = e1.queue /\ taken.phase = [e.phase EXCEPT ![r] = "granted"]
  BY <1>1, <1>2, <1>4 DEF Election, Phase
<1> HIDE DEF e1, taken
<1>6. CASE kind = "queue"
  <2>1. f = [e1 EXCEPT !.queue = Append(@, r), !.phase[r] = "queued"]
    BY <1>3, <1>6
  <2>2. Append(e1.queue, r) \in Seq(Request) /\ "queued" \in Phase
    BY <1>1, <1>2, <1>4 DEF Phase
  <2>3. f \in Election
    BY <2>1, <2>2, <1>4 DEF Election
  <2>4. /\ f.current = e1.current /\ f.kind = e1.kind /\ f.leads = e1.leads /\ f.holder = e1.holder
        /\ f.queue = Append(e1.queue, r) /\ f.phase = [e1.phase EXCEPT ![r] = "queued"]
    BY <2>1, <1>4 DEF Election
  <2>5. Asked(e, f, t, kind, r)
    BY <2>3, <2>4, <1>1, <1>4, <1>6 DEF Asked
  <2> QED BY <2>5, <1>1 DEF f
<1>7. CASE kind = "try" /\ (e.holder # None \/ e.queue # <<>>)
  <2>1. f = [e1 EXCEPT !.phase[r] = "refused"]
    BY <1>3, <1>7
  <2>2. "refused" \in Phase
    BY DEF Phase
  <2>3. f \in Election
    BY <2>1, <2>2, <1>4 DEF Election
  <2>4. /\ f.current = e1.current /\ f.kind = e1.kind /\ f.leads = e1.leads /\ f.holder = e1.holder
        /\ f.queue = e1.queue /\ f.phase = [e1.phase EXCEPT ![r] = "refused"]
    BY <2>1, <1>4 DEF Election
  <2>5. Asked(e, f, t, kind, r)
    BY <2>3, <2>4, <1>1, <1>4, <1>7 DEF Asked
  <2> QED BY <2>5, <1>1 DEF f
<1>8. CASE kind = "steal" /\ e.holder # None
  <2>1. f = [taken EXCEPT !.phase[e.holder] = Robbed(@)]
    BY <1>3, <1>8
  <2>2. e.holder \in Request /\ Robbed(taken.phase[e.holder]) \in Phase
    <3>1. e.holder \in Request /\ taken.phase \in [Request -> Phase]
      BY <1>8, <1>5, <1>2 DEF Election
    <3>2. taken.phase[e.holder] \in Phase
      BY <3>1
    <3>3. Robbed(taken.phase[e.holder]) \in {"robbed", "stolen", "free"}
      BY <3>2, RobbedIs
    <3> QED BY <3>1, <3>3 DEF Phase
  <2> DEFINE p == [taken.phase EXCEPT ![e.holder] = Robbed(@)]
  <2>a. p \in [Request -> Phase]
    BY <2>2, <1>5 DEF Election
  <2>b. f = [taken EXCEPT !.phase = p]
    BY <2>1, <1>5 DEF Election
  <2>c. p = [e.phase EXCEPT ![r] = "granted", ![e.holder] = Robbed(@)]
    BY <1>5
  <2> HIDE DEF p
  <2>3. f \in Election
    BY <2>a, <2>b, <1>5 DEF Election
  <2>4. f.phase = [e.phase EXCEPT ![r] = "granted", ![e.holder] = Robbed(@)]
    BY <2>b, <2>c, <1>5 DEF Election
  <2>5. f.current = e1.current /\ f.kind = e1.kind /\ f.leads = e.leads /\ f.holder = r /\ f.queue = e.queue
    BY <2>b, <1>4, <1>5 DEF Election
  <2>6. Asked(e, f, t, kind, r)
    BY <2>3, <2>4, <2>5, <1>1, <1>4, <1>8 DEF Asked
  <2> QED BY <2>6, <1>1 DEF f
<1>9. CASE /\ kind # "queue"
           /\ ~(kind = "try" /\ (e.holder # None \/ e.queue # <<>>))
           /\ ~(kind = "steal" /\ e.holder # None)
  <2>1. f = taken
    BY <1>3, <1>9
  <2>2. e.holder = None
    BY <1>9 DEF Kind
  <2>3. Asked(e, f, t, kind, r)
    BY <2>1, <2>2, <1>1, <1>4, <1>5, <1>9 DEF Asked
  <2> QED BY <2>3, <1>1 DEF f
<1> QED BY <1>6, <1>7, <1>8, <1>9

(* A tab that gives up drops its queued request or hands its lock back.     *)
Gave(e, f, t) ==
    /\ f \in Election
    /\ f.holder = e.holder /\ f.kind = e.kind
    /\ f.current = [e.current EXCEPT ![t] = None]
    /\ f.leads = [e.leads EXCEPT ![t] = FALSE]
    /\ f.queue = Dropped(e.queue, e.current[t])
    /\ f.phase = [e.phase EXCEPT ![e.current[t]] = CASE @ = "queued" -> "free"
                                                     [] @ = "held" -> "returning"
                                                     [] OTHER -> @]

LEMMA relinquishDoes ==
  ASSUME NEW e \in Election, NEW t \in Tab,
         \A i, j \in DOMAIN e.queue : e.queue[i] = e.queue[j] => i = j
  PROVE  IF e.current[t] = None THEN relinquish(e, t) = e ELSE Gave(e, relinquish(e, t), t)
<1>1. CASE e.current[t] = None
  BY <1>1 DEF relinquish
<1>2. CASE e.current[t] # None
  <2> DEFINE r == e.current[t]
             f == relinquish(e, t)
  <2>1. r \in Request
    BY <1>2 DEF Election
  <2>2. e.queue \in Seq(Request)
    BY DEF Election
  <2>3. Dropped(e.queue, r) \in Seq(Request)
    BY <2>2, DroppedIs
  <2>4. f = [e EXCEPT !.current[t] = None, !.leads[t] = FALSE,
                      !.queue = Dropped(@, r),
                      !.phase[r] = CASE @ = "queued" -> "free"
                                     [] @ = "held" -> "returning"
                                     [] OTHER -> @]
    BY <1>2 DEF relinquish
  <2> DEFINE p == [e.phase EXCEPT ![r] = CASE @ = "queued" -> "free"
                                           [] @ = "held" -> "returning"
                                           [] OTHER -> @]
  <2>5. p \in [Request -> Phase]
    BY <2>1 DEF Election, Phase
  <2>6. /\ f.holder = e.holder /\ f.kind = e.kind
        /\ f.current = [e.current EXCEPT ![t] = None]
        /\ f.leads = [e.leads EXCEPT ![t] = FALSE]
        /\ f.queue = Dropped(e.queue, r)
        /\ f.phase = p
    BY <2>4 DEF Election
  <2>7. f \in Election
    <3>1. /\ e.holder \in Request \cup {None} /\ e.kind \in [Request -> Kind]
          /\ [e.current EXCEPT ![t] = None] \in [Tab -> Request \cup {None}]
          /\ [e.leads EXCEPT ![t] = FALSE] \in [Tab -> BOOLEAN]
      BY DEF Election
    <3> HIDE DEF p
    <3>2. f = [e EXCEPT !.current = [e.current EXCEPT ![t] = None], !.leads = [e.leads EXCEPT ![t] = FALSE],
                        !.queue = Dropped(e.queue, r), !.phase = p]
      BY <2>4 DEF Election, p
    <3> QED BY <3>1, <3>2, <2>3, <2>5 DEF Election
  <2> QED BY <1>2, <2>6, <2>7 DEF Gave
<1> QED BY <1>1, <1>2

-----------------------------------------------------------------------------
(***************************************************************************)
(* They keep the election sound.                                            *)
(***************************************************************************)

(* The slots of every other tab stay free, and of t's all but one.          *)
OneFewer(e, f, t) ==
    /\ \A u \in Tab \ {t} : FreeSlots(e, u) \subseteq FreeSlots(f, u)
    /\ \E r \in Request : FreeSlots(e, t) \ {r} \subseteq FreeSlots(f, t)

LEMMA SameSlots ==
  ASSUME NEW e, NEW t \in Tab
  PROVE  OneFewer(e, e, t)
<1>1. PICK i \in 1..Slots : TRUE
  BY TabLeaderAssumptions
<1>2. <<t, i>> \in Request
  BY DEF Request
<1> QED BY <1>2 DEF OneFewer

LEMMA requestKeeps ==
  ASSUME NEW e, NEW S, NEW V, NEW K, Sound(e, S, V, K),
         NEW t \in Tab, NEW kind \in Kind,
         FreeSlots(e, t) # {}, e.current[t] = None,
         S[t] > 0, K \/ V[t], kind = "queue" => V[t]
  PROVE  Sound(request(e, t, kind), S, V, K) /\ OneFewer(e, request(e, t, kind), t)
<1> DEFINE f == request(e, t, kind)
<1>0. e \in Election /\ LockOf(e) /\ QueueOf(e, V) /\ LeadOf(e) /\ \A u \in Tab : LiveOf(e, S, V, K, u)
  BY DEF Sound
<1>1. PICK r \in Request : Asked(e, f, t, kind, r)
  BY <1>0, requestDoes
<1> HIDE DEF f
<1>2. /\ e.holder \in Request \cup {None} /\ e.queue \in Seq(Request)
      /\ e.phase \in [Request -> Phase] /\ e.kind \in [Request -> Kind]
      /\ e.current \in [Tab -> Request \cup {None}] /\ e.leads \in [Tab -> BOOLEAN]
  BY <1>0 DEF Election
<1>3. /\ f \in Election
      /\ TabOf(r) = t /\ e.phase[r] = "free"
      /\ f.current = [e.current EXCEPT ![t] = r]
      /\ f.kind = [e.kind EXCEPT ![r] = kind]
      /\ f.leads = e.leads
  BY <1>1 DEF Asked
<1>4. ~e.leads[t]
  BY <1>0, <1>2 DEF LeadOf
<1>5. /\ \A u \in Tab : e.current[u] # r
      /\ \A i \in DOMAIN e.queue : e.queue[i] # r
      /\ e.holder # r
  <2>1. \A u \in Tab : e.current[u] # r
    BY <1>0, <1>3, Requests DEF LiveOf
  <2>2. \A i \in DOMAIN e.queue : e.queue[i] # r
    BY <1>0, <1>3 DEF QueueOf
  <2>3. e.holder # r
    BY <1>0, <1>3, Requests DEF LockOf, Owning
  <2> QED BY <2>1, <2>2, <2>3
(* What is left of every other request: nothing but the holder's robbery.   *)
<1>6. \A x \in Request \ {r} :
        \/ f.phase[x] = e.phase[x]
        \/ x = e.holder /\ f.holder = r /\ f.phase[x] = Robbed(e.phase[x])
  BY <1>1, <1>2 DEF Asked
<1>7. \/ kind = "queue" /\ f.holder = e.holder /\ f.queue = Append(e.queue, r) /\ f.phase[r] = "queued"
      \/ f.holder = e.holder /\ f.queue = e.queue /\ f.phase[r] = "refused"
      \/ /\ f.holder = r /\ f.queue = e.queue /\ f.phase[r] = "granted"
         /\ e.holder # None => f.phase[e.holder] = Robbed(e.phase[e.holder])
  BY <1>1, <1>2, <1>5 DEF Asked
<1>8. \A p \in Phase : p \in Owning => Robbed(p) \notin Owning /\ Robbed(p) # "held"
  BY RobbedIs DEF Owning
<1>9. LockOf(f)
  <2>1. CASE f.holder = e.holder
    <3>1. f.phase[r] \notin Owning
      BY <1>7, <1>5, <2>1 DEF Owning
    <3>2. \A x \in Request \ {r} : f.phase[x] = e.phase[x]
      BY <1>6, <1>5, <2>1
    <3> QED BY <3>1, <3>2, <1>0, <1>2, <1>5, <2>1 DEF LockOf
  <2>2. CASE f.holder = r
    <3>1. f.phase[r] = "granted"
      BY <2>2, <1>7, <1>5
    <3>2. \A x \in Request \ {r} : x = e.holder => f.phase[x] \notin Owning
      BY <1>0, <1>2, <1>6, <1>7, <1>8, <1>5, <2>2, Requests DEF LockOf
    <3>3. \A x \in Request \ {r} : x # e.holder => f.phase[x] \notin Owning
      BY <1>0, <1>6 DEF LockOf
    <3> QED BY <2>2, <3>1, <3>2, <3>3 DEF LockOf, Owning
  <2> QED BY <2>1, <2>2, <1>7
<1>10. QueueOf(f, V)
  <2>1. \A i \in DOMAIN e.queue :
          LET x == e.queue[i] IN
          /\ x \in Request /\ x # r /\ TabOf(x) # t
          /\ f.phase[x] = "queued" /\ f.kind[x] = "queue"
          /\ f.current[TabOf(x)] = x /\ V[TabOf(x)]
    <3> TAKE i \in DOMAIN e.queue
    <3> DEFINE x == e.queue[i]
    <3>1. x \in Request /\ x # r
      BY <1>2, <1>5
    <3>2. e.phase[x] = "queued" /\ e.kind[x] = "queue" /\ e.current[TabOf(x)] = x /\ V[TabOf(x)]
      BY <1>0 DEF QueueOf
    <3>3. TabOf(x) # t
      BY <3>1, <3>2, Requests
    <3>4. x # e.holder
      BY <3>1, <3>2, <1>0, Requests DEF LockOf, Owning
    <3>5. f.phase[x] = "queued"
      BY <3>1, <3>2, <3>4, <1>6
    <3> QED BY <3>1, <3>2, <3>3, <3>5, <1>2, <1>3, Requests
  <2>2. CASE f.queue = e.queue
    BY <2>1, <2>2, <1>0 DEF QueueOf
  <2>3. CASE kind = "queue" /\ f.queue = Append(e.queue, r) /\ f.phase[r] = "queued"
    <3>1. /\ DOMAIN f.queue = 1..(Len(e.queue) + 1) /\ DOMAIN e.queue = 1..Len(e.queue)
          /\ Len(e.queue) \in Nat
          /\ \A i \in 1..Len(e.queue) : f.queue[i] = e.queue[i]
          /\ f.queue[Len(e.queue) + 1] = r
      BY <1>2, <2>3
    <3>2. f.kind[r] = "queue" /\ f.current[TabOf(r)] = r /\ V[TabOf(r)]
      BY <1>2, <1>3, <2>3
    <3>3. \A i \in DOMAIN f.queue : i \in DOMAIN e.queue \/ i = Len(e.queue) + 1
      BY <3>1
    <3>4. \A i \in DOMAIN f.queue :
            LET x == f.queue[i] IN
            /\ f.phase[x] = "queued" /\ f.kind[x] = "queue"
            /\ f.current[TabOf(x)] = x /\ V[TabOf(x)]
      BY <3>1, <3>2, <3>3, <2>1, <2>3
    <3>5. \A i, j \in DOMAIN f.queue : f.queue[i] = f.queue[j] => i = j
      BY <3>1, <3>3, <1>0, <1>5 DEF QueueOf
    <3> QED BY <3>4, <3>5 DEF QueueOf
  <2> QED BY <2>2, <2>3, <1>7
<1>11. LeadOf(f)
  <2>1. \A u \in Tab : f.leads[u] =>
          f.current[u] # None /\ f.phase[f.current[u]] \in {"held", "stolen"}
    <3> SUFFICES ASSUME NEW u \in Tab, f.leads[u]
                 PROVE  f.current[u] # None /\ f.phase[f.current[u]] \in {"held", "stolen"}
      OBVIOUS
    <3>1. u # t /\ e.leads[u] /\ f.current[u] = e.current[u]
      BY <1>2, <1>3, <1>4
    <3>2. e.current[u] # None /\ e.phase[e.current[u]] \in {"held", "stolen"}
      BY <3>1, <1>0 DEF LeadOf
    <3>3. e.current[u] \in Request \ {r}
      BY <3>2, <1>2, <1>5
    <3>4. \/ f.phase[e.current[u]] = e.phase[e.current[u]]
          \/ f.phase[e.current[u]] = Robbed(e.phase[e.current[u]]) /\ e.phase[e.current[u]] = "held"
      BY <3>2, <3>3, <1>0, <1>6, Requests DEF LockOf, Owning
    <3> QED BY <3>1, <3>2, <3>4 DEF Robbed
  <2>2. \A x \in Request : f.phase[x] = "held" => f.current[TabOf(x)] = x /\ f.leads[TabOf(x)]
    <3> SUFFICES ASSUME NEW x \in Request, f.phase[x] = "held"
                 PROVE  f.current[TabOf(x)] = x /\ f.leads[TabOf(x)]
      OBVIOUS
    <3>1. x # r
      BY <1>7
    <3>2. e.phase[x] = "held"
      BY <3>1, <1>0, <1>6, <1>8, <1>2, Requests DEF LockOf
    <3>3. e.current[TabOf(x)] = x /\ e.leads[TabOf(x)]
      BY <3>2, <1>0 DEF LeadOf
    <3>4. TabOf(x) # t
      BY <3>3, <1>4
    <3> QED BY <3>3, <3>4, <1>2, <1>3, Requests
  <2> QED BY <2>1, <2>2 DEF LeadOf
<1>12. \A u \in Tab : LiveOf(f, S, V, K, u)
  <2> SUFFICES ASSUME NEW u \in Tab, f.current[u] # None
               PROVE  /\ TabOf(f.current[u]) = u
                      /\ f.phase[f.current[u]] \notin {"free", "returning"}
                      /\ S[u] > 0
                      /\ K \/ V[u]
    BY DEF LiveOf
  <2>1. CASE u = t
    BY <2>1, <1>2, <1>3, <1>7
  <2>2. CASE u # t
    <3>1. f.current[u] = e.current[u] /\ e.current[u] \in Request \ {r}
      BY <2>2, <1>2, <1>3, <1>5
    <3>2. TabOf(e.current[u]) = u /\ e.phase[e.current[u]] \notin {"free", "returning"} /\ S[u] > 0 /\ (K \/ V[u])
      BY <3>1, <1>0 DEF LiveOf
    <3>3. \/ f.phase[e.current[u]] = e.phase[e.current[u]]
          \/ f.phase[e.current[u]] = Robbed(e.phase[e.current[u]]) /\ e.phase[e.current[u]] \in {"granted", "held"}
      BY <3>1, <3>2, <1>0, <1>6, Requests DEF LockOf, Owning
    <3> QED BY <3>1, <3>2, <3>3 DEF Robbed
  <2> QED BY <2>1, <2>2
<1>13. OneFewer(e, f, t)
  <2>1. \A x \in Request \ {r} : e.phase[x] = "free" => f.phase[x] = "free"
    BY <1>0, <1>6, Requests DEF LockOf, Owning
  <2>2. \A u \in Tab \ {t} : FreeSlots(e, u) \subseteq FreeSlots(f, u)
    BY <2>1, <1>3 DEF FreeSlots
  <2>3. FreeSlots(e, t) \ {r} \subseteq FreeSlots(f, t)
    BY <2>1 DEF FreeSlots
  <2> QED BY <2>2, <2>3 DEF OneFewer
<1> QED BY <1>3, <1>9, <1>10, <1>11, <1>12, <1>13 DEF Sound, f

LEMMA relinquishKeeps ==
  ASSUME NEW e, NEW S, NEW V, NEW K, Sound(e, S, V, K), NEW t \in Tab
  PROVE  /\ Sound(relinquish(e, t), S, V, K)
         /\ relinquish(e, t).current[t] = None
         /\ \A u \in Tab : FreeSlots(e, u) \subseteq FreeSlots(relinquish(e, t), u)
<1> DEFINE f == relinquish(e, t)
           r == e.current[t]
<1>0. e \in Election /\ LockOf(e) /\ QueueOf(e, V) /\ LeadOf(e) /\ \A u \in Tab : LiveOf(e, S, V, K, u)
  BY DEF Sound
<1>1. IF r = None THEN f = e ELSE Gave(e, f, t)
  BY <1>0, relinquishDoes DEF QueueOf
<1> HIDE DEF f
<1>2. CASE r = None
  BY <1>1, <1>2 DEF f
<1>3. CASE r # None
  <2>1. /\ e.holder \in Request \cup {None} /\ e.queue \in Seq(Request)
        /\ e.phase \in [Request -> Phase] /\ e.kind \in [Request -> Kind]
        /\ e.current \in [Tab -> Request \cup {None}] /\ e.leads \in [Tab -> BOOLEAN]
    BY <1>0 DEF Election
  <2>2. /\ f \in Election
        /\ f.holder = e.holder /\ f.kind = e.kind
        /\ f.current = [e.current EXCEPT ![t] = None]
        /\ f.leads = [e.leads EXCEPT ![t] = FALSE]
        /\ f.queue = Dropped(e.queue, r)
        /\ f.phase = [e.phase EXCEPT ![r] = CASE @ = "queued" -> "free"
                                              [] @ = "held" -> "returning"
                                              [] OTHER -> @]
    BY <1>1, <1>3 DEF Gave
  <2>3. r \in Request /\ TabOf(r) = t /\ \A u \in Tab \ {t} : e.current[u] # r
    <3>1. r \in Request /\ TabOf(r) = t
      BY <1>0, <1>3, <2>1 DEF LiveOf
    <3>2. \A u \in Tab : e.current[u] = r => u = t
      BY <1>0, <3>1, <1>3 DEF LiveOf
    <3> QED BY <3>1, <3>2
  <2> HIDE DEF r
  <2>4. /\ \A x \in Request \ {r} : f.phase[x] = e.phase[x]
        /\ f.phase[r] = CASE e.phase[r] = "queued" -> "free"
                          [] e.phase[r] = "held" -> "returning"
                          [] OTHER -> e.phase[r]
    BY <2>1, <2>2, <2>3
  <2>5. f.phase[r] \in Owning <=> e.phase[r] \in Owning
    BY <2>4 DEF Owning
  <2>6. f.phase[r] # "held" /\ (e.phase[r] = "free" => f.phase[r] = "free")
    BY <2>4
  <2>7. LockOf(f)
    BY <2>2, <2>4, <2>5, <1>0, <2>1 DEF LockOf
  <2>8. QueueOf(f, V)
    <3>1. /\ \A i, j \in DOMAIN f.queue : f.queue[i] = f.queue[j] => i = j
          /\ \A i \in DOMAIN f.queue : f.queue[i] # r /\ \E j \in DOMAIN e.queue : f.queue[i] = e.queue[j]
      BY <2>1, <2>2, <1>0, DroppedIs DEF QueueOf
    <3>2. \A i \in DOMAIN f.queue :
            LET x == f.queue[i] IN
            /\ f.phase[x] = "queued" /\ f.kind[x] = "queue"
            /\ f.current[TabOf(x)] = x /\ V[TabOf(x)]
      <4> TAKE i \in DOMAIN f.queue
      <4> DEFINE x == f.queue[i]
      <4>1. PICK j \in DOMAIN e.queue : x = e.queue[j]
        BY <3>1
      <4>2. x \in Request /\ x # r
        BY <3>1, <4>1, <2>1
      <4>3. e.phase[x] = "queued" /\ e.kind[x] = "queue" /\ e.current[TabOf(x)] = x /\ V[TabOf(x)]
        BY <4>1, <1>0 DEF QueueOf
      <4>4. TabOf(x) # t
        BY <4>2, <4>3 DEF r
      <4> HIDE DEF x
      <4>5. /\ f.phase[x] = "queued" /\ f.kind[x] = "queue"
            /\ f.current[TabOf(x)] = x /\ V[TabOf(x)]
        BY <4>2, <4>3, <4>4, <2>1, <2>2, <2>4, Requests
      <4> QED BY <4>5 DEF x
    <3> QED BY <3>1, <3>2 DEF QueueOf
  <2>9. LeadOf(f)
    <3>1. \A u \in Tab : f.leads[u] =>
            f.current[u] # None /\ f.phase[f.current[u]] \in {"held", "stolen"}
      <4> SUFFICES ASSUME NEW u \in Tab, f.leads[u]
                   PROVE  f.current[u] # None /\ f.phase[f.current[u]] \in {"held", "stolen"}
        OBVIOUS
      <4>1. u # t /\ e.leads[u] /\ f.current[u] = e.current[u]
        BY <2>1, <2>2
      <4>2. e.current[u] # None /\ e.phase[e.current[u]] \in {"held", "stolen"}
        BY <4>1, <1>0 DEF LeadOf
      <4>3. e.current[u] \in Request \ {r}
        BY <4>1, <4>2, <2>1, <2>3
      <4> QED BY <4>1, <4>2, <4>3, <2>4
    <3>2. \A x \in Request : f.phase[x] = "held" => f.current[TabOf(x)] = x /\ f.leads[TabOf(x)]
      <4> SUFFICES ASSUME NEW x \in Request, f.phase[x] = "held"
                   PROVE  f.current[TabOf(x)] = x /\ f.leads[TabOf(x)]
        OBVIOUS
      <4>1. x # r /\ e.phase[x] = "held"
        BY <2>4, <2>6
      <4>2. e.current[TabOf(x)] = x /\ e.leads[TabOf(x)]
        BY <4>1, <1>0 DEF LeadOf
      <4>3. TabOf(x) # t
        BY <4>1, <4>2 DEF r
      <4> QED BY <4>2, <4>3, <2>1, <2>2, Requests
    <3> QED BY <3>1, <3>2 DEF LeadOf
  <2>10. \A u \in Tab : LiveOf(f, S, V, K, u)
    <3> SUFFICES ASSUME NEW u \in Tab, f.current[u] # None
                 PROVE  /\ TabOf(f.current[u]) = u
                        /\ f.phase[f.current[u]] \notin {"free", "returning"}
                        /\ S[u] > 0
                        /\ K \/ V[u]
      BY DEF LiveOf
    <3>1. u # t /\ f.current[u] = e.current[u]
      BY <2>1, <2>2
    <3>2. e.current[u] \in Request \ {r}
      BY <3>1, <2>1, <2>3
    <3> QED BY <3>1, <3>2, <2>4, <1>0 DEF LiveOf
  <2>11. \A u \in Tab : FreeSlots(e, u) \subseteq FreeSlots(f, u)
    BY <2>4, <2>6 DEF FreeSlots
  <2>12. f.current[t] = None
    BY <2>1, <2>2
  <2> QED BY <2>2, <2>7, <2>8, <2>9, <2>10, <2>11, <2>12 DEF Sound, f
<1> QED BY <1>2, <1>3

(* A tab may be seated, unseated, shown and hidden as long as it has no     *)
(* live request, or one that does not mind.                                 *)
LEMMA MovedKeeps ==
  ASSUME NEW e, NEW S, NEW V, NEW K, Sound(e, S, V, K), NEW t \in Tab, NEW S1, NEW V1,
         \A u \in Tab \ {t} : S1[u] = S[u] /\ V1[u] = V[u],
         e.current[t] # None =>
            /\ S1[t] > 0
            /\ K \/ V1[t]
            /\ V1[t] = TRUE \/ V1[t] = V[t] \/ e.phase[e.current[t]] # "queued"
                                    \/ e.kind[e.current[t]] # "queue"
  PROVE  Sound(e, S1, V1, K)
<1>0. e \in Election /\ LockOf(e) /\ QueueOf(e, V) /\ LeadOf(e) /\ \A u \in Tab : LiveOf(e, S, V, K, u)
  BY DEF Sound
<1>1. e.queue \in Seq(Request)
  BY <1>0 DEF Election
<1>2. QueueOf(e, V1)
  <2>1. \A i \in DOMAIN e.queue :
          LET x == e.queue[i] IN
          /\ e.phase[x] = "queued" /\ e.kind[x] = "queue"
          /\ e.current[TabOf(x)] = x /\ V1[TabOf(x)]
    <3> TAKE i \in DOMAIN e.queue
    <3> DEFINE x == e.queue[i]
    <3>1. x \in Request /\ TabOf(x) \in Tab /\ x # None
      BY <1>1, Requests
    <3>2. e.phase[x] = "queued" /\ e.kind[x] = "queue" /\ e.current[TabOf(x)] = x /\ V[TabOf(x)]
      BY <1>0 DEF QueueOf
    <3> HIDE DEF x
    <3>3. V1[TabOf(x)]
      <4>1. CASE TabOf(x) = t
        BY <4>1, <3>1, <3>2
      <4>2. CASE TabOf(x) # t
        BY <4>2, <3>1, <3>2
      <4> QED BY <4>1, <4>2
    <3> QED BY <3>2, <3>3 DEF x
  <2> QED BY <2>1, <1>0 DEF QueueOf
<1>3. \A u \in Tab : LiveOf(e, S1, V1, K, u)
  BY <1>0 DEF LiveOf
<1> QED BY <1>0, <1>2, <1>3 DEF Sound

-----------------------------------------------------------------------------
(***************************************************************************)
(* So do the handlers.                                                      *)
(***************************************************************************)

(* What a handler of t leaves: a sound election, and a slot less at most.   *)
Fine(e, f, S, V, t) == Sound(f, S, V, keepWhileHidden) /\ OneFewer(e, f, t)

(* Slots that relinquish frees are there for the request that follows.      *)
LEMMA FewerAfter ==
  ASSUME NEW e, NEW f, NEW g, NEW t \in Tab,
         \A u \in Tab : FreeSlots(e, u) \subseteq FreeSlots(f, u),
         OneFewer(f, g, t)
  PROVE  OneFewer(e, g, t)
BY DEF OneFewer

LEMMA standKeeps ==
  ASSUME NEW e, NEW S, NEW V, Sound(e, S, V, keepWhileHidden), keepWhileHidden \in BOOLEAN,
         NEW t \in Tab, FreeSlots(e, t) # {}, S[t] > 0, V[t] \in BOOLEAN
  PROVE  Fine(e, stand(e, t, V[t]), S, V, t)
<1>1. CASE e.current[t] # None
  BY <1>1, SameSlots DEF stand, Fine
<1>2. CASE e.current[t] = None /\ V[t]
  <2>1. stand(e, t, V[t]) = request(e, t, "queue")
    BY <1>2 DEF stand
  <2>2. "queue" \in Kind
    BY DEF Kind
  <2> QED BY <1>2, <2>1, <2>2, requestKeeps DEF Fine
<1>3. CASE e.current[t] = None /\ ~V[t] /\ keepWhileHidden
  <2>1. stand(e, t, V[t]) = request(e, t, "try")
    BY <1>3 DEF stand
  <2>2. "try" \in Kind
    BY DEF Kind
  <2> QED BY <1>3, <2>1, <2>2, requestKeeps DEF Fine
<1>4. CASE e.current[t] = None /\ ~V[t] /\ ~keepWhileHidden
  <2>1. stand(e, t, V[t]) = e
    BY <1>4 DEF stand
  <2> QED BY <2>1, SameSlots DEF Fine
<1> QED BY <1>1, <1>2, <1>3, <1>4

(* The tab is visible by now, and has a seat.                               *)
LEMMA onShownKeeps ==
  ASSUME NEW e, NEW S, NEW V, Sound(e, S, V, keepWhileHidden), keepWhileHidden \in BOOLEAN,
         NEW t \in Tab, FreeSlots(e, t) # {}, S[t] > 0, V[t] = TRUE
  PROVE  Fine(e, onShown(e, t), S, V, t)
<1>1. CASE ~keepWhileHidden
  <2>1. onShown(e, t) = stand(e, t, V[t])
    BY <1>1 DEF onShown
  <2> QED BY <2>1, standKeeps
<1>2. CASE keepWhileHidden /\ (e.leads[t] \/ (e.current[t] # None /\ e.kind[e.current[t]] = "steal"))
  <2>1. onShown(e, t) = e
    BY <1>2 DEF onShown
  <2> QED BY <2>1, SameSlots DEF Fine
<1>3. CASE keepWhileHidden /\ ~e.leads[t] /\ ~(e.current[t] # None /\ e.kind[e.current[t]] = "steal")
  <2> DEFINE f == relinquish(e, t)
  <2>1. onShown(e, t) = request(f, t, "steal")
    BY <1>3 DEF onShown
  <2>2. /\ Sound(f, S, V, keepWhileHidden) /\ f.current[t] = None
        /\ \A u \in Tab : FreeSlots(e, u) \subseteq FreeSlots(f, u)
    BY relinquishKeeps
  <2> HIDE DEF f
  <2>3. "steal" \in Kind /\ FreeSlots(f, t) # {}
    BY <2>2 DEF Kind
  <2>4. Sound(request(f, t, "steal"), S, V, keepWhileHidden) /\ OneFewer(f, request(f, t, "steal"), t)
    BY <1>3, <2>2, <2>3, requestKeeps
  <2>5. OneFewer(e, request(f, t, "steal"), t)
    BY <2>2, <2>4, FewerAfter
  <2> QED BY <2>1, <2>4, <2>5 DEF Fine
<1> QED BY <1>1, <1>2, <1>3

(* The tab is hidden by now: V1 is who is visible, V who was before.        *)
LEMMA onHiddenKeeps ==
  ASSUME NEW e, NEW S, NEW V, NEW V1, Sound(e, S, V, keepWhileHidden), keepWhileHidden \in BOOLEAN,
         NEW t \in Tab, FreeSlots(e, t) # {}, S[t] > 0,
         \A u \in Tab \ {t} : V1[u] = V[u], V1[t] = FALSE
  PROVE  Fine(e, onHidden(e, t), S, V1, t)
<1> DEFINE f == relinquish(e, t)
<1>0. \A u \in Tab \ {t} : S[u] = S[u] /\ V1[u] = V[u]
  OBVIOUS
<1>1. /\ Sound(f, S, V, keepWhileHidden) /\ f.current[t] = None
      /\ \A u \in Tab : FreeSlots(e, u) \subseteq FreeSlots(f, u)
  BY relinquishKeeps
<1>2. CASE ~keepWhileHidden
  <2>1. onHidden(e, t) = f
    BY <1>2 DEF onHidden
  <2>2. Sound(f, S, V1, keepWhileHidden)
    BY <1>1, MovedKeeps
  <2>3. OneFewer(e, f, t)
    BY <1>1, SameSlots, FewerAfter
  <2> QED BY <2>1, <2>2, <2>3 DEF Fine
<1>3. CASE keepWhileHidden /\ e.leads[t]
  <2>1. onHidden(e, t) = e
    BY <1>3 DEF onHidden
  <2>2. e.current[t] # None => e.phase[e.current[t]] # "queued"
    <3>1. LeadOf(e)
      BY DEF Sound
    <3> QED BY <3>1, <1>3 DEF LeadOf
  <2>3. Sound(e, S, V1, keepWhileHidden)
    <3>1. e.current[t] # None =>
            /\ S[t] > 0
            /\ keepWhileHidden \/ V1[t]
            /\ V1[t] = TRUE \/ V1[t] = V[t] \/ e.phase[e.current[t]] # "queued"
                                    \/ e.kind[e.current[t]] # "queue"
      BY <1>3, <2>2
    <3> QED BY <1>0, <3>1, MovedKeeps
  <2> QED BY <2>1, <2>3, SameSlots DEF Fine
<1>4. CASE keepWhileHidden /\ ~e.leads[t]
  <2> DEFINE g == IF e.current[t] # None /\ e.kind[e.current[t]] = "queue" THEN f ELSE e
  <2>1. onHidden(e, t) = stand(g, t, V1[t])
    BY <1>4 DEF onHidden
  <2>2. Sound(g, S, V, keepWhileHidden) /\ \A u \in Tab : FreeSlots(e, u) \subseteq FreeSlots(g, u)
    BY <1>1
  <2>3. g.current[t] # None => g.kind[g.current[t]] # "queue"
    BY <1>1
  <2> HIDE DEF g
  <2>4. Sound(g, S, V1, keepWhileHidden)
    <3>1. g.current[t] # None =>
            /\ S[t] > 0
            /\ keepWhileHidden \/ V1[t]
            /\ V1[t] = TRUE \/ V1[t] = V[t] \/ g.phase[g.current[t]] # "queued"
                                           \/ g.kind[g.current[t]] # "queue"
      BY <1>4, <2>3
    <3> QED BY <1>0, <2>2, <3>1, MovedKeeps
  <2>5. FreeSlots(g, t) # {}
    BY <2>2
  <2>6. Fine(g, stand(g, t, V1[t]), S, V1, t)
    BY <2>4, <2>5, standKeeps
  <2> QED BY <2>1, <2>2, <2>6, FewerAfter DEF Fine
<1> QED BY <1>2, <1>3, <1>4

-----------------------------------------------------------------------------
(***************************************************************************)
(* Every action keeps the invariant.                                        *)
(***************************************************************************)

LEMMA SpareKept ==
  ASSUME NEW e, NEW f, NEW a, NEW b, Spare(e, a),
         \A u \in Tab : /\ Len(a[u]) \in Nat /\ Len(b[u]) \in Nat
                        /\ FreeSlots(e, u) \subseteq FreeSlots(f, u) /\ Len(b[u]) <= Len(a[u])
  PROVE  Spare(f, b)
<1> SUFFICES ASSUME NEW u \in Tab PROVE Cardinality(FreeSlots(f, u)) >= Len(b[u])
  BY DEF Spare
<1>1. /\ Cardinality(FreeSlots(e, u)) >= Len(a[u]) /\ Cardinality(FreeSlots(e, u)) \in Nat
      /\ Cardinality(FreeSlots(f, u)) >= Cardinality(FreeSlots(e, u)) /\ Cardinality(FreeSlots(f, u)) \in Nat
  BY SlotsKept, SlotsFinite DEF Spare
<1> QED BY <1>1

(* A handler's request takes the slot that its tab had to spare.            *)
LEMMA SpareUsed ==
  ASSUME NEW e, NEW f, NEW a, NEW b, Spare(e, a), NEW t \in Tab, OneFewer(e, f, t),
         \A u \in Tab : Len(a[u]) \in Nat /\ Len(b[u]) \in Nat,
         \A u \in Tab \ {t} : Len(b[u]) <= Len(a[u]),
         Cardinality(FreeSlots(e, t)) > Len(b[t])
  PROVE  Spare(f, b)
<1> SUFFICES ASSUME NEW u \in Tab PROVE Cardinality(FreeSlots(f, u)) >= Len(b[u])
  BY DEF Spare
<1>0. /\ Cardinality(FreeSlots(e, u)) >= Len(a[u]) /\ Cardinality(FreeSlots(e, u)) \in Nat
      /\ Cardinality(FreeSlots(f, u)) \in Nat
  BY SlotsFinite DEF Spare
<1>1. CASE u = t
  <2>1. PICK r \in Request : FreeSlots(e, t) \ {r} \subseteq FreeSlots(f, t)
    BY DEF OneFewer
  <2>2. Cardinality(FreeSlots(f, t)) >= Cardinality(FreeSlots(e, t)) - 1
    BY <2>1, SlotsLost
  <2> QED BY <1>0, <1>1, <2>2
<1>2. CASE u # t
  <2>1. Cardinality(FreeSlots(f, u)) >= Cardinality(FreeSlots(e, u))
    BY <1>2, SlotsKept DEF OneFewer
  <2> QED BY <1>0, <1>2, <2>1
<1> QED BY <1>1, <1>2

(* The parts of the invariant, as facts about the fields.                   *)
LEMMA Fields ==
  ASSUME IInv
  PROVE  /\ election \in Election
         /\ election.holder \in Request \cup {None} /\ election.queue \in Seq(Request)
         /\ election.phase \in [Request -> Phase] /\ election.kind \in [Request -> Kind]
         /\ election.current \in [Tab -> Request \cup {None}] /\ election.leads \in [Tab -> BOOLEAN]
         /\ LockOf(election) /\ QueueOf(election, visible) /\ LeadOf(election)
         /\ \A t \in Tab : LiveOf(election, seats, visible, keepWhileHidden, t)
         /\ Spare(election, asks)
         /\ \A t \in Tab : Len(asks[t]) \in Nat
<1>1. election \in Election
  BY DEF IInv, Sound
<1>2. \A t \in Tab : Len(asks[t]) \in Nat
  BY DEF IInv, Typed
<1> QED BY <1>1, <1>2 DEF IInv, Sound, Election

LEMMA InitHolds == Init => IInv
<1> SUFFICES ASSUME Init PROVE IInv
  OBVIOUS
<1> USE DEF Init
<1>1. Typed
  BY TabLeaderAssumptions DEF Typed
<1>2. election \in Election
  BY DEF Election, Phase, Kind
<1>3. LockOf(election) /\ QueueOf(election, visible) /\ LeadOf(election)
  BY DEF LockOf, QueueOf, LeadOf, Owning
<1>4. \A t \in Tab : LiveOf(election, seats, visible, keepWhileHidden, t)
  BY DEF LiveOf
<1>5. Spare(election, asks)
  <2> SUFFICES ASSUME NEW t \in Tab PROVE Cardinality(FreeSlots(election, t)) >= Len(asks[t])
    BY DEF Spare
  <2> QED BY SlotsFinite
<1> QED BY <1>1, <1>2, <1>3, <1>4, <1>5 DEF IInv, Sound

LEMMA GrantKeeps == IInv /\ Grant => IInv'
<1> SUFFICES ASSUME IInv, Grant PROVE IInv'
  OBVIOUS
<1> USE Fields
<1> DEFINE e == election
           f == election'
           r == Head(election.queue)
<1>1. r \in Request /\ 1 \in DOMAIN e.queue /\ r = e.queue[1] /\ e.holder = None
  BY DEF Grant
<1>2. e.phase[r] = "queued" /\ e.kind[r] = "queue" /\ e.current[TabOf(r)] = r /\ ~e.leads[TabOf(r)]
  BY <1>1, Requests DEF QueueOf, LeadOf
<1>3. /\ f = [e EXCEPT !.holder = r, !.queue = Tail(@), !.phase[r] = "granted"]
      /\ Tail(e.queue) \in Seq(Request) /\ "granted" \in Phase
  BY <1>1 DEF Grant, Phase
<1> HIDE DEF r
<1>4. /\ f \in Election
      /\ f.holder = r /\ f.queue = Tail(e.queue) /\ f.phase = [e.phase EXCEPT ![r] = "granted"]
      /\ f.kind = e.kind /\ f.current = e.current /\ f.leads = e.leads
  BY <1>1, <1>3 DEF Election
<1>5. UNCHANGED <<keepWhileHidden, seats, visible, paged, asks, changes>>
  BY DEF Grant
<1>6. LockOf(f)
  BY <1>1, <1>4, Requests DEF LockOf, Owning
<1>7. QueueOf(f, visible)
  <2>1. \A i \in DOMAIN f.queue : i + 1 \in DOMAIN e.queue /\ f.queue[i] = e.queue[i + 1] /\ i + 1 # 1 /\ i \in Nat
    BY <1>1, <1>4
  <2>2. \A i, j \in DOMAIN f.queue : f.queue[i] = f.queue[j] => i = j
    BY <2>1 DEF QueueOf
  <2>3. \A i \in DOMAIN f.queue : f.queue[i] # r /\ f.queue[i] \in Request
    BY <2>1, <1>1 DEF QueueOf
  <2> QED BY <2>1, <2>2, <2>3, <1>4 DEF QueueOf
<1>8. LeadOf(f)
  BY <1>1, <1>2, <1>4 DEF LeadOf
<1>9. \A t \in Tab : LiveOf(f, seats, visible, keepWhileHidden, t)
  BY <1>1, <1>4 DEF LiveOf
<1>10. Spare(f, asks)
  <2>1. \A t \in Tab : FreeSlots(e, t) \subseteq FreeSlots(f, t)
    BY <1>2, <1>4 DEF FreeSlots
  <2> QED BY <2>1, SpareKept
<1> QED BY <1>4, <1>5, <1>6, <1>7, <1>8, <1>9, <1>10 DEF IInv, Typed, Sound

LEMMA FreedKeeps == ASSUME NEW r \in Request PROVE IInv /\ Freed(r) => IInv'
<1> SUFFICES ASSUME IInv, Freed(r) PROVE IInv'
  OBVIOUS
<1> USE Fields
<1> DEFINE e == election
           f == election'
<1>1. e.phase[r] = "returning" /\ e.holder = r
  BY DEF Freed, LockOf, Owning
<1>2. /\ f \in Election
      /\ f.holder = None /\ f.queue = e.queue /\ f.phase = [e.phase EXCEPT ![r] = "settled"]
      /\ f.kind = e.kind /\ f.current = e.current /\ f.leads = e.leads
  BY DEF Freed, Election, Phase
<1>3. UNCHANGED <<keepWhileHidden, seats, visible, paged, asks, changes>>
  BY DEF Freed
<1>4. LockOf(f)
  BY <1>1, <1>2, Requests DEF LockOf, Owning
<1>5. QueueOf(f, visible)
  <2>1. \A i \in DOMAIN e.queue : e.queue[i] # r /\ e.queue[i] \in Request
    BY <1>1 DEF QueueOf
  <2> QED BY <2>1, <1>2 DEF QueueOf
<1>6. \A t \in Tab : e.current[t] # r
  BY <1>1, Requests DEF LiveOf
<1>7. LeadOf(f)
  BY <1>1, <1>2, <1>6 DEF LeadOf
<1>8. \A t \in Tab : LiveOf(f, seats, visible, keepWhileHidden, t)
  BY <1>2, <1>6 DEF LiveOf
<1>9. Spare(f, asks)
  <2>1. \A t \in Tab : FreeSlots(e, t) \subseteq FreeSlots(f, t)
    BY <1>1, <1>2 DEF FreeSlots
  <2> QED BY <2>1, SpareKept
<1> QED BY <1>2, <1>3, <1>4, <1>5, <1>7, <1>8, <1>9 DEF IInv, Typed, Sound

LEMMA CallbackKeeps == ASSUME NEW r \in Request PROVE IInv /\ Callback(r) => IInv'
<1> SUFFICES ASSUME IInv, Callback(r) PROVE IInv'
  OBVIOUS
<1> USE Fields
<1> DEFINE e == election
           f == election'
           t == TabOf(r)
<1>0. t \in Tab /\ e.phase[r] \in {"granted", "robbed", "refused"}
  BY Requests DEF Callback
<1>1. UNCHANGED <<keepWhileHidden, seats, visible, paged, asks, changes>>
  BY DEF Callback
<1>2. \A i \in DOMAIN e.queue : e.queue[i] # r /\ e.queue[i] \in Request
  BY <1>0 DEF QueueOf
<1>3. CASE e.phase[r] # "refused" /\ Wanted(r)
  <2>1. /\ f \in Election
        /\ f.holder = e.holder /\ f.queue = e.queue
        /\ f.phase = [e.phase EXCEPT ![r] = IF @ = "granted" THEN "held" ELSE "stolen"]
        /\ f.kind = e.kind /\ f.current = e.current /\ f.leads = [e.leads EXCEPT ![t] = TRUE]
    <3>1. f = [e EXCEPT !.leads[t] = TRUE, !.phase[r] = IF @ = "granted" THEN "held" ELSE "stolen"]
      BY <1>3 DEF Callback
    <3> QED BY <3>1, <1>0 DEF Election, Phase
  <2>2. e.current[t] = r
    BY <1>3 DEF Wanted
  <2>3. LockOf(f)
    BY <1>0, <2>1, Requests DEF LockOf, Owning
  <2>4. QueueOf(f, visible)
    BY <1>2, <2>1 DEF QueueOf
  <2>5. LeadOf(f)
    BY <1>0, <2>1, <2>2, Requests DEF LeadOf
  <2>6. \A u \in Tab : LiveOf(f, seats, visible, keepWhileHidden, u)
    BY <1>0, <2>1 DEF LiveOf
  <2>7. \A u \in Tab : FreeSlots(e, u) \subseteq FreeSlots(f, u)
    BY <1>0, <2>1 DEF FreeSlots
  <2>8. Spare(f, asks)
    BY <2>7, SpareKept
  <2> QED BY <1>1, <2>1, <2>3, <2>4, <2>5, <2>6, <2>8 DEF IInv, Typed, Sound
<1>4. CASE ~(e.phase[r] # "refused" /\ Wanted(r))
  <2> DEFINE p == CASE e.phase[r] = "granted" -> "returning"
                    [] e.phase[r] = "robbed" -> "stolen"
                    [] OTHER -> "settled"
  <2>1. /\ f \in Election
        /\ f.holder = e.holder /\ f.queue = e.queue
        /\ f.phase = [e.phase EXCEPT ![r] = p]
        /\ f.kind = e.kind /\ f.current = e.current /\ f.leads = e.leads
    <3>1. f = [e EXCEPT !.phase[r] = CASE @ = "granted" -> "returning"
                                       [] @ = "robbed" -> "stolen"
                                       [] OTHER -> "settled"]
      BY <1>4 DEF Callback
    <3>2. p \in Phase
      BY DEF Phase
    <3>3. f = [e EXCEPT !.phase[r] = p]
      BY <3>1
    <3> HIDE DEF p
    <3> QED BY <3>2, <3>3 DEF Election
  <2>2. /\ p # "held" /\ p # "free"
        /\ e.phase[r] = "granted" <=> p \in Owning
        /\ p = "returning" => e.phase[r] = "granted"
    BY <1>0 DEF Owning
  <2>3. e.phase[r] = "granted" => e.current[t] # r
    <3> SUFFICES ASSUME e.phase[r] = "granted", e.current[t] = r PROVE FALSE
      OBVIOUS
    <3>1. keepWhileHidden \/ visible[t]
      BY <1>0, Requests DEF LiveOf
    <3> QED BY <3>1, <1>4 DEF Wanted
  <2> HIDE DEF p
  <2>4. LockOf(f)
    BY <1>0, <2>1, <2>2, Requests DEF LockOf, Owning
  <2>5. QueueOf(f, visible)
    BY <1>2, <2>1 DEF QueueOf
  <2>6. LeadOf(f)
    BY <1>0, <2>1, <2>2, Requests DEF LeadOf
  <2>7. \A u \in Tab : e.current[u] = r => u = t
    BY Requests DEF LiveOf
  <2>8. \A u \in Tab : LiveOf(f, seats, visible, keepWhileHidden, u)
    BY <1>0, <2>1, <2>2, <2>3, <2>7 DEF LiveOf
  <2>9. \A u \in Tab : FreeSlots(e, u) \subseteq FreeSlots(f, u)
    BY <1>0, <2>1 DEF FreeSlots
  <2>10. Spare(f, asks)
    BY <2>9, SpareKept
  <2> QED BY <1>1, <2>1, <2>4, <2>5, <2>6, <2>8, <2>10 DEF IInv, Typed, Sound
<1> QED BY <1>3, <1>4

LEMMA SettledKeeps == ASSUME NEW r \in Request PROVE IInv /\ Settled(r) => IInv'
<1> SUFFICES ASSUME IInv, Settled(r) PROVE IInv'
  OBVIOUS
<1> USE Fields
<1> DEFINE e == election
           f == election'
           t == TabOf(r)
<1>0. t \in Tab /\ e.phase[r] = "settled"
  BY Requests DEF Settled
<1>1. UNCHANGED <<keepWhileHidden, seats, visible, paged, asks, changes>>
  BY DEF Settled
<1>2. e.current[t] = r => ~e.leads[t]
  BY <1>0 DEF LeadOf
<1>3. /\ f \in Election
      /\ f.holder = e.holder /\ f.queue = e.queue
      /\ f.phase = [e.phase EXCEPT ![r] = "free"]
      /\ f.kind = e.kind /\ f.leads = e.leads
      /\ f.current = [e.current EXCEPT ![t] = IF @ = r THEN None ELSE @]
  <2>1. f = [e EXCEPT !.phase[r] = "free", !.current[t] = IF @ = r THEN None ELSE @]
    BY <1>0, <1>2 DEF Settled
  <2> QED BY <2>1, <1>0 DEF Election, Phase
<1>4. LockOf(f)
  BY <1>0, <1>3, Requests DEF LockOf, Owning
<1>5. \A i \in DOMAIN e.queue : e.queue[i] # r /\ e.queue[i] \in Request
  BY <1>0 DEF QueueOf
<1>6. QueueOf(f, visible)
  BY <1>3, <1>5, Requests DEF QueueOf
<1>7. LeadOf(f)
  BY <1>0, <1>2, <1>3, Requests DEF LeadOf
<1>8. \A u \in Tab : f.current[u] # r
  BY <1>3, Requests DEF LiveOf
<1>9. \A u \in Tab : LiveOf(f, seats, visible, keepWhileHidden, u)
  BY <1>0, <1>3, <1>8 DEF LiveOf
<1>10. \A u \in Tab : FreeSlots(e, u) \subseteq FreeSlots(f, u)
  BY <1>0, <1>3 DEF FreeSlots
<1>11. Spare(f, asks)
  BY <1>10, SpareKept
<1> QED BY <1>1, <1>3, <1>4, <1>6, <1>7, <1>9, <1>11 DEF IInv, Typed, Sound

LEMMA RejectedKeeps == ASSUME NEW r \in Request PROVE IInv /\ Rejected(r) => IInv'
<1> SUFFICES ASSUME IInv, Rejected(r) PROVE IInv'
  OBVIOUS
<1> USE Fields
<1> DEFINE e == election
           t == TabOf(r)
           g == [e EXCEPT !.phase[r] = "free"]
           h == [g EXCEPT !.current[t] = None, !.leads[t] = FALSE]
<1>0. t \in Tab /\ e.phase[r] \in {"robbed", "stolen"}
  BY Requests DEF Rejected
<1>1. UNCHANGED <<keepWhileHidden, seats, visible, paged, asks, changes>>
  BY DEF Rejected
<1>2. \A i \in DOMAIN e.queue : e.queue[i] # r /\ e.queue[i] \in Request
  BY <1>0 DEF QueueOf
<1>3. \A u \in Tab : e.current[u] = r => u = t
  BY Requests DEF LiveOf
<1>4. CASE e.current[t] # r
  <2>1. election' = g
    BY <1>4 DEF Rejected
  <2>2. /\ g \in Election
        /\ g.holder = e.holder /\ g.queue = e.queue /\ g.phase = [e.phase EXCEPT ![r] = "free"]
        /\ g.kind = e.kind /\ g.leads = e.leads /\ g.current = e.current
    BY DEF Election, Phase
  <2> HIDE DEF g
  <2>3. LockOf(g)
    BY <1>0, <2>2, Requests DEF LockOf, Owning
  <2>4. QueueOf(g, visible)
    BY <1>2, <2>2 DEF QueueOf
  <2>5. LeadOf(g)
    BY <1>0, <1>3, <1>4, <2>2, Requests DEF LeadOf
  <2>6. \A u \in Tab : LiveOf(g, seats, visible, keepWhileHidden, u)
    BY <1>3, <1>4, <2>2 DEF LiveOf
  <2>7. \A u \in Tab : FreeSlots(e, u) \subseteq FreeSlots(g, u)
    BY <1>0, <2>2 DEF FreeSlots
  <2>8. Spare(g, asks)
    BY <2>7, SpareKept
  <2> QED BY <1>1, <2>1, <2>2, <2>3, <2>4, <2>5, <2>6, <2>8 DEF IInv, Typed, Sound
<1>5. CASE e.current[t] = r
  <2>1. election' = stand(h, t, visible[t])
    BY <1>5 DEF Rejected
  <2>2. /\ h \in Election
        /\ h.holder = e.holder /\ h.queue = e.queue /\ h.phase = [e.phase EXCEPT ![r] = "free"]
        /\ h.kind = e.kind /\ h.leads = [e.leads EXCEPT ![t] = FALSE]
        /\ h.current = [e.current EXCEPT ![t] = None]
    <3>1. /\ g \in Election
          /\ g.holder = e.holder /\ g.queue = e.queue /\ g.phase = [e.phase EXCEPT ![r] = "free"]
          /\ g.kind = e.kind /\ g.leads = e.leads /\ g.current = e.current
      BY DEF Election, Phase
    <3> HIDE DEF g
    <3> QED BY <3>1 DEF Election
  <2> HIDE DEF h
  <2>3. LockOf(h)
    BY <1>0, <2>2, Requests DEF LockOf, Owning
  <2>4. QueueOf(h, visible)
    BY <1>2, <1>5, <2>2, Requests DEF QueueOf
  <2>5. LeadOf(h)
    BY <1>0, <1>3, <1>5, <2>2, Requests DEF LeadOf
  <2>6. \A u \in Tab : LiveOf(h, seats, visible, keepWhileHidden, u)
    BY <1>0, <1>3, <2>2 DEF LiveOf
  <2>7. Sound(h, seats, visible, keepWhileHidden)
    BY <2>2, <2>3, <2>4, <2>5, <2>6 DEF Sound
  <2>8. \A u \in Tab : FreeSlots(e, u) \subseteq FreeSlots(h, u)
    BY <1>0, <2>2 DEF FreeSlots
  <2>9. r \in FreeSlots(h, t) /\ r \notin FreeSlots(e, t)
    BY <1>0, <2>2 DEF FreeSlots
  <2>10. seats[t] > 0 /\ visible[t] \in BOOLEAN /\ keepWhileHidden \in BOOLEAN
    BY <1>0, <1>5, Requests DEF LiveOf, IInv, Typed
  <2>11. Fine(h, election', seats, visible, t)
    BY <1>0, <2>1, <2>7, <2>9, <2>10, standKeeps
  <2>12. Spare(h, asks)
    BY <2>8, SpareKept
  <2>13. Cardinality(FreeSlots(h, t)) > Len(asks[t])
    <3>1. FreeSlots(e, t) \subseteq FreeSlots(h, t) \ {r}
      BY <1>0, <2>8, <2>9
    <3>2. /\ IsFiniteSet(FreeSlots(h, t)) /\ Cardinality(FreeSlots(h, t)) \in Nat
          /\ Cardinality(FreeSlots(e, t)) \in Nat /\ Cardinality(FreeSlots(e, t)) >= Len(asks[t])
      BY <1>0, SlotsFinite DEF Spare
    <3>3. /\ IsFiniteSet(FreeSlots(h, t) \ {r})
          /\ Cardinality(FreeSlots(h, t) \ {r}) = Cardinality(FreeSlots(h, t)) - 1
      BY <2>9, <3>2, FS_RemoveElement
    <3>4. Cardinality(FreeSlots(e, t)) <= Cardinality(FreeSlots(h, t) \ {r})
      BY <3>1, <3>3, FS_Subset
    <3> QED BY <1>0, <3>2, <3>3, <3>4
  <2>14. Spare(election', asks)
    BY <1>0, <2>11, <2>12, <2>13, SpareUsed DEF Fine
  <2> QED BY <1>1, <2>11, <2>14 DEF IInv, Typed, Fine
<1> QED BY <1>4, <1>5

LEMMA AnswerQueryKeeps == ASSUME NEW t \in Tab PROVE IInv /\ AnswerQuery(t) => IInv'
<1> SUFFICES ASSUME IInv, AnswerQuery(t) PROVE IInv'
  OBVIOUS
<1> USE Fields
<1>1. UNCHANGED <<keepWhileHidden, seats, visible, paged, changes, election>>
  BY DEF AnswerQuery
<1>2. asks \in [Tab -> Seq(Answers)]
  BY DEF IInv, Typed
<1>3. PICK i \in DOMAIN asks[t], answer \in {"waiter", "nobody"} : asks' = [asks EXCEPT ![t][i] = answer]
  BY DEF AnswerQuery
<1>4. [asks[t] EXCEPT ![i] = answer] \in Seq(Answers) /\ Len([asks[t] EXCEPT ![i] = answer]) = Len(asks[t])
  BY <1>2 DEF Answers
<1>5. asks' = [asks EXCEPT ![t] = [asks[t] EXCEPT ![i] = answer]]
  BY <1>2, <1>3
<1>6. asks' \in [Tab -> Seq(Answers)] /\ \A u \in Tab : Len(asks'[u]) = Len(asks[u])
  BY <1>2, <1>4, <1>5
<1>7. \A u \in Tab : Len(asks'[u]) \in Nat /\ Len(asks'[u]) <= Len(asks[u])
  BY <1>6
<1>8. Spare(election, asks')
  BY <1>7, SpareKept
<1> QED BY <1>1, <1>6, <1>8 DEF IInv, Typed

LEMMA HearAnswerKeeps == ASSUME NEW t \in Tab PROVE IInv /\ HearAnswer(t) => IInv'
<1> SUFFICES ASSUME IInv, HearAnswer(t) PROVE IInv'
  OBVIOUS
<1> USE Fields
<1>1. UNCHANGED <<keepWhileHidden, seats, visible, paged, changes>>
  BY DEF HearAnswer
<1>2. asks \in [Tab -> Seq(Answers)] /\ asks[t] # <<>> /\ asks' = [asks EXCEPT ![t] = Tail(@)]
  BY DEF HearAnswer, IInv, Typed
<1>3. /\ asks' \in [Tab -> Seq(Answers)]
      /\ \A u \in Tab \ {t} : Len(asks'[u]) = Len(asks[u])
      /\ Len(asks'[t]) = Len(asks[t]) - 1 /\ Len(asks[t]) > 0
  BY <1>2
<1>4. \A u \in Tab : Len(asks'[u]) \in Nat /\ Len(asks'[u]) <= Len(asks[u])
  BY <1>3
<1>5. CASE Head(asks[t]) = "waiter" /\ ~visible[t] /\ election.leads[t]
  <2> DEFINE f == relinquish(election, t)
  <2>1. election' = stand(f, t, visible[t])
    BY <1>5 DEF HearAnswer, IInv, Typed
  <2>2. /\ Sound(f, seats, visible, keepWhileHidden)
        /\ \A u \in Tab : FreeSlots(election, u) \subseteq FreeSlots(f, u)
    BY relinquishKeeps DEF IInv
  <2> HIDE DEF f
  <2>3. Cardinality(FreeSlots(election, t)) >= Len(asks[t]) /\ Cardinality(FreeSlots(election, t)) \in Nat
    BY SlotsFinite DEF Spare
  <2>4. Cardinality(FreeSlots(f, t)) >= Cardinality(FreeSlots(election, t)) /\ Cardinality(FreeSlots(f, t)) \in Nat
    BY <2>2, SlotsKept, SlotsFinite
  <2>5. Cardinality(FreeSlots(f, t)) > Len(asks'[t]) /\ FreeSlots(f, t) # {}
    <3>1. Cardinality(FreeSlots(f, t)) > Len(asks'[t])
      BY <1>3, <2>3, <2>4
    <3> QED BY <3>1, <1>4, SlotLeft
  <2>6. seats[t] > 0
    BY <1>5 DEF LeadOf, LiveOf
  <2>7. visible[t] \in BOOLEAN /\ keepWhileHidden \in BOOLEAN
    BY DEF IInv, Typed
  <2>8. Fine(f, election', seats, visible, t)
    BY <2>1, <2>2, <2>5, <2>6, <2>7, standKeeps
  <2>9. Spare(f, asks)
    BY <2>2, SpareKept
  <2>10. Spare(election', asks')
    BY <1>4, <2>5, <2>8, <2>9, SpareUsed DEF Fine
  <2> QED BY <1>1, <1>3, <2>8, <2>10 DEF IInv, Typed, Fine
<1>6. CASE ~(Head(asks[t]) = "waiter" /\ ~visible[t] /\ election.leads[t])
  <2>1. election' = election
    BY <1>6 DEF HearAnswer
  <2>2. Spare(election, asks')
    BY <1>4, SpareKept
  <2> QED BY <1>1, <1>3, <2>1, <2>2 DEF IInv, Typed
<1> QED BY <1>5, <1>6

(* A user's change finds a slot to spare.                                   *)
LEMMA ChangeSpares ==
  ASSUME IInv, NEW t \in Tab, Change(t)
  PROVE  /\ Cardinality(FreeSlots(election, t)) > Len(asks[t]) /\ FreeSlots(election, t) # {}
         /\ changes' \in 0..MaxChanges /\ keepWhileHidden' = keepWhileHidden
<1>1. Cardinality(FreeSlots(election, t)) > Len(asks[t])
  BY DEF Change
<1>2. Len(asks[t]) \in Nat
  BY Fields
<1>3. changes' \in 0..MaxChanges
  BY TabLeaderAssumptions DEF Change, IInv, Typed
<1> QED BY <1>1, <1>2, <1>3, SlotLeft DEF Change

LEMMA ShowKeeps == ASSUME NEW t \in Tab PROVE IInv /\ Show(t) => IInv'
<1> SUFFICES ASSUME IInv, Show(t) PROVE IInv'
  OBVIOUS
<1> USE Fields
<1>1. /\ Cardinality(FreeSlots(election, t)) > Len(asks[t]) /\ FreeSlots(election, t) # {}
      /\ changes' \in 0..MaxChanges /\ keepWhileHidden' = keepWhileHidden
  BY ChangeSpares DEF Show
<1>2. /\ visible' = [visible EXCEPT ![t] = TRUE] /\ UNCHANGED <<seats, paged, asks>>
      /\ visible \in [Tab -> BOOLEAN] /\ seats \in [Tab -> 0..MaxSeats] /\ keepWhileHidden \in BOOLEAN
  BY DEF Show, IInv, Typed
<1>3. Typed'
  BY <1>1, <1>2 DEF IInv, Typed
<1>4. Sound(election, seats, visible', keepWhileHidden)
  <2>1. /\ \A u \in Tab \ {t} : seats[u] = seats[u] /\ visible'[u] = visible[u]
        /\ visible'[t] /\ Sound(election, seats, visible, keepWhileHidden)
    BY <1>2 DEF IInv
  <2>2. election.current[t] # None => seats[t] > 0
    BY DEF LiveOf
  <2> QED BY <2>1, <2>2, MovedKeeps
<1>5. CASE seats[t] > 0
  <2>1. election' = onShown(election, t) /\ visible'[t] = TRUE
    BY <1>2, <1>5 DEF Show, Handled
  <2>2. Fine(election, election', seats, visible', t)
    BY <1>1, <1>2, <1>4, <1>5, <2>1, onShownKeeps
  <2>3. Spare(election', asks)
    BY <1>1, <2>2, SpareUsed DEF Fine
  <2> QED BY <1>1, <1>2, <1>3, <2>2, <2>3 DEF IInv, Fine
<1>6. CASE ~(seats[t] > 0)
  <2>1. election' = election
    BY <1>6 DEF Show, Handled
  <2> QED BY <1>1, <1>2, <1>3, <1>4, <2>1 DEF IInv
<1> QED BY <1>5, <1>6

LEMMA HideKeeps == ASSUME NEW t \in Tab PROVE IInv /\ Hide(t) => IInv'
<1> SUFFICES ASSUME IInv, Hide(t) PROVE IInv'
  OBVIOUS
<1> USE Fields
<1>1. /\ Cardinality(FreeSlots(election, t)) > Len(asks[t]) /\ FreeSlots(election, t) # {}
      /\ changes' \in 0..MaxChanges /\ keepWhileHidden' = keepWhileHidden
  BY ChangeSpares DEF Hide
<1>2. /\ visible' = [visible EXCEPT ![t] = FALSE] /\ UNCHANGED <<seats, paged>>
      /\ visible \in [Tab -> BOOLEAN] /\ seats \in [Tab -> 0..MaxSeats] /\ keepWhileHidden \in BOOLEAN
      /\ asks \in [Tab -> Seq(Answers)]
      /\ asks' = [asks EXCEPT ![t] = IF keepWhileHidden /\ election.leads[t] THEN Append(@, "sent") ELSE @]
  BY DEF Hide, IInv, Typed
<1>3. /\ asks' \in [Tab -> Seq(Answers)]
      /\ \A u \in Tab \ {t} : Len(asks'[u]) = Len(asks[u])
      /\ Len(asks'[t]) = IF keepWhileHidden /\ election.leads[t] THEN Len(asks[t]) + 1 ELSE Len(asks[t])
  BY <1>2 DEF Answers
<1>4. Typed'
  BY <1>1, <1>2, <1>3 DEF IInv, Typed
<1>5. \A u \in Tab : Len(asks'[u]) \in Nat
  <2> SUFFICES ASSUME NEW u \in Tab PROVE Len(asks'[u]) \in Nat
    OBVIOUS
  <2>1. asks'[u] \in Seq(Answers)
    BY <1>3
  <2> QED BY <2>1
<1>6. \A u \in Tab \ {t} : seats[u] = seats[u] /\ visible'[u] = visible[u]
  BY <1>2
<1>7. CASE seats[t] > 0
  <2>1. election' = onHidden(election, t) /\ visible'[t] = FALSE
    BY <1>2, <1>7 DEF Hide, Handled
  <2>2. Fine(election, election', seats, visible', t)
    <3>1. Sound(election, seats, visible, keepWhileHidden) /\ \A u \in Tab \ {t} : visible'[u] = visible[u]
      BY <1>6 DEF IInv
    <3> QED BY <1>1, <1>2, <1>7, <2>1, <3>1, onHiddenKeeps
  <2>3. Spare(election', asks')
    <3>1. CASE keepWhileHidden /\ election.leads[t]
      <4>1. election' = election
        BY <2>1, <3>1 DEF onHidden
      <4>2. Cardinality(FreeSlots(election, t)) >= Len(asks'[t])
        BY <1>1, <1>3, <3>1, SlotsFinite
      <4> QED BY <1>3, <4>1, <4>2 DEF Spare
    <3>2. CASE ~(keepWhileHidden /\ election.leads[t])
      BY <1>1, <1>3, <1>5, <2>2, <3>2, SpareUsed DEF Fine
    <3> QED BY <3>1, <3>2
  <2> QED BY <1>1, <1>2, <1>4, <2>2, <2>3 DEF IInv, Fine
<1>8. CASE ~(seats[t] > 0)
  <2>1. election' = election
    BY <1>8 DEF Hide, Handled
  <2>2. election.current[t] = None /\ ~election.leads[t]
    BY <1>8 DEF LiveOf, LeadOf
  <2>3. Sound(election, seats, visible', keepWhileHidden)
    BY <1>6, <2>2, MovedKeeps DEF IInv
  <2>4. Spare(election, asks')
    BY <1>3, <2>2 DEF Spare
  <2> QED BY <1>1, <1>2, <1>4, <2>1, <2>3, <2>4 DEF IInv
<1> QED BY <1>7, <1>8

LEMMA PageHideKeeps == ASSUME NEW t \in Tab PROVE IInv /\ PageHide(t) => IInv'
<1> SUFFICES ASSUME IInv, PageHide(t) PROVE IInv'
  OBVIOUS
<1> USE Fields
<1>1. /\ Cardinality(FreeSlots(election, t)) > Len(asks[t]) /\ FreeSlots(election, t) # {}
      /\ changes' \in 0..MaxChanges /\ keepWhileHidden' = keepWhileHidden
  BY ChangeSpares DEF PageHide
<1>2. /\ visible' = [visible EXCEPT ![t] = FALSE] /\ paged' = [paged EXCEPT ![t] = TRUE]
      /\ UNCHANGED <<seats, asks>>
      /\ visible \in [Tab -> BOOLEAN] /\ keepWhileHidden \in BOOLEAN
  BY DEF PageHide, IInv, Typed
<1>3. Typed'
  BY <1>1, <1>2 DEF IInv, Typed
<1>4. /\ \A u \in Tab \ {t} : seats[u] = seats[u] /\ visible'[u] = visible[u]
      /\ visible'[t] = FALSE /\ visible[t] \in BOOLEAN
  BY <1>2
<1>5. CASE seats[t] > 0
  <2> DEFINE f == relinquish(election, t)
  <2>1. election' = IF visible[t] THEN onHidden(f, t) ELSE f
    BY <1>5 DEF PageHide, Handled
  <2>2. /\ Sound(f, seats, visible, keepWhileHidden) /\ f.current[t] = None
        /\ \A u \in Tab : FreeSlots(election, u) \subseteq FreeSlots(f, u)
    BY relinquishKeeps DEF IInv
  <2> HIDE DEF f
  <2>3. Sound(f, seats, visible', keepWhileHidden)
    BY <1>4, <2>2, MovedKeeps
  <2>4. FreeSlots(f, t) # {}
    BY <1>1, <2>2
  <2>5. CASE visible[t]
    <3>1. Fine(f, onHidden(f, t), seats, visible', t)
      BY <1>2, <1>4, <1>5, <2>2, <2>4, onHiddenKeeps
    <3>2. Fine(election, election', seats, visible', t)
      BY <2>1, <2>2, <2>5, <3>1, FewerAfter DEF Fine
    <3>3. Spare(election', asks)
      BY <1>1, <3>2, SpareUsed DEF Fine
    <3> QED BY <1>1, <1>2, <1>3, <3>2, <3>3 DEF IInv, Fine
  <2>6. CASE ~visible[t]
    <3>1. Spare(f, asks)
      BY <2>2, SpareKept
    <3> QED BY <1>1, <1>2, <1>3, <2>1, <2>3, <2>6, <3>1 DEF IInv
  <2> QED BY <2>5, <2>6
<1>6. CASE ~(seats[t] > 0)
  <2>1. election' = election
    BY <1>6 DEF PageHide, Handled
  <2>2. election.current[t] = None
    BY <1>6 DEF LiveOf
  <2>3. Sound(election, seats, visible', keepWhileHidden)
    BY <1>4, <2>2, MovedKeeps DEF IInv
  <2> QED BY <1>1, <1>2, <1>3, <2>1, <2>3 DEF IInv
<1> QED BY <1>5, <1>6

LEMMA PageShowKeeps == ASSUME NEW t \in Tab PROVE IInv /\ PageShow(t) => IInv'
<1> SUFFICES ASSUME IInv, PageShow(t) PROVE IInv'
  OBVIOUS
<1> USE Fields
<1>1. /\ Cardinality(FreeSlots(election, t)) > Len(asks[t]) /\ FreeSlots(election, t) # {}
      /\ changes' \in 0..MaxChanges /\ keepWhileHidden' = keepWhileHidden
  BY ChangeSpares DEF PageShow
<1>2. PICK shown \in BOOLEAN :
        /\ visible' = [visible EXCEPT ![t] = shown]
        /\ Handled(t, IF shown THEN onShown(election, t) ELSE onHidden(election, t))
  BY DEF PageShow
<1>3. /\ paged' = [paged EXCEPT ![t] = FALSE] /\ UNCHANGED <<seats, asks>>
      /\ visible \in [Tab -> BOOLEAN] /\ keepWhileHidden \in BOOLEAN
  BY DEF PageShow, IInv, Typed
<1>4. Typed'
  BY <1>1, <1>2, <1>3 DEF IInv, Typed
<1>5. /\ \A u \in Tab \ {t} : seats[u] = seats[u] /\ visible'[u] = visible[u]
      /\ visible'[t] = shown
  BY <1>2, <1>3
<1>6. Sound(election, seats, visible, keepWhileHidden)
  BY DEF IInv
<1>7. CASE seats[t] > 0
  <2>1. Fine(election, election', seats, visible', t)
    <3>1. CASE shown
      <4>1. Sound(election, seats, visible', keepWhileHidden)
        BY <1>5, <1>6, <1>7, <3>1, MovedKeeps
      <4>2. election' = onShown(election, t) /\ visible'[t] = TRUE
        BY <1>2, <1>5, <1>7, <3>1 DEF Handled
      <4> QED BY <1>1, <1>3, <1>7, <4>1, <4>2, onShownKeeps
    <3>2. CASE ~shown
      <4>1. election' = onHidden(election, t) /\ visible'[t] = FALSE
        BY <1>2, <1>5, <1>7, <3>2 DEF Handled
      <4> QED BY <1>1, <1>3, <1>5, <1>6, <1>7, <4>1, onHiddenKeeps
    <3> QED BY <3>1, <3>2
  <2>2. Spare(election', asks)
    BY <1>1, <2>1, SpareUsed DEF Fine
  <2> QED BY <1>1, <1>3, <1>4, <2>1, <2>2 DEF IInv, Fine
<1>8. CASE ~(seats[t] > 0)
  <2>1. election' = election
    BY <1>2, <1>8 DEF Handled
  <2>2. election.current[t] = None
    BY <1>8 DEF LiveOf
  <2>3. Sound(election, seats, visible', keepWhileHidden)
    BY <1>5, <1>6, <2>2, MovedKeeps
  <2> QED BY <1>1, <1>3, <1>4, <2>1, <2>3 DEF IInv
<1> QED BY <1>7, <1>8

LEMMA JoinKeeps == ASSUME NEW t \in Tab PROVE IInv /\ Join(t) => IInv'
<1> SUFFICES ASSUME IInv, Join(t) PROVE IInv'
  OBVIOUS
<1> USE Fields
<1>1. /\ Cardinality(FreeSlots(election, t)) > Len(asks[t]) /\ FreeSlots(election, t) # {}
      /\ changes' \in 0..MaxChanges /\ keepWhileHidden' = keepWhileHidden
  BY ChangeSpares DEF Join
<1>2. /\ seats' = [seats EXCEPT ![t] = @ + 1] /\ seats[t] < MaxSeats
      /\ UNCHANGED <<visible, paged, asks>>
      /\ seats \in [Tab -> 0..MaxSeats] /\ visible \in [Tab -> BOOLEAN] /\ keepWhileHidden \in BOOLEAN
  BY DEF Join, IInv, Typed
<1>3. seats' \in [Tab -> 0..MaxSeats] /\ seats'[t] > 0 /\ \A u \in Tab \ {t} : seats'[u] = seats[u]
  BY <1>2, TabLeaderAssumptions
<1>4. Typed'
  BY <1>1, <1>2, <1>3 DEF IInv, Typed
<1>5. Sound(election, seats', visible, keepWhileHidden)
  <2>1. election.current[t] # None => seats'[t] > 0 /\ (keepWhileHidden \/ visible[t])
    BY <1>3 DEF LiveOf
  <2>2. \A u \in Tab \ {t} : seats'[u] = seats[u] /\ visible[u] = visible[u]
    BY <1>3
  <2> QED BY <2>1, <2>2, MovedKeeps DEF IInv
<1>6. CASE seats[t] = 0
  <2>1. Fine(election, election', seats', visible, t)
    <3>1. CASE visible[t]
      <4>1. election' = onShown(election, t) /\ visible[t] = TRUE
        BY <1>2, <1>6, <3>1 DEF Join
      <4> QED BY <1>1, <1>2, <1>3, <1>5, <4>1, onShownKeeps
    <3>2. CASE ~visible[t]
      <4>1. election' = stand(election, t, visible[t]) /\ visible[t] \in BOOLEAN
        BY <1>2, <1>6, <3>2 DEF Join
      <4> QED BY <1>1, <1>2, <1>3, <1>5, <4>1, standKeeps
    <3> QED BY <3>1, <3>2
  <2>2. Spare(election', asks)
    BY <1>1, <2>1, SpareUsed DEF Fine
  <2> QED BY <1>1, <1>2, <1>4, <2>1, <2>2 DEF IInv, Fine
<1>7. CASE seats[t] # 0
  <2>1. election' = election
    BY <1>7 DEF Join
  <2> QED BY <1>1, <1>2, <1>4, <1>5, <2>1 DEF IInv
<1> QED BY <1>6, <1>7

LEMMA LeaveKeeps == ASSUME NEW t \in Tab PROVE IInv /\ Leave(t) => IInv'
<1> SUFFICES ASSUME IInv, Leave(t) PROVE IInv'
  OBVIOUS
<1> USE Fields
<1>1. changes' \in 0..MaxChanges /\ keepWhileHidden' = keepWhileHidden
  BY ChangeSpares DEF Leave
<1>2. /\ seats' = [seats EXCEPT ![t] = @ - 1] /\ seats[t] > 0
      /\ asks' = [asks EXCEPT ![t] = IF seats[t] = 1 THEN <<>> ELSE @]
      /\ UNCHANGED <<visible, paged>>
      /\ seats \in [Tab -> 0..MaxSeats] /\ asks \in [Tab -> Seq(Answers)]
  BY DEF Leave, IInv, Typed
<1>3. seats' \in [Tab -> 0..MaxSeats] /\ \A u \in Tab \ {t} : seats'[u] = seats[u] /\ visible[u] = visible[u]
  BY <1>2, TabLeaderAssumptions
<1>4. asks' \in [Tab -> Seq(Answers)]
  BY <1>2
<1>5. \A u \in Tab : Len(asks'[u]) \in Nat /\ Len(asks'[u]) <= Len(asks[u])
  BY <1>2
<1>6. Typed'
  BY <1>1, <1>2, <1>3, <1>4 DEF IInv, Typed
<1>7. CASE seats[t] = 1
  <2> DEFINE f == relinquish(election, t)
  <2>1. election' = f
    BY <1>7 DEF Leave
  <2>2. /\ Sound(f, seats, visible, keepWhileHidden) /\ f.current[t] = None
        /\ \A u \in Tab : FreeSlots(election, u) \subseteq FreeSlots(f, u)
    BY relinquishKeeps DEF IInv
  <2> HIDE DEF f
  <2>3. Sound(f, seats', visible, keepWhileHidden)
    BY <1>3, <2>2, MovedKeeps
  <2>4. Spare(f, asks')
    BY <1>5, <2>2, SpareKept
  <2> QED BY <1>1, <1>2, <1>6, <2>1, <2>3, <2>4 DEF IInv
<1>8. CASE seats[t] # 1
  <2>1. election' = election /\ seats'[t] > 0
    BY <1>2, <1>8 DEF Leave
  <2>2. election.current[t] # None => keepWhileHidden \/ visible[t]
    BY DEF LiveOf
  <2>3. Sound(election, seats', visible, keepWhileHidden)
    BY <1>3, <2>1, <2>2, MovedKeeps DEF IInv
  <2>4. Spare(election, asks')
    BY <1>5, SpareKept
  <2> QED BY <1>1, <1>2, <1>6, <2>1, <2>3, <2>4 DEF IInv
<1> QED BY <1>7, <1>8

LEMMA GoneKeeps ==
  ASSUME NEW t \in Tab, IInv, Gone(t), changes' \in 0..MaxChanges, keepWhileHidden' = keepWhileHidden
  PROVE  IInv'
<1> USE Fields
<1> DEFINE e == election
           f == election'
<1>1. /\ seats' = [seats EXCEPT ![t] = 0] /\ paged' = [paged EXCEPT ![t] = FALSE]
      /\ asks' = [asks EXCEPT ![t] = <<>>] /\ visible' = visible
      /\ seats \in [Tab -> 0..MaxSeats] /\ asks \in [Tab -> Seq(Answers)]
  BY DEF Gone, IInv, Typed
<1>2. asks' \in [Tab -> Seq(Answers)] /\ \A u \in Tab : Len(asks'[u]) \in Nat /\ Len(asks'[u]) <= Len(asks[u])
  BY <1>1
<1>3. Typed'
  <2>1. seats' \in [Tab -> 0..MaxSeats]
    BY <1>1, TabLeaderAssumptions
  <2> QED BY <1>1, <1>2, <2>1 DEF IInv, Typed
<1>4. /\ Dropped(e.queue, e.current[t]) \in Seq(Request)
      /\ \A i, j \in DOMAIN Dropped(e.queue, e.current[t]) :
            Dropped(e.queue, e.current[t])[i] = Dropped(e.queue, e.current[t])[j] => i = j
      /\ \A i \in DOMAIN Dropped(e.queue, e.current[t]) :
            /\ Dropped(e.queue, e.current[t])[i] # e.current[t]
            /\ \E j \in DOMAIN e.queue : Dropped(e.queue, e.current[t])[i] = e.queue[j]
  BY DroppedIs DEF QueueOf
<1>5. /\ f \in Election
      /\ f.holder = (IF e.holder # None /\ TabOf(e.holder) = t THEN None ELSE e.holder)
      /\ f.queue = Dropped(e.queue, e.current[t])
      /\ f.phase = [r \in Request |-> IF TabOf(r) = t THEN "free" ELSE e.phase[r]]
      /\ f.kind = e.kind
      /\ f.current = [e.current EXCEPT ![t] = None] /\ f.leads = [e.leads EXCEPT ![t] = FALSE]
  <2>1. f = [e EXCEPT !.holder = IF e.holder # None /\ TabOf(e.holder) = t THEN None ELSE e.holder,
                      !.queue = Dropped(e.queue, e.current[t]),
                      !.phase = [r \in Request |-> IF TabOf(r) = t THEN "free" ELSE e.phase[r]],
                      !.current[t] = None, !.leads[t] = FALSE]
    BY DEF Gone
  <2>2. [r \in Request |-> IF TabOf(r) = t THEN "free" ELSE e.phase[r]] \in [Request -> Phase]
    BY DEF Phase
  <2> QED BY <1>4, <2>1, <2>2 DEF Election
<1>6. /\ \A x \in Request : TabOf(x) = t => f.phase[x] = "free"
      /\ \A x \in Request : TabOf(x) # t => f.phase[x] = e.phase[x]
  BY <1>5
<1>7. \A u \in Tab \ {t} : f.current[u] = e.current[u] /\ f.leads[u] = e.leads[u]
  BY <1>5
<1>8. f.current[t] = None /\ f.leads[t] = FALSE
  BY <1>5
<1> HIDE DEF f
<1>9. LockOf(f)
  <2>1. f.holder # None => f.phase[f.holder] \in Owning
    BY <1>5, <1>6 DEF LockOf
  <2>2. \A r \in Request : f.phase[r] \in Owning => f.holder = r
    <3> SUFFICES ASSUME NEW r \in Request, f.phase[r] \in Owning PROVE f.holder = r
      OBVIOUS
    <3>1. TabOf(r) # t /\ e.phase[r] \in Owning
      BY <1>6 DEF Owning
    <3> QED BY <3>1, <1>5 DEF LockOf
  <2> QED BY <2>1, <2>2 DEF LockOf
<1>10. QueueOf(f, visible)
  <2>1. \A i \in DOMAIN f.queue :
          LET x == f.queue[i] IN
          /\ f.phase[x] = "queued" /\ f.kind[x] = "queue"
          /\ f.current[TabOf(x)] = x /\ visible[TabOf(x)]
    <3> TAKE i \in DOMAIN f.queue
    <3> DEFINE x == f.queue[i]
    <3>1. PICK j \in DOMAIN e.queue : x = e.queue[j] /\ x # e.current[t]
      BY <1>4, <1>5
    <3>2. x \in Request /\ TabOf(x) \in Tab
      BY <3>1, Requests
    <3>3. e.phase[x] = "queued" /\ e.kind[x] = "queue" /\ e.current[TabOf(x)] = x /\ visible[TabOf(x)]
      BY <3>1 DEF QueueOf
    <3>4. TabOf(x) # t
      BY <3>1, <3>3
    <3> HIDE DEF x
    <3>5. /\ f.phase[x] = "queued" /\ f.kind[x] = "queue"
          /\ f.current[TabOf(x)] = x /\ visible[TabOf(x)]
      BY <3>2, <3>3, <3>4, <1>5, <1>6, <1>7
    <3> QED BY <3>5 DEF x
  <2> QED BY <2>1, <1>4, <1>5 DEF QueueOf
<1>11. LeadOf(f)
  <2>1. \A u \in Tab : f.leads[u] => f.current[u] # None /\ f.phase[f.current[u]] \in {"held", "stolen"}
    <3> SUFFICES ASSUME NEW u \in Tab, f.leads[u]
                 PROVE  f.current[u] # None /\ f.phase[f.current[u]] \in {"held", "stolen"}
      OBVIOUS
    <3>1. u # t /\ f.current[u] = e.current[u] /\ e.leads[u]
      BY <1>7, <1>8
    <3>2. e.current[u] # None /\ e.phase[e.current[u]] \in {"held", "stolen"} /\ TabOf(e.current[u]) = u
      BY <3>1 DEF LeadOf, LiveOf
    <3>3. e.current[u] \in Request
      BY <3>2
    <3> QED BY <3>1, <3>2, <3>3, <1>6
  <2>2. \A x \in Request : f.phase[x] = "held" => f.current[TabOf(x)] = x /\ f.leads[TabOf(x)]
    <3> SUFFICES ASSUME NEW x \in Request, f.phase[x] = "held"
                 PROVE  f.current[TabOf(x)] = x /\ f.leads[TabOf(x)]
      OBVIOUS
    <3>1. TabOf(x) # t /\ e.phase[x] = "held" /\ TabOf(x) \in Tab
      BY <1>6, Requests
    <3>2. e.current[TabOf(x)] = x /\ e.leads[TabOf(x)]
      BY <3>1 DEF LeadOf
    <3> QED BY <3>1, <3>2, <1>7
  <2> QED BY <2>1, <2>2 DEF LeadOf
<1>12. \A u \in Tab : LiveOf(f, seats', visible, keepWhileHidden, u)
  <2> SUFFICES ASSUME NEW u \in Tab, f.current[u] # None
               PROVE  /\ TabOf(f.current[u]) = u
                      /\ f.phase[f.current[u]] \notin {"free", "returning"}
                      /\ seats'[u] > 0
                      /\ keepWhileHidden \/ visible[u]
    BY DEF LiveOf
  <2>1. u # t /\ f.current[u] = e.current[u] /\ seats'[u] = seats[u]
    BY <1>1, <1>7, <1>8
  <2>2. /\ TabOf(e.current[u]) = u /\ e.phase[e.current[u]] \notin {"free", "returning"}
        /\ seats[u] > 0 /\ (keepWhileHidden \/ visible[u])
    BY <2>1 DEF LiveOf
  <2>3. e.current[u] \in Request
    BY <2>1
  <2> QED BY <2>1, <2>2, <2>3, <1>6
<1>13. Spare(f, asks')
  <2>1. \A u \in Tab : FreeSlots(e, u) \subseteq FreeSlots(f, u)
    BY <1>6 DEF FreeSlots
  <2> QED BY <2>1, <1>2, SpareKept
<1> QED BY <1>1, <1>3, <1>5, <1>9, <1>10, <1>11, <1>12, <1>13 DEF IInv, Sound, f

LEMMA IInvStep == IInv /\ [Next]_vars => IInv'
<1> SUFFICES ASSUME IInv, [Next]_vars PROVE IInv'
  OBVIOUS
<1>1. CASE Grant
  BY <1>1, GrantKeeps
<1>2. ASSUME NEW r \in Request, Callback(r) \/ Rejected(r) \/ Settled(r) \/ Freed(r)
      PROVE  IInv'
  BY <1>2, CallbackKeeps, RejectedKeeps, SettledKeeps, FreedKeeps
<1>3. ASSUME NEW t \in Tab, HearAnswer(t) \/ AnswerQuery(t)
      PROVE  IInv'
  BY <1>3, HearAnswerKeeps, AnswerQueryKeeps
<1>4. ASSUME NEW t \in Tab, Show(t) \/ Hide(t) \/ PageHide(t) \/ PageShow(t)
      PROVE  IInv'
  BY <1>4, ShowKeeps, HideKeeps, PageHideKeeps, PageShowKeeps
<1>5. ASSUME NEW t \in Tab, Join(t) \/ Leave(t)
      PROVE  IInv'
  BY <1>5, JoinKeeps, LeaveKeeps
<1>6. ASSUME NEW t \in Tab, Close(t)
      PROVE  IInv'
  BY <1>6, ChangeSpares, GoneKeeps DEF Close
<1>7. ASSUME NEW t \in Tab, Evict(t)
      PROVE  IInv'
  BY <1>7, GoneKeeps DEF Evict, IInv, Typed
<1>8. CASE UNCHANGED vars
  BY <1>8 DEF vars, IInv, Typed
<1> QED BY <1>1, <1>2, <1>3, <1>4, <1>5, <1>6, <1>7, <1>8 DEF Next, Heard

LEMMA Invariant == Spec => []IInv
<1>1. Init => IInv
  BY InitHolds
<1>2. IInv /\ [Next]_vars => IInv'
  BY IInvStep
<1> QED BY <1>1, <1>2, PTL DEF Spec

-----------------------------------------------------------------------------
(***************************************************************************)
(* The theorems.                                                            *)
(***************************************************************************)

(* A tab that says it leads has a seat and holds the lock, or was robbed of *)
(* it and has not heard yet, however its requests, its visibility and its   *)
(* pages' comings and goings interleave.                                    *)
THEOREM LeadersCorrect == Spec => []LeadersHoldTheLock
<1>1. IInv => LeadersHoldTheLock
  <2> SUFFICES ASSUME IInv, NEW t \in Tab, election.leads[t]
               PROVE  /\ seats[t] > 0
                      /\ \/ Holds(t) /\ election.phase[election.holder] = "held"
                         \/ \E r \in Request : election.current[t] = r /\ election.phase[r] = "stolen"
    BY DEF LeadersHoldTheLock
  <2>1. election.current[t] # None /\ election.phase[election.current[t]] \in {"held", "stolen"}
    BY Fields DEF LeadOf
  <2>2. election.current[t] \in Request /\ seats[t] > 0
    BY <2>1, Fields DEF LiveOf
  <2>3. election.phase[election.current[t]] = "held" => election.holder = election.current[t]
    BY <2>2, Fields DEF LockOf, Owning
  <2> QED BY <2>1, <2>2, <2>3 DEF Holds
<1> QED BY <1>1, Invariant, PTL

(* A lock whose callback kept it belongs to the live request of a tab that  *)
(* knows it leads, so some event of that tab releases it.                   *)
THEOREM LocksCorrect == Spec => []NoLockLeaked
<1>1. IInv => NoLockLeaked
  <2> SUFFICES ASSUME IInv, election.holder # None, election.phase[election.holder] = "held"
               PROVE  Holds(TabOf(election.holder)) /\ election.leads[TabOf(election.holder)]
    BY DEF NoLockLeaked
  <2>1. election.holder \in Request
    BY Fields
  <2> QED BY <2>1, Fields DEF LeadOf, Holds
<1> QED BY <1>1, Invariant, PTL

(* The queue holds visible tabs alone and the sweep's leader is visible,    *)
(* and every variable keeps its type.                                       *)
THEOREM QueueCorrect == Spec => []HiddenTabsStandAside
<1>1. IInv => HiddenTabsStandAside
  <2> SUFFICES ASSUME IInv PROVE HiddenTabsStandAside
    OBVIOUS
  <2>1. TypeOK
    <3>1. \A t \in Tab : \A i \in DOMAIN asks[t] : asks[t][i] \in {"sent", "waiter", "nobody"}
      BY DEF IInv, Typed, Answers
    <3>2. \A i \in DOMAIN election.queue : election.queue[i] \in Request
      BY Fields
    <3> QED BY <3>1, <3>2, Fields DEF TypeOK, IInv, Typed
  <2>2. \A i \in DOMAIN election.queue : visible[TabOf(election.queue[i])]
    BY Fields DEF QueueOf
  <2>3. ~keepWhileHidden => \A t \in Tab : election.leads[t] => visible[t]
    BY Fields DEF LeadOf, LiveOf
  <2> QED BY <2>1, <2>2, <2>3 DEF HiddenTabsStandAside
<1> QED BY <1>1, Invariant, PTL
=============================================================================
