-------------------------- MODULE AccountWideProofs --------------------------
(***************************************************************************)
(* What the account_wide run checks for two Characters, one key, one tab    *)
(* and one thing gone wrong, proved for any number of each: where stamps    *)
(* come from, and that of what a pass has read the user's last act wins.    *)
(***************************************************************************)
EXTENDS AccountWide, FiniteSetTheorems, WellFoundedInduction, TLAPS

-----------------------------------------------------------------------------
(***************************************************************************)
(* The invariant.                                                           *)
(***************************************************************************)

Time == 0..MaxTime
Doc == [at : Time, deleted : BOOLEAN]
Window == [full : BOOLEAN, since : Time]

(* The keys of a map, with times that T allows each of them.                *)
TimesIn(f, T) == DOMAIN f \subseteq Key /\ \A k \in DOMAIN f : f[k] \in T[k]

DocsIn(docs, P, C) ==
    /\ DOMAIN docs \subseteq Key
    /\ \A k \in DOMAIN docs :
        /\ docs[k] \in Doc
        /\ docs[k].at \in IF docs[k].deleted THEN C[k] ELSE P[k]

Act ==
    {NoAct} \cup [kind : {"set"}, key : Key, who : SUBSET Character]
            \cup [kind : {"clear"}, key : Key, drop : SUBSET Character, record : SUBSET Character]

(* A backfill is for a Character on the device; its copies keep their times. *)
FillIn(f, R, P) ==
    \/ f = NoFill
    \/ f.step = "load" /\ f.who \in R
    \/ f.step \in {"sift", "write"} /\ f.who \in R /\ TimesIn(f.copies, P)

(* A pass that reads: what it has read so far carries the user's times.      *)
ReadingIn(p, P, C) ==
    /\ p.step \in {"fetch", "rows", "list", "merge"}
    /\ {"step", "docs", "local", "list"} \subseteq DOMAIN p
    /\ p.who \in Character /\ p.window \in Window
    /\ p.step # "fetch" => DocsIn(p.docs, P, C)
    /\ p.step \in {"list", "merge"} => TimesIn(p.local, P)
    /\ p.step = "merge" => TimesIn(p.list, C)

(* A doc that is pushed carries a time of the user's; a live one is newer    *)
(* than the doc of its key that was read, or than every doc that was not.   *)
WriteIn(w, docs, window, P, C) ==
    \/ w.doc = None
    \/ /\ DocsIn([k \in {w.key} |-> w.doc], P, C)
       /\ ~w.doc.deleted => IF w.key \in DOMAIN docs THEN w.doc.at > docs[w.key].at
                                                     ELSE InWindow(window, w.doc.at)

(* A row to be taken off, as it was read, was cleared since it was set.      *)
DropsIn(drops, C) ==
    DOMAIN drops \subseteq Key /\ \A k \in DOMAIN drops : \E at \in C[k] : at >= drops[k]

ListIn(list, C) == list = None \/ TimesIn(list, C)

(* A pass that has merged, before and after it has put what it pulled.       *)
PushingIn(p, P, C) ==
    /\ p.step = "push" /\ "writes" \in DOMAIN p
    /\ p.who \in Character /\ p.window \in Window
    /\ DocsIn(p.docs, P, C)
    /\ \A w \in p.writes : WriteIn(w, p.docs, p.window, P, C)
    /\ TimesIn(p.pulls, P) /\ DropsIn(p.drops, C) /\ ListIn(p.list, C) /\ p.high \in Time

SettlingIn(p, C) ==
    /\ p.step \in {"drop", "settle", "cursor"} /\ {"step", "drops", "list"} \subseteq DOMAIN p
    /\ p.who \in Character
    /\ DropsIn(p.drops, C) /\ ListIn(p.list, C) /\ p.high \in Time

PassIn(p, P, C) ==
    p = NoPass \/ ReadingIn(p, P, C) \/ PushingIn(p, P, C) \/ SettlingIn(p, C)

Typed ==
    /\ now \in Time
    /\ roster \subseteq Character
    /\ act \in Act
    /\ DOMAIN rows = Character /\ DOMAIN tombs = Character /\ DOMAIN remote = Character
    /\ DOMAIN pass = Tab
    /\ cursor \in [Character -> Time \cup {None}]
    /\ pinned \in [Key -> SUBSET Time] /\ cleared \in [Key -> SUBSET Time]

RowsTimed == \A c \in Character : TimesIn(rows[c], pinned)
TombsTimed == \A c \in Character : TimesIn(tombs[c], cleared)
DocsTimed == \A c \in Character : DocsIn(remote[c], pinned, cleared)

PassesTimed == \A t \in Tab : PassIn(pass[t], pinned, cleared)

IInv ==
    /\ Typed /\ RowsTimed /\ TombsTimed /\ DocsTimed
    /\ FillIn(fill, roster, pinned) /\ PassesTimed

-----------------------------------------------------------------------------
(***************************************************************************)
(* Greatest times.                                                          *)
(***************************************************************************)

(* A finite set of numbers has a greatest one: the members above a member   *)
(* are fewer the greater it is, and finite sets do not shrink for ever.     *)
LEMMA GreatestExists ==
  ASSUME NEW S \in SUBSET Nat, IsFiniteSet(S), S # {}
  PROVE  MaxOf(S) \in S /\ \A n \in S : n <= MaxOf(S)
<1> DEFINE Over(m) == {n \in S : n > m}
           Overs == {Over(m) : m \in S}
           Smaller == StrictSubsetOrdering(S)
<1>0. Overs # {}
  OBVIOUS
<1>1. Overs \subseteq FiniteSubsetsOf(S)
  BY FS_Subset DEF FiniteSubsetsOf
<1>2. PICK A \in Overs : \A B \in Overs : ~(<<B, A>> \in Smaller)
  <2>1. IsWellFoundedOn(Smaller, FiniteSubsetsOf(S))
    BY FS_StrictSubsetOrderingWellFounded
  <2> HIDE DEF Overs, Smaller
  <2> QED BY <1>0, <1>1, <2>1, WFMin
<1>3. PICK m \in S : A = Over(m)
  OBVIOUS
<1>4. \A n \in S : n <= m
  <2> SUFFICES ASSUME NEW n \in S, n > m PROVE FALSE
    OBVIOUS
  <2>1. Over(n) \in Overs /\ n \in A /\ n \notin Over(n)
    BY <1>3
  <2>2. Over(n) \subseteq A
    <3> SUFFICES ASSUME NEW k \in S, k > n PROVE k > m
      BY <1>3
    <3> QED OBVIOUS
  <2>3. <<Over(n), A>> \in Smaller
    BY <2>1, <2>2, <1>3 DEF StrictSubsetOrdering
  <2> QED BY <2>1, <2>3, <1>2
<1> QED BY <1>4 DEF MaxOf

LEMMA Times == Time \subseteq Nat /\ IsFiniteSet(Time) /\ 0 \in Time
<1>1. MaxTime \in Nat /\ 0 \in Int /\ MaxTime \in Int
  BY AccountWideAssumptions
<1>2. IsFiniteSet(Time)
  BY <1>1, FS_Interval DEF Time
<1> QED BY <1>1, <1>2 DEF Time

LEMMA MaxOfTimes ==
  ASSUME NEW S \in SUBSET Time, S # {}
  PROVE  MaxOf(S) \in S /\ \A n \in S : n <= MaxOf(S)
BY Times, FS_Subset, GreatestExists

-----------------------------------------------------------------------------
(***************************************************************************)
(* Maps of times.                                                           *)
(***************************************************************************)

LEMMA PutTimes ==
  ASSUME NEW f, NEW g, NEW T, TimesIn(f, T), TimesIn(g, T)
  PROVE  TimesIn(Put(f, g), T)
BY DEF TimesIn, Put

LEMMA WithoutTimes ==
  ASSUME NEW f, NEW S, NEW T, TimesIn(f, T)
  PROVE  TimesIn(Without(f, S), T)
BY DEF TimesIn, Without

LEMMA LaterTimes ==
  ASSUME NEW f, NEW T, NEW U, TimesIn(f, T), \A k \in Key : T[k] \subseteq U[k]
  PROVE  TimesIn(f, U)
BY DEF TimesIn

LEMMA PutDocs ==
  ASSUME NEW f, NEW g, NEW P, NEW C, DocsIn(f, P, C), DocsIn(g, P, C)
  PROVE  DocsIn(Put(f, g), P, C)
BY DEF DocsIn, Put

LEMMA WithoutDocs ==
  ASSUME NEW f, NEW S, NEW P, NEW C, DocsIn(f, P, C)
  PROVE  DocsIn(Without(f, S), P, C)
BY DEF DocsIn, Without

LEMMA LaterDocs ==
  ASSUME NEW f, NEW P, NEW C, NEW P1, NEW C1, DocsIn(f, P, C),
         \A k \in Key : P[k] \subseteq P1[k] /\ C[k] \subseteq C1[k]
  PROVE  DocsIn(f, P1, C1)
BY DEF DocsIn

LEMMA LaterFill ==
  ASSUME NEW f, NEW R, NEW R1, NEW P, NEW P1, FillIn(f, R, P),
         R \subseteq R1, \A k \in Key : P[k] \subseteq P1[k]
  PROVE  FillIn(f, R1, P1)
BY LaterTimes DEF FillIn

LEMMA LaterPass ==
  ASSUME NEW p, NEW P, NEW C, NEW P1, NEW C1, PassIn(p, P, C),
         \A k \in Key : P[k] \subseteq P1[k] /\ C[k] \subseteq C1[k]
  PROVE  PassIn(p, P1, C1)
<1>1. CASE ReadingIn(p, P, C)
  BY <1>1, LaterTimes, LaterDocs DEF PassIn, ReadingIn
<1>2. ASSUME PushingIn(p, P, C) \/ SettlingIn(p, C)
      PROVE  DropsIn(p.drops, C1) /\ ListIn(p.list, C1)
  <2>1. DropsIn(p.drops, C) /\ ListIn(p.list, C)
    BY <1>2 DEF PushingIn, SettlingIn
  <2>2. DropsIn(p.drops, C1)
    BY <2>1 DEF DropsIn
  <2>3. ListIn(p.list, C1)
    BY <2>1, LaterTimes DEF ListIn
  <2> QED BY <2>2, <2>3
<1>3. CASE PushingIn(p, P, C)
  <2>1. DocsIn(p.docs, P1, C1) /\ TimesIn(p.pulls, P1)
    BY <1>3, LaterTimes, LaterDocs DEF PushingIn
  <2>2. \A w \in p.writes : WriteIn(w, p.docs, p.window, P1, C1)
    <3> SUFFICES ASSUME NEW w \in p.writes PROVE WriteIn(w, p.docs, p.window, P1, C1)
      OBVIOUS
    <3>1. WriteIn(w, p.docs, p.window, P, C)
      BY <1>3 DEF PushingIn
    <3> QED BY <3>1, LaterDocs DEF WriteIn
  <2> QED BY <1>2, <1>3, <2>1, <2>2 DEF PassIn, PushingIn
<1>4. CASE SettlingIn(p, C)
  BY <1>2, <1>4 DEF PassIn, SettlingIn
<1>5. CASE p = NoPass
  BY <1>5 DEF PassIn
<1> QED BY <1>1, <1>3, <1>4, <1>5 DEF PassIn

(* What a clock tick, a set or a clear anywhere leaves of the rest.         *)
LEMMA Later ==
  ASSUME IInv, \A k \in Key : pinned[k] \subseteq pinned'[k] /\ cleared[k] \subseteq cleared'[k]
  PROVE  /\ \A c \in Character : /\ TimesIn(rows[c], pinned') /\ TimesIn(tombs[c], cleared')
                                 /\ DocsIn(remote[c], pinned', cleared')
         /\ FillIn(fill, roster, pinned')
         /\ \A t \in Tab : PassIn(pass[t], pinned', cleared')
<1>1. FillIn(fill, roster, pinned')
  BY LaterFill DEF IInv
<1>3. \A t \in Tab : PassIn(pass[t], pinned', cleared')
  BY LaterPass DEF IInv, PassesTimed
<1> SUFFICES ASSUME NEW c \in Character
             PROVE  /\ TimesIn(rows[c], pinned') /\ TimesIn(tombs[c], cleared')
                    /\ DocsIn(remote[c], pinned', cleared')
  BY <1>1, <1>3
<1>2. TimesIn(rows[c], pinned) /\ TimesIn(tombs[c], cleared) /\ DocsIn(remote[c], pinned, cleared)
  BY DEF IInv, RowsTimed, TombsTimed, DocsTimed
<1> QED BY <1>2, LaterTimes, LaterDocs

(* The latest deletion known on the device is one the user made.            *)
LEMMA DeletionsAreTheUsers ==
  ASSUME IInv
  PROVE  TimesIn(deletedAtByKey, cleared)
<1> SUFFICES ASSUME NEW k \in Key, Listed(k) # {}
             PROVE  MaxOf(Listed(k)) \in cleared[k]
  BY DEF TimesIn, deletedAtByKey
<1>1. Listed(k) \subseteq cleared[k]
  BY DEF Listed, IInv, Typed, TombsTimed, TimesIn
<1>2. Listed(k) \in SUBSET Time
  BY <1>1 DEF IInv, Typed
<1> QED BY <1>1, <1>2, MaxOfTimes

LEMMA UnionTimes ==
  ASSUME NEW held, NEW P \in [Key -> SUBSET Time], \A c \in DOMAIN held : TimesIn(held[c], P)
  PROVE  TimesIn(Union(held), P)
<1> DEFINE of(k) == {held[c][k] : c \in {e \in DOMAIN held : k \in DOMAIN held[e]}}
<1>1. DOMAIN Union(held) = UNION {DOMAIN held[c] : c \in DOMAIN held}
      /\ \A k \in DOMAIN Union(held) : Union(held)[k] = MaxOf(of(k))
  BY DEF Union
<1>2. ASSUME NEW k \in DOMAIN Union(held)
      PROVE  k \in Key /\ Union(held)[k] \in P[k]
  <2>1. k \in Key /\ of(k) # {} /\ of(k) \subseteq P[k]
    BY <1>1, <1>2 DEF TimesIn
  <2>2. of(k) \in SUBSET Time
    BY <2>1
  <2> HIDE DEF of
  <2>3. MaxOf(of(k)) \in of(k)
    BY <2>1, <2>2, MaxOfTimes
  <2> QED BY <1>1, <2>1, <2>3
<1> QED BY <1>2 DEF TimesIn

-----------------------------------------------------------------------------
(***************************************************************************)
(* One pass.                                                                *)
(***************************************************************************)

(* What the lists of a plan hold, as far as times go.                       *)
LEMMA PlanIs ==
  ASSUME NEW local, NEW list, NEW docs, NEW at, NEW deletedAt, NEW window
  PROVE  LET plan == mergeRecords(local, list, docs, at, deletedAt, window) IN
         /\ plan.pushUpserts \subseteq DOMAIN local
         /\ \A k \in plan.pushUpserts :
                IF k \in DOMAIN docs THEN local[k] > docs[k].at ELSE InWindow(window, local[k])
         /\ \A k \in plan.pushTombstones :
                \/ k \in DOMAIN local /\ k \in DOMAIN deletedAt
                \/ k \notin DOMAIN local /\ k \in DOMAIN list
         /\ plan.pullUpserts \subseteq Live(docs)
         /\ \A k \in plan.deleteLocal :
                \/ /\ k \in plan.pushTombstones /\ k \in DOMAIN local
                   /\ k \in DOMAIN deletedAt /\ deletedAt[k] > local[k]
                \/ k \in Dead(docs) /\ k \in DOMAIN local /\ ~(local[k] > docs[k].at)
BY DEF mergeRecords, Buried, Stale, Resurrected, EditedElsewhere, Beaten, Live, Dead

(* What a plan hands over carries the user's times; it pushes a live doc     *)
(* only over an older one, and takes off only what was cleared since.       *)
LEMMA PassTimes ==
  ASSUME NEW local, NEW list, NEW docs, NEW at, NEW deletedAt, NEW window,
         NEW P \in [Key -> SUBSET Time], NEW C \in [Key -> SUBSET Time],
         TimesIn(local, P), TimesIn(list, C), TimesIn(deletedAt, C), DocsIn(docs, P, C)
  PROVE  LET plan == mergeRecords(local, list, docs, at, deletedAt, window)
             times == [k \in plan.pushTombstones |->
                           IF k \in DOMAIN local THEN deletedAt[k] ELSE list[k]]
         IN
         /\ \A w \in Writes(local, times, plan) : WriteIn(w, docs, window, P, C)
         /\ TimesIn([k \in plan.pullUpserts |-> docs[k].at], P)
         /\ DropsIn(Only(local, plan.deleteLocal), C)
         /\ TimesIn(Learned(docs, times, plan), C)
<1> DEFINE plan == mergeRecords(local, list, docs, at, deletedAt, window)
           times == [k \in plan.pushTombstones |-> IF k \in DOMAIN local THEN deletedAt[k] ELSE list[k]]
<1>1. /\ plan.pushUpserts \subseteq DOMAIN local
      /\ \A k \in plan.pushUpserts :
             IF k \in DOMAIN docs THEN local[k] > docs[k].at ELSE InWindow(window, local[k])
      /\ \A k \in plan.pushTombstones :
            \/ k \in DOMAIN local /\ k \in DOMAIN deletedAt
            \/ k \notin DOMAIN local /\ k \in DOMAIN list
      /\ plan.pullUpserts \subseteq Live(docs)
      /\ \A k \in plan.deleteLocal :
             \/ /\ k \in plan.pushTombstones /\ k \in DOMAIN local
                /\ k \in DOMAIN deletedAt /\ deletedAt[k] > local[k]
             \/ k \in Dead(docs) /\ k \in DOMAIN local /\ ~(local[k] > docs[k].at)
  BY PlanIs
<1> HIDE DEF plan
<1>2. TimesIn(times, C)
  BY <1>1 DEF TimesIn
<1>3. DOMAIN times = plan.pushTombstones
  OBVIOUS
<1> HIDE DEF times
<1>4. ASSUME NEW k \in plan.pushUpserts
      PROVE  WriteIn([key |-> k, doc |-> LiveAt(local[k])], docs, window, P, C)
  <2>1. k \in Key /\ local[k] \in P[k] /\ local[k] \in Time
    BY <1>1, <1>4 DEF TimesIn
  <2>2. LiveAt(local[k]) \in Doc /\ LiveAt(local[k]).deleted = FALSE /\ LiveAt(local[k]).at = local[k]
    BY <2>1 DEF LiveAt, Doc
  <2>3. DocsIn([j \in {k} |-> LiveAt(local[k])], P, C)
    BY <2>1, <2>2 DEF DocsIn
  <2> QED BY <1>1, <1>4, <2>2, <2>3 DEF WriteIn
<1>5. ASSUME NEW k \in DOMAIN times
      PROVE  WriteIn([key |-> k, doc |-> DeadAt(times[k])], docs, window, P, C)
  <2>1. k \in Key /\ times[k] \in C[k] /\ times[k] \in Time
    BY <1>2, <1>5 DEF TimesIn
  <2>2. DeadAt(times[k]) \in Doc /\ DeadAt(times[k]).deleted = TRUE /\ DeadAt(times[k]).at = times[k]
    BY <2>1 DEF DeadAt, Doc
  <2>3. DocsIn([j \in {k} |-> DeadAt(times[k])], P, C)
    BY <2>1, <2>2 DEF DocsIn
  <2> QED BY <2>2, <2>3 DEF WriteIn
<1>6. \A w \in Writes(local, times, plan) : WriteIn(w, docs, window, P, C)
  <2>1. \A k : WriteIn([key |-> k, doc |-> None], docs, window, P, C)
    BY DEF WriteIn
  <2> QED BY <1>4, <1>5, <2>1 DEF Writes
<1>7. TimesIn(Learned(docs, times, plan), C)
  <2> SUFFICES ASSUME NEW k \in plan.deleteLocal
               PROVE  k \in Key /\ (IF k \in DOMAIN times THEN times[k] ELSE docs[k].at) \in C[k]
    BY DEF TimesIn, Learned
  <2> QED BY <1>1, <1>2, <1>3 DEF TimesIn, DocsIn, Dead
<1>8. TimesIn([k \in plan.pullUpserts |-> docs[k].at], P)
  <2> SUFFICES ASSUME NEW k \in plan.pullUpserts
               PROVE  k \in Key /\ docs[k].at \in P[k]
    BY DEF TimesIn
  <2> QED BY <1>1 DEF DocsIn, Live, Dead
<1>9. DropsIn(Only(local, plan.deleteLocal), C)
  <2> SUFFICES ASSUME NEW k \in plan.deleteLocal
               PROVE  k \in Key /\ \E cut \in C[k] : cut >= local[k]
    BY DEF DropsIn, Only
  <2>1. k \in Key /\ local[k] \in Nat
    BY <1>1, Times DEF TimesIn
  <2>2. CASE k \in DOMAIN deletedAt /\ deletedAt[k] > local[k]
    <3>1. deletedAt[k] \in C[k] /\ deletedAt[k] \in Nat
      BY <2>1, <2>2, Times DEF TimesIn
    <3> QED BY <2>1, <2>2, <3>1
  <2>3. CASE k \in Dead(docs) /\ ~(local[k] > docs[k].at)
    <3>1. docs[k].at \in C[k] /\ docs[k].at \in Nat
      BY <2>1, <2>3, Times DEF DocsIn, Dead
    <3> QED BY <2>1, <2>3, <3>1
  <2> QED BY <1>1, <2>1, <2>2, <2>3
<1> QED BY <1>6, <1>7, <1>8, <1>9 DEF times, plan

(* A step that moves one pass leaves the others, and the user's side, alone. *)
LEMMA OnePass ==
  ASSUME IInv, NEW t \in Tab, NEW q, PassIn(q, pinned, cleared),
         pass' = [pass EXCEPT ![t] = q], UNCHANGED users
  PROVE  DOMAIN pass' = Tab /\ PassesTimed' /\ FillIn(fill, roster, pinned)'
BY DEF IInv, Typed, PassesTimed, users

(* ... so that what it writes must carry the user's times, and no more.      *)
LEMMA OnePassKeeps ==
  ASSUME IInv, NEW t \in Tab, NEW q, PassIn(q, pinned, cleared),
         pass' = [pass EXCEPT ![t] = q], UNCHANGED users,
         DOMAIN rows' = Character, DOMAIN tombs' = Character, DOMAIN remote' = Character,
         cursor' \in [Character -> Time \cup {None}], RowsTimed', TombsTimed', DocsTimed'
  PROVE  IInv'
BY OnePass DEF IInv, Typed, users

LEMMA BeginPassKeeps ==
  ASSUME NEW t \in Tab, NEW c \in Character PROVE IInv /\ BeginPass(t, c) => IInv'
<1> SUFFICES ASSUME IInv, BeginPass(t, c) PROVE IInv'
  OBVIOUS
<1>1. PICK window \in {FullRead} \cup {SinceRead(high) : high \in {cursor[c]} \ {None}} :
         pass' = [pass EXCEPT ![t] = [step |-> "fetch", who |-> c, at |-> now, window |-> window,
                                      docs |-> None, local |-> None, list |-> None]]
  BY DEF BeginPass
<1>2. window \in Window
  <2>1. cursor[c] \in Time \cup {None}
    BY DEF IInv, Typed
  <2>2. FullRead \in Window
    BY Times DEF FullRead, Window
  <2>3. \A high \in Time : SinceRead(high) \in Window
    BY DEF SinceRead, Window
  <2> QED BY <2>1, <2>2, <2>3
<1> DEFINE q == [step |-> "fetch", who |-> c, at |-> now, window |-> window,
                 docs |-> None, local |-> None, list |-> None]
<1>3. PassIn(q, pinned, cleared)
  BY <1>2 DEF PassIn, ReadingIn
<1> HIDE DEF q
<1>4. UNCHANGED <<users, rows, tombs, cursor, remote>>
  BY DEF BeginPass
<1> QED
  <2>1. pass' = [pass EXCEPT ![t] = q]
    BY <1>1 DEF q
  <2> QED BY <1>3, <1>4, <2>1, OnePassKeeps DEF IInv, Typed, RowsTimed, TombsTimed, DocsTimed, users

(* A read: the pass moves on with what it has read, and nothing else does.   *)
LEMMA ReadsKeep == ASSUME NEW t \in Tab PROVE IInv /\ (Fetch(t) \/ ReadRows(t) \/ ReadTombstones(t)) => IInv'
<1> SUFFICES ASSUME IInv, Fetch(t) \/ ReadRows(t) \/ ReadTombstones(t) PROVE IInv'
  OBVIOUS
<1> DEFINE p == pass[t]
           docs == Only(remote[p.who], {k \in DOMAIN remote[p.who] : InWindow(p.window, remote[p.who][k].at)})
<1>1. ReadingIn(p, pinned, cleared) /\ DOMAIN pass = Tab
  BY DEF Fetch, ReadRows, ReadTombstones, IInv, Typed, PassesTimed, PassIn, PushingIn, SettlingIn, NoPass
<1>2. /\ DocsIn(docs, pinned, cleared)
      /\ TimesIn(rows[p.who], pinned) /\ TimesIn(tombs[p.who], cleared)
  BY <1>1 DEF ReadingIn, IInv, RowsTimed, TombsTimed, DocsTimed, DocsIn, Only
<1>3. UNCHANGED <<users, rows, tombs, cursor, remote>>
  BY DEF Fetch, ReadRows, ReadTombstones
<1>4. PICK q : PassIn(q, pinned, cleared) /\ pass' = [pass EXCEPT ![t] = q]
  <2> HIDE DEF docs
  <2>1. CASE Fetch(t)
    <3> DEFINE q == [p EXCEPT !.step = "rows", !.docs = docs]
    <3>1. pass' = [pass EXCEPT ![t] = q]
      BY <1>1, <2>1 DEF Fetch, docs
    <3>2. /\ q.step = "rows" /\ q.docs = docs /\ q.who = p.who /\ q.window = p.window
          /\ DOMAIN q = DOMAIN p
      BY <1>1 DEF ReadingIn
    <3> HIDE DEF q
    <3>3. PassIn(q, pinned, cleared)
      BY <1>1, <1>2, <3>2 DEF PassIn, ReadingIn
    <3> QED BY <3>1, <3>3
  <2>2. CASE ReadRows(t)
    <3> DEFINE q == [p EXCEPT !.step = "list", !.local = rows[p.who]]
    <3>1. pass' = [pass EXCEPT ![t] = q] /\ p.step = "rows"
      BY <1>1, <2>2 DEF ReadRows
    <3>2. /\ q.step = "list" /\ q.docs = p.docs /\ q.local = rows[p.who]
          /\ q.who = p.who /\ q.window = p.window /\ DOMAIN q = DOMAIN p
      BY <1>1 DEF ReadingIn
    <3> HIDE DEF q
    <3>3. PassIn(q, pinned, cleared)
      BY <1>1, <1>2, <3>1, <3>2 DEF PassIn, ReadingIn
    <3> QED BY <3>1, <3>3
  <2>3. CASE ReadTombstones(t)
    <3> DEFINE q == [p EXCEPT !.step = "merge", !.list = tombs[p.who]]
    <3>1. pass' = [pass EXCEPT ![t] = q] /\ p.step = "list"
      BY <1>1, <2>3 DEF ReadTombstones
    <3>2. /\ q.step = "merge" /\ q.docs = p.docs /\ q.local = p.local /\ q.list = tombs[p.who]
          /\ q.who = p.who /\ q.window = p.window /\ DOMAIN q = DOMAIN p
      BY <1>1 DEF ReadingIn
    <3> HIDE DEF q
    <3>3. PassIn(q, pinned, cleared)
      BY <1>1, <1>2, <3>1, <3>2 DEF PassIn, ReadingIn
    <3> QED BY <3>1, <3>3
  <2> QED BY <2>1, <2>2, <2>3
<1> QED BY <1>3, <1>4, OnePassKeeps DEF IInv, Typed, RowsTimed, TombsTimed, DocsTimed, users

LEMMA MergeKeeps == ASSUME NEW t \in Tab PROVE IInv /\ Merge(t) => IInv'
<1> SUFFICES ASSUME IInv, Merge(t) PROVE IInv'
  OBVIOUS
<1> DEFINE p == pass[t]
           plan == mergeRecords(p.local, p.list, p.docs, p.at, deletedAtByKey, p.window)
           times == DeletionTimes(p.local, p.list, plan)
           done == plan.clearLocalTombstones \cup plan.pushTombstones
           list == IF done \cup plan.deleteLocal = {} THEN None
                   ELSE Put(Without(p.list, done), Learned(p.docs, times, plan))
           pulls == [k \in plan.pullUpserts |-> p.docs[k].at]
           stamps == {p.docs[k].at : k \in DOMAIN p.docs} \cup {p.window.since}
           q == [step |-> "push", who |-> p.who, window |-> p.window, docs |-> p.docs,
                 writes |-> Writes(p.local, times, plan), pulls |-> pulls,
                 drops |-> Only(p.local, plan.deleteLocal), list |-> list, high |-> MaxOf(stamps)]
<1>1. ReadingIn(p, pinned, cleared) /\ p.step = "merge"
  BY DEF Merge, IInv, PassesTimed, PassIn, PushingIn, SettlingIn, NoPass
<1>2. /\ pinned \in [Key -> SUBSET Time] /\ cleared \in [Key -> SUBSET Time]
      /\ TimesIn(p.local, pinned) /\ TimesIn(p.list, cleared) /\ DocsIn(p.docs, pinned, cleared)
      /\ TimesIn(deletedAtByKey, cleared)
  BY <1>1, DeletionsAreTheUsers DEF ReadingIn, IInv, Typed
<1>3. /\ \A w \in Writes(p.local, times, plan) : WriteIn(w, p.docs, p.window, pinned, cleared)
      /\ TimesIn(pulls, pinned)
      /\ DropsIn(Only(p.local, plan.deleteLocal), cleared)
      /\ TimesIn(Learned(p.docs, times, plan), cleared)
  <2> HIDE DEF p
  <2> QED BY <1>2, PassTimes DEF DeletionTimes
<1>4. pass' = [pass EXCEPT ![t] = q] /\ UNCHANGED <<users, rows, tombs, cursor, remote>>
  BY DEF Merge
<1> HIDE DEF plan, times
<1>5. ListIn(list, cleared)
  BY <1>2, <1>3, WithoutTimes, PutTimes DEF ListIn
<1>6. MaxOf(stamps) \in Time
  <2>1. stamps \in SUBSET Time /\ stamps # {}
    BY <1>1, <1>2 DEF DocsIn, Doc, Window, ReadingIn
  <2> HIDE DEF stamps
  <2> QED BY <2>1, MaxOfTimes
<1> HIDE DEF list, pulls, stamps
<1>7. PassIn(q, pinned, cleared)
  <2>1. PushingIn(q, pinned, cleared)
    BY <1>1, <1>2, <1>3, <1>5, <1>6 DEF PushingIn, ReadingIn
  <2> QED BY <2>1 DEF PassIn
<1> HIDE DEF q
<1> QED BY <1>4, <1>7, OnePassKeeps DEF IInv, Typed, RowsTimed, TombsTimed, DocsTimed, users

(* What a push does: one of the pass's docs lands.                           *)
LEMMA PushDoes ==
  ASSUME IInv, NEW t \in Tab, Push(t)
  PROVE  /\ PushingIn(pass[t], pinned, cleared)
         /\ \E w \in pass[t].writes :
             /\ WriteIn(w, pass[t].docs, pass[t].window, pinned, cleared)
             /\ remote' = [remote EXCEPT ![pass[t].who] = IF w.doc = None THEN Without(@, {w.key})
                                ELSE Put(@, [k \in {w.key} |-> w.doc])]
             /\ pass' = [pass EXCEPT ![t] = [pass[t] EXCEPT !.writes = @ \ {w}]]
         /\ UNCHANGED <<users, rows, tombs, cursor>>
<1>1. PushingIn(pass[t], pinned, cleared) /\ DOMAIN pass = Tab
  BY DEF Push, IInv, Typed, PassesTimed, PassIn, ReadingIn, SettlingIn, NoPass
<1>2. \A w \in pass[t].writes : WriteIn(w, pass[t].docs, pass[t].window, pinned, cleared)
  BY <1>1 DEF PushingIn
<1> QED BY <1>1, <1>2 DEF Push

LEMMA PushKeeps == ASSUME NEW t \in Tab PROVE IInv /\ Push(t) => IInv'
<1> SUFFICES ASSUME IInv, Push(t) PROVE IInv'
  OBVIOUS
<1> DEFINE p == pass[t]
<1>1. PushingIn(p, pinned, cleared) /\ UNCHANGED <<users, rows, tombs, cursor>>
  BY PushDoes
<1>2. PICK w \in p.writes :
         /\ WriteIn(w, p.docs, p.window, pinned, cleared)
         /\ remote' = [remote EXCEPT ![p.who] = IF w.doc = None THEN Without(@, {w.key})
                            ELSE Put(@, [k \in {w.key} |-> w.doc])]
         /\ pass' = [pass EXCEPT ![t] = [p EXCEPT !.writes = @ \ {w}]]
  BY PushDoes
<1> DEFINE q == [p EXCEPT !.writes = @ \ {w}]
<1>3. /\ q.step = p.step /\ q.who = p.who /\ q.window = p.window /\ q.docs = p.docs
      /\ q.writes = p.writes \ {w} /\ q.pulls = p.pulls /\ q.drops = p.drops
      /\ q.list = p.list /\ q.high = p.high /\ DOMAIN q = DOMAIN p
  BY <1>1 DEF PushingIn
<1> HIDE DEF q
<1>4. PassIn(q, pinned, cleared)
  BY <1>1, <1>3 DEF PassIn, PushingIn
<1>5. p.who \in Character /\ DOMAIN remote = Character /\ DocsIn(remote[p.who], pinned, cleared)
  BY <1>1 DEF PushingIn, IInv, Typed, DocsTimed
<1>6. DocsIn(remote'[p.who], pinned, cleared)
  BY <1>2, <1>5, PutDocs, WithoutDocs DEF WriteIn
<1>7. DocsTimed' /\ DOMAIN remote' = Character
  BY <1>1, <1>2, <1>5, <1>6 DEF IInv, DocsTimed, users
<1>8. pass' = [pass EXCEPT ![t] = q]
  BY <1>2 DEF q
<1> QED BY <1>1, <1>4, <1>7, <1>8, OnePassKeeps DEF IInv, Typed, RowsTimed, TombsTimed, users

LEMMA PutPullsKeeps == ASSUME NEW t \in Tab PROVE IInv /\ PutPulls(t) => IInv'
<1> SUFFICES ASSUME IInv, PutPulls(t) PROVE IInv'
  OBVIOUS
<1> DEFINE p == pass[t]
           q == [step |-> "drop", who |-> p.who, drops |-> p.drops, list |-> p.list, high |-> p.high]
<1>1. PushingIn(p, pinned, cleared)
  BY DEF PutPulls, IInv, PassesTimed, PassIn, ReadingIn, SettlingIn, NoPass
<1>2. /\ pass' = [pass EXCEPT ![t] = q] /\ rows' = [rows EXCEPT ![p.who] = Put(@, p.pulls)]
      /\ UNCHANGED <<users, tombs, cursor, remote>>
  BY DEF PutPulls, IInv, Typed
<1>3. PassIn(q, pinned, cleared)
  BY <1>1 DEF PassIn, PushingIn, SettlingIn
<1>4. RowsTimed' /\ DOMAIN rows' = Character
  BY <1>1, <1>2, PutTimes DEF PushingIn, IInv, Typed, RowsTimed, users
<1> HIDE DEF q
<1> QED BY <1>2, <1>3, <1>4, OnePassKeeps DEF IInv, Typed, TombsTimed, DocsTimed, users

LEMMA SettleKeeps ==
  ASSUME NEW t \in Tab PROVE IInv /\ (DropRows(t) \/ WriteTombstones(t) \/ WriteCursor(t)) => IInv'
<1> SUFFICES ASSUME IInv, DropRows(t) \/ WriteTombstones(t) \/ WriteCursor(t) PROVE IInv'
  OBVIOUS
<1> DEFINE p == pass[t]
<1>1. SettlingIn(p, cleared) /\ DOMAIN pass = Tab
  BY DEF DropRows, WriteTombstones, WriteCursor, IInv, Typed, PassesTimed, PassIn, ReadingIn, PushingIn, NoPass
<1>2. DOMAIN rows = Character /\ DOMAIN tombs = Character /\ p.who \in Character
  BY <1>1 DEF IInv, Typed, SettlingIn
<1>3. CASE DropRows(t)
  <2> DEFINE q == [p EXCEPT !.step = "settle", !.drops = Empty]
  <2>1. pass' = [pass EXCEPT ![t] = q] /\ UNCHANGED <<users, tombs, cursor, remote>>
    BY <1>1, <1>3 DEF DropRows
  <2>2. /\ q.step = "settle" /\ q.drops = Empty /\ q.who = p.who /\ q.list = p.list /\ q.high = p.high
        /\ DOMAIN q = DOMAIN p
    BY <1>1 DEF SettlingIn
  <2> HIDE DEF q
  <2>3. PassIn(q, pinned, cleared)
    BY <1>1, <2>2 DEF PassIn, SettlingIn, DropsIn, Empty
  <2>4. RowsTimed' /\ DOMAIN rows' = Character
    BY <1>2, <1>3, <2>1, WithoutTimes DEF DropRows, IInv, RowsTimed, users
  <2> QED BY <2>1, <2>3, <2>4, OnePassKeeps DEF IInv, Typed, TombsTimed, DocsTimed, users
<1>4. CASE WriteTombstones(t)
  <2> DEFINE q == [p EXCEPT !.step = "cursor", !.list = None]
  <2>1. pass' = [pass EXCEPT ![t] = q] /\ UNCHANGED <<users, rows, cursor, remote>>
    BY <1>1, <1>4 DEF WriteTombstones
  <2>2. /\ q.step = "cursor" /\ q.drops = p.drops /\ q.who = p.who /\ q.list = None /\ q.high = p.high
        /\ DOMAIN q = DOMAIN p
    BY <1>1 DEF SettlingIn
  <2> HIDE DEF q
  <2>3. PassIn(q, pinned, cleared)
    BY <1>1, <2>2 DEF PassIn, SettlingIn, ListIn
  <2>4. TombsTimed' /\ DOMAIN tombs' = Character
    BY <1>1, <1>2, <1>4, <2>1 DEF WriteTombstones, IInv, TombsTimed, SettlingIn, ListIn, users
  <2> QED BY <2>1, <2>3, <2>4, OnePassKeeps DEF IInv, Typed, RowsTimed, DocsTimed, users
<1>5. CASE WriteCursor(t)
  <2>1. pass' = [pass EXCEPT ![t] = NoPass] /\ UNCHANGED <<users, rows, tombs, remote>>
    BY <1>5 DEF WriteCursor
  <2>2. PassIn(NoPass, pinned, cleared)
    BY DEF PassIn
  <2>3. cursor' \in [Character -> Time \cup {None}]
    BY <1>1, <1>5 DEF WriteCursor, SettlingIn, IInv, Typed
  <2> QED BY <2>1, <2>2, <2>3, OnePassKeeps DEF IInv, Typed, RowsTimed, TombsTimed, DocsTimed, users
<1> QED BY <1>3, <1>4, <1>5

LEMMA StepsKeep == ASSUME NEW t \in Tab PROVE IInv /\ Steps(t) => IInv'
BY ReadsKeep, MergeKeeps, PushKeeps, PutPullsKeeps, SettleKeeps DEF Steps

-----------------------------------------------------------------------------
(***************************************************************************)
(* Every action keeps the invariant.                                        *)
(***************************************************************************)

LEMMA InitHolds == Init => IInv
<1> SUFFICES ASSUME Init PROVE IInv
  OBVIOUS
<1> USE DEF Init
<1>1. 0 \in Time /\ now \in Time /\ Shared \subseteq Key
  BY AccountWideAssumptions DEF Time
<1>2. Typed
  BY <1>1 DEF Typed, Act
<1>3. RowsTimed /\ TombsTimed
  BY <1>1 DEF RowsTimed, TombsTimed, TimesIn, Empty
<1>4. DocsTimed
  <2> SUFFICES ASSUME NEW c \in Character PROVE DocsIn(remote[c], pinned, cleared)
    BY DEF DocsTimed
  <2>1. remote[c] = [k \in Shared |-> LiveAt(0)] \/ remote[c] = Empty
    OBVIOUS
  <2>2. LiveAt(0) \in Doc /\ LiveAt(0).at = 0 /\ ~LiveAt(0).deleted
    BY <1>1 DEF LiveAt, Doc
  <2>3. DocsIn([k \in Shared |-> LiveAt(0)], pinned, cleared)
    BY <1>1, <2>2 DEF DocsIn
  <2>4. DocsIn(Empty, pinned, cleared)
    BY DEF DocsIn, Empty
  <2> QED BY <2>1, <2>3, <2>4
<1>5. FillIn(fill, roster, pinned)
  BY DEF FillIn
<1>6. PassesTimed /\ DOMAIN pass = Tab
  BY DEF PassesTimed, PassIn
<1> QED BY <1>2, <1>3, <1>4, <1>5, <1>6 DEF IInv

LEMMA ReadRosterKeeps == ASSUME NEW k \in Key PROVE IInv /\ ReadRoster(k) => IInv'
<1> SUFFICES ASSUME IInv, ReadRoster(k) PROVE IInv'
  OBVIOUS
<1>1. act' \in Act /\ UNCHANGED <<now, roster, rows, tombs, cursor, remote, fill, pass, pinned, cleared>>
  BY DEF ReadRoster, Act, IInv, Typed
<1> QED BY <1>1 DEF IInv, Typed, RowsTimed, TombsTimed, DocsTimed, PassesTimed

LEMMA FindRowsKeeps == ASSUME NEW k \in Key PROVE IInv /\ FindRows(k) => IInv'
<1> SUFFICES ASSUME IInv, FindRows(k) PROVE IInv'
  OBVIOUS
<1>1. act' \in Act /\ UNCHANGED <<now, roster, rows, tombs, cursor, remote, fill, pass, pinned, cleared>>
  BY DEF FindRows, Holding, Act
<1> QED BY <1>1 DEF IInv, Typed, RowsTimed, TombsTimed, DocsTimed, PassesTimed

LEMMA PutRowsKeeps == IInv /\ PutRows => IInv'
<1> SUFFICES ASSUME IInv, PutRows PROVE IInv'
  OBVIOUS
<1>1. act \in [kind : {"set"}, key : Key, who : SUBSET Character]
  BY DEF PutRows, IInv, Typed, Act, NoAct
<1>2. /\ now' \in Time /\ now \in Time /\ act' \in Act
      /\ pinned \in [Key -> SUBSET Time] /\ cleared \in [Key -> SUBSET Time]
      /\ pinned' = [pinned EXCEPT ![act.key] = @ \cup {now}] /\ act.key \in Key
      /\ UNCHANGED <<roster, tombs, cursor, remote, fill, pass, cleared>>
  BY <1>1, AccountWideAssumptions DEF PutRows, IInv, Typed, Act, Time
<1>3. pinned' \in [Key -> SUBSET Time] /\ now \in pinned'[act.key]
  BY <1>2
<1>4. \A k \in Key : pinned[k] \subseteq pinned'[k] /\ cleared[k] \subseteq cleared'[k]
  BY <1>2
<1>5. /\ \A c \in Character : /\ TimesIn(rows[c], pinned') /\ TimesIn(tombs[c], cleared')
                              /\ DocsIn(remote[c], pinned', cleared')
      /\ FillIn(fill, roster, pinned')
      /\ \A t \in Tab : PassIn(pass[t], pinned', cleared')
  BY <1>4, Later
<1>6. DOMAIN rows' = Character /\ \A c \in Character : TimesIn(rows'[c], pinned')
  <2>1. TimesIn([k \in {act.key} |-> now], pinned')
    BY <1>2, <1>3 DEF TimesIn
  <2>2. rows' = [c \in Character |->
            IF c \in act.who THEN Put(rows[c], [k \in {act.key} |-> now]) ELSE rows[c]]
    BY DEF PutRows
  <2> QED BY <1>5, <2>1, <2>2, PutTimes
<1> QED BY <1>2, <1>3, <1>5, <1>6 DEF IInv, Typed, RowsTimed, TombsTimed, DocsTimed, PassesTimed

LEMMA DropRowKeeps == IInv /\ DropRow => IInv'
<1> SUFFICES ASSUME IInv, DropRow PROVE IInv'
  OBVIOUS
<1>1. act \in [kind : {"clear"}, key : Key, drop : SUBSET Character, record : SUBSET Character]
  BY DEF DropRow, IInv, Typed, Act, NoAct
<1>2. PICK c \in act.drop : /\ rows' = [rows EXCEPT ![c] = Without(@, {act.key})]
                            /\ act' = [act EXCEPT !.drop = @ \ {c}, !.record = @ \cup {c}]
  BY DEF DropRow
<1>3. c \in Character /\ act' \in Act
  BY <1>1, <1>2 DEF Act
<1>4. UNCHANGED <<now, roster, tombs, cursor, remote, fill, pass, pinned, cleared>>
  BY DEF DropRow
<1>5. RowsTimed' /\ DOMAIN rows' = Character
  BY <1>2, <1>3, <1>4, WithoutTimes DEF IInv, Typed, RowsTimed
<1> QED BY <1>3, <1>4, <1>5 DEF IInv, Typed, TombsTimed, DocsTimed, PassesTimed

LEMMA RecordDeletionKeeps == IInv /\ RecordDeletion => IInv'
<1> SUFFICES ASSUME IInv, RecordDeletion PROVE IInv'
  OBVIOUS
<1>1. act \in [kind : {"clear"}, key : Key, drop : SUBSET Character, record : SUBSET Character]
  BY DEF RecordDeletion, IInv, Typed, Act, NoAct
<1>2. PICK c \in act.record :
         LET last == act.drop = {} /\ act.record = {c} IN
         /\ tombs' = [tombs EXCEPT ![c] = Put(@, [k \in {act.key} |-> now])]
         /\ act' = IF last THEN NoAct ELSE [act EXCEPT !.record = @ \ {c}]
         /\ now' = IF last THEN now + 1 ELSE now
  BY DEF RecordDeletion
<1>3. /\ c \in Character /\ act' \in Act /\ act.key \in Key
      /\ pinned \in [Key -> SUBSET Time] /\ cleared \in [Key -> SUBSET Time] /\ now \in Time
      /\ cleared' = [cleared EXCEPT ![act.key] = @ \cup {now}]
      /\ UNCHANGED <<roster, rows, cursor, remote, fill, pass, pinned>>
  BY <1>1, <1>2 DEF RecordDeletion, IInv, Typed, Act
<1>4. now' \in Time
  BY <1>2, AccountWideAssumptions DEF RecordDeletion, IInv, Typed, Time
<1>5. cleared' \in [Key -> SUBSET Time] /\ now \in cleared'[act.key]
  BY <1>3
<1>6. \A k \in Key : pinned[k] \subseteq pinned'[k] /\ cleared[k] \subseteq cleared'[k]
  BY <1>3
<1>7. /\ \A e \in Character : /\ TimesIn(rows[e], pinned') /\ TimesIn(tombs[e], cleared')
                              /\ DocsIn(remote[e], pinned', cleared')
      /\ FillIn(fill, roster, pinned')
      /\ \A t \in Tab : PassIn(pass[t], pinned', cleared')
  BY <1>6, Later
<1>8. DOMAIN tombs' = Character /\ \A e \in Character : TimesIn(tombs'[e], cleared')
  <2>1. TimesIn([k \in {act.key} |-> now], cleared')
    BY <1>3, <1>5 DEF TimesIn
  <2>2. DOMAIN tombs = Character
    BY DEF IInv, Typed
  <2> QED BY <1>2, <1>3, <1>7, <2>1, <2>2, PutTimes
<1> QED BY <1>3, <1>4, <1>5, <1>7, <1>8 DEF IInv, Typed, RowsTimed, TombsTimed, DocsTimed, PassesTimed

LEMMA AddCharacterKeeps == ASSUME NEW c \in Character PROVE IInv /\ AddCharacter(c) => IInv'
<1> SUFFICES ASSUME IInv, AddCharacter(c) PROVE IInv'
  OBVIOUS
<1>1. UNCHANGED <<now, rows, tombs, cursor, remote, act, pass, pinned, cleared>>
  BY DEF AddCharacter
<1>2. roster' \subseteq Character /\ FillIn(fill, roster, pinned)'
  BY DEF AddCharacter, FillIn, IInv, Typed
<1> QED BY <1>1, <1>2 DEF IInv, Typed, RowsTimed, TombsTimed, DocsTimed, PassesTimed

LEMMA FillStepKeeps == IInv /\ (LoadShared \/ SiftCopies) => IInv'
<1> SUFFICES ASSUME IInv, LoadShared \/ SiftCopies PROVE IInv'
  OBVIOUS
<1>1. UNCHANGED <<now, roster, rows, tombs, cursor, remote, act, pass, pinned, cleared>>
  BY DEF LoadShared, SiftCopies
<1>2. CASE LoadShared
  <2> DEFINE others == [c \in Character \ {fill.who} |-> rows[c]]
             shared == Union(others)
  <2>1. fill.step = "load" /\ fill.who \in roster
    BY <1>2 DEF LoadShared, FillIn, IInv, NoFill
  <2>2. TimesIn(shared, pinned)
    <3>1. \A c \in DOMAIN others : TimesIn(others[c], pinned)
      BY DEF IInv, RowsTimed
    <3> HIDE DEF others
    <3> QED BY <3>1, UnionTimes DEF IInv, Typed
  <2>3. fill' = IF shared = Empty THEN NoFill
                ELSE [step |-> "sift", who |-> fill.who, copies |-> shared]
    BY <1>2 DEF LoadShared
  <2> HIDE DEF shared
  <2>4. FillIn(fill', roster, pinned)
    BY <2>1, <2>2, <2>3 DEF FillIn
  <2> QED BY <1>1, <2>4 DEF IInv, Typed, RowsTimed, TombsTimed, DocsTimed, PassesTimed
<1>3. CASE SiftCopies
  <2>1. fill.step = "sift" /\ fill.who \in roster /\ TimesIn(fill.copies, pinned)
    BY <1>3 DEF SiftCopies, FillIn, IInv, NoFill
  <2>2. PICK S : fill' = IF Without(fill.copies, S) = Empty THEN NoFill
                         ELSE [step |-> "write", who |-> fill.who, copies |-> Without(fill.copies, S)]
    BY <1>3 DEF SiftCopies
  <2>3. TimesIn(Without(fill.copies, S), pinned)
    BY <2>1, WithoutTimes
  <2>4. FillIn(fill', roster, pinned)
    BY <2>1, <2>2, <2>3 DEF FillIn
  <2> QED BY <1>1, <2>4 DEF IInv, Typed, RowsTimed, TombsTimed, DocsTimed, PassesTimed
<1> QED BY <1>2, <1>3

LEMMA WriteCopiesKeeps == IInv /\ WriteCopies => IInv'
<1> SUFFICES ASSUME IInv, WriteCopies PROVE IInv'
  OBVIOUS
<1>1. /\ UNCHANGED <<now, roster, tombs, cursor, remote, act, pass, pinned, cleared>>
      /\ rows' = [rows EXCEPT ![fill.who] = Put(fill.copies, @)] /\ fill' = NoFill
  BY DEF WriteCopies
<1>2. fill.who \in Character /\ TimesIn(fill.copies, pinned)
  BY DEF WriteCopies, FillIn, IInv, Typed, NoFill
<1>3. RowsTimed' /\ DOMAIN rows' = Character
  BY <1>1, <1>2, PutTimes DEF IInv, Typed, RowsTimed
<1>4. FillIn(fill', roster', pinned')
  BY <1>1 DEF FillIn
<1> QED BY <1>1, <1>3, <1>4 DEF IInv, Typed, TombsTimed, DocsTimed, PassesTimed

LEMMA InterruptedKeeps == IInv /\ Interrupted => IInv'
<1> SUFFICES ASSUME IInv, Interrupted PROVE IInv'
  OBVIOUS
<1>1. /\ UNCHANGED <<now, roster, rows, tombs, cursor, remote, pinned, cleared>>
      /\ fill' \in {fill, NoFill} /\ act' \in Act
  BY DEF Interrupted, IInv, Typed, Act
<1>2. DOMAIN pass' = Tab /\ \A t \in Tab : pass'[t] \in {pass[t], NoPass}
  BY DEF Interrupted
<1>3. PassesTimed' /\ FillIn(fill', roster, pinned)
  BY <1>1, <1>2 DEF IInv, PassesTimed, PassIn, FillIn
<1> QED BY <1>1, <1>2, <1>3 DEF IInv, Typed, RowsTimed, TombsTimed, DocsTimed

LEMMA ActElsewhereKeeps == ASSUME NEW k \in Key PROVE IInv /\ ActElsewhere(k) => IInv'
<1> SUFFICES ASSUME IInv, ActElsewhere(k) PROVE IInv'
  OBVIOUS
<1>1. UNCHANGED <<roster, rows, tombs, cursor, remote, act, fill, pass>>
  BY DEF ActElsewhere
<1>2. now' \in Time /\ now \in Time
  BY AccountWideAssumptions DEF ActElsewhere, IInv, Typed, Time
<1>3. /\ pinned' \in [Key -> SUBSET Time] /\ cleared' \in [Key -> SUBSET Time]
      /\ \A j \in Key : pinned[j] \subseteq pinned'[j] /\ cleared[j] \subseteq cleared'[j]
  BY <1>2 DEF ActElsewhere, IInv, Typed
<1>4. /\ \A e \in Character : /\ TimesIn(rows[e], pinned') /\ TimesIn(tombs[e], cleared')
                              /\ DocsIn(remote[e], pinned', cleared')
      /\ FillIn(fill, roster, pinned')
      /\ \A t \in Tab : PassIn(pass[t], pinned', cleared')
  BY <1>3, Later
<1> QED BY <1>1, <1>2, <1>3, <1>4 DEF IInv, Typed, RowsTimed, TombsTimed, DocsTimed, PassesTimed

LEMMA PassElsewhereKeeps ==
  ASSUME NEW c \in Character, NEW k \in Key PROVE IInv /\ PassElsewhere(c, k) => IInv'
<1> SUFFICES ASSUME IInv, PassElsewhere(c, k) PROVE IInv'
  OBVIOUS
<1>1. UNCHANGED <<now, roster, rows, tombs, cursor, act, fill, pass, pinned, cleared>>
  BY DEF PassElsewhere, users
<1>2. ASSUME NEW version \in {LiveAt(at) : at \in pinned[k]} \cup {DeadAt(at) : at \in cleared[k]},
             remote' = [remote EXCEPT ![c] = Put(@, [j \in {k} |-> version])]
      PROVE  DocsTimed' /\ DOMAIN remote' = Character
  <2>1. \A at \in pinned[k] : LiveAt(at) \in Doc /\ LiveAt(at).at = at /\ ~LiveAt(at).deleted
    BY DEF LiveAt, Doc, IInv, Typed
  <2>2. \A at \in cleared[k] : DeadAt(at) \in Doc /\ DeadAt(at).at = at /\ DeadAt(at).deleted
    BY DEF DeadAt, Doc, IInv, Typed
  <2>3. version \in Doc /\ version.at \in IF version.deleted THEN cleared[k] ELSE pinned[k]
    BY <2>1, <2>2
  <2>4. DocsIn([j \in {k} |-> version], pinned, cleared)
    BY <2>3 DEF DocsIn
  <2> QED BY <1>1, <1>2, <2>4, PutDocs DEF IInv, Typed, DocsTimed
<1>3. ASSUME remote' = [remote EXCEPT ![c] = Without(@, {k})]
      PROVE  DocsTimed' /\ DOMAIN remote' = Character
  BY <1>1, <1>3, WithoutDocs DEF IInv, Typed, DocsTimed
<1>4. DocsTimed' /\ DOMAIN remote' = Character
  BY <1>2, <1>3 DEF PassElsewhere
<1> QED BY <1>1, <1>4 DEF IInv, Typed, RowsTimed, TombsTimed, PassesTimed

LEMMA IInvStep == IInv /\ [Next]_vars => IInv'
<1> SUFFICES ASSUME IInv, [Next]_vars PROVE IInv'
  OBVIOUS
<1>1. ASSUME NEW k \in Key, ReadRoster(k) \/ FindRows(k) \/ ActElsewhere(k)
      PROVE  IInv'
  BY <1>1, ReadRosterKeeps, FindRowsKeeps, ActElsewhereKeeps
<1>2. CASE PutRows \/ DropRow \/ RecordDeletion
  BY <1>2, PutRowsKeeps, DropRowKeeps, RecordDeletionKeeps
<1>3. ASSUME NEW c \in Character, AddCharacter(c)
      PROVE  IInv'
  BY <1>3, AddCharacterKeeps
<1>7. ASSUME NEW t \in Tab, Steps(t) \/ \E c \in Character : BeginPass(t, c)
      PROVE  IInv'
  BY <1>7, BeginPassKeeps, StepsKeep
<1>4. ASSUME NEW c \in Character, NEW k \in Key, PassElsewhere(c, k)
      PROVE  IInv'
  BY <1>4, PassElsewhereKeeps
<1>5. CASE LoadShared \/ SiftCopies \/ WriteCopies \/ Interrupted
  BY <1>5, FillStepKeeps, WriteCopiesKeeps, InterruptedKeeps
<1>6. CASE UNCHANGED vars
  BY <1>6 DEF vars, IInv, Typed, RowsTimed, TombsTimed, DocsTimed, PassesTimed
<1> QED BY <1>1, <1>2, <1>3, <1>4, <1>5, <1>6, <1>7 DEF Next

LEMMA Invariant == Spec => []IInv
<1>1. Init => IInv
  BY InitHolds
<1>2. IInv /\ [Next]_vars => IInv'
  BY IInvStep
<1> QED BY <1>1, <1>2, PTL DEF Spec

-----------------------------------------------------------------------------
(***************************************************************************)
(* The theorems.                                                            *)
(***************************************************************************)

(* No copy, merge or learned deletion stamps anything with a time of its    *)
(* own: what a row, a tombstone or a doc carries is when the user acted.    *)
THEOREM StampsCorrect == Spec => []StampsAreTheUsers
<1>1. IInv => StampsAreTheUsers
  <2> SUFFICES ASSUME IInv PROVE StampsAreTheUsers
    OBVIOUS
  <2>1. roster \subseteq Character /\ (fill # NoFill => fill.who \in roster)
    BY DEF IInv, Typed, FillIn
  <2>2. \A c \in Character : \A k \in DOMAIN rows[c] : rows[c][k] \in pinned[k]
    BY DEF IInv, RowsTimed, TimesIn
  <2>3. \A c \in Character : \A k \in DOMAIN tombs[c] : tombs[c][k] \in cleared[k]
    BY DEF IInv, TombsTimed, TimesIn
  <2>4. \A c \in Character : \A k \in Live(remote[c]) : remote[c][k].at \in pinned[k]
    BY DEF IInv, DocsTimed, DocsIn, Live, Dead
  <2>5. \A c \in Character : \A k \in Dead(remote[c]) : remote[c][k].at \in cleared[k]
    BY DEF IInv, DocsTimed, DocsIn, Dead
  <2> QED BY <2>1, <2>2, <2>3, <2>4, <2>5 DEF StampsAreTheUsers
<1> QED BY <1>1, Invariant, PTL

(* What LastReadActWins says of tab t's pass p, over Character c.            *)
OfWhatWasRead(p, c) ==
    /\ \A k \in DOMAIN rows[c] \ DOMAIN rows'[c] :
            rows[c][k] = p.drops[k] => \E at \in cleared[k] : at >= rows[c][k]
    /\ \A k \in Dead(remote[c]) \cap Live(remote'[c]) :
            AsFetched(p, k) =>
                remote'[c][k].at \in pinned[k] /\ remote'[c][k].at > remote[c][k].at

(* A step that drops no row and brings no doc back keeps it.                 *)
LEMMA NothingGoes ==
  ASSUME NEW p, NEW c, DOMAIN rows[c] \subseteq DOMAIN rows'[c], remote' = remote
  PROVE  OfWhatWasRead(p, c)
BY DEF OfWhatWasRead, Live

(* A deleted doc that a push makes live is older than what is pushed: it was *)
(* read and compared, or it was not read and lies below the read's window,  *)
(* which what is pushed does not.                                           *)
LEMMA PushLastAct ==
  ASSUME IInv, NEW t \in Tab, Push(t)
  PROVE  OfWhatWasRead(pass[t], pass[t].who)
<1> DEFINE p == pass[t]
           c == p.who
<1>1. PushingIn(p, pinned, cleared) /\ UNCHANGED <<users, rows, tombs, cursor>>
  BY PushDoes
<1>2. PICK w \in p.writes :
         /\ WriteIn(w, p.docs, p.window, pinned, cleared)
         /\ remote' = [remote EXCEPT ![c] = IF w.doc = None THEN Without(@, {w.key})
                            ELSE Put(@, [k \in {w.key} |-> w.doc])]
  BY PushDoes
<1>3. c \in Character /\ DOMAIN remote = Character /\ DocsIn(remote[c], pinned, cleared)
      /\ p.window \in Window /\ DocsIn(p.docs, pinned, cleared) /\ Time \subseteq Nat
  BY <1>1, Times DEF PushingIn, IInv, Typed, DocsTimed
<1> SUFFICES ASSUME NEW k \in Dead(remote[c]) \cap Live(remote'[c]), AsFetched(p, k)
             PROVE  remote'[c][k].at \in pinned[k] /\ remote'[c][k].at > remote[c][k].at
  BY <1>1 DEF OfWhatWasRead
<1>4. remote[c][k].deleted /\ ~remote'[c][k].deleted /\ k \in DOMAIN remote[c] /\ k \in DOMAIN remote'[c]
  BY DEF Dead, Live
<1>5. w.doc # None /\ k = w.key /\ remote'[c][k] = w.doc
  <2>1. remote'[c] = IF w.doc = None THEN Without(remote[c], {w.key})
                     ELSE Put(remote[c], [j \in {w.key} |-> w.doc])
    BY <1>2, <1>3
  <2> QED BY <1>4, <2>1 DEF Put, Without
<1>6. /\ w.doc.at \in pinned[k] /\ w.doc.at \in Nat
      /\ IF k \in DOMAIN p.docs THEN w.doc.at > p.docs[k].at ELSE InWindow(p.window, w.doc.at)
  <2>1. DocsIn([j \in {w.key} |-> w.doc], pinned, cleared) /\ ~w.doc.deleted
    BY <1>2, <1>4, <1>5 DEF WriteIn
  <2>2. w.doc.at \in pinned[k] /\ w.doc.at \in Nat
    BY <1>3, <1>5, <2>1 DEF DocsIn, Doc
  <2> QED BY <1>2, <1>5, <2>1, <2>2 DEF WriteIn
<1>7. remote[c][k].at \in Nat /\ p.window.since \in Nat /\ p.window.full \in BOOLEAN
  BY <1>3, <1>4 DEF DocsIn, Doc, Window
<1>8. CASE k \in DOMAIN p.docs
  BY <1>5, <1>6, <1>8 DEF AsFetched
<1>9. CASE k \notin DOMAIN p.docs
  <2>1. ~InWindow(p.window, remote[c][k].at) /\ InWindow(p.window, w.doc.at)
    BY <1>6, <1>9 DEF AsFetched
  <2>2. w.doc.at > remote[c][k].at
    BY <1>6, <1>7, <2>1 DEF InWindow
  <2> QED BY <1>5, <1>6, <2>2
<1> QED BY <1>8, <1>9

(* A row that is taken off as it was read was cleared since it was set.      *)
LEMMA DropLastAct ==
  ASSUME IInv, NEW t \in Tab, DropRows(t)
  PROVE  OfWhatWasRead(pass[t], pass[t].who)
<1> DEFINE p == pass[t]
           c == p.who
<1>1. SettlingIn(p, cleared)
  BY DEF DropRows, IInv, PassesTimed, PassIn, ReadingIn, PushingIn, NoPass
<1>2. rows'[c] = Without(rows[c], DOMAIN p.drops) /\ remote' = remote
  BY <1>1 DEF DropRows, SettlingIn, IInv, Typed
<1> QED BY <1>1, <1>2 DEF OfWhatWasRead, SettlingIn, DropsIn, Without, Live

(* Only its own steps move a pass on.                                        *)
LEMMA StepLastAct ==
  ASSUME IInv, [Next]_vars, NEW t \in Tab, Writing(t)
  PROVE  OfWhatWasRead(pass[t], pass[t].who)
<1>1. pass' # pass /\ pass'[t] # pass[t] /\ pass'[t] # NoPass /\ pass[t].step \in {"push", "drop"}
  BY DEF Writing
<1>2. PICK r \in Tab : Steps(r) \/ \E c \in Character : BeginPass(r, c)
  <2>1. ~Interrupted
    BY <1>1 DEF Interrupted
  <2>2. pass' = pass \/ Interrupted \/ \E r \in Tab : Steps(r) \/ \E c \in Character : BeginPass(r, c)
    BY DEF Next, vars, ReadRoster, FindRows, ActElsewhere, PutRows, DropRow, RecordDeletion,
           AddCharacter, PassElsewhere, LoadShared, SiftCopies, WriteCopies
  <2> QED BY <1>1, <2>1, <2>2
<1>3. r = t
  <2>1. \E q : pass' = [pass EXCEPT ![r] = q]
    BY <1>2 DEF Steps, Fetch, ReadRows, ReadTombstones, Merge, Push, PutPulls, DropRows,
                WriteTombstones, WriteCursor, BeginPass
  <2> QED BY <1>1, <2>1 DEF IInv, Typed
<1>4. Push(t) \/ PutPulls(t) \/ DropRows(t)
  BY <1>1, <1>2, <1>3 DEF Steps, Fetch, ReadRows, ReadTombstones, Merge, WriteTombstones,
                          WriteCursor, BeginPass, NoPass
<1>5. CASE PutPulls(t)
  <2>1. DOMAIN rows[pass[t].who] \subseteq DOMAIN rows'[pass[t].who] /\ remote' = remote
    BY <1>5 DEF PutPulls, Put, IInv, Typed
  <2> QED BY <2>1, NothingGoes
<1> QED BY <1>4, <1>5, PushLastAct, DropLastAct

(* Of what a pass has read, the user's last act wins: the pass takes off no *)
(* row it read but one the user has cleared since it was set, and makes no  *)
(* deleted doc it read, or left unread, live again but for a later set.     *)
THEOREM LastReadActCorrect == Spec => LastReadActWins
<1>1. IInv /\ [Next]_vars =>
        [\A t \in Tab : Writing(t) => LET p == pass[t] c == p.who IN
            /\ \A k \in DOMAIN rows[c] \ DOMAIN rows'[c] :
                    rows[c][k] = p.drops[k] => \E at \in cleared[k] : at >= rows[c][k]
            /\ \A k \in Dead(remote[c]) \cap Live(remote'[c]) :
                    AsFetched(p, k) =>
                        remote'[c][k].at \in pinned[k] /\ remote'[c][k].at > remote[c][k].at]_vars
  BY StepLastAct DEF OfWhatWasRead
<1> QED BY <1>1, Invariant, PTL DEF Spec, LastReadActWins
=============================================================================
