------------------------- MODULE SettingsSyncProofs -------------------------
(***************************************************************************)
(* What the settings_sync run checks for two Characters and two keys,       *)
(* proved for any of them: every variable keeps its type, and a pull never  *)
(* takes a setting back.                                                    *)
(***************************************************************************)
EXTENDS SettingsSync, FiniteSetTheorems, WellFoundedInduction, TLAPS

(* What PullsOnlyNewer rests on: one tab of the device syncs at a time.  With *)
(* Tabs = 2 TLC finds a row that one tab's pass deleted and the other's then *)
(* stamped, so that an older value is pulled back under that very stamp.     *)
OneTab == Tabs <= 1

-----------------------------------------------------------------------------
(***************************************************************************)
(* The types, n being the time.                                             *)
(***************************************************************************)

Table(T) == [Key -> T]
Sequence == 0..SeqWidth - 1

Doc(n) ==
    {d \in [value : Nat \cup {None}, at : 1..n + 1, deleted : BOOLEAN] : ~d.deleted => d.value \in Nat}

DocsIn(f, n) == DOMAIN f \subseteq Key /\ \A k \in DOMAIN f : f[k] \in Doc(n)

WindowIn(w, n) == w.full \in BOOLEAN /\ w.since \in 0..n + 1

ListIn(l, n) ==
    l # None => /\ l = [was |-> l.was, left |-> l.left]
                /\ l.was \in Table(0..n + 1) /\ l.left \in Table(0..n + 1)
                /\ \A k \in Key : l.left[k] \in {0, l.was[k]}

(* A pass that reads, and what it has read so far.                          *)
ReadingTyped(p, n) ==
    /\ p = [step |-> p.step, at |-> p.at, meta |-> p.meta, tombs |-> p.tombs, value |-> p.value,
            seq |-> p.seq, window |-> p.window]
    /\ p.step \in {"tombs", "rows", "books", "fetch"}
    /\ p.at \in 3..n /\ p.meta \in Table(0..n + 1)
    /\ p.step # "tombs" => p.tombs \in Table(0..n + 1)
    /\ p.step \in {"books", "fetch"} => p.value \in Table(Nat \cup {None})
    /\ p.step = "fetch" => p.seq \in Sequence /\ WindowIn(p.window, n)

PushTyped(p, n) ==
    /\ p = [step |-> "push", seq |-> p.seq, writes |-> p.writes, stamps |-> p.stamps,
            pulled |-> p.pulled, deleteLocal |-> p.deleteLocal, meta |-> p.meta,
            tombs |-> p.tombs, high |-> p.high]
    /\ p.seq \in Sequence /\ p.high \in 0..n + 1
    /\ \A w \in p.writes : w.key \in Key /\ (w.doc # None => w.doc \in Doc(n))
    /\ DOMAIN p.stamps \subseteq Key /\ \A k \in DOMAIN p.stamps : p.stamps[k] \in 3..n
    /\ DocsIn(p.pulled, n) /\ \A k \in DOMAIN p.pulled : ~p.pulled[k].deleted
    /\ p.deleteLocal \subseteq Key \ DOMAIN p.pulled
    /\ DOMAIN p.meta \subseteq Key /\ \A k \in DOMAIN p.meta : p.meta[k] \in 0..n + 1
    /\ ListIn(p.tombs, n)

FinishTyped(p, n) ==
    /\ p = [step |-> p.step, tombs |-> p.tombs, high |-> p.high, skipped |-> p.skipped,
            seen |-> p.seen]
    /\ p.step \in {"settle", "cursor", "seen"}
    /\ ListIn(p.tombs, n) /\ p.high \in 0..n + 1 /\ p.seen \in Sequence

PassTyped(p, n) == p = Idle \/ ReadingTyped(p, n) \/ PushTyped(p, n) \/ FinishTyped(p, n)

WriteTyped(w, n) ==
    \/ w = NotWriting
    \/ w \in [step : {"load", "stamps"}, key : Key, value : Nat]
    \/ w \in [step : {"stamp"}, key : Key, value : Nat, meta : Table(0..n + 1), at : 1..n + 1]
    \/ w \in [step : {"unstamps", "list"}, key : Key]
    \/ w \in [step : {"unstamp"}, key : Key, meta : Table(0..n + 1)]
    \/ w \in [step : {"bury"}, key : Key, tombs : Table(0..n + 1), at : 1..n + 1]

Typed ==
    /\ now \in Nat /\ 3 <= now /\ now <= MaxTime
    /\ value \in Table(Nat \cup {None})
    /\ meta \in Table(0..now + 1) /\ tombs \in Table(0..now + 1)
    /\ DOMAIN remote = Character /\ \A c \in Character : DocsIn(remote[c], now)
    /\ cursor \in [Character -> (0..now + 1) \cup {None}]
    /\ appliedSeq \in Sequence /\ seenSeq \in [Character -> Sequence]
    /\ DOMAIN pass = Character /\ \A c \in Character : PassTyped(pass[c], now)
    /\ WriteTyped(writing, now)
    /\ torn \subseteq Key /\ mixed \subseteq Key /\ overtaken \subseteq Key

-----------------------------------------------------------------------------
(***************************************************************************)
(* What time leaves of them.                                                *)
(***************************************************************************)

LEMMA LaterTable ==
  ASSUME NEW n \in Nat, NEW m \in Nat, n <= m
  PROVE  Table(0..n + 1) \subseteq Table(0..m + 1)
<1>1. 0..n + 1 \subseteq 0..m + 1
  OBVIOUS
<1> QED BY <1>1 DEF Table

LEMMA LaterDoc ==
  ASSUME NEW n \in Nat, NEW m \in Nat, n <= m
  PROVE  Doc(n) \subseteq Doc(m)
<1>1. 1..n + 1 \subseteq 1..m + 1
  OBVIOUS
<1> QED BY <1>1 DEF Doc

LEMMA LaterDocs ==
  ASSUME NEW n \in Nat, NEW m \in Nat, n <= m, NEW f, DocsIn(f, n)
  PROVE  DocsIn(f, m)
BY LaterDoc DEF DocsIn

LEMMA LaterList ==
  ASSUME NEW n \in Nat, NEW m \in Nat, n <= m, NEW l, ListIn(l, n)
  PROVE  ListIn(l, m)
BY LaterTable DEF ListIn

LEMMA LaterPass ==
  ASSUME NEW n \in Nat, NEW m \in Nat, n <= m, NEW p, PassTyped(p, n)
  PROVE  PassTyped(p, m)
<1>0. 3..n \subseteq 3..m /\ 0..n + 1 \subseteq 0..m + 1
  OBVIOUS
<1>1. CASE ReadingTyped(p, n)
  <2>1. /\ p.at \in 3..m /\ p.meta \in Table(0..m + 1)
        /\ p.step # "tombs" => p.tombs \in Table(0..m + 1)
        /\ p.step = "fetch" => WindowIn(p.window, m)
    BY <1>0, <1>1, LaterTable DEF ReadingTyped, WindowIn
  <2>2. ReadingTyped(p, m)
    BY <1>1, <2>1 DEF ReadingTyped
  <2> QED BY <2>2 DEF PassTyped
<1>2. CASE PushTyped(p, n)
  <2>1. \A w \in p.writes : w.doc # None => w.doc \in Doc(m)
    BY <1>2, LaterDoc DEF PushTyped
  <2>2. DocsIn(p.pulled, m) /\ ListIn(p.tombs, m)
    BY <1>2, LaterDocs, LaterList DEF PushTyped
  <2>3. \A k \in DOMAIN p.stamps : p.stamps[k] \in 3..m
    BY <1>0, <1>2 DEF PushTyped
  <2>4. p.high \in 0..m + 1 /\ \A k \in DOMAIN p.meta : p.meta[k] \in 0..m + 1
    BY <1>0, <1>2 DEF PushTyped
  <2>5. PushTyped(p, m)
    BY <1>2, <2>1, <2>2, <2>3, <2>4 DEF PushTyped
  <2> QED BY <2>5 DEF PassTyped
<1>3. CASE FinishTyped(p, n)
  <2>1. FinishTyped(p, m)
    BY <1>0, <1>3, LaterList DEF FinishTyped
  <2> QED BY <2>1 DEF PassTyped
<1> QED BY <1>1, <1>2, <1>3 DEF PassTyped

LEMMA LaterWrite ==
  ASSUME NEW n \in Nat, NEW m \in Nat, n <= m, NEW w, WriteTyped(w, n)
  PROVE  WriteTyped(w, m)
<1>1. 1..n + 1 \subseteq 1..m + 1 /\ Table(0..n + 1) \subseteq Table(0..m + 1)
  BY LaterTable
<1> QED BY <1>1 DEF WriteTyped

(* The clock moves: whatever the step leaves alone keeps its type.          *)
LEMMA Later ==
  ASSUME Typed, Tick
  PROVE  /\ now' \in Nat /\ 3 <= now' /\ now' <= MaxTime /\ now <= now' /\ now' = now + 3
         /\ now \in Nat /\ MaxTime \in Nat
         /\ meta \in Table(0..now' + 1) /\ tombs \in Table(0..now' + 1)
         /\ \A c \in Character : DocsIn(remote[c], now')
         /\ cursor \in [Character -> (0..now' + 1) \cup {None}]
         /\ \A c \in Character : PassTyped(pass[c], now')
         /\ WriteTyped(writing, now')
<1>1. now' \in Nat /\ 3 <= now' /\ now' <= MaxTime /\ now <= now' /\ now' = now + 3 /\ now \in Nat
      /\ MaxTime \in Nat
  BY SettingsSyncAssumptions DEF Typed, Tick
<1>2. meta \in Table(0..now' + 1) /\ tombs \in Table(0..now' + 1)
  BY <1>1, LaterTable DEF Typed
<1>3. \A c \in Character : DocsIn(remote[c], now')
  BY <1>1, LaterDocs DEF Typed
<1>4. \A c \in Character : PassTyped(pass[c], now')
  BY <1>1, LaterPass DEF Typed
<1>5. WriteTyped(writing, now')
  BY <1>1, LaterWrite DEF Typed
<1>6. 0..now + 1 \subseteq 0..now' + 1
  BY <1>1
<1>7. cursor \in [Character -> (0..now' + 1) \cup {None}]
  BY <1>6 DEF Typed
<1> QED BY <1>1, <1>2, <1>3, <1>4, <1>5, <1>7

-----------------------------------------------------------------------------
(***************************************************************************)
(* Greatest stamps, and maps of docs.                                       *)
(***************************************************************************)

(* A finite set of numbers has a greatest one: the members above a member   *)
(* are fewer the greater it is, and finite sets do not shrink for ever.     *)
LEMMA GreatestExists ==
  ASSUME NEW S \in SUBSET Nat, IsFiniteSet(S), S # {}
  PROVE  MaxOf(S) \in S /\ \A n \in S : n <= MaxOf(S)
<1> DEFINE Over(m) == {n \in S : n > m}
           Overs == {Over(m) : m \in S}
           Smaller == StrictSubsetOrdering(S)
<1>0. Overs # {}
  OBVIOUS
<1>1. Overs \subseteq FiniteSubsetsOf(S)
  BY FS_Subset DEF FiniteSubsetsOf
<1>2. PICK A \in Overs : \A B \in Overs : ~(<<B, A>> \in Smaller)
  <2>1. IsWellFoundedOn(Smaller, FiniteSubsetsOf(S))
    BY FS_StrictSubsetOrderingWellFounded
  <2> HIDE DEF Overs, Smaller
  <2> QED BY <1>0, <1>1, <2>1, WFMin
<1>3. PICK m \in S : A = Over(m)
  OBVIOUS
<1>4. \A n \in S : n <= m
  <2> SUFFICES ASSUME NEW n \in S, n > m PROVE FALSE
    OBVIOUS
  <2>1. Over(n) \in Overs /\ n \in A /\ n \notin Over(n)
    BY <1>3
  <2>2. Over(n) \subseteq A
    <3> SUFFICES ASSUME NEW k \in S, k > n PROVE k > m
      BY <1>3
    <3> QED OBVIOUS
  <2>3. <<Over(n), A>> \in Smaller
    BY <2>1, <2>2, <1>3 DEF StrictSubsetOrdering
  <2> QED BY <2>1, <2>3, <1>2
<1> QED BY <1>4 DEF MaxOf

LEMMA GreatestStamp ==
  ASSUME NEW n \in Nat, NEW S \in SUBSET (0..n + 1), S # {}
  PROVE  MaxOf(S) \in 0..n + 1 /\ \A m \in S : m <= MaxOf(S)
<1>1. S \in SUBSET Nat /\ IsFiniteSet(0..n + 1)
  <2>1. 0 \in Int /\ n + 1 \in Int
    OBVIOUS
  <2> QED BY <2>1, FS_Interval
<1> QED BY <1>1, FS_Subset, GreatestExists

LEMMA PutDocs ==
  ASSUME NEW f, NEW g, NEW n, DocsIn(f, n), DocsIn(g, n)
  PROVE  DocsIn(Put(f, g), n)
BY DEF DocsIn, Put

LEMMA WithoutDocs ==
  ASSUME NEW f, NEW S, NEW n, DocsIn(f, n)
  PROVE  DocsIn(Without(f, S), n) /\ DocsIn(Only(f, S), n)
BY DEF DocsIn, Without, Only

-----------------------------------------------------------------------------
(***************************************************************************)
(* The plan of a pass.                                                      *)
(***************************************************************************)

(* What is in each list, as far as the pass relies on it.                   *)
LEMMA PlanIs ==
  ASSUME NEW val, NEW stamp, NEW buriedAt, NEW docs, NEW at, NEW window, DOMAIN docs \subseteq Key
  PROVE  LET plan == mergeSettings(val, stamp, buriedAt, docs, at, window) IN
         /\ plan.push \subseteq {k \in Key : val[k] # None}
         /\ plan.pull \subseteq Live(docs)
         /\ \A k \in plan.pull :
               \/ val[k] = None /\ (buriedAt[k] > 0 => docs[k].at > buriedAt[k])
               \/ docs[k].at > stamp[k]
         /\ plan.pushTombstones \subseteq {k \in Key : buriedAt[k] > 0}
         /\ plan.deleteLocal \subseteq Dead(docs)
         /\ plan.purgeRemote \subseteq Dead(docs)
         /\ \A k \in plan.clearLocalTombstones :
               k \in Key /\ (k \in plan.pull \/ (val[k] # None /\ buriedAt[k] > 0))
BY DEF mergeSettings, Live, Dead

(* What Fetch makes of the pass p, given the docs it read.                  *)
Fetched(p, docs) ==
    LET plan == mergeSettings(p.value, p.meta, p.tombs, docs, p.at, p.window)
        unstamped == {k \in plan.push : p.meta[k] = 0}
    IN  [step |-> "push", seq |-> p.seq,
         writes |-> RemoteWrites(p, plan),
         stamps |-> [k \in unstamped |-> p.at],
         pulled |-> Only(docs, plan.pull), deleteLocal |-> plan.deleteLocal,
         meta |-> Only(p.meta, unstamped \cup plan.pull \cup plan.deleteLocal),
         tombs |-> Kept(p.tombs, plan.clearLocalTombstones),
         high |-> MaxOf({docs[k].at : k \in DOMAIN docs} \cup {p.window.since})]

LEMMA FetchedTyped ==
  ASSUME NEW n \in Nat, NEW p, ReadingTyped(p, n), p.step = "fetch", NEW docs, DocsIn(docs, n)
  PROVE  PushTyped(Fetched(p, docs), n)
<1> DEFINE plan == mergeSettings(p.value, p.meta, p.tombs, docs, p.at, p.window)
           unstamped == {k \in plan.push : p.meta[k] = 0}
           q == Fetched(p, docs)
           high == MaxOf({docs[k].at : k \in DOMAIN docs} \cup {p.window.since})
<1>1. /\ plan.push \subseteq {k \in Key : p.value[k] # None}
      /\ plan.pull \subseteq Live(docs)
      /\ plan.pushTombstones \subseteq {k \in Key : p.tombs[k] > 0}
      /\ plan.deleteLocal \subseteq Dead(docs) /\ plan.purgeRemote \subseteq Dead(docs)
  BY PlanIs DEF DocsIn
<1>2. /\ p.at \in 3..n /\ p.seq \in Sequence
      /\ p.value \in Table(Nat \cup {None}) /\ p.meta \in Table(0..n + 1)
      /\ p.tombs \in Table(0..n + 1) /\ WindowIn(p.window, n)
  BY DEF ReadingTyped
<1>3. high \in 0..n + 1
  <2>1. {docs[k].at : k \in DOMAIN docs} \subseteq 0..n + 1
    BY DEF DocsIn, Doc
  <2>2. p.window.since \in 0..n + 1
    BY <1>2 DEF WindowIn
  <2> QED BY <2>1, <2>2, GreatestStamp
<1>4. q = [step |-> "push", seq |-> p.seq, writes |-> RemoteWrites(p, plan),
           stamps |-> [k \in unstamped |-> p.at],
           pulled |-> Only(docs, plan.pull), deleteLocal |-> plan.deleteLocal,
           meta |-> Only(p.meta, unstamped \cup plan.pull \cup plan.deleteLocal),
           tombs |-> Kept(p.tombs, plan.clearLocalTombstones), high |-> high]
  BY DEF Fetched
<1> HIDE DEF plan, q, high
<1>5. \A w \in RemoteWrites(p, plan) : w.key \in Key /\ (w.doc # None => w.doc \in Doc(n))
  <2>1. ASSUME NEW k \in plan.push
        PROVE  k \in Key /\ [value |-> p.value[k], at |-> Stamped(p, k), deleted |-> FALSE] \in Doc(n)
    <3>1. k \in Key /\ p.value[k] \in Nat
      BY <1>1, <1>2 DEF Table
    <3>2. Stamped(p, k) \in 1..n + 1
      <4>1. p.meta[k] \in 0..n + 1
        BY <1>2, <3>1 DEF Table
      <4> QED BY <1>2, <4>1 DEF Stamped
    <3> QED BY <3>1, <3>2 DEF Doc
  <2>2. ASSUME NEW k \in plan.pushTombstones
        PROVE  k \in Key /\ [value |-> None, at |-> p.tombs[k], deleted |-> TRUE] \in Doc(n)
    <3>1. k \in Key /\ p.tombs[k] \in 0..n + 1 /\ p.tombs[k] > 0
      BY <1>1, <1>2 DEF Table
    <3>2. p.tombs[k] \in 1..n + 1
      BY <3>1
    <3> QED BY <3>1, <3>2 DEF Doc
  <2>3. plan.purgeRemote \subseteq Key
    BY <1>1 DEF Dead, DocsIn
  <2> QED BY <2>1, <2>2, <2>3 DEF RemoteWrites
<1>6. DocsIn(Only(docs, plan.pull), n)
  BY WithoutDocs
<1>7. \A k \in DOMAIN Only(docs, plan.pull) : ~Only(docs, plan.pull)[k].deleted
  BY <1>1 DEF Only, Live, Dead
<1>8. plan.deleteLocal \subseteq Key \ DOMAIN Only(docs, plan.pull)
  BY <1>1 DEF Dead, Live, DocsIn, Only
<1>9. DOMAIN Only(p.meta, unstamped \cup plan.pull \cup plan.deleteLocal) \subseteq Key
      /\ \A k \in DOMAIN Only(p.meta, unstamped \cup plan.pull \cup plan.deleteLocal) :
             Only(p.meta, unstamped \cup plan.pull \cup plan.deleteLocal)[k] \in 0..n + 1
  BY <1>2 DEF Only, Table
<1>10. ListIn(Kept(p.tombs, plan.clearLocalTombstones), n)
  <2>1. p.tombs \in [Key -> 0..n + 1] /\ 0 \in 0..n + 1
    BY <1>2 DEF Table
  <2> QED BY <2>1 DEF ListIn, Kept, Table
<1>11. unstamped \subseteq Key /\ \A k \in unstamped : [j \in unstamped |-> p.at][k] \in 3..n
  BY <1>1, <1>2
<1>12. /\ q.step = "push" /\ q.seq = p.seq /\ q.writes = RemoteWrites(p, plan)
       /\ q.stamps = [k \in unstamped |-> p.at] /\ q.pulled = Only(docs, plan.pull)
       /\ q.deleteLocal = plan.deleteLocal
       /\ q.meta = Only(p.meta, unstamped \cup plan.pull \cup plan.deleteLocal)
       /\ q.tombs = Kept(p.tombs, plan.clearLocalTombstones) /\ q.high = high
  BY <1>4
<1>13. q = [step |-> "push", seq |-> q.seq, writes |-> q.writes, stamps |-> q.stamps,
            pulled |-> q.pulled, deleteLocal |-> q.deleteLocal, meta |-> q.meta,
            tombs |-> q.tombs, high |-> q.high]
  BY <1>4, <1>12
<1>14. DOMAIN q.stamps \subseteq Key /\ \A k \in DOMAIN q.stamps : q.stamps[k] \in 3..n
  BY <1>11, <1>12
<1>15. PushTyped(q, n)
  BY <1>2, <1>3, <1>5, <1>6, <1>7, <1>8, <1>9, <1>10, <1>12, <1>13, <1>14 DEF PushTyped
<1> QED BY <1>15 DEF q

LEMMA FetchDoes ==
  ASSUME NEW c \in Character, Typed, Fetch(c)
  PROVE  LET docs == Only(remote[c], {k \in DOMAIN remote[c] : InWindow(pass[c].window, remote[c][k].at)}) IN
         /\ ReadingTyped(pass[c], now) /\ pass[c].step = "fetch"
         /\ DocsIn(docs, now)
         /\ pass' = [pass EXCEPT ![c] = Fetched(pass[c], docs)]
<1>1. ReadingTyped(pass[c], now) /\ pass[c].step = "fetch"
  BY DEF Typed, PassTyped, Fetch, Idle, PushTyped, FinishTyped
<1>2. DocsIn(remote[c], now)
  BY DEF Typed
<1> QED BY <1>1, <1>2, WithoutDocs DEF Fetch, Fetched

-----------------------------------------------------------------------------
(***************************************************************************)
(* Every step keeps the types.                                              *)
(***************************************************************************)

LEMMA InitTyped == Init => Typed
<1> SUFFICES ASSUME Init PROVE Typed
  OBVIOUS
<1>1. \A c \in Character : DocsIn(remote[c], now)
  BY DEF Init, DocsIn, Empty
<1>2. 0 \in 0..SeqWidth - 1
  BY SettingsSyncAssumptions
<1> QED BY <1>1, <1>2, SettingsSyncAssumptions
        DEF Init, Typed, Table, Sequence, PassTyped, WriteTyped

(* The type of a pass that a step replaces.                                 *)
LEMMA OnePass ==
  ASSUME NEW c \in Character, NEW q, Typed, PassTyped(q, now), pass' = [pass EXCEPT ![c] = q]
  PROVE  DOMAIN pass' = Character /\ \A d \in Character : PassTyped(pass'[d], now)
BY DEF Typed

(* The reads of the device: a pass takes them over, and marks a few keys.   *)
LEMMA ReadTyped ==
  ASSUME Typed, NEW c \in Character, NEW q, ReadingTyped(q, now), pass' = [pass EXCEPT ![c] = q],
         UNCHANGED <<now, device, remote, books, writing, torn, overtaken>>, mixed' \subseteq Key
  PROVE  Typed'
<1>1. PassTyped(q, now)
  BY DEF PassTyped
<1>2. DOMAIN pass' = Character /\ \A d \in Character : PassTyped(pass'[d], now)
  BY <1>1, OnePass
<1> QED BY <1>2 DEF Typed, device, books

LEMMA ReadStampsTyped ==
  ASSUME Typed, NEW c \in Character, ReadStamps(c) PROVE Typed'
<1> DEFINE q == [step |-> "tombs", at |-> now, meta |-> meta, tombs |-> None,
                 value |-> None, seq |-> None, window |-> None]
<1>1. ReadingTyped(q, now)
  BY DEF ReadingTyped, Typed
<1>2. pass' = [pass EXCEPT ![c] = q]
  BY DEF ReadStamps
<1> HIDE DEF q
<1>3. mixed' \subseteq Key
  BY DEF ReadStamps, ghosts, Typed
<1> QED BY <1>1, <1>2, <1>3, ReadTyped DEF ReadStamps, ghosts

(* What each read makes of the pass.                                        *)
ListRead(p, list) == [p EXCEPT !.step = "rows", !.tombs = list]
RowsRead(p, rows) == [p EXCEPT !.step = "books", !.value = rows]
BooksRead(p, seq, window) == [p EXCEPT !.step = "fetch", !.seq = seq, !.window = window]

LEMMA ReadsAre ==
  ASSUME NEW p, NEW n, ReadingTyped(p, n), NEW list, NEW rows, NEW seq, NEW window
  PROVE  /\ ListRead(p, list) =
              [step |-> "rows", at |-> p.at, meta |-> p.meta, tombs |-> list, value |-> p.value,
               seq |-> p.seq, window |-> p.window]
         /\ RowsRead(p, rows) =
              [step |-> "books", at |-> p.at, meta |-> p.meta, tombs |-> p.tombs, value |-> rows,
               seq |-> p.seq, window |-> p.window]
         /\ BooksRead(p, seq, window) =
              [step |-> "fetch", at |-> p.at, meta |-> p.meta, tombs |-> p.tombs, value |-> p.value,
               seq |-> seq, window |-> window]
<1>1. PICK step, at, meta_, tombs_, value_, seq_, window_ :
         p = [step |-> step, at |-> at, meta |-> meta_, tombs |-> tombs_, value |-> value_,
              seq |-> seq_, window |-> window_]
  BY DEF ReadingTyped
<1>2. /\ p.at = at /\ p.meta = meta_ /\ p.tombs = tombs_ /\ p.value = value_
      /\ p.seq = seq_ /\ p.window = window_
  BY <1>1
<1>3. ListRead(p, list) = [step |-> "rows", at |-> at, meta |-> meta_, tombs |-> list,
           value |-> value_, seq |-> seq_, window |-> window_]
  <2>1. [p EXCEPT !.step = "rows"] = [step |-> "rows", at |-> at, meta |-> meta_, tombs |-> tombs_,
           value |-> value_, seq |-> seq_, window |-> window_]
    BY <1>1
  <2>2. [[step |-> "rows", at |-> at, meta |-> meta_, tombs |-> tombs_,
           value |-> value_, seq |-> seq_, window |-> window_]
         EXCEPT !.tombs = list] = [step |-> "rows", at |-> at, meta |-> meta_, tombs |-> list,
           value |-> value_, seq |-> seq_, window |-> window_]
    OBVIOUS
  <2>3. ListRead(p, list) = [[p EXCEPT !.step = "rows"] EXCEPT !.tombs = list]
    BY DEF ListRead
  <2> QED BY <2>1, <2>2, <2>3
<1>4. RowsRead(p, rows) = [step |-> "books", at |-> at, meta |-> meta_, tombs |-> tombs_,
           value |-> rows, seq |-> seq_, window |-> window_]
  <2>1. [p EXCEPT !.step = "books"] = [step |-> "books", at |-> at, meta |-> meta_, tombs |-> tombs_,
           value |-> value_, seq |-> seq_, window |-> window_]
    BY <1>1
  <2>2. [[step |-> "books", at |-> at, meta |-> meta_, tombs |-> tombs_,
           value |-> value_, seq |-> seq_, window |-> window_]
         EXCEPT !.value = rows] = [step |-> "books", at |-> at, meta |-> meta_, tombs |-> tombs_,
           value |-> rows, seq |-> seq_, window |-> window_]
    OBVIOUS
  <2>3. RowsRead(p, rows) = [[p EXCEPT !.step = "books"] EXCEPT !.value = rows]
    BY DEF RowsRead
  <2> QED BY <2>1, <2>2, <2>3
<1>5. BooksRead(p, seq, window) = [step |-> "fetch", at |-> at, meta |-> meta_, tombs |-> tombs_,
           value |-> value_, seq |-> seq, window |-> window]
  <2>1. [p EXCEPT !.step = "fetch"] = [step |-> "fetch", at |-> at, meta |-> meta_, tombs |-> tombs_,
           value |-> value_, seq |-> seq_, window |-> window_]
    BY <1>1
  <2>2. [[step |-> "fetch", at |-> at, meta |-> meta_, tombs |-> tombs_,
           value |-> value_, seq |-> seq_, window |-> window_]
         EXCEPT !.seq = seq] = [step |-> "fetch", at |-> at, meta |-> meta_, tombs |-> tombs_,
           value |-> value_, seq |-> seq, window |-> window_]
    OBVIOUS
  <2>3. [[step |-> "fetch", at |-> at, meta |-> meta_, tombs |-> tombs_,
           value |-> value_, seq |-> seq, window |-> window_]
         EXCEPT !.window = window] = [step |-> "fetch", at |-> at, meta |-> meta_, tombs |-> tombs_,
           value |-> value_, seq |-> seq, window |-> window]
    OBVIOUS
  <2>4. BooksRead(p, seq, window) = [[[p EXCEPT !.step = "fetch"] EXCEPT !.seq = seq] EXCEPT !.window = window]
    BY DEF BooksRead
  <2> QED BY <2>1, <2>2, <2>3, <2>4
<1> QED BY <1>2, <1>3, <1>4, <1>5

LEMMA ReadTombstonesDoes ==
  ASSUME Typed, NEW c \in Character, ReadTombstones(c)
  PROVE  LET p == pass[c] q == ListRead(p, tombs) IN
         /\ ReadingTyped(p, now) /\ p.step = "tombs" /\ pass' = [pass EXCEPT ![c] = q]
         /\ ReadingTyped(q, now) /\ q.step = "rows"
         /\ q.at = p.at /\ q.meta = p.meta /\ q.tombs = tombs
<1> DEFINE p == pass[c]
           q == ListRead(p, tombs)
<1>1. ReadingTyped(p, now) /\ p.step = "tombs"
  BY DEF ReadTombstones, Typed, PassTyped, Idle, PushTyped, FinishTyped
<1>3. q = [step |-> "rows", at |-> p.at, meta |-> p.meta, tombs |-> tombs, value |-> p.value,
           seq |-> p.seq, window |-> p.window]
  BY <1>1, ReadsAre
<1>4. pass' = [pass EXCEPT ![c] = q]
  BY DEF ReadTombstones, ListRead, Typed
<1> HIDE DEF p, q
<1>5. ReadingTyped(q, now)
  BY <1>1, <1>3 DEF ReadingTyped, Typed
<1> QED BY <1>1, <1>3, <1>4, <1>5 DEF p, q

LEMMA ReadRowsDoes ==
  ASSUME Typed, NEW c \in Character, ReadRows(c)
  PROVE  LET p == pass[c] q == RowsRead(p, value) IN
         /\ ReadingTyped(p, now) /\ p.step = "rows" /\ pass' = [pass EXCEPT ![c] = q]
         /\ ReadingTyped(q, now) /\ q.step = "books"
         /\ q.at = p.at /\ q.meta = p.meta /\ q.tombs = p.tombs /\ q.value = value
<1> DEFINE p == pass[c]
           q == RowsRead(p, value)
<1>1. ReadingTyped(p, now) /\ p.step = "rows"
  BY DEF ReadRows, Typed, PassTyped, Idle, PushTyped, FinishTyped
<1>3. q = [step |-> "books", at |-> p.at, meta |-> p.meta, tombs |-> p.tombs, value |-> value,
           seq |-> p.seq, window |-> p.window]
  BY <1>1, ReadsAre
<1>4. pass' = [pass EXCEPT ![c] = q]
  BY DEF ReadRows, RowsRead, Typed
<1> HIDE DEF p, q
<1>5. ReadingTyped(q, now)
  BY <1>1, <1>3 DEF ReadingTyped, Typed
<1> QED BY <1>1, <1>3, <1>4, <1>5 DEF p, q

LEMMA ReadBooksDoes ==
  ASSUME Typed, NEW c \in Character, ReadBooks(c)
  PROVE  /\ ReadingTyped(pass[c], now) /\ pass[c].step = "books"
         /\ \E seq, window : LET q == BooksRead(pass[c], seq, window) IN
               /\ pass' = [pass EXCEPT ![c] = q]
               /\ ReadingTyped(q, now) /\ q.step = "fetch" /\ q.at = pass[c].at
               /\ q.meta = pass[c].meta /\ q.tombs = pass[c].tombs /\ q.value = pass[c].value
<1> DEFINE p == pass[c]
           fresh == ~forceFull(p.value, p.meta, c) /\ cursor[c] # None
           window == IF fresh THEN SinceRead(cursor[c]) ELSE FullRead
           q == BooksRead(p, appliedSeq, window)
<1>1. ReadingTyped(p, now) /\ p.step = "books"
  BY DEF ReadBooks, Typed, PassTyped, Idle, PushTyped, FinishTyped
<1>3. WindowIn(window, now)
  <2>1. cursor[c] \in 0..now + 1 \/ cursor[c] = None
    BY DEF Typed
  <2>2. 0 \in 0..now + 1
    BY DEF Typed
  <2> HIDE DEF fresh
  <2>3. CASE fresh
    <3>1. cursor[c] \in 0..now + 1
      BY <2>1, <2>3 DEF fresh
    <3> QED BY <2>3, <3>1 DEF WindowIn, SinceRead
  <2>4. CASE ~fresh
    BY <2>2, <2>4 DEF WindowIn, FullRead
  <2> QED BY <2>3, <2>4
<1>4. pass' = [pass EXCEPT ![c] = q]
  BY DEF ReadBooks, BooksRead, Typed
<1> HIDE DEF window
<1>5. q = [step |-> "fetch", at |-> p.at, meta |-> p.meta, tombs |-> p.tombs, value |-> p.value,
           seq |-> appliedSeq, window |-> window]
  BY <1>1, ReadsAre
<1> HIDE DEF p, q
<1>6. ReadingTyped(q, now)
  BY <1>1, <1>3, <1>5 DEF ReadingTyped, Typed
<1>7. q.step = "fetch" /\ q.at = p.at /\ q.meta = p.meta /\ q.tombs = p.tombs /\ q.value = p.value
  BY <1>5
<1>8. \E seq, w : q = BooksRead(p, seq, w)
  BY DEF q
<1> QED BY <1>1, <1>4, <1>6, <1>7, <1>8 DEF p

LEMMA ReadsKeepTypes ==
  ASSUME Typed, NEW c \in Character, ReadTombstones(c) \/ ReadRows(c) \/ ReadBooks(c) PROVE Typed'
<1>1. \E q : ReadingTyped(q, now) /\ pass' = [pass EXCEPT ![c] = q]
  <2>1. CASE ReadTombstones(c)
    BY <2>1, ReadTombstonesDoes
  <2>2. CASE ReadRows(c)
    BY <2>2, ReadRowsDoes
  <2>3. CASE ReadBooks(c)
    BY <2>3, ReadBooksDoes
  <2> QED BY <2>1, <2>2, <2>3
<1>2. UNCHANGED <<now, device, remote, books, writing, torn, overtaken>>
  BY DEF ReadTombstones, ReadRows, ReadBooks, ghosts
<1>3. mixed' \subseteq Key
  BY DEF ReadTombstones, ReadRows, ReadBooks, ghosts, Typed, Crossed
<1> QED BY <1>1, <1>2, <1>3, ReadTyped

LEMMA FetchKeepsTypes == ASSUME NEW c \in Character PROVE Typed /\ Fetch(c) => Typed'
<1> SUFFICES ASSUME Typed, Fetch(c) PROVE Typed'
  OBVIOUS
<1> DEFINE docs == Only(remote[c], {k \in DOMAIN remote[c] : InWindow(pass[c].window, remote[c][k].at)})
           q == Fetched(pass[c], docs)
<1>1. /\ ReadingTyped(pass[c], now) /\ pass[c].step = "fetch"
      /\ DocsIn(docs, now) /\ pass' = [pass EXCEPT ![c] = q]
  BY FetchDoes
<1>2. now \in Nat
  BY DEF Typed
<1>3. PassTyped(q, now)
  <2> HIDE DEF docs
  <2> QED BY <1>1, <1>2, FetchedTyped DEF PassTyped
<1> HIDE DEF q
<1>4. DOMAIN pass' = Character /\ \A d \in Character : PassTyped(pass'[d], now)
  BY <1>1, <1>3, OnePass
<1>5. overtaken' \subseteq Key
  BY DEF Fetch, Typed
<1> QED BY <1>4, <1>5 DEF Fetch, Typed, device, books

LEMMA PushKeepsTypes == ASSUME NEW c \in Character PROVE Typed /\ Push(c) => Typed'
<1> SUFFICES ASSUME Typed, Push(c) PROVE Typed'
  OBVIOUS
<1>1. PushTyped(pass[c], now)
  BY DEF Typed, PassTyped, Push, Idle, ReadingTyped, FinishTyped
<1>2. PICK w \in pass[c].writes :
         /\ remote' = [remote EXCEPT ![c] = IF w.doc = None THEN Without(@, {w.key})
                                            ELSE Put(@, [k \in {w.key} |-> w.doc])]
         /\ pass' = [pass EXCEPT ![c].writes = @ \ {w}]
  BY DEF Push
<1> DEFINE q == [pass[c] EXCEPT !.writes = @ \ {w}]
<1>3. pass' = [pass EXCEPT ![c] = q]
  BY <1>2 DEF Typed
<1>4. PushTyped(q, now)
  <2>1. pass[c] = [step |-> "push", seq |-> pass[c].seq, writes |-> pass[c].writes,
                   stamps |-> pass[c].stamps, pulled |-> pass[c].pulled,
                   deleteLocal |-> pass[c].deleteLocal, meta |-> pass[c].meta,
                   tombs |-> pass[c].tombs, high |-> pass[c].high]
    BY <1>1 DEF PushTyped
  <2>2. /\ q.step = "push" /\ q.seq = pass[c].seq /\ q.writes = pass[c].writes \ {w}
        /\ q.stamps = pass[c].stamps /\ q.pulled = pass[c].pulled
        /\ q.deleteLocal = pass[c].deleteLocal /\ q.meta = pass[c].meta
        /\ q.tombs = pass[c].tombs /\ q.high = pass[c].high
    BY <2>1
  <2>3. q = [step |-> "push", seq |-> q.seq, writes |-> q.writes, stamps |-> q.stamps,
             pulled |-> q.pulled, deleteLocal |-> q.deleteLocal, meta |-> q.meta,
             tombs |-> q.tombs, high |-> q.high]
    BY <2>1
  <2> HIDE DEF q
  <2> QED BY <1>1, <2>2, <2>3 DEF PushTyped
<1>5. PassTyped(q, now)
  BY <1>4 DEF PassTyped
<1> HIDE DEF q
<1>6. DOMAIN pass' = Character /\ \A d \in Character : PassTyped(pass'[d], now)
  BY <1>3, <1>5, OnePass
<1>7. w.key \in Key /\ (w.doc # None => w.doc \in Doc(now))
  BY <1>1 DEF PushTyped
<1>8. DOMAIN remote' = Character /\ \A d \in Character : DocsIn(remote'[d], now)
  <2>1. DOMAIN remote = Character /\ \A d \in Character : DocsIn(remote[d], now)
    BY DEF Typed
  <2>2. DocsIn(Without(remote[c], {w.key}), now)
    BY <2>1, WithoutDocs
  <2>3. ASSUME w.doc # None PROVE DocsIn(Put(remote[c], [k \in {w.key} |-> w.doc]), now)
    <3>1. DocsIn([k \in {w.key} |-> w.doc], now)
      BY <1>7, <2>3 DEF DocsIn
    <3> QED BY <2>1, <3>1, PutDocs
  <2> QED BY <1>2, <2>1, <2>2, <2>3
<1> QED BY <1>6, <1>8 DEF Push, Typed, device, books, ghosts

(* What a pass finds when it applies its plan, and what each key becomes.   *)
LEMMA ApplyDoes ==
  ASSUME NEW c \in Character, Typed, Apply(c)
  PROVE  LET p == pass[c]
             pulled == DOMAIN p.pulled \cap untouched(c)
             deleted == p.deleteLocal \cap untouched(c)
             stamped == (DOMAIN p.stamps \cap untouched(c)) \ (pulled \cup deleted)
         IN
         /\ PushTyped(p, now)
         /\ \A k \in untouched(c) : k \in DOMAIN p.meta /\ meta[k] = p.meta[k]
         /\ DOMAIN value' = Key /\ DOMAIN meta' = Key
         /\ \A k \in pulled : /\ value'[k] = p.pulled[k].value /\ value'[k] \in Nat
                              /\ meta'[k] = p.pulled[k].at /\ meta'[k] \in 0..now + 1
         /\ \A k \in deleted : value'[k] = None /\ meta'[k] = 0
         /\ \A k \in stamped : value'[k] = value[k] /\ meta'[k] = p.stamps[k]
         /\ \A k \in Key \ (pulled \cup deleted \cup stamped) :
                value'[k] = value[k] /\ meta'[k] = meta[k]
         /\ \E seen \in Sequence, skipped \in BOOLEAN : pass' = [pass EXCEPT ![c] =
                [step |-> "settle", tombs |-> p.tombs, high |-> p.high, skipped |-> skipped, seen |-> seen]]
         /\ appliedSeq' \in Sequence
<1> DEFINE p == pass[c]
           pulled == DOMAIN p.pulled \cap untouched(c)
           deleted == p.deleteLocal \cap untouched(c)
           stamped == (DOMAIN p.stamps \cap untouched(c)) \ (pulled \cup deleted)
           bumps == pulled \cup deleted # {}
           seen == IF bumps /\ appliedSeq = p.seq THEN After(p.seq) ELSE p.seq
           skipped == pulled # DOMAIN p.pulled \/ deleted # p.deleteLocal
<1>1. PushTyped(p, now)
  BY DEF Typed, PassTyped, Apply, Idle, ReadingTyped, FinishTyped
<1>2. \A k \in untouched(c) : k \in DOMAIN p.meta /\ meta[k] = p.meta[k]
  BY DEF untouched
<1>3. /\ value' = [k \in Key |-> CASE k \in pulled -> p.pulled[k].value
                                   [] k \in deleted -> None
                                   [] OTHER -> value[k]]
      /\ meta' = [k \in Key |-> CASE k \in pulled -> p.pulled[k].at
                                  [] k \in deleted -> 0
                                  [] k \in stamped -> p.stamps[k]
                                  [] OTHER -> meta[k]]
      /\ appliedSeq' = (IF bumps THEN After(appliedSeq) ELSE appliedSeq)
      /\ pass' = [pass EXCEPT ![c] =
            [step |-> "settle", tombs |-> p.tombs, high |-> p.high, skipped |-> skipped, seen |-> seen]]
  BY DEF Apply
<1>4. pulled \subseteq Key /\ deleted \subseteq Key \ pulled /\ stamped \subseteq Key
  BY <1>1 DEF PushTyped, DocsIn
<1>5. \A s \in Sequence : After(s) \in Sequence
  BY SettingsSyncAssumptions DEF Sequence, After
<1>6. appliedSeq' \in Sequence /\ seen \in Sequence
  BY <1>1, <1>3, <1>5 DEF Typed, PushTyped
<1>7. \A k \in pulled : p.pulled[k].value \in Nat /\ p.pulled[k].at \in 0..now + 1
  BY <1>1 DEF PushTyped, DocsIn, Doc
<1> HIDE DEF p, pulled, deleted, stamped, bumps, seen, skipped
<1>8. ASSUME NEW k \in Key
      PROVE  /\ k \in pulled => value'[k] = p.pulled[k].value /\ meta'[k] = p.pulled[k].at
             /\ k \in deleted => value'[k] = None /\ meta'[k] = 0
             /\ k \in stamped => value'[k] = value[k] /\ meta'[k] = p.stamps[k]
             /\ k \notin pulled \cup deleted \cup stamped => value'[k] = value[k] /\ meta'[k] = meta[k]
  <2>1. ~(k \in pulled /\ k \in deleted) /\ ~(k \in pulled /\ k \in stamped)
        /\ ~(k \in deleted /\ k \in stamped)
    BY <1>4 DEF stamped
  <2>2. value'[k] = CASE k \in pulled -> p.pulled[k].value [] k \in deleted -> None [] OTHER -> value[k]
    BY <1>3
  <2>3. meta'[k] = CASE k \in pulled -> p.pulled[k].at [] k \in deleted -> 0
                     [] k \in stamped -> p.stamps[k] [] OTHER -> meta[k]
    BY <1>3
  <2>4. CASE k \in pulled
    BY <2>1, <2>2, <2>3, <2>4
  <2>5. CASE k \in deleted
    BY <2>1, <2>2, <2>3, <2>5
  <2>6. CASE k \in stamped
    BY <2>1, <2>2, <2>3, <2>6
  <2>7. CASE k \notin pulled \cup deleted \cup stamped
    BY <2>2, <2>3, <2>7
  <2> QED BY <2>4, <2>5, <2>6, <2>7
<1>13. skipped \in BOOLEAN
  BY DEF skipped
<1>9. \A k \in pulled : /\ value'[k] = p.pulled[k].value /\ value'[k] \in Nat
                        /\ meta'[k] = p.pulled[k].at /\ meta'[k] \in 0..now + 1
  BY <1>4, <1>7, <1>8
<1>10. /\ \A k \in deleted : value'[k] = None /\ meta'[k] = 0
       /\ \A k \in stamped : value'[k] = value[k] /\ meta'[k] = p.stamps[k]
  BY <1>4, <1>8
<1>11. \A k \in Key \ (pulled \cup deleted \cup stamped) : value'[k] = value[k] /\ meta'[k] = meta[k]
  BY <1>8
<1>12. DOMAIN value' = Key /\ DOMAIN meta' = Key
  BY <1>3
<1> QED BY <1>1, <1>2, <1>3, <1>6, <1>9, <1>10, <1>11, <1>12, <1>13
        DEF p, pulled, deleted, stamped

LEMMA ApplyKeepsTypes == ASSUME NEW c \in Character PROVE Typed /\ Apply(c) => Typed'
<1> SUFFICES ASSUME Typed, Apply(c) PROVE Typed'
  OBVIOUS
<1> DEFINE p == pass[c]
           pulled == DOMAIN p.pulled \cap untouched(c)
           deleted == p.deleteLocal \cap untouched(c)
           stamped == (DOMAIN p.stamps \cap untouched(c)) \ (pulled \cup deleted)
<1>1. /\ PushTyped(p, now)
      /\ DOMAIN value' = Key /\ DOMAIN meta' = Key
      /\ \A k \in pulled : value'[k] \in Nat /\ meta'[k] \in 0..now + 1
      /\ \A k \in deleted : value'[k] = None /\ meta'[k] = 0
      /\ \A k \in stamped : value'[k] = value[k] /\ meta'[k] = p.stamps[k]
      /\ \A k \in Key \ (pulled \cup deleted \cup stamped) :
             value'[k] = value[k] /\ meta'[k] = meta[k]
      /\ appliedSeq' \in Sequence
  BY ApplyDoes
<1>2. PICK seen \in Sequence, skipped \in BOOLEAN : pass' = [pass EXCEPT ![c] =
        [step |-> "settle", tombs |-> p.tombs, high |-> p.high, skipped |-> skipped, seen |-> seen]]
  BY ApplyDoes
<1> DEFINE q == [step |-> "settle", tombs |-> p.tombs, high |-> p.high, skipped |-> skipped, seen |-> seen]
<1>3. FinishTyped(q, now)
  BY <1>1 DEF FinishTyped, PushTyped
<1>4. PassTyped(q, now) /\ pass' = [pass EXCEPT ![c] = q]
  BY <1>2, <1>3 DEF PassTyped
<1>5. \A k \in DOMAIN p.stamps : p.stamps[k] \in 0..now + 1
  BY <1>1 DEF PushTyped, Typed
<1> HIDE DEF q, pulled, deleted, stamped
<1>6. DOMAIN pass' = Character /\ \A d \in Character : PassTyped(pass'[d], now)
  BY <1>4, OnePass
<1>7. \A k \in Key : value[k] \in Nat \cup {None} /\ meta[k] \in 0..now + 1 /\ 0 \in 0..now + 1
  BY DEF Typed, Table
<1>8. ASSUME NEW k \in Key PROVE value'[k] \in Nat \cup {None} /\ meta'[k] \in 0..now + 1
  <2>1. CASE k \in pulled
    BY <1>1, <2>1
  <2>2. CASE k \in deleted
    BY <1>1, <1>7, <2>2
  <2>3. CASE k \in stamped
    BY <1>1, <1>5, <1>7, <2>3 DEF stamped
  <2>4. CASE k \in Key \ (pulled \cup deleted \cup stamped)
    BY <1>1, <1>7, <2>4
  <2> QED BY <2>1, <2>2, <2>3, <2>4
<1>9. value' \in Table(Nat \cup {None}) /\ meta' \in Table(0..now + 1)
  <2>1. value' = [k \in Key |-> value'[k]] /\ meta' = [k \in Key |-> meta'[k]]
    BY DEF Apply
  <2> QED BY <1>8, <2>1 DEF Table
<1>10. torn' \subseteq Key /\ overtaken' \subseteq Key
  BY DEF Apply, Typed, Crossed
<1>11. UNCHANGED <<now, tombs, remote, cursor, seenSeq, writing, mixed>>
  BY DEF Apply
<1> QED BY <1>1, <1>6, <1>9, <1>10, <1>11 DEF Typed

LEMMA FinishDoes ==
  ASSUME Typed, NEW c \in Character, Settle(c) \/ MoveCursor(c) \/ MoveSeen(c)
  PROVE  /\ FinishTyped(pass[c], now)
         /\ \E q : pass' = [pass EXCEPT ![c] = q] /\ (q = Idle \/ FinishTyped(q, now))
                  /\ q.step \in {"idle", "cursor", "seen"}
<1>1. FinishTyped(pass[c], now)
  BY DEF Typed, PassTyped, Settle, MoveCursor, MoveSeen, Idle, ReadingTyped, PushTyped
<1> DEFINE q(step) == [pass[c] EXCEPT !.step = step]
<1>2. \A step \in {"cursor", "seen"} : FinishTyped(q(step), now) /\ q(step).step = step
  <2> SUFFICES ASSUME NEW step \in {"cursor", "seen"}
               PROVE  FinishTyped(q(step), now) /\ q(step).step = step
    OBVIOUS
  <2>1. q(step) = [step |-> step, tombs |-> pass[c].tombs, high |-> pass[c].high,
                   skipped |-> pass[c].skipped, seen |-> pass[c].seen]
    BY <1>1 DEF FinishTyped
  <2> HIDE DEF q
  <2> QED BY <1>1, <2>1 DEF FinishTyped
<1>3. pass' = [pass EXCEPT ![c] = Idle] \/ \E step \in {"cursor", "seen"} : pass' = [pass EXCEPT ![c] = q(step)]
  BY DEF Typed, Settle, MoveCursor, MoveSeen
<1> HIDE DEF q
<1> QED BY <1>1, <1>2, <1>3 DEF Idle

LEMMA FinishKeepsTypes ==
  ASSUME Typed, NEW c \in Character, Settle(c) \/ MoveCursor(c) \/ MoveSeen(c) PROVE Typed'
<1>1. FinishTyped(pass[c], now)
  BY FinishDoes
<1>2. DOMAIN pass' = Character /\ \A d \in Character : PassTyped(pass'[d], now)
  BY FinishDoes, OnePass DEF PassTyped
<1>3. tombs' \in Table(0..now + 1) /\ torn' \subseteq Key
  BY <1>1 DEF Settle, MoveCursor, MoveSeen, Typed, FinishTyped, ListIn, device, ghosts
<1>4. cursor' \in [Character -> (0..now + 1) \cup {None}] /\ seenSeq' \in [Character -> Sequence]
  BY <1>1 DEF Settle, MoveCursor, MoveSeen, Typed, FinishTyped, books
<1>5. UNCHANGED <<now, value, meta, remote, appliedSeq, writing, mixed, overtaken>>
  BY DEF Settle, MoveCursor, MoveSeen, device, books, ghosts
<1> QED BY <1>2, <1>3, <1>4, <1>5 DEF Typed

LEMMA InterruptTyped == Typed /\ Interrupt => Typed'
<1> SUFFICES ASSUME Typed, Interrupt PROVE Typed'
  OBVIOUS
<1>1. Tick /\ UNCHANGED <<device, remote, books, mixed, overtaken>>
  BY DEF Interrupt
<1>2. DOMAIN pass' = Character /\ \A d \in Character : PassTyped(pass'[d], now')
  BY <1>1, Later DEF Interrupt, PassTyped
<1>3. WriteTyped(writing', now') /\ torn' \subseteq Key
  BY <1>1, Later DEF Interrupt, WriteTyped, Crossed, Typed
<1> QED BY <1>1, <1>2, <1>3, Later DEF Typed, device, books

LEMMA WriteKeepsTypes ==
  ASSUME Typed, (\E k \in Chosen : Choose(k) \/ Delete(k)) \/ Write PROVE Typed'
<1>0. /\ now \in Nat
      /\ value \in Table(Nat \cup {None}) /\ meta \in Table(0..now + 1) /\ tombs \in Table(0..now + 1)
      /\ Chosen \subseteq Key /\ WriteTyped(writing, now) /\ now + 1 \in 1..now + 1 /\ 0 \in 0..now + 1
  BY SettingsSyncAssumptions DEF Typed
<1>1. ASSUME NEW k \in Chosen, Choose(k) PROVE Typed'
  <2>1. Tick /\ k \in Key
    BY <1>0, <1>1 DEF Choose, Acts
  <2>2. now + 2 \in Nat /\ value' \in Table(Nat \cup {None})
    BY <1>0, <1>1, <2>1 DEF Choose, Table
  <2>3. WriteTyped(writing', now')
    BY <1>1, <2>1, <2>2 DEF Choose, WriteTyped
  <2> QED BY <1>1, <2>1, <2>2, <2>3, Later DEF Choose, Acts, Typed, books, ghosts
<1>2. ASSUME NEW k \in Chosen, Delete(k) PROVE Typed'
  <2>1. Tick /\ k \in Key
    BY <1>0, <1>2 DEF Delete, Acts
  <2>2. value' \in Table(Nat \cup {None})
    BY <1>0, <1>2, <2>1 DEF Delete, Table
  <2>3. WriteTyped(writing', now')
    BY <1>2, <2>1 DEF Delete, WriteTyped
  <2> QED BY <1>2, <2>1, <2>2, <2>3, Later DEF Delete, Acts, Typed, books, ghosts
<1>3. CASE Rewrite
  <2>1. writing \in [step : {"load", "stamps"}, key : Key, value : Nat]
    BY <1>0, <1>3 DEF Rewrite, WriteTyped, NotWriting
  <2>2. value' \in Table(Nat \cup {None})
    BY <1>0, <1>3, <2>1 DEF Rewrite, Table
  <2>3. WriteTyped(writing', now)
    BY <1>3, <2>1 DEF Rewrite, WriteTyped
  <2> QED BY <1>3, <2>2, <2>3 DEF Rewrite, Awaits, Typed, books, ghosts
<1>4. CASE TakeStamps
  <2>1. writing.key \in Key /\ writing.value \in Nat
    BY <1>0, <1>4 DEF TakeStamps, WriteTyped, NotWriting
  <2>2. WriteTyped(writing', now)
    BY <1>0, <1>4, <2>1 DEF TakeStamps, WriteTyped
  <2> QED BY <1>4, <2>2 DEF TakeStamps, Awaits, Typed, device, books, ghosts
<1>5. CASE Stamp
  <2>1. writing.key \in Key /\ writing.meta \in Table(0..now + 1) /\ writing.at \in 0..now + 1
    BY <1>0, <1>5 DEF Stamp, WriteTyped, NotWriting
  <2>2. meta' \in Table(0..now + 1)
    BY <1>5, <2>1 DEF Stamp, Table
  <2>3. torn' \subseteq Key /\ overtaken' \subseteq Key
    BY <1>5, <2>1 DEF Stamp, Typed, Lost, Renewed
  <2> QED BY <1>5, <2>2, <2>3 DEF Stamp, Awaits, Typed, WriteTyped, books
<1>6. CASE TakeOldStamps
  <2>1. writing.key \in Key
    BY <1>0, <1>6 DEF TakeOldStamps, WriteTyped, NotWriting
  <2>2. WriteTyped(writing', now)
    BY <1>0, <1>6, <2>1 DEF TakeOldStamps, WriteTyped
  <2> QED BY <1>6, <2>2 DEF TakeOldStamps, Awaits, Typed, device, books, ghosts
<1>7. CASE Unstamp
  <2>1. writing.key \in Key /\ writing.meta \in Table(0..now + 1)
    BY <1>0, <1>7 DEF Unstamp, WriteTyped, NotWriting
  <2>2. meta' \in Table(0..now + 1) /\ torn' \subseteq Key
    BY <1>0, <1>7, <2>1 DEF Unstamp, Table, Lost, Typed
  <2>3. WriteTyped(writing', now)
    BY <1>7, <2>1 DEF Unstamp, WriteTyped
  <2> QED BY <1>7, <2>2, <2>3 DEF Unstamp, Awaits, Typed, books
<1>8. CASE TakeList
  <2>1. writing.key \in Key
    BY <1>0, <1>8 DEF TakeList, WriteTyped, NotWriting
  <2>2. WriteTyped(writing', now)
    BY <1>0, <1>8, <2>1 DEF TakeList, WriteTyped
  <2> QED BY <1>8, <2>2 DEF TakeList, Awaits, Typed, device, books, ghosts
<1>9. CASE Bury
  <2>1. writing.key \in Key /\ writing.tombs \in Table(0..now + 1) /\ writing.at \in 0..now + 1
    BY <1>0, <1>9 DEF Bury, WriteTyped, NotWriting
  <2>2. tombs' \in Table(0..now + 1)
    BY <1>9, <2>1 DEF Bury, Table
  <2>3. torn' \subseteq Key /\ overtaken' \subseteq Key
    BY <1>9, <2>1 DEF Bury, Typed, Lost, Renewed
  <2> QED BY <1>9, <2>2, <2>3 DEF Bury, Awaits, Typed, WriteTyped, books
<1> QED BY <1>1, <1>2, <1>3, <1>4, <1>5, <1>6, <1>7, <1>8, <1>9 DEF Write

LEMMA OtherKeepsTypes ==
  ASSUME Typed, NEW k \in Key,
         \/ \E c \in Character : OtherDeviceSets(c, k)
         \/ \E D \in SUBSET Character : OtherDeviceDeletes(D, k)
  PROVE  Typed'
<1>1. Tick /\ UNCHANGED <<device, books, pass, writing, torn, mixed, overtaken>>
  BY DEF OtherDeviceSets, OtherDeviceDeletes, ghosts
<1> DEFINE set == [value |-> now + 2, at |-> now + 2, deleted |-> FALSE]
           dead == [value |-> None, at |-> now + 2, deleted |-> TRUE]
<1>2. set \in Doc(now') /\ dead \in Doc(now')
  <2>1. now + 2 \in 1..now' + 1 /\ now + 2 \in Nat
    BY <1>1, Later
  <2> QED BY <2>1 DEF Doc
<1> HIDE DEF set, dead
<1>3. \A doc \in {set, dead}, c \in Character : DocsIn(Put(remote[c], [j \in {k} |-> doc]), now')
  <2>1. \A doc \in {set, dead} : DocsIn([j \in {k} |-> doc], now')
    BY <1>2 DEF DocsIn
  <2> QED BY <1>1, <2>1, Later, PutDocs
<1>4. DOMAIN remote' = Character /\ \A c \in Character : DocsIn(remote'[c], now')
  <2>1. DOMAIN remote = Character /\ \A c \in Character : DocsIn(remote[c], now')
    BY <1>1, Later DEF Typed
  <2>2. ASSUME NEW c \in Character, OtherDeviceSets(c, k)
        PROVE  DOMAIN remote' = Character /\ \A d \in Character : DocsIn(remote'[d], now')
    <3>1. remote' = [remote EXCEPT ![c] = Put(remote[c], [j \in {k} |-> set])]
      BY <2>1, <2>2 DEF OtherDeviceSets, set
    <3> QED BY <1>3, <2>1, <3>1
  <2>3. ASSUME NEW D \in SUBSET Character, OtherDeviceDeletes(D, k)
        PROVE  DOMAIN remote' = Character /\ \A d \in Character : DocsIn(remote'[d], now')
    <3>1. remote' = [c \in Character |-> IF c \in D THEN Put(remote[c], [j \in {k} |-> dead])
                                                    ELSE remote[c]]
      BY <2>3 DEF OtherDeviceDeletes, dead
    <3> QED BY <1>3, <2>1, <3>1
  <2> QED BY <2>2, <2>3
<1> QED BY <1>1, <1>4, Later DEF Typed, device, books

LEMMA StepTyped == Typed /\ [Next]_vars => Typed'
<1> SUFFICES ASSUME Typed, [Next]_vars PROVE Typed'
  OBVIOUS
<1>1. ASSUME NEW c \in Character, ReadStamps(c) \/ Steps(c) PROVE Typed'
  BY <1>1, ReadStampsTyped, ReadsKeepTypes, FetchKeepsTypes, PushKeepsTypes, ApplyKeepsTypes,
     FinishKeepsTypes DEF Steps
<1>2. CASE UNCHANGED vars
  BY <1>2 DEF vars, Typed
<1> QED BY <1>1, <1>2, WriteKeepsTypes, OtherKeepsTypes, InterruptTyped DEF Next

(* TypeOK: clocks, rows, stamps, tombstones, collections and cursors.       *)
THEOREM TypeCorrect == Spec => []TypeOK
<1>1. Typed => TypeOK
  <2> SUFFICES ASSUME Typed PROVE TypeOK
    OBVIOUS
  <2>1. \A c \in Character : \A k \in DOMAIN remote[c] : remote[c][k].at \in 1..now + 1
    BY DEF Typed, DocsIn, Doc
  <2>2. now \in 3..MaxTime
    BY SettingsSyncAssumptions DEF Typed
  <2> QED BY <2>1, <2>2 DEF Typed, TypeOK, Table, Sequence
<1> QED BY <1>1, InitTyped, StepTyped, PTL DEF Spec

-----------------------------------------------------------------------------
(***************************************************************************)
(* What a pull relies on, key by key.  A key has its row v, its stamp m,    *)
(* its tombstone t, and w is the write under way at time n.  A row that is  *)
(* gone has no stamp or one older than its tombstone, unless the write that *)
(* deletes it is not through; so a doc that beats the tombstone beats the   *)
(* stamp.                                                                   *)
(***************************************************************************)

(* A write of the key that is not dated yet, and one that is.               *)
Early(w, k) == w.step \in {"load", "stamps", "unstamps", "unstamp", "list"} /\ w.key = k
Dated(w, k) == w.step \in {"stamp", "bury"} /\ w.key = k

Setting(w, k) == w.step \in {"load", "stamps", "stamp"} /\ w.key = k
Unstamping(w, k) == w.step \in {"unstamps", "unstamp"} /\ w.key = k
Deleting(w, k) == w.step \in {"unstamps", "unstamp", "list", "bury"} /\ w.key = k

(* The write under way is or will be dated after the time at.               *)
LaterThan(w, k, at, n) == (Early(w, k) => at <= n) /\ (Dated(w, k) => at < w.at)

Alive(v, m, w, k) == v # None \/ m = 0 \/ Unstamping(w, k)

RowOf(v, m, t, w, k) == v = None => m = 0 \/ t > m \/ Unstamping(w, k)

WriteOf(v, m, t, w, k, n) ==
    /\ Setting(w, k) => v # None
    /\ Deleting(w, k) => v = None
    /\ w.step = "unstamp" /\ w.key = k => w.meta[k] = m
    /\ Deleting(w, k) /\ ~Unstamping(w, k) => m = 0
    /\ LaterThan(w, k, m, n) /\ LaterThan(w, k, t, n)

(* A row deleted since it was read, under a tombstone that was was: it is   *)
(* being deleted still, or its new tombstone is later than the pass.        *)
DeletedSince(v, t, w, k, at, was) ==
    /\ w.step = "bury" /\ w.key = k => w.at > at
    /\ v = None => Deleting(w, k) \/ (t > at /\ t > was)

(* The pass p has read the stamp; what became of it since is a write's ...  *)
StampRead(p, v, m, w, k, n) ==
    /\ LaterThan(w, k, p.meta[k], n)
    /\ m # p.meta[k] => Alive(v, m, w, k)

(* ... and the tombstone: a new one comes with its stamp taken ...          *)
TombRead(p, v, m, t, w, k, n) ==
    /\ StampRead(p, v, m, w, k, n)
    /\ LaterThan(w, k, p.tombs[k], n)
    /\ Alive(v, m, w, k) \/ t = p.tombs[k]

(* ... and the row.                                                         *)
RowRead(p, v, m, t, w, k, n) ==
    /\ StampRead(p, v, m, w, k, n)
    /\ LaterThan(w, k, p.tombs[k], n)
    /\ p.value[k] = None =>
          \/ p.meta[k] = 0 \/ p.tombs[k] > p.meta[k]
          \/ Unstamping(w, k) \/ m # p.meta[k]
    /\ p.value[k] # None => DeletedSince(v, t, w, k, p.at, p.tombs[k])

(* It will pull what is newer than the row it read, stamp a row that has no *)
(* stamp unless it was deleted since, and clear the tombstone of a row that *)
(* it read or pulls.                                                        *)
PushOf(p, v, m, t, w, k, n) ==
    /\ k \in DOMAIN p.pulled =>
         /\ k \in DOMAIN p.meta /\ LaterThan(w, k, p.meta[k], n)
         /\ p.pulled[k].at > p.meta[k] \/ Unstamping(w, k) \/ m # p.meta[k]
    /\ k \in DOMAIN p.stamps =>
         /\ DeletedSince(v, t, w, k, p.stamps[k], IF p.tombs = None THEN 0 ELSE p.tombs.was[k])
         /\ p.tombs # None => LaterThan(w, k, p.tombs.was[k], n)
    /\ p.tombs # None /\ p.tombs.left[k] # p.tombs.was[k] /\ t = p.tombs.was[k] =>
           Alive(v, m, w, k) \/ (k \in DOMAIN p.pulled /\ m = p.meta[k])

SettleOf(p, v, m, t, w, k) ==
    p.tombs # None /\ p.tombs.left[k] # p.tombs.was[k] /\ t = p.tombs.was[k] => Alive(v, m, w, k)

PassOf(p, v, m, t, w, k, n) ==
    /\ p.step = "tombs" => StampRead(p, v, m, w, k, n)
    /\ p.step = "rows" => TombRead(p, v, m, t, w, k, n)
    /\ p.step \in {"books", "fetch"} => RowRead(p, v, m, t, w, k, n)
    /\ p.step = "push" => PushOf(p, v, m, t, w, k, n)
    /\ p.step = "settle" => SettleOf(p, v, m, t, w, k)

(* What is torn is excepted for good.                                       *)
KeysSound ==
    \A k \in Key \ torn :
        /\ RowOf(value[k], meta[k], tombs[k], writing, k)
        /\ WriteOf(value[k], meta[k], tombs[k], writing, k, now)
        /\ \A c \in Character : PassOf(pass[c], value[k], meta[k], tombs[k], writing, k, now)

OneAtATime == \A c, d \in Character : pass[c] # Idle /\ pass[d] # Idle => c = d

IInv == Typed /\ OneAtATime /\ KeysSound

-----------------------------------------------------------------------------
(***************************************************************************)
(* A write of the user's: what each of its steps does to a key, n1 being    *)
(* the time afterwards.                                                     *)
(***************************************************************************)

(* The write goes on: it begins at a time to come, and is dated when it     *)
(* reads what it will write back.                                           *)
GoesOn(w, w1, k, n, n1) ==
    /\ n <= n1
    /\ Early(w1, k) => Early(w, k) \/ n < n1
    /\ Dated(w1, k) => (Dated(w, k) /\ w1.at = w.at) \/ (Early(w, k) /\ w1.at = n + 1)

(* Another key's write, which this one does not see ...                     *)
Elsewhere(v, m, t, w, v1, m1, t1, w1, k) ==
    /\ v1 = v /\ m1 = m /\ t1 = t
    /\ \/ w1 = w
       \/ (w.step # "none" => w.key # k) /\ (w1.step # "none" => w1.key # k)

(* ... a row that is written, or stamped when it was ...                    *)
RowWritten(m, t, w, v1, m1, t1, w1, k) ==
    /\ v1 # None /\ t1 = t /\ ~Deleting(w, k) /\ ~Deleting(w1, k)
    /\ m1 = m \/ (Dated(w, k) /\ m1 = w.at /\ w1 = NotWriting)

(* ... one deleted, whose stamp goes next ...                               *)
RowDeleted(m, t, w, v1, m1, t1, w1, k) ==
    /\ v1 = None /\ m1 = m /\ t1 = t /\ w.step = "none" /\ w1.step = "unstamps" /\ w1.key = k

(* ... is read, and taken ...                                               *)
StampTaken(v, m, t, w, v1, m1, t1, w1, k) ==
    /\ v = None /\ v1 = None /\ t1 = t /\ Deleting(w, k) /\ Deleting(w1, k)
    /\ \/ m1 = m /\ Unstamping(w, k) /\ Unstamping(w1, k) /\ w1.step = "unstamp" /\ w1.meta[k] = m
       \/ m1 = 0 /\ ~Unstamping(w1, k)

(* ... and one buried.                                                      *)
RowBuried(v, m, w, v1, m1, t1, w1, k) ==
    /\ v = None /\ v1 = None /\ m = 0 /\ m1 = 0 /\ t1 = w.at
    /\ w.step = "bury" /\ w.key = k /\ w1 = NotWriting

UserMove(v, m, t, w, v1, m1, t1, w1, k, n, n1) ==
    /\ GoesOn(w, w1, k, n, n1)
    /\ \/ Elsewhere(v, m, t, w, v1, m1, t1, w1, k)
       \/ RowWritten(m, t, w, v1, m1, t1, w1, k)
       \/ RowDeleted(m, t, w, v1, m1, t1, w1, k)
       \/ StampTaken(v, m, t, w, v1, m1, t1, w1, k)
       \/ RowBuried(v, m, w, v1, m1, t1, w1, k)

(* Whatever is at most the time, and a stamp may be of the next one, a      *)
(* write that begins or is dated now comes after.                           *)
LEMMA GoesOnLater ==
  ASSUME NEW n \in Nat, NEW n1 \in Nat, NEW w, NEW w1, NEW k, GoesOn(w, w1, k, n, n1),
         NEW at \in Nat, at <= n + 1, LaterThan(w, k, at, n)
  PROVE  LaterThan(w1, k, at, n1)
BY DEF GoesOn, LaterThan

LEMMA MoveKeepsRow ==
  ASSUME NEW n \in Nat, NEW n1 \in Nat, NEW v, NEW m \in 0..n + 1, NEW t \in 0..n + 1, NEW w,
         NEW v1, NEW m1 \in Nat, NEW t1 \in Nat, NEW w1, NEW k, Dated(w1, k) => w1.at \in Nat,
         RowOf(v, m, t, w, k), WriteOf(v, m, t, w, k, n), UserMove(v, m, t, w, v1, m1, t1, w1, k, n, n1)
  PROVE  RowOf(v1, m1, t1, w1, k) /\ WriteOf(v1, m1, t1, w1, k, n1)
<1>1. LaterThan(w1, k, m, n1) /\ LaterThan(w1, k, t, n1)
  BY GoesOnLater DEF UserMove, WriteOf
<1>2. LaterThan(w1, k, m1, n1) /\ LaterThan(w1, k, t1, n1)
  <2>1. m1 = m \/ m1 = 0 \/ w1 = NotWriting
    BY DEF UserMove, Elsewhere, RowWritten, RowDeleted, StampTaken, RowBuried
  <2>2. t1 = t \/ w1 = NotWriting
    BY DEF UserMove, Elsewhere, RowWritten, RowDeleted, StampTaken, RowBuried
  <2>3. w1 = NotWriting => ~Early(w1, k) /\ ~Dated(w1, k)
    BY DEF NotWriting, Early, Dated
  <2>4. LaterThan(w1, k, 0, n1)
    BY <1>1 DEF LaterThan
  <2> QED BY <1>1, <2>1, <2>2, <2>3, <2>4 DEF LaterThan
<1>3. CASE Elsewhere(v, m, t, w, v1, m1, t1, w1, k)
  <2>1. RowOf(v1, m1, t1, w1, k)
    BY <1>3 DEF Elsewhere, RowOf, Unstamping
  <2>2. WriteOf(v1, m1, t1, w1, k, n1)
    BY <1>2, <1>3 DEF Elsewhere, WriteOf, Setting, Deleting, Unstamping
  <2> QED BY <2>1, <2>2
<1>4. CASE RowWritten(m, t, w, v1, m1, t1, w1, k)
  <2>1. WriteOf(v1, m1, t1, w1, k, n1)
    BY <1>2, <1>4 DEF RowWritten, WriteOf, Deleting
  <2> QED BY <1>4, <2>1 DEF RowWritten, RowOf
<1>5. CASE RowDeleted(m, t, w, v1, m1, t1, w1, k)
  <2>1. WriteOf(v1, m1, t1, w1, k, n1)
    BY <1>2, <1>5 DEF RowDeleted, WriteOf, Setting, Deleting, Unstamping
  <2> QED BY <1>5, <2>1 DEF RowDeleted, RowOf, Unstamping
<1>6. CASE StampTaken(v, m, t, w, v1, m1, t1, w1, k)
  <2>1. WriteOf(v1, m1, t1, w1, k, n1)
    BY <1>2, <1>6 DEF StampTaken, WriteOf, Setting, Deleting, Unstamping
  <2> QED BY <1>6, <2>1 DEF StampTaken, RowOf
<1>7. CASE RowBuried(v, m, w, v1, m1, t1, w1, k)
  <2>1. WriteOf(v1, m1, t1, w1, k, n1)
    BY <1>2, <1>7 DEF RowBuried, WriteOf, Setting, Deleting, Unstamping, NotWriting
  <2> QED BY <1>7, <2>1 DEF RowBuried, RowOf
<1> QED BY <1>3, <1>4, <1>5, <1>6, <1>7 DEF UserMove

LEMMA MoveKeepsAlive ==
  ASSUME NEW v, NEW m, NEW t, NEW w, NEW v1, NEW m1, NEW t1, NEW w1, NEW k, NEW n, NEW n1,
         UserMove(v, m, t, w, v1, m1, t1, w1, k, n, n1)
  PROVE  /\ Alive(v, m, w, k) => Alive(v1, m1, w1, k)
         /\ m1 # m \/ t1 # t => Alive(v1, m1, w1, k)
BY DEF UserMove, Alive, Unstamping, Elsewhere, RowWritten, RowDeleted, StampTaken, RowBuried, NotWriting

LEMMA MoveKeepsDeleted ==
  ASSUME NEW v, NEW m, NEW t, NEW w, NEW v1, NEW m1, NEW t1, NEW w1, NEW k,
         NEW n \in Nat, NEW n1 \in Nat, NEW at \in Nat, at <= n, NEW was \in Nat,
         UserMove(v, m, t, w, v1, m1, t1, w1, k, n, n1), WriteOf(v, m, t, w, k, n),
         LaterThan(w, k, was, n), DeletedSince(v, t, w, k, at, was)
  PROVE  DeletedSince(v1, t1, w1, k, at, was)
<1>1. w1.step = "bury" /\ w1.key = k => w1.at > at
  BY DEF UserMove, GoesOn, DeletedSince, Dated, WriteOf, Setting, Elsewhere, RowWritten, RowDeleted,
         StampTaken, RowBuried, Deleting, NotWriting
<1>2. ASSUME v1 = None PROVE Deleting(w1, k) \/ (t1 > at /\ t1 > was)
  <2>1. CASE Elsewhere(v, m, t, w, v1, m1, t1, w1, k)
    BY <1>2, <2>1 DEF Elsewhere, DeletedSince, Deleting
  <2>2. CASE RowWritten(m, t, w, v1, m1, t1, w1, k)
    BY <1>2, <2>2 DEF RowWritten
  <2>3. CASE RowDeleted(m, t, w, v1, m1, t1, w1, k) \/ StampTaken(v, m, t, w, v1, m1, t1, w1, k)
    BY <2>3 DEF RowDeleted, StampTaken, Deleting
  <2>4. CASE RowBuried(v, m, w, v1, m1, t1, w1, k)
    BY <2>4 DEF RowBuried, DeletedSince, LaterThan, Dated
  <2> QED BY <2>1, <2>2, <2>3, <2>4 DEF UserMove
<1> QED BY <1>1, <1>2 DEF DeletedSince

(* A stamp that differs from the one read still does: a new one is later.   *)
LEMMA MoveKeepsOther ==
  ASSUME NEW v, NEW m, NEW t, NEW w, NEW v1, NEW m1, NEW t1, NEW w1, NEW k,
         NEW n \in Nat, NEW n1 \in Nat, NEW was \in Nat,
         UserMove(v, m, t, w, v1, m1, t1, w1, k, n, n1), LaterThan(w, k, was, n),
         was = 0 \/ Unstamping(w, k) \/ m # was
  PROVE  was = 0 \/ Unstamping(w1, k) \/ m1 # was
BY DEF UserMove, Elsewhere, RowWritten, RowDeleted, StampTaken, RowBuried, Unstamping, Deleting,
       LaterThan, Dated

LEMMA MoveKeepsPass ==
  ASSUME NEW n \in Nat, NEW n1 \in Nat, n <= n1, NEW p, PassTyped(p, n),
         NEW v, NEW m, NEW t, NEW w, NEW v1, NEW m1, NEW t1, NEW w1, NEW k \in Key,
         Dated(w, k) => w.at \in Nat \ {0},
         PassOf(p, v, m, t, w, k, n), WriteOf(v, m, t, w, k, n),
         UserMove(v, m, t, w, v1, m1, t1, w1, k, n, n1)
  PROVE  PassOf(p, v1, m1, t1, w1, k, n1)
<1>1. /\ Alive(v, m, w, k) => Alive(v1, m1, w1, k)
      /\ m1 # m \/ t1 # t => Alive(v1, m1, w1, k)
  BY MoveKeepsAlive
<1>2. \A at \in 0..n + 1 : LaterThan(w, k, at, n) => LaterThan(w1, k, at, n1)
  BY GoesOnLater DEF UserMove
<1>3. CASE p.step \in {"tombs", "rows", "books", "fetch"}
  <2>1. ReadingTyped(p, n)
    BY <1>3 DEF PassTyped, Idle, PushTyped, FinishTyped
  <2>2. /\ p.meta[k] \in 0..n + 1 /\ p.at \in Nat /\ p.at <= n
        /\ p.step # "tombs" => p.tombs[k] \in 0..n + 1
    BY <2>1 DEF ReadingTyped, Table
  <2>3. StampRead(p, v, m, w, k, n) => StampRead(p, v1, m1, w1, k, n1)
    BY <1>1, <1>2, <2>2 DEF StampRead
  <2>4. CASE p.step = "tombs"
    BY <2>3, <2>4 DEF PassOf
  <2>5. CASE p.step = "rows"
    <3>1. TombRead(p, v1, m1, t1, w1, k, n1)
      BY <1>1, <1>2, <2>2, <2>3, <2>5 DEF PassOf, TombRead
    <3> QED BY <2>5, <3>1 DEF PassOf
  <2>6. CASE p.step \in {"books", "fetch"}
    <3>1. RowRead(p, v, m, t, w, k, n) /\ p.tombs[k] \in 0..n + 1
      BY <2>2, <2>6 DEF PassOf
    <3>2. StampRead(p, v1, m1, w1, k, n1) /\ LaterThan(w1, k, p.tombs[k], n1)
      BY <1>2, <2>3, <3>1 DEF RowRead
    <3>3. p.value[k] = None =>
             \/ p.meta[k] = 0 \/ p.tombs[k] > p.meta[k]
             \/ Unstamping(w1, k) \/ m1 # p.meta[k]
      <4>1. p.meta[k] \in Nat /\ LaterThan(w, k, p.meta[k], n)
        BY <2>2, <3>1 DEF RowRead, StampRead
      <4> QED BY <3>1, <4>1, MoveKeepsOther DEF RowRead
    <3>4. p.value[k] # None => DeletedSince(v1, t1, w1, k, p.at, p.tombs[k])
      <4>1. p.tombs[k] \in Nat /\ LaterThan(w, k, p.tombs[k], n)
        BY <3>1 DEF RowRead
      <4> QED BY <2>2, <3>1, <4>1, MoveKeepsDeleted DEF RowRead
    <3>5. RowRead(p, v1, m1, t1, w1, k, n1)
      BY <3>2, <3>3, <3>4 DEF RowRead
    <3> QED BY <2>6, <3>5 DEF PassOf
  <2> QED BY <1>3, <2>4, <2>5, <2>6
<1>4. CASE p.step = "push"
  <2>1. PushTyped(p, n) /\ PushOf(p, v, m, t, w, k, n)
    BY <1>4 DEF PassTyped, PassOf, Idle, ReadingTyped, FinishTyped
  <2>2. ASSUME k \in DOMAIN p.pulled
        PROVE  /\ k \in DOMAIN p.meta /\ LaterThan(w1, k, p.meta[k], n1)
               /\ p.pulled[k].at > p.meta[k] \/ Unstamping(w1, k) \/ m1 # p.meta[k]
    <3>1. /\ k \in DOMAIN p.meta /\ LaterThan(w, k, p.meta[k], n) /\ p.meta[k] \in 0..n + 1
          /\ p.pulled[k].at > p.meta[k] \/ Unstamping(w, k) \/ m # p.meta[k]
      BY <2>1, <2>2 DEF PushOf, PushTyped
    <3>2. p.pulled[k].at > 0 /\ p.pulled[k].at \in Nat
      BY <2>1, <2>2 DEF PushTyped, DocsIn, Doc
    <3>3. p.meta[k] \in Nat
      BY <3>1
    <3>4. CASE p.pulled[k].at > p.meta[k]
      BY <1>2, <3>1, <3>4
    <3>5. CASE p.meta[k] = 0
      BY <1>2, <3>1, <3>2, <3>5
    <3>6. CASE Unstamping(w, k) \/ m # p.meta[k]
      BY <1>2, <3>1, <3>3, <3>5, <3>6, MoveKeepsOther
    <3> QED BY <3>1, <3>4, <3>6
  <2>3. ASSUME k \in DOMAIN p.stamps
        PROVE  /\ DeletedSince(v1, t1, w1, k, p.stamps[k], IF p.tombs = None THEN 0 ELSE p.tombs.was[k])
               /\ p.tombs # None => LaterThan(w1, k, p.tombs.was[k], n1)
    <3> DEFINE was == IF p.tombs = None THEN 0 ELSE p.tombs.was[k]
    <3>1. p.stamps[k] \in Nat /\ p.stamps[k] <= n
      BY <2>1, <2>3 DEF PushTyped
    <3>2. was \in 0..n + 1
      BY <2>1 DEF PushTyped, ListIn, Table
    <3>3. DeletedSince(v, t, w, k, p.stamps[k], was) /\ (p.tombs # None => LaterThan(w, k, was, n))
      BY <2>1, <2>3 DEF PushOf
    <3>4. LaterThan(w, k, was, n)
      <4>1. CASE p.tombs = None
        BY <4>1 DEF LaterThan
      <4> QED BY <3>3, <4>1
    <3> HIDE DEF was
    <3>5. DeletedSince(v1, t1, w1, k, p.stamps[k], was) /\ LaterThan(w1, k, was, n1)
      BY <1>2, <3>1, <3>2, <3>3, <3>4, MoveKeepsDeleted
    <3> QED BY <3>5 DEF was
  <2>4. ASSUME p.tombs # None, p.tombs.left[k] # p.tombs.was[k], t1 = p.tombs.was[k]
        PROVE  Alive(v1, m1, w1, k) \/ (k \in DOMAIN p.pulled /\ m1 = p.meta[k])
    BY <1>1, <2>1, <2>4 DEF PushOf
  <2>5. PushOf(p, v1, m1, t1, w1, k, n1)
    BY <2>1, <2>2, <2>3, <2>4 DEF PushOf
  <2> QED BY <1>4, <2>5 DEF PassOf
<1>5. CASE p.step = "settle"
  <2>1. SettleOf(p, v1, m1, t1, w1, k)
    BY <1>1, <1>5 DEF PassOf, SettleOf
  <2> QED BY <1>5, <2>1 DEF PassOf
<1> QED BY <1>3, <1>4, <1>5 DEF PassOf

(* A step that leaves passes alone, or ends some, and moves every key that  *)
(* is not torn as a user's move would.                                      *)
LEMMA UserStepKeeps ==
  ASSUME IInv, Typed', torn \subseteq torn',
         \A c \in Character : pass'[c] \in {pass[c], Idle},
         \A k \in Key \ torn' : UserMove(value[k], meta[k], tombs[k], writing,
                                         value'[k], meta'[k], tombs'[k], writing', k, now, now')
  PROVE  OneAtATime' /\ KeysSound'
<1>1. OneAtATime'
  BY DEF IInv, OneAtATime
<1> SUFFICES ASSUME NEW k \in Key \ torn'
             PROVE  /\ RowOf(value'[k], meta'[k], tombs'[k], writing', k)
                    /\ WriteOf(value'[k], meta'[k], tombs'[k], writing', k, now')
                    /\ \A c \in Character :
                          PassOf(pass'[c], value'[k], meta'[k], tombs'[k], writing', k, now')
  BY <1>1 DEF KeysSound
<1>2. /\ RowOf(value[k], meta[k], tombs[k], writing, k)
      /\ WriteOf(value[k], meta[k], tombs[k], writing, k, now)
      /\ \A c \in Character : PassOf(pass[c], value[k], meta[k], tombs[k], writing, k, now)
  BY DEF IInv, KeysSound
<1>3. UserMove(value[k], meta[k], tombs[k], writing, value'[k], meta'[k], tombs'[k], writing', k, now, now')
  OBVIOUS
<1>4. /\ now \in Nat /\ now' \in Nat /\ now <= now'
      /\ meta[k] \in 0..now + 1 /\ tombs[k] \in 0..now + 1
      /\ meta'[k] \in Nat /\ tombs'[k] \in Nat
      /\ \A c \in Character : PassTyped(pass[c], now)
  BY <1>3 DEF IInv, Typed, Table, UserMove, GoesOn
<1>5. (Dated(writing', k) => writing'.at \in Nat) /\ (Dated(writing, k) => writing.at \in Nat \ {0})
  BY DEF IInv, Typed, WriteTyped, NotWriting, Dated
<1>6. RowOf(value'[k], meta'[k], tombs'[k], writing', k)
      /\ WriteOf(value'[k], meta'[k], tombs'[k], writing', k, now')
  BY <1>2, <1>3, <1>4, <1>5, MoveKeepsRow
<1>7. ASSUME NEW c \in Character
      PROVE  PassOf(pass'[c], value'[k], meta'[k], tombs'[k], writing', k, now')
  <2>1. CASE pass'[c] = Idle
    BY <2>1 DEF PassOf, Idle
  <2>2. CASE pass'[c] = pass[c]
    BY <1>2, <1>3, <1>4, <1>5, <2>2, MoveKeepsPass
  <2> QED BY <2>1, <2>2
<1> QED BY <1>6, <1>7

LEMMA WriteKeeps ==
  ASSUME IInv, Typed', (\E k \in Chosen : Choose(k) \/ Delete(k)) \/ Write
  PROVE  OneAtATime' /\ KeysSound'
<1>0. /\ now \in Nat /\ now' \in Nat /\ None \notin Nat /\ Chosen \subseteq Key
      /\ DOMAIN value = Key /\ DOMAIN meta = Key /\ DOMAIN tombs = Key
      /\ KeysSound /\ WriteTyped(writing, now)
  BY SettingsSyncAssumptions DEF IInv, Typed, Table
<1> DEFINE Move(k) == UserMove(value[k], meta[k], tombs[k], writing,
                               value'[k], meta'[k], tombs'[k], writing', k, now, now')
<1>a. \A c \in Character : pass'[c] \in {pass[c], Idle}
  BY DEF Choose, Delete, Acts, Write, Rewrite, TakeStamps, Stamp, TakeOldStamps, Unstamp, TakeList, Bury, Awaits
<1>b. SUFFICES ASSUME TRUE PROVE torn \subseteq torn' /\ \A k \in Key \ torn' : Move(k)
  BY <1>a, UserStepKeeps
<1>1. ASSUME NEW j \in Chosen, Choose(j) PROVE torn \subseteq torn' /\ \A k \in Key \ torn' : Move(k)
  <2>1. ASSUME NEW k \in Key PROVE Move(k)
    <3>1. GoesOn(writing, writing', k, now, now')
      BY <1>0, <1>1 DEF Choose, Acts, Tick, GoesOn, Early, Dated, NotWriting
    <3>2. CASE k = j
      <4>1. RowWritten(meta[k], tombs[k], writing, value'[k], meta'[k], tombs'[k], writing', k)
        BY <1>0, <1>1, <3>2 DEF Choose, RowWritten, Deleting, NotWriting
      <4> QED BY <3>1, <4>1 DEF UserMove
    <3>3. CASE k # j
      BY <1>0, <1>1, <3>1, <3>3 DEF Choose, UserMove, Elsewhere, NotWriting
    <3> QED BY <3>2, <3>3
  <2> QED BY <1>1, <2>1 DEF Choose, ghosts
<1>2. ASSUME NEW j \in Chosen, Delete(j) PROVE torn \subseteq torn' /\ \A k \in Key \ torn' : Move(k)
  <2>1. ASSUME NEW k \in Key PROVE Move(k)
    <3>1. GoesOn(writing, writing', k, now, now')
      BY <1>0, <1>2 DEF Delete, Acts, Tick, GoesOn, Early, Dated, NotWriting
    <3>2. CASE k = j
      <4>1. RowDeleted(meta[k], tombs[k], writing, value'[k], meta'[k], tombs'[k], writing', k)
        BY <1>0, <1>2, <3>2 DEF Delete, RowDeleted, NotWriting
      <4> QED BY <3>1, <4>1 DEF UserMove
    <3>3. CASE k # j
      BY <1>0, <1>2, <3>1, <3>3 DEF Delete, UserMove, Elsewhere, NotWriting
    <3> QED BY <3>2, <3>3
  <2> QED BY <1>2, <2>1 DEF Delete, ghosts
<1>3. CASE Rewrite
  <2>1. writing \in [step : {"load", "stamps"}, key : Key, value : Nat] /\ writing.step = "load"
    BY <1>0, <1>3 DEF Rewrite, WriteTyped, NotWriting
  <2>2. writing'.step = "stamps" /\ writing'.key = writing.key /\ now' = now
    BY <1>3, <2>1 DEF Rewrite, Awaits
  <2>3. ASSUME NEW k \in Key PROVE Move(k)
    <3>1. GoesOn(writing, writing', k, now, now')
      BY <1>0, <2>1, <2>2 DEF GoesOn, Early, Dated
    <3>2. CASE k = writing.key
      <4>1. RowWritten(meta[k], tombs[k], writing, value'[k], meta'[k], tombs'[k], writing', k)
        BY <1>0, <1>3, <2>1, <2>2, <3>2 DEF Rewrite, RowWritten, Deleting
      <4> QED BY <3>1, <4>1 DEF UserMove
    <3>3. CASE k # writing.key
      BY <1>0, <1>3, <2>2, <3>1, <3>3 DEF Rewrite, UserMove, Elsewhere
    <3> QED BY <3>2, <3>3
  <2> QED BY <1>3, <2>3 DEF Rewrite, ghosts
<1>4. CASE TakeStamps
  <2>1. /\ writing.step = "stamps" /\ writing'.step = "stamp" /\ writing'.key = writing.key
        /\ writing'.at = now + 1 /\ now' = now /\ UNCHANGED <<value, meta, tombs>> /\ torn' = torn
    BY <1>4 DEF TakeStamps, Awaits, device, ghosts
  <2>2. ASSUME NEW k \in Key \ torn' PROVE Move(k)
    <3>1. GoesOn(writing, writing', k, now, now')
      BY <1>0, <2>1 DEF GoesOn, Early, Dated
    <3>2. CASE k = writing.key
      <4>1. value[k] # None
        BY <1>0, <2>1, <3>2 DEF KeysSound, WriteOf, Setting
      <4>2. RowWritten(meta[k], tombs[k], writing, value'[k], meta'[k], tombs'[k], writing', k)
        BY <2>1, <4>1 DEF RowWritten, Deleting
      <4> QED BY <3>1, <4>2 DEF UserMove
    <3>3. CASE k # writing.key
      BY <2>1, <3>1, <3>3 DEF UserMove, Elsewhere
    <3> QED BY <3>2, <3>3
  <2> QED BY <2>1, <2>2
<1>5. CASE Stamp
  <2>1. writing.meta \in Table(0..now + 1) /\ writing.key \in Key
    BY <1>0, <1>5 DEF Stamp, WriteTyped, NotWriting
  <2>2. ASSUME NEW k \in Key \ torn' PROVE Move(k)
    <3>0. k \notin torn /\ k \notin Lost(writing.meta, meta, writing.key)
      BY <1>5 DEF Stamp
    <3>1. GoesOn(writing, writing', k, now, now')
      BY <1>0, <1>5 DEF Stamp, Awaits, GoesOn, Early, Dated, NotWriting
    <3>2. CASE k = writing.key
      <4>1. value[k] # None
        BY <1>0, <1>5, <3>0, <3>2 DEF Stamp, KeysSound, WriteOf, Setting
      <4>2. meta'[k] = writing.at
        BY <1>5, <2>1, <3>2 DEF Stamp, Table
      <4>3. RowWritten(meta[k], tombs[k], writing, value'[k], meta'[k], tombs'[k], writing', k)
        BY <1>5, <3>2, <4>1, <4>2 DEF Stamp, RowWritten, Deleting, Dated, NotWriting
      <4> QED BY <3>1, <4>3 DEF UserMove
    <3>3. CASE k # writing.key
      <4>1. meta'[k] = meta[k]
        BY <1>5, <2>1, <3>0, <3>3 DEF Stamp, Lost, Table
      <4> QED BY <1>5, <3>1, <3>3, <4>1 DEF Stamp, UserMove, Elsewhere, NotWriting
    <3> QED BY <3>2, <3>3
  <2> QED BY <1>5, <2>2 DEF Stamp
<1>6. CASE TakeOldStamps
  <2>1. /\ writing.step = "unstamps" /\ writing'.step = "unstamp" /\ writing'.key = writing.key
        /\ writing'.meta = meta /\ now' = now /\ UNCHANGED <<value, meta, tombs>> /\ torn' = torn
    BY <1>6 DEF TakeOldStamps, Awaits, device, ghosts
  <2>2. ASSUME NEW k \in Key \ torn' PROVE Move(k)
    <3>1. GoesOn(writing, writing', k, now, now')
      BY <1>0, <2>1 DEF GoesOn, Early, Dated
    <3>2. CASE k = writing.key
      <4>1. value[k] = None
        BY <1>0, <2>1, <3>2 DEF KeysSound, WriteOf, Deleting
      <4>2. StampTaken(value[k], meta[k], tombs[k], writing, value'[k], meta'[k], tombs'[k], writing', k)
        BY <2>1, <3>2, <4>1 DEF StampTaken, Deleting, Unstamping
      <4> QED BY <3>1, <4>2 DEF UserMove
    <3>3. CASE k # writing.key
      BY <2>1, <3>1, <3>3 DEF UserMove, Elsewhere
    <3> QED BY <3>2, <3>3
  <2> QED BY <2>1, <2>2
<1>7. CASE Unstamp
  <2>1. writing.meta \in Table(0..now + 1)
    BY <1>0, <1>7 DEF Unstamp, WriteTyped, NotWriting
  <2>2. ASSUME NEW k \in Key \ torn' PROVE Move(k)
    <3>0. k \notin torn
      BY <1>7 DEF Unstamp
    <3>1. GoesOn(writing, writing', k, now, now')
      BY <1>0, <1>7 DEF Unstamp, Awaits, GoesOn, Early, Dated
    <3>2. CASE k = writing.key
      <4>1. value[k] = None /\ meta[k] = writing.meta[k] /\ Deleting(writing, k)
        BY <1>0, <1>7, <3>0, <3>2 DEF Unstamp, KeysSound, WriteOf, Deleting
      <4>2. meta'[k] = 0
        BY <1>7, <2>1, <3>2, <4>1 DEF Unstamp, Table
      <4>3. StampTaken(value[k], meta[k], tombs[k], writing, value'[k], meta'[k], tombs'[k], writing', k)
        BY <1>7, <3>2, <4>1, <4>2 DEF Unstamp, StampTaken, Deleting, Unstamping
      <4> QED BY <3>1, <4>3 DEF UserMove
    <3>3. CASE k # writing.key
      <4>1. meta'[k] = meta[k]
        BY <1>7, <2>1, <3>3 DEF Unstamp, Lost, Table
      <4> QED BY <1>7, <3>1, <3>3, <4>1 DEF Unstamp, UserMove, Elsewhere
    <3> QED BY <3>2, <3>3
  <2> QED BY <1>7, <2>2 DEF Unstamp
<1>8. CASE TakeList
  <2>1. /\ writing.step = "list" /\ writing'.step = "bury" /\ writing'.key = writing.key
        /\ writing'.at = now + 1 /\ now' = now /\ UNCHANGED <<value, meta, tombs>> /\ torn' = torn
    BY <1>8 DEF TakeList, Awaits, device, ghosts
  <2>2. ASSUME NEW k \in Key \ torn' PROVE Move(k)
    <3>1. GoesOn(writing, writing', k, now, now')
      BY <1>0, <2>1 DEF GoesOn, Early, Dated
    <3>2. CASE k = writing.key
      <4>1. value[k] = None /\ meta[k] = 0
        BY <1>0, <2>1, <3>2 DEF KeysSound, WriteOf, Deleting, Unstamping
      <4>2. StampTaken(value[k], meta[k], tombs[k], writing, value'[k], meta'[k], tombs'[k], writing', k)
        BY <2>1, <3>2, <4>1 DEF StampTaken, Deleting, Unstamping
      <4> QED BY <3>1, <4>2 DEF UserMove
    <3>3. CASE k # writing.key
      BY <2>1, <3>1, <3>3 DEF UserMove, Elsewhere
    <3> QED BY <3>2, <3>3
  <2> QED BY <2>1, <2>2
<1>9. CASE Bury
  <2>1. writing.tombs \in Table(0..now + 1)
    BY <1>0, <1>9 DEF Bury, WriteTyped, NotWriting
  <2>2. ASSUME NEW k \in Key \ torn' PROVE Move(k)
    <3>0. k \notin torn /\ k \notin Lost(writing.tombs, tombs, writing.key)
      BY <1>9 DEF Bury
    <3>1. GoesOn(writing, writing', k, now, now')
      BY <1>0, <1>9 DEF Bury, Awaits, GoesOn, Early, Dated, NotWriting
    <3>2. CASE k = writing.key
      <4>1. value[k] = None /\ meta[k] = 0
        BY <1>0, <1>9, <3>0, <3>2 DEF Bury, KeysSound, WriteOf, Deleting, Unstamping
      <4>2. tombs'[k] = writing.at
        BY <1>9, <2>1, <3>2 DEF Bury, Table
      <4>3. RowBuried(value[k], meta[k], writing, value'[k], meta'[k], tombs'[k], writing', k)
        BY <1>9, <3>2, <4>1, <4>2 DEF Bury, RowBuried
      <4> QED BY <3>1, <4>3 DEF UserMove
    <3>3. CASE k # writing.key
      <4>1. tombs'[k] = tombs[k]
        BY <1>9, <2>1, <3>0, <3>3 DEF Bury, Lost, Table
      <4> QED BY <1>9, <3>1, <3>3, <4>1 DEF Bury, UserMove, Elsewhere, NotWriting
    <3> QED BY <3>2, <3>3
  <2> QED BY <1>9, <2>2 DEF Bury
<1> QED BY <1>1, <1>2, <1>3, <1>4, <1>5, <1>6, <1>7, <1>8, <1>9 DEF Write

(* Nothing of the device moves, but time may, and passes or a write end.    *)
LEMMA StillKeeps ==
  ASSUME IInv, Typed', UNCHANGED <<value, meta, tombs>>, now' \in Nat, now <= now',
         \A c \in Character : pass'[c] \in {pass[c], Idle}, torn \subseteq torn',
         writing' = writing \/ (writing' = NotWriting /\ Crossed \subseteq torn')
  PROVE  OneAtATime' /\ KeysSound'
<1>0. now \in Nat
  BY DEF IInv, Typed
<1>1. ASSUME NEW k \in Key \ torn'
      PROVE  UserMove(value[k], meta[k], tombs[k], writing,
                      value'[k], meta'[k], tombs'[k], writing', k, now, now')
  <2>1. CASE writing' = writing
    BY <1>0, <2>1 DEF UserMove, GoesOn, Elsewhere, Early, Dated
  <2>2. CASE writing' = NotWriting /\ Crossed \subseteq torn'
    <3>1. writing = NotWriting \/ writing.key # k
      BY <1>1, <2>2 DEF Crossed
    <3> QED BY <1>0, <2>2, <3>1 DEF UserMove, GoesOn, Elsewhere, Early, Dated, NotWriting
  <2> QED BY <2>1, <2>2
<1> QED BY <1>1, UserStepKeeps

-----------------------------------------------------------------------------
(***************************************************************************)
(* The steps of a pass.                                                     *)
(***************************************************************************)

(* A step of c's pass alone, which no other pass is out with.               *)
LEMMA PassStepKeeps ==
  ASSUME IInv, NEW c \in Character, NEW q, pass' = [pass EXCEPT ![c] = q],
         UNCHANGED <<now, value, meta, tombs, writing>>, torn \subseteq torn',
         q = Idle \/ \A d \in Character \ {c} : pass[d] = Idle,
         \A k \in Key \ torn' : PassOf(q, value[k], meta[k], tombs[k], writing, k, now)
  PROVE  OneAtATime' /\ KeysSound'
<1>1. DOMAIN pass = Character
  BY DEF IInv, Typed
<1>2. OneAtATime'
  BY <1>1 DEF IInv, OneAtATime
<1>3. KeysSound'
  BY <1>1 DEF IInv, KeysSound
<1> QED BY <1>2, <1>3

(* A pass that is out is alone.                                             *)
LEMMA Alone ==
  ASSUME IInv, NEW c \in Character, pass[c].step # "idle"
  PROVE  \A d \in Character \ {c} : pass[d] = Idle
<1>1. pass[c] # Idle
  BY DEF Idle
<1> QED BY <1>1 DEF IInv, OneAtATime

LEMMA ReadStampsKeeps ==
  ASSUME OneTab, IInv, NEW c \in Character, ReadStamps(c)
  PROVE  OneAtATime' /\ KeysSound'
<1>1. \A d \in Character : pass[d] = Idle
  <2> DEFINE out == {d \in Character : pass[d] # Idle}
  <2>1. IsFiniteSet(out) /\ Cardinality(out) \in Nat
    BY SettingsSyncAssumptions, FS_Subset, FS_CardinalityType
  <2>2. Cardinality(out) < Tabs /\ Tabs \in Nat
    BY SettingsSyncAssumptions DEF ReadStamps
  <2>3. Cardinality(out) = 0
    BY <2>1, <2>2 DEF OneTab
  <2>4. out = {}
    BY <2>1, <2>3, FS_EmptySet
  <2> QED BY <2>4
<1> DEFINE q == [step |-> "tombs", at |-> now, meta |-> meta, tombs |-> None,
                 value |-> None, seq |-> None, window |-> None]
<1>2. ASSUME NEW k \in Key \ torn' PROVE PassOf(q, value[k], meta[k], tombs[k], writing, k, now)
  <2>1. k \notin torn
    BY <1>2 DEF ReadStamps, ghosts
  <2>2. StampRead(q, value[k], meta[k], writing, k, now)
    BY <2>1 DEF IInv, KeysSound, WriteOf, StampRead
  <2> QED BY <2>2 DEF PassOf
<1>3. /\ pass' = [pass EXCEPT ![c] = q] /\ torn \subseteq torn'
      /\ UNCHANGED <<now, value, meta, tombs, writing>>
  BY DEF ReadStamps, device, ghosts
<1> HIDE DEF q
<1> QED BY <1>1, <1>2, <1>3, PassStepKeeps

LEMMA ReadTombstonesKeeps ==
  ASSUME IInv, NEW c \in Character, ReadTombstones(c)
  PROVE  OneAtATime' /\ KeysSound'
<1> DEFINE p == pass[c]
           q == ListRead(p, tombs)
<1>1. /\ p.step = "tombs" /\ pass' = [pass EXCEPT ![c] = q]
      /\ q.step = "rows" /\ q.meta = p.meta /\ q.tombs = tombs
  BY ReadTombstonesDoes DEF IInv
<1> HIDE DEF q
<1>2. ASSUME NEW k \in Key \ torn' PROVE PassOf(q, value[k], meta[k], tombs[k], writing, k, now)
  <2>1. k \notin torn
    BY <1>2 DEF ReadTombstones, ghosts
  <2>2. StampRead(p, value[k], meta[k], writing, k, now)
        /\ WriteOf(value[k], meta[k], tombs[k], writing, k, now)
    BY <1>1, <2>1 DEF IInv, KeysSound, PassOf
  <2>3. TombRead(q, value[k], meta[k], tombs[k], writing, k, now)
    BY <1>1, <2>2 DEF TombRead, StampRead, WriteOf
  <2> QED BY <1>1, <2>3 DEF PassOf
<1>3. /\ UNCHANGED <<now, value, meta, tombs, writing>> /\ torn \subseteq torn'
      /\ \A d \in Character \ {c} : pass[d] = Idle
  BY Alone DEF ReadTombstones, device, ghosts
<1> QED BY <1>1, <1>2, <1>3, PassStepKeeps

LEMMA ReadRowsKeeps ==
  ASSUME IInv, NEW c \in Character, ReadRows(c)
  PROVE  OneAtATime' /\ KeysSound'
<1> DEFINE p == pass[c]
           q == RowsRead(p, value)
<1>1. /\ p.step = "rows" /\ pass' = [pass EXCEPT ![c] = q]
      /\ q.step = "books" /\ q.meta = p.meta /\ q.tombs = p.tombs /\ q.value = value
  BY ReadRowsDoes DEF IInv
<1> HIDE DEF q
<1>2. ASSUME NEW k \in Key \ torn' PROVE PassOf(q, value[k], meta[k], tombs[k], writing, k, now)
  <2>1. k \notin torn
    BY <1>2 DEF ReadRows
  <2>2. /\ TombRead(p, value[k], meta[k], tombs[k], writing, k, now)
        /\ WriteOf(value[k], meta[k], tombs[k], writing, k, now)
        /\ RowOf(value[k], meta[k], tombs[k], writing, k)
    BY <1>1, <2>1 DEF IInv, KeysSound, PassOf
  <2>3. value[k] = None => \/ p.meta[k] = 0 \/ p.tombs[k] > p.meta[k]
                           \/ Unstamping(writing, k) \/ meta[k] # p.meta[k]
    BY <2>2 DEF TombRead, RowOf, Alive
  <2>4. value[k] # None => DeletedSince(value[k], tombs[k], writing, k, q.at, p.tombs[k])
    BY <2>2 DEF DeletedSince, WriteOf, Deleting
  <2>5. RowRead(q, value[k], meta[k], tombs[k], writing, k, now)
    BY <1>1, <2>2, <2>3, <2>4 DEF TombRead, RowRead, StampRead
  <2> QED BY <1>1, <2>5 DEF PassOf
<1>3. /\ UNCHANGED <<now, value, meta, tombs, writing>> /\ torn \subseteq torn'
      /\ \A d \in Character \ {c} : pass[d] = Idle
  BY Alone DEF ReadRows, device
<1> QED BY <1>1, <1>2, <1>3, PassStepKeeps

LEMMA ReadBooksKeeps ==
  ASSUME IInv, NEW c \in Character, ReadBooks(c)
  PROVE  OneAtATime' /\ KeysSound'
<1> DEFINE p == pass[c]
<1>1. PICK seq, window : LET q == BooksRead(p, seq, window) IN
               /\ p.step = "books" /\ pass' = [pass EXCEPT ![c] = q]
               /\ q.step = "fetch" /\ q.at = p.at
               /\ q.meta = p.meta /\ q.tombs = p.tombs /\ q.value = p.value
  BY ReadBooksDoes DEF IInv
<1> DEFINE q == BooksRead(p, seq, window)
<1>2. /\ p.step = "books" /\ pass' = [pass EXCEPT ![c] = q] /\ q.step = "fetch" /\ q.at = p.at
      /\ q.meta = p.meta /\ q.tombs = p.tombs /\ q.value = p.value
  BY <1>1
<1> HIDE DEF q
<1>3. ASSUME NEW k \in Key \ torn' PROVE PassOf(q, value[k], meta[k], tombs[k], writing, k, now)
  <2>1. k \notin torn
    BY <1>3 DEF ReadBooks, ghosts
  <2>2. RowRead(p, value[k], meta[k], tombs[k], writing, k, now)
    BY <1>2, <2>1 DEF IInv, KeysSound, PassOf
  <2>3. RowRead(q, value[k], meta[k], tombs[k], writing, k, now)
    BY <1>2, <2>2 DEF RowRead, StampRead
  <2> QED BY <1>2, <2>3 DEF PassOf
<1>4. /\ UNCHANGED <<now, value, meta, tombs, writing>> /\ torn \subseteq torn'
      /\ \A d \in Character \ {c} : pass[d] = Idle
  BY Alone DEF ReadBooks, device, ghosts
<1> QED BY <1>2, <1>3, <1>4, PassStepKeeps

(* The merge of one key, from the rows the pass read.                       *)
LEMMA MergeOf ==
  ASSUME NEW n \in Nat, NEW p, ReadingTyped(p, n), p.step = "fetch", NEW docs, DocsIn(docs, n), NEW k \in Key,
         NEW v, NEW m, NEW t \in Nat, NEW w, RowRead(p, v, m, t, w, k, n), WriteOf(v, m, t, w, k, n)
  PROVE  PushOf(Fetched(p, docs), v, m, t, w, k, n)
<1> DEFINE plan == mergeSettings(p.value, p.meta, p.tombs, docs, p.at, p.window)
           unstamped == {j \in plan.push : p.meta[j] = 0}
           q == Fetched(p, docs)
<1>1. /\ plan.push \subseteq {j \in Key : p.value[j] # None}
      /\ plan.pull \subseteq Live(docs)
      /\ \A j \in plan.pull : \/ p.value[j] = None /\ (p.tombs[j] > 0 => docs[j].at > p.tombs[j])
                              \/ docs[j].at > p.meta[j]
      /\ \A j \in plan.clearLocalTombstones :
            j \in Key /\ (j \in plan.pull \/ (p.value[j] # None /\ p.tombs[j] > 0))
  BY PlanIs DEF DocsIn
<1>2. /\ q.stamps = [j \in unstamped |-> p.at] /\ q.pulled = Only(docs, plan.pull)
      /\ q.meta = Only(p.meta, unstamped \cup plan.pull \cup plan.deleteLocal)
      /\ q.tombs = Kept(p.tombs, plan.clearLocalTombstones)
  BY DEF Fetched
<1>3. /\ p.at \in Nat /\ p.tombs[k] \in Nat /\ p.meta[k] \in Nat
      /\ DOMAIN p.meta = Key /\ DOMAIN p.tombs = Key
  BY DEF ReadingTyped, Table
<1> HIDE DEF plan, q
<1>4. ASSUME k \in DOMAIN q.pulled
      PROVE  /\ k \in DOMAIN q.meta /\ LaterThan(w, k, q.meta[k], n)
             /\ q.pulled[k].at > q.meta[k] \/ Unstamping(w, k) \/ m # q.meta[k]
  <2>1. k \in plan.pull /\ k \in DOMAIN docs /\ q.pulled[k] = docs[k]
    BY <1>2, <1>4 DEF Only
  <2>2. k \in DOMAIN q.meta /\ q.meta[k] = p.meta[k]
    BY <1>2, <1>3, <2>1 DEF Only
  <2>3. docs[k].at \in Nat /\ docs[k].at > 0
    BY <2>1 DEF DocsIn, Doc
  <2>4. docs[k].at > p.meta[k] \/ Unstamping(w, k) \/ m # p.meta[k]
    <3>1. CASE p.value[k] = None /\ (p.tombs[k] > 0 => docs[k].at > p.tombs[k])
      <4>1. p.meta[k] = 0 \/ p.tombs[k] > p.meta[k] \/ Unstamping(w, k) \/ m # p.meta[k]
        BY <3>1 DEF RowRead
      <4> QED BY <1>3, <2>3, <3>1, <4>1
    <3> QED BY <1>1, <2>1, <3>1
  <2> QED BY <2>1, <2>2, <2>4 DEF RowRead, StampRead
<1>5. ASSUME k \in DOMAIN q.stamps
      PROVE  /\ DeletedSince(v, t, w, k, q.stamps[k], IF q.tombs = None THEN 0 ELSE q.tombs.was[k])
             /\ q.tombs # None => LaterThan(w, k, q.tombs.was[k], n)
  <2>1. q.stamps[k] = p.at /\ p.value[k] # None
    BY <1>1, <1>2, <1>5
  <2>2. q.tombs # None => q.tombs.was = p.tombs
    BY <1>2 DEF Kept
  <2>3. DeletedSince(v, t, w, k, p.at, p.tombs[k]) /\ LaterThan(w, k, p.tombs[k], n)
    BY <2>1 DEF RowRead
  <2>4. CASE q.tombs = None
    <3>1. v = None => Deleting(w, k) \/ (t > p.at /\ t > 0)
      BY <1>3, <2>3 DEF DeletedSince
    <3> QED BY <2>1, <2>3, <2>4, <3>1 DEF DeletedSince
  <2>5. CASE q.tombs # None
    BY <2>1, <2>2, <2>3, <2>5
  <2> QED BY <2>4, <2>5
<1>6. ASSUME q.tombs # None, q.tombs.left[k] # q.tombs.was[k], t = q.tombs.was[k]
      PROVE  Alive(v, m, w, k) \/ (k \in DOMAIN q.pulled /\ m = q.meta[k])
  <2>1. k \in plan.clearLocalTombstones /\ q.tombs.was = p.tombs
    BY <1>2, <1>6 DEF Kept
  <2>2. CASE k \in plan.pull
    <3>1. k \in DOMAIN q.pulled /\ q.meta[k] = p.meta[k]
      BY <1>1, <1>2, <1>3, <2>2 DEF Only, Live
    <3> QED BY <3>1 DEF RowRead, StampRead
  <2>3. CASE p.value[k] # None
    <3>1. CASE v = None
      <4>1. Deleting(w, k)
        BY <1>3, <1>6, <2>1, <2>3, <3>1 DEF RowRead, DeletedSince
      <4> QED BY <4>1 DEF WriteOf, Alive
    <3> QED BY <3>1 DEF Alive
  <2> QED BY <1>1, <2>1, <2>2, <2>3
<1>7. PushOf(q, v, m, t, w, k, n)
  BY <1>4, <1>5, <1>6 DEF PushOf
<1> QED BY <1>7 DEF q

LEMMA FetchKeeps ==
  ASSUME IInv, NEW c \in Character, Fetch(c)
  PROVE  OneAtATime' /\ KeysSound'
<1> DEFINE docs == Only(remote[c], {k \in DOMAIN remote[c] : InWindow(pass[c].window, remote[c][k].at)})
           q == Fetched(pass[c], docs)
<1>1. /\ ReadingTyped(pass[c], now) /\ pass[c].step = "fetch"
      /\ DocsIn(docs, now) /\ pass' = [pass EXCEPT ![c] = q] /\ now \in Nat
  BY FetchDoes DEF IInv, Typed
<1>2. ASSUME NEW k \in Key \ torn' PROVE PassOf(q, value[k], meta[k], tombs[k], writing, k, now)
  <2>1. k \notin torn
    BY <1>2 DEF Fetch
  <2>2. RowRead(pass[c], value[k], meta[k], tombs[k], writing, k, now)
        /\ WriteOf(value[k], meta[k], tombs[k], writing, k, now)
    BY <1>1, <2>1 DEF IInv, KeysSound, PassOf
  <2> HIDE DEF docs
  <2>3. tombs[k] \in Nat
    BY <1>1 DEF IInv, Typed, Table
  <2>4. PushOf(q, value[k], meta[k], tombs[k], writing, k, now)
    BY <1>1, <2>2, <2>3, MergeOf
  <2>5. q.step = "push"
    BY DEF Fetched
  <2> QED BY <2>4, <2>5 DEF PassOf
<1> HIDE DEF q
<1>3. /\ UNCHANGED <<now, value, meta, tombs, writing>> /\ torn \subseteq torn'
      /\ \A d \in Character \ {c} : pass[d] = Idle
  BY Alone DEF Fetch, device
<1> QED BY <1>1, <1>2, <1>3, PassStepKeeps

LEMMA PushKeeps ==
  ASSUME IInv, NEW c \in Character, Push(c)
  PROVE  OneAtATime' /\ KeysSound'
<1>1. PushTyped(pass[c], now) /\ DOMAIN pass = Character
  BY DEF IInv, Typed, PassTyped, Push, Idle, ReadingTyped, FinishTyped
<1>2. PICK w \in pass[c].writes : pass' = [pass EXCEPT ![c].writes = @ \ {w}]
  BY DEF Push
<1> DEFINE q == [pass[c] EXCEPT !.writes = @ \ {w}]
<1>3. pass' = [pass EXCEPT ![c] = q]
  BY <1>1, <1>2
<1>4. /\ q.step = "push" /\ q.stamps = pass[c].stamps /\ q.pulled = pass[c].pulled
      /\ q.meta = pass[c].meta /\ q.tombs = pass[c].tombs
  <2>1. pass[c] = [step |-> "push", seq |-> pass[c].seq, writes |-> pass[c].writes,
                   stamps |-> pass[c].stamps, pulled |-> pass[c].pulled,
                   deleteLocal |-> pass[c].deleteLocal, meta |-> pass[c].meta,
                   tombs |-> pass[c].tombs, high |-> pass[c].high]
    BY <1>1 DEF PushTyped
  <2> QED BY <2>1
<1> HIDE DEF q
<1>5. ASSUME NEW k \in Key \ torn' PROVE PassOf(q, value[k], meta[k], tombs[k], writing, k, now)
  <2>1. k \notin torn /\ pass[c].step = "push"
    BY <1>5 DEF Push, ghosts
  <2>2. PushOf(pass[c], value[k], meta[k], tombs[k], writing, k, now)
    BY <2>1 DEF IInv, KeysSound, PassOf
  <2>3. PushOf(q, value[k], meta[k], tombs[k], writing, k, now)
    BY <1>4, <2>2 DEF PushOf
  <2> QED BY <1>4, <2>3 DEF PassOf
<1>6. /\ UNCHANGED <<now, value, meta, tombs, writing>> /\ torn \subseteq torn'
      /\ \A d \in Character \ {c} : pass[d] = Idle
  BY Alone DEF Push, device, ghosts
<1> QED BY <1>3, <1>5, <1>6, PassStepKeeps

LEMMA ApplyKeeps ==
  ASSUME IInv, NEW c \in Character, Apply(c)
  PROVE  OneAtATime' /\ KeysSound'
<1> DEFINE p == pass[c]
           pulled == DOMAIN p.pulled \cap untouched(c)
           deleted == p.deleteLocal \cap untouched(c)
           stamped == (DOMAIN p.stamps \cap untouched(c)) \ (pulled \cup deleted)
<1>0. Typed /\ DOMAIN pass = Character /\ None \notin Nat /\ now' = now
  BY SettingsSyncAssumptions DEF IInv, Typed, Apply
<1>1. /\ PushTyped(p, now)
      /\ \A k \in untouched(c) : k \in DOMAIN p.meta /\ meta[k] = p.meta[k]
      /\ \A k \in pulled : value'[k] \in Nat
      /\ \A k \in deleted : value'[k] = None /\ meta'[k] = 0
      /\ \A k \in stamped : value'[k] = value[k] /\ meta'[k] = p.stamps[k]
      /\ \A k \in Key \ (pulled \cup deleted \cup stamped) : value'[k] = value[k] /\ meta'[k] = meta[k]
  BY <1>0, ApplyDoes
<1>2. PICK seen \in Sequence, skipped \in BOOLEAN : pass' = [pass EXCEPT ![c] =
        [step |-> "settle", tombs |-> p.tombs, high |-> p.high, skipped |-> skipped, seen |-> seen]]
  BY <1>0, ApplyDoes
<1>3. \A d \in Character \ {c} : pass[d] = Idle
  BY Alone DEF Apply
<1>4. UNCHANGED <<tombs, writing>> /\ torn' = torn \cup (Crossed \cap (pulled \cup deleted \cup stamped))
  BY DEF Apply
<1>6. OneAtATime'
  BY <1>0, <1>2, <1>3 DEF OneAtATime
<1>7. ASSUME NEW k \in Key \ torn'
      PROVE  /\ RowOf(value'[k], meta'[k], tombs'[k], writing', k)
             /\ WriteOf(value'[k], meta'[k], tombs'[k], writing', k, now')
             /\ \A d \in Character : PassOf(pass'[d], value'[k], meta'[k], tombs'[k], writing', k, now')
  <2> DEFINE q == pass'[c]
  <2>1. k \notin torn
    BY <1>4, <1>7
  <2>2. ASSUME k \in pulled \cup deleted \cup stamped
        PROVE  /\ WriteOf(value'[k], meta'[k], tombs'[k], writing', k, now')
               /\ ~Unstamping(writing, k) /\ ~Deleting(writing, k)
    <3>1. ~(writing # NotWriting /\ writing.key = k)
      BY <1>4, <1>7, <2>2 DEF Crossed
    <3> QED BY <1>4, <3>1 DEF WriteOf, Setting, Deleting, Unstamping, LaterThan, Early, Dated, NotWriting
  <2>3. /\ RowOf(value[k], meta[k], tombs[k], writing, k)
        /\ WriteOf(value[k], meta[k], tombs[k], writing, k, now)
        /\ PushOf(p, value[k], meta[k], tombs[k], writing, k, now)
    BY <2>1 DEF IInv, KeysSound, PassOf, Apply
  <2>5. /\ q.step = "settle" /\ q.tombs = p.tombs
        /\ \A d \in Character \ {c} : pass'[d] = Idle
    BY <1>0, <1>2, <1>3
  <2> HIDE DEF p, q, pulled, deleted, stamped
  <2>6. CASE k \in pulled
    <3>1. value'[k] # None
      BY <1>0, <1>1, <2>6
    <3>2. RowOf(value'[k], meta'[k], tombs'[k], writing', k)
          /\ SettleOf(q, value'[k], meta'[k], tombs'[k], writing', k)
      BY <3>1 DEF RowOf, SettleOf, Alive
    <3> QED BY <2>2, <2>5, <2>6, <3>2 DEF PassOf, Idle, q
  <2>7. CASE k \in deleted
    <3>1. meta'[k] = 0
      BY <1>1, <2>7
    <3>2. RowOf(value'[k], meta'[k], tombs'[k], writing', k)
          /\ SettleOf(q, value'[k], meta'[k], tombs'[k], writing', k)
      BY <3>1 DEF RowOf, SettleOf, Alive
    <3> QED BY <2>2, <2>5, <2>7, <3>2 DEF PassOf, Idle, q
  <2>8. CASE k \in stamped
    <3>1. value'[k] = value[k] /\ meta'[k] = p.stamps[k] /\ k \in DOMAIN p.stamps
      BY <1>1, <2>8 DEF stamped
    <3>2. value[k] = None => /\ tombs[k] > p.stamps[k]
                             /\ tombs[k] > (IF p.tombs = None THEN 0 ELSE p.tombs.was[k])
      BY <2>2, <2>3, <2>8, <3>1 DEF PushOf, DeletedSince
    <3>3. RowOf(value'[k], meta'[k], tombs'[k], writing', k)
      BY <1>4, <3>1, <3>2 DEF RowOf
    <3>4. SettleOf(q, value'[k], meta'[k], tombs'[k], writing', k)
      <4> SUFFICES ASSUME p.tombs # None, tombs[k] = p.tombs.was[k] PROVE value[k] # None
        BY <1>4, <2>5, <3>1 DEF SettleOf, Alive
      <4>2. tombs[k] \in Nat
        BY <1>0 DEF Typed, Table
      <4> QED BY <3>2, <4>2
    <3> QED BY <2>2, <2>5, <2>8, <3>3, <3>4 DEF PassOf, Idle, q
  <2>9. CASE k \notin pulled \cup deleted \cup stamped
    <3>1. value'[k] = value[k] /\ meta'[k] = meta[k]
      BY <1>1, <2>9
    <3>2. RowOf(value'[k], meta'[k], tombs'[k], writing', k)
          /\ WriteOf(value'[k], meta'[k], tombs'[k], writing', k, now')
      BY <1>0, <1>4, <2>3, <3>1
    <3>3. SettleOf(q, value'[k], meta'[k], tombs'[k], writing', k)
      <4> SUFFICES ASSUME p.tombs # None, p.tombs.left[k] # p.tombs.was[k], tombs[k] = p.tombs.was[k]
                   PROVE  Alive(value[k], meta[k], writing, k)
        BY <1>4, <2>5, <3>1 DEF SettleOf
      <4>1. Alive(value[k], meta[k], writing, k) \/ (k \in DOMAIN p.pulled /\ meta[k] = p.meta[k])
        BY <2>3 DEF PushOf
      <4>2. k \notin DOMAIN p.pulled \/ meta[k] # p.meta[k] \/ k \notin DOMAIN p.meta
        BY <2>9 DEF pulled, untouched, p
      <4>3. k \in DOMAIN p.pulled => k \in DOMAIN p.meta
        BY <2>3 DEF PushOf
      <4> QED BY <4>1, <4>2, <4>3
    <3> QED BY <2>5, <3>2, <3>3 DEF PassOf, Idle, q
  <2> QED BY <2>6, <2>7, <2>8, <2>9
<1> QED BY <1>6, <1>7 DEF KeysSound

(* The list is written back as the pass read it, without what it cleared:   *)
(* what was buried since is torn, and what was cleared has its row again,   *)
(* or no stamp.                                                             *)
LEMMA SettleKeeps ==
  ASSUME IInv, NEW c \in Character, Settle(c)
  PROVE  OneAtATime' /\ KeysSound'
<1>0. Typed /\ DOMAIN pass = Character /\ FinishTyped(pass[c], now) /\ now \in Nat
  <2>1. Typed
    BY DEF IInv
  <2>2. FinishTyped(pass[c], now)
    BY <2>1, FinishDoes
  <2> QED BY <2>1, <2>2 DEF Typed
<1>1. /\ UNCHANGED <<now, value, meta, writing>>
      /\ torn \subseteq torn' /\ pass[c].step = "settle"
  BY DEF Settle
<1>2. PICK q : pass' = [pass EXCEPT ![c] = q] /\ q.step \in {"idle", "cursor", "seen"}
  BY <1>0, FinishDoes
<1>3. \A d \in Character \ {c} : pass[d] = Idle
  BY <1>1, Alone
<1>4. OneAtATime'
  BY <1>0, <1>2, <1>3 DEF OneAtATime
<1>5. ASSUME NEW k \in Key \ torn'
      PROVE  /\ RowOf(value'[k], meta'[k], tombs'[k], writing', k)
             /\ WriteOf(value'[k], meta'[k], tombs'[k], writing', k, now')
  <2>1. k \notin torn
    BY <1>1, <1>5
  <2>2. /\ RowOf(value[k], meta[k], tombs[k], writing, k)
        /\ WriteOf(value[k], meta[k], tombs[k], writing, k, now)
        /\ SettleOf(pass[c], value[k], meta[k], tombs[k], writing, k)
    BY <1>1, <2>1 DEF IInv, KeysSound, PassOf
  <2>3. CASE tombs'[k] = tombs[k]
    BY <1>1, <2>2, <2>3
  <2>4. CASE tombs'[k] # tombs[k]
    <3>1. /\ pass[c].tombs # None /\ tombs'[k] = pass[c].tombs.left[k]
          /\ tombs[k] = pass[c].tombs.was[k]
      BY <1>5, <2>4 DEF Settle
    <3>2. Alive(value[k], meta[k], writing, k)
      BY <2>2, <2>4, <3>1 DEF SettleOf
    <3>3. tombs'[k] = 0
      BY <1>0, <2>4, <3>1 DEF FinishTyped, ListIn
    <3>4. LaterThan(writing, k, 0, now)
      BY <1>0 DEF LaterThan, Dated, Typed, WriteTyped, NotWriting
    <3> QED BY <1>1, <2>2, <3>2, <3>3, <3>4 DEF RowOf, Alive, WriteOf
  <2> QED BY <2>3, <2>4
<1>6. ASSUME NEW k \in Key, NEW d \in Character
      PROVE  PassOf(pass'[d], value'[k], meta'[k], tombs'[k], writing', k, now')
  <2>1. pass'[d].step \in {"idle", "cursor", "seen"}
    BY <1>0, <1>2, <1>3 DEF Idle
  <2> QED BY <2>1 DEF PassOf
<1> QED BY <1>4, <1>5, <1>6 DEF KeysSound

LEMMA MoveKeeps ==
  ASSUME IInv, NEW c \in Character, MoveCursor(c) \/ MoveSeen(c)
  PROVE  OneAtATime' /\ KeysSound'
<1>1. PICK q : pass' = [pass EXCEPT ![c] = q] /\ q.step \in {"idle", "cursor", "seen"}
  BY FinishDoes DEF IInv
<1>2. \A k \in Key : PassOf(q, value[k], meta[k], tombs[k], writing, k, now)
  BY <1>1 DEF PassOf
<1>3. /\ UNCHANGED <<now, value, meta, tombs, writing>> /\ torn \subseteq torn'
      /\ \A d \in Character \ {c} : pass[d] = Idle
  BY Alone DEF MoveCursor, MoveSeen, device, ghosts
<1> QED BY <1>1, <1>2, <1>3, PassStepKeeps

-----------------------------------------------------------------------------
(***************************************************************************)
(* The invariant, and the theorem.                                          *)
(***************************************************************************)

LEMMA InvInit == Init => IInv
<1> SUFFICES ASSUME Init PROVE IInv
  OBVIOUS
<1>1. OneAtATime
  BY DEF Init, OneAtATime
<1>2. KeysSound
  BY DEF Init, KeysSound, RowOf, WriteOf, Setting, Deleting, LaterThan, Early, Dated, PassOf, Idle, NotWriting
<1> QED BY <1>1, <1>2, InitTyped DEF IInv

LEMMA InvStep == OneTab /\ IInv /\ [Next]_vars => IInv'
<1> SUFFICES ASSUME OneTab, IInv, [Next]_vars PROVE IInv'
  OBVIOUS
<1>1. Typed' /\ now \in Nat /\ MaxTime \in Nat
  BY StepTyped, SettingsSyncAssumptions DEF IInv, Typed
<1>2. ASSUME NEW c \in Character, ReadStamps(c) \/ Steps(c) PROVE OneAtATime' /\ KeysSound'
  BY <1>2, ReadStampsKeeps, ReadTombstonesKeeps, ReadRowsKeeps, ReadBooksKeeps, FetchKeeps, PushKeeps,
     ApplyKeeps, SettleKeeps, MoveKeeps DEF Steps
<1>3. ASSUME (\E k \in Chosen : Choose(k) \/ Delete(k)) \/ Write PROVE OneAtATime' /\ KeysSound'
  BY <1>1, <1>3, WriteKeeps
<1>4. ASSUME NEW k \in Key, \/ \E c \in Character : OtherDeviceSets(c, k)
                            \/ \E D \in SUBSET Character : OtherDeviceDeletes(D, k)
      PROVE  OneAtATime' /\ KeysSound'
  <2>1. Tick /\ UNCHANGED <<value, meta, tombs, pass, writing, torn>>
    BY <1>4 DEF OtherDeviceSets, OtherDeviceDeletes, device, ghosts
  <2> QED BY <1>1, <2>1, StillKeeps DEF Tick
<1>5. ASSUME UNCHANGED vars PROVE OneAtATime' /\ KeysSound'
  <2>1. UNCHANGED <<now, value, meta, tombs, pass, writing, torn>>
    BY <1>5 DEF vars
  <2> QED BY <1>1, <2>1, StillKeeps
<1>6. ASSUME Interrupt PROVE OneAtATime' /\ KeysSound'
  <2>1. /\ Tick /\ UNCHANGED <<value, meta, tombs>>
        /\ \A c \in Character : pass'[c] \in {pass[c], Idle}
        /\ torn \subseteq torn' /\ (writing' = writing \/ (writing' = NotWriting /\ Crossed \subseteq torn'))
    BY <1>6 DEF Interrupt, device
  <2> QED BY <1>1, <2>1, StillKeeps DEF Tick
<1>7. OneAtATime' /\ KeysSound'
  <2>1. CASE \E c \in Character : ReadStamps(c) \/ Steps(c) \/ \E k \in Key : OtherDeviceSets(c, k)
    <3>1. PICK c \in Character : ReadStamps(c) \/ Steps(c) \/ \E k \in Key : OtherDeviceSets(c, k)
      BY <2>1
    <3>2. CASE \E k \in Key : OtherDeviceSets(c, k)
      BY <1>4, <3>2
    <3> QED BY <1>2, <3>1, <3>2
  <2>2. CASE \E D \in SUBSET Character, k \in Key : OtherDeviceDeletes(D, k)
    BY <1>4, <2>2
  <2>3. CASE (\E k \in Chosen : Choose(k) \/ Delete(k)) \/ Write
    BY <1>3, <2>3
  <2> QED BY <1>5, <1>6, <2>1, <2>2, <2>3 DEF Next
<1> QED BY <1>1, <1>7 DEF IInv

LEMMA Invariant == OneTab => (Spec => []IInv)
<1> SUFFICES ASSUME OneTab PROVE Spec => []IInv
  OBVIOUS
<1>1. IInv /\ [Next]_vars => IInv'
  BY InvStep
<1> QED BY <1>1, InvInit, PTL DEF Spec

(* Of one step, for every pass and key.                                     *)
PullsNewer ==
    \A c \in Character, k \in Key :
        /\ pass[c].step = "push" /\ pass'[c].step = "settle"
        /\ value'[k] # value[k] /\ k \notin torn'
        => IF value'[k] # None THEN meta'[k] > meta[k] ELSE meta[k] = pass[c].meta[k]

LEMMA ApplyPullsNewer ==
  ASSUME IInv, NEW c \in Character, Apply(c), NEW k \in Key,
         value'[k] # value[k], k \notin torn'
  PROVE  IF value'[k] # None THEN meta'[k] > meta[k] ELSE meta[k] = pass[c].meta[k]
<1> DEFINE p == pass[c]
           pulled == DOMAIN p.pulled \cap untouched(c)
           deleted == p.deleteLocal \cap untouched(c)
           stamped == (DOMAIN p.stamps \cap untouched(c)) \ (pulled \cup deleted)
<1>1. Typed /\ None \notin Nat
  BY SettingsSyncAssumptions DEF IInv
<1>2. /\ \A j \in untouched(c) : meta[j] = p.meta[j]
      /\ \A j \in pulled : value'[j] \in Nat /\ meta'[j] = p.pulled[j].at
      /\ \A j \in deleted : value'[j] = None
      /\ \A j \in stamped : value'[j] = value[j]
      /\ \A j \in Key \ (pulled \cup deleted \cup stamped) : value'[j] = value[j]
  BY <1>1, ApplyDoes
<1>3. k \notin torn /\ torn' = torn \cup (Crossed \cap (pulled \cup deleted \cup stamped))
  BY DEF Apply
<1>4. PushOf(p, value[k], meta[k], tombs[k], writing, k, now)
  BY <1>3 DEF IInv, KeysSound, PassOf, Apply
<1>5. CASE k \in pulled
  <2>1. value'[k] # None /\ meta'[k] = p.pulled[k].at /\ meta[k] = p.meta[k]
    BY <1>1, <1>2, <1>5
  <2>2. ~Unstamping(writing, k)
    BY <1>3, <1>5 DEF Crossed, Unstamping, NotWriting
  <2>3. p.pulled[k].at > p.meta[k]
    BY <1>4, <1>5, <2>1, <2>2 DEF PushOf
  <2> QED BY <2>1, <2>3
<1>6. CASE k \in deleted
  BY <1>2, <1>6
<1>7. k \in pulled \cup deleted
  BY <1>2
<1> QED BY <1>5, <1>6, <1>7

(* PullsOnlyNewer, with one tab of the device at a time: whatever the user  *)
(* and other devices do between any two awaits of a pass, and wherever a    *)
(* pass or a write of the user's is cut short, what the pass writes over a  *)
(* row was stamped after it, and it deletes no row written since it read    *)
(* its stamp.  Excepted are the torn keys, as in the property.              *)
THEOREM PullsCorrect == OneTab => (Spec => PullsOnlyNewer)
<1> SUFFICES ASSUME OneTab PROVE Spec => PullsOnlyNewer
  OBVIOUS
<1>1. IInv /\ [Next]_vars => [PullsNewer]_vars
  <2> SUFFICES ASSUME IInv, Next PROVE PullsNewer
    BY DEF PullsNewer, vars
  <2> SUFFICES ASSUME NEW c \in Character, NEW k \in Key,
                      pass[c].step = "push", pass'[c].step = "settle",
                      value'[k] # value[k], k \notin torn'
               PROVE  IF value'[k] # None THEN meta'[k] > meta[k] ELSE meta[k] = pass[c].meta[k]
    BY DEF PullsNewer
  <2>0. DOMAIN pass = Character
    BY DEF IInv, Typed
  <2>1. value' # value /\ pass'[c] \notin {pass[c], Idle}
    BY DEF Idle
  <2>2. PICK d \in Character : Apply(d)
    <3>1. ~Interrupt
      BY <2>1 DEF Interrupt, device
    <3>2. pass' # pass
      BY <2>1
    <3> QED BY <2>1, <3>1, <3>2
            DEF Next, Write, Choose, Delete, Acts, Rewrite, TakeStamps, Stamp, TakeOldStamps, Unstamp,
                TakeList, Bury, Awaits, OtherDeviceSets, OtherDeviceDeletes, ReadStamps, Steps,
                ReadTombstones, ReadRows, ReadBooks, Fetch, Push, Settle, MoveCursor, MoveSeen, device
  <2>3. d = c
    BY <2>0, <2>1, <2>2 DEF Apply
  <2> QED BY <2>2, <2>3, ApplyPullsNewer
<1>2. PullsNewer => \A c \in Character, k \in Key :
          /\ pass[c].step = "push" /\ pass'[c].step = "settle"
          /\ value'[k] # value[k] /\ k \notin torn'
          => IF value'[k] # None THEN meta'[k] > meta[k] ELSE meta[k] = pass[c].meta[k]
  BY DEF PullsNewer
<1> QED BY <1>1, Invariant, PTL DEF Spec, PullsOnlyNewer, PullsNewer
=============================================================================
