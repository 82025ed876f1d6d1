--------------------------- MODULE SyncMarkerProofs ---------------------------
(***************************************************************************)
(* What SyncMarker's runs check on two devices, proved for any number of    *)
(* devices, tabs, collections and moments, and without the bounds.          *)
(***************************************************************************)
EXTENDS SyncMarker, TLAPS

-----------------------------------------------------------------------------
(***************************************************************************)
(* The inductive invariant.                                                 *)
(***************************************************************************)

(* d may claim version v: the marker has not been below it, and if it still *)
(* is v then d has pulled everything announced.                             *)
Honest(v, d) == v <= marker /\ (v = marker => Missed(d) = {})

Bumped(p) == IF p.step = "store" /\ Pushed(p) THEN 1 ELSE 0

(* What a tab's own pass guarantees, whatever the claim is.  Steps and       *)
(* flags go together:                                                       *)
ShapeOf(t) ==
    LET p == pass[t] IN
    /\ p.step = "store" => p.full /\ ~p.failed
    /\ p.step = "void" => p.failed
    /\ p.step = "count" => ~p.full
    /\ p.step = "advance" => p.seen # None
    /\ p.full => p.at \in Moment
    /\ p.step \in {"marker", "claim", "seed", "clear"} => p.read = {} /\ p.settled = {}
    /\ p.step \in {"marker", "claim", "seed", "clear", "sync"} /\ p.full
            => p.scope = Collection
    /\ Owed(t) # {} => Announces(p)

(* A full pass on its way to a claim of the marker it read.                 *)
Hopeful(p) == p.full /\ ~p.failed /\ p.before # None

(* While it reads, what it missed it has not read, or has read since it     *)
(* changed.                                                                 *)
ReadingOf(t) ==
    LET p == pass[t] IN
    Hopeful(p) /\ p.step \in {"claim", "seed", "clear", "sync"}
        => /\ p.before <= marker
           /\ p.before = marker => Missed(HomeOf[t]) \cap p.read \subseteq p.fresh

(* A collection that finished with no change since it was read is pulled.   *)
PulledOf(t) ==
    LET p == pass[t] IN
    p.step = "sync" /\ ~p.failed
        => /\ p.settled \subseteq p.read
           /\ \A c \in p.settled \cap p.fresh : c \notin behind[HomeOf[t]]

StoringOf(t) ==
    LET p == pass[t] IN
    Hopeful(p) /\ p.step \in {"bump", "store"}
        => Honest(p.before + Bumped(p), HomeOf[t])

PassInv(t) == ShapeOf(t) /\ ReadingOf(t) /\ PulledOf(t) /\ StoringOf(t)

ClaimsHonest ==
    \A d \in Device : claim[d] # None => Honest(claim[d].version, d)

(* A narrowed pass may count its bump while the claim it read still stands. *)
Advancing ==
    \A t \in Tab :
        pass[t].step = "advance" /\ claim[HomeOf[t]] = pass[t].seen
            => Honest(pass[t].seen.version + 1, HomeOf[t])

(* A moment names one full pass of a device, and so one line of claims ...  *)
MomentsUnique ==
    \A t \in Tab : pass[t].at # None =>
        /\ claim[HomeOf[t]] # None => claim[HomeOf[t]].fullAt # pass[t].at
        /\ \A u \in Tab : HomeOf[u] = HomeOf[t] =>
            /\ pass[u].seen # None => pass[u].seen.fullAt # pass[t].at
            /\ u # t => pass[u].at # pass[t].at

(* ... whose versions only grow.                                            *)
SeenEarlier ==
    \A t \in Tab :
        LET d == HomeOf[t] IN
        pass[t].seen # None /\ claim[d] # None /\ claim[d].fullAt = pass[t].seen.fullAt
            => pass[t].seen.version <= claim[d].version

IInv ==
    /\ TypeOK
    /\ \A t \in Tab : PassInv(t)
    /\ ClaimsHonest /\ Advancing /\ MomentsUnique /\ SeenEarlier

USE SyncMarkerAssumptions

-----------------------------------------------------------------------------
(***************************************************************************)
(* Types.                                                                   *)
(***************************************************************************)

(* The record of a tab with no pass has the type of a pass.                 *)
LEMMA IdleType == Idle \in Pass
BY DEF Idle, Pass

(* So has a pass that is past the decision to skip.                         *)
LEMMA GoingType == ASSUME NEW p \in Pass PROVE Going(p) \in Pass
BY DEF Going, Pass

(* So has one whose collections have settled.                               *)
LEMMA GotoType ==
    ASSUME NEW p \in Pass, NEW step \in {"idle", "void", "bump", "count", "store", "advance"}
    PROVE  Goto(p, step) \in Pass
<1>1. [p EXCEPT !.step = step, !.scope = {}, !.read = {}, !.fresh = {},
                !.taken = {}, !.settled = {}] \in Pass
  BY DEF Pass
<1>2. [p EXCEPT !.step = step] \in Pass
  BY DEF Pass
<1> QED BY <1>1, <1>2, IdleType DEF Goto

(* A remote change keeps the type of every pass.                            *)
LEMMA SpoiledType ==
    ASSUME pass \in [Tab -> Pass], NEW c, NEW D
    PROVE  Spoiled(c, D) \in [Tab -> Pass]
<1>1. ASSUME NEW p \in Pass PROVE [p EXCEPT !.fresh = @ \ {c}] \in Pass
  BY DEF Pass
<1> QED BY <1>1 DEF Spoiled

(* Each action, in turn, keeps TypeOK.  A local edit:                       *)
LEMMA TypeEdit == ASSUME TypeOK, NEW d \in Device, NEW c \in Collection, Edit(d, c) PROVE TypeOK'
<1>1. ASSUME NEW p \in Pass PROVE [p EXCEPT !.taken = @ \ {c}] \in Pass
  BY DEF Pass
<1>2. pass' \in [Tab -> Pass]
  BY <1>1 DEF TypeOK, Edit
<1> QED BY <1>2 DEF TypeOK, Edit

(* A write of a server function:                                            *)
LEMMA TypeServerWrites == ASSUME TypeOK, NEW c \in Collection, ServerWrites(c) PROVE TypeOK'
<1>1. pass' \in [Tab -> Pass]
  BY SpoiledType DEF TypeOK, ServerWrites
<1> QED BY <1>1 DEF TypeOK, ServerWrites, FallBehind

(* The safety interval going by:                                            *)
LEMMA TypeAge == ASSUME TypeOK, NEW d \in Device, Age(d) PROVE TypeOK'
<1>1. InUse(d) \ {None} \subseteq Moment
  BY DEF TypeOK, InUse, Pass, Claim
<1> QED BY <1>1 DEF TypeOK, Age

(* The start of a pass:                                                     *)
LEMMA TypeBegin ==
    ASSUME TypeOK, NEW t \in Tab,
           BeginNarrowed(t) \/ \E background \in BOOLEAN : BeginFull(t, background)
    PROVE  TypeOK'
<1>1. CASE BeginNarrowed(t)
  <2>1. PICK S \in SUBSET dirty[HomeOf[t]] \ {{}} :
            pass' = [pass EXCEPT ![t] = [Idle EXCEPT !.step = "sync", !.scope = S]]
    BY <1>1 DEF BeginNarrowed
  <2>2. S \subseteq Collection
    BY <2>1 DEF TypeOK
  <2>3. [Idle EXCEPT !.step = "sync", !.scope = S] \in Pass
    BY <2>2 DEF Idle, Pass
  <2> QED BY <1>1, <2>1, <2>3 DEF TypeOK, BeginNarrowed
<1>2. ASSUME NEW background \in BOOLEAN, BeginFull(t, background) PROVE TypeOK'
  <2>1. PICK m \in Moment :
            /\ pass' = [pass EXCEPT ![t] =
                  [Idle EXCEPT !.step = "marker", !.full = TRUE, !.background = background,
                               !.scope = Collection, !.at = m]]
            /\ lapsed' = [lapsed EXCEPT ![HomeOf[t]] = @ \ {m}]
    BY <1>2 DEF BeginFull
  <2>2. [Idle EXCEPT !.step = "marker", !.full = TRUE, !.background = background,
                     !.scope = Collection, !.at = m] \in Pass
    BY DEF Idle, Pass
  <2> QED BY <1>2, <2>1, <2>2 DEF TypeOK, BeginFull
<1> QED BY <1>1, <1>2

(* The read of the remote marker:                                           *)
LEMMA TypeReadMarker == ASSUME TypeOK, NEW t \in Tab, ReadMarker(t) PROVE TypeOK'
<1>1. ASSUME NEW p \in Pass, NEW n \in Nat, NEW b \in BOOLEAN
      PROVE  /\ [p EXCEPT !.before = n, !.absent = b] \in Pass
             /\ [p EXCEPT !.step = "claim"] \in Pass
  BY DEF Pass
<1>2. pass' \in [Tab -> Pass]
  BY <1>1, GoingType DEF TypeOK, ReadMarker
<1> QED BY <1>2 DEF TypeOK, ReadMarker

(* The rest of syncCharacter up to its collections:                         *)
LEMMA TypeBefore ==
    ASSUME TypeOK, NEW t \in Tab,
           Skip(t) \/ Proceed(t) \/ Seed(t) \/ ClearClaim(t) \/ MarkerFails(t)
    PROVE  TypeOK'
<1>1. CASE Skip(t)
  BY <1>1, IdleType DEF TypeOK, Skip
<1>2. CASE Proceed(t)
  BY <1>2, GoingType DEF TypeOK, Proceed
<1>3. CASE Seed(t)
  <2>1. ASSUME NEW p \in Pass PROVE [p EXCEPT !.step = "clear", !.absent = FALSE] \in Pass
    BY DEF Pass
  <2> QED BY <1>3, <2>1 DEF TypeOK, Seed
<1>4. CASE ClearClaim(t)
  <2>1. ASSUME NEW p \in Pass PROVE [p EXCEPT !.step = "sync"] \in Pass
    BY DEF Pass
  <2> QED BY <1>4, <2>1 DEF TypeOK, ClearClaim
<1>5. CASE MarkerFails(t)
  <2>1. ASSUME NEW p \in Pass
        PROVE  [p EXCEPT !.step = "clear", !.before = None, !.absent = FALSE,
                         !.background = FALSE] \in Pass
    BY DEF Pass
  <2>2. pass' \in [Tab -> Pass]
    BY <1>5, <2>1 DEF TypeOK, MarkerFails
  <2>3. exists' \in BOOLEAN
    BY <1>5 DEF TypeOK, MarkerFails
  <2> QED BY <1>5, <2>2, <2>3 DEF TypeOK, MarkerFails
<1> QED BY <1>1, <1>2, <1>3, <1>4, <1>5

(* The tasks of the collections:                                            *)
LEMMA TypeTasks ==
    ASSUME TypeOK, NEW t \in Tab, NEW c \in Collection,
           Read(t, c) \/ Land(t, c) \/ Finish(t, c) \/ TaskFails(t, c)
    PROVE  TypeOK'
<1>1. CASE Read(t, c)
  <2>1. ASSUME NEW p \in Pass, NEW edits \in SUBSET Collection
        PROVE  [p EXCEPT !.read = @ \cup {c}, !.fresh = @ \cup {c},
                         !.sent = @ \cup edits, !.taken = @ \cup edits] \in Pass
    BY DEF Pass
  <2>2. {c} \cap dirty[HomeOf[t]] \in SUBSET Collection
    OBVIOUS
  <2>3. pass' \in [Tab -> Pass]
    <3>1. pass' = [pass EXCEPT ![t] =
              [pass[t] EXCEPT !.read = @ \cup {c}, !.fresh = @ \cup {c},
                              !.sent = @ \cup ({c} \cap dirty[HomeOf[t]]),
                              !.taken = @ \cup ({c} \cap dirty[HomeOf[t]])]]
      BY <1>1 DEF Read
    <3> QED BY <2>1, <2>2, <3>1 DEF TypeOK
  <2> QED BY <1>1, <2>3 DEF TypeOK, Read
<1>2. CASE Land(t, c)
  <2>1. Spoiled(c, {HomeOf[t]}) \in [Tab -> Pass]
    BY SpoiledType DEF TypeOK
  <2>2. ASSUME NEW p \in Pass PROVE [p EXCEPT !.landed = @ \cup {c}] \in Pass
    BY DEF Pass
  <2>3. pass' \in [Tab -> Pass]
    <3>1. pass' = [Spoiled(c, {HomeOf[t]}) EXCEPT ![t] = [pass[t] EXCEPT !.landed = @ \cup {c}]]
      BY <1>2 DEF Land
    <3> QED BY <2>1, <2>2, <3>1 DEF TypeOK
  <2> QED BY <1>2, <2>3 DEF TypeOK, Land, FallBehind
<1>3. CASE Finish(t, c)
  <2>1. ASSUME NEW p \in Pass PROVE [p EXCEPT !.settled = @ \cup {c}] \in Pass
    BY DEF Pass
  <2>2. pass' \in [Tab -> Pass]
    <3>1. pass' = [pass EXCEPT ![t] = [pass[t] EXCEPT !.settled = @ \cup {c}]]
      BY <1>3 DEF Finish
    <3> QED BY <2>1, <3>1 DEF TypeOK
  <2> QED BY <1>3, <2>2 DEF TypeOK, Finish
<1>4. CASE TaskFails(t, c)
  <2>1. ASSUME NEW p \in Pass
        PROVE  [p EXCEPT !.settled = @ \cup {c}, !.fresh = @ \ {c}, !.failed = TRUE] \in Pass
    BY DEF Pass
  <2>2. pass' \in [Tab -> Pass]
    <3>1. pass' = [pass EXCEPT ![t] =
              [pass[t] EXCEPT !.settled = @ \cup {c}, !.fresh = @ \ {c}, !.failed = TRUE]]
      BY <1>4 DEF TaskFails
    <3> QED BY <2>1, <3>1 DEF TypeOK
  <2>3. late' \in [Tab -> SUBSET Collection]
    BY <1>4 DEF TypeOK, TaskFails
  <2> QED BY <1>4, <2>2, <2>3 DEF TypeOK, TaskFails
<1> QED BY <1>1, <1>2, <1>3, <1>4

(* The writes a failed task left running:                                   *)
LEMMA TypeLate ==
    ASSUME TypeOK, NEW t \in Tab, NEW c \in Collection, LateLands(t, c) \/ LateFails(t, c)
    PROVE  TypeOK'
<1>1. CASE LateLands(t, c)
  <2>1. Spoiled(c, {HomeOf[t]}) \in [Tab -> Pass]
    BY SpoiledType DEF TypeOK
  <2>2. ASSUME NEW p \in Pass PROVE [p EXCEPT !.owed = @ \cup {c}] \in Pass
    BY DEF Pass
  <2>3. pass' \in [Tab -> Pass]
    <3> DEFINE p == [pass[t] EXCEPT !.owed = @ \cup {c}]
    <3>1. p \in Pass
      BY <2>2 DEF TypeOK
    <3>2. pass' = [Spoiled(c, {HomeOf[t]}) EXCEPT ![t] = p] \/ pass' = Spoiled(c, {HomeOf[t]})
      BY <1>1 DEF LateLands
    <3> HIDE DEF p
    <3> QED BY <2>1, <3>1, <3>2
  <2>4. hushed' \in [Device -> SUBSET Collection]
    BY <1>1 DEF TypeOK, LateLands
  <2> QED BY <1>1, <2>3, <2>4 DEF TypeOK, LateLands, FallBehind
<1>2. CASE LateFails(t, c)
  BY <1>2 DEF TypeOK, LateFails
<1> QED BY <1>1, <1>2

(* syncCharacter once every collection settled, up to the bump:             *)
LEMMA TypeAfter ==
    ASSUME TypeOK, NEW t \in Tab,
           Settle(t) \/ Void(t) \/ ReadClaim(t) \/ Bump(t) \/ BumpFails(t) \/ Retract(t)
    PROVE  TypeOK'
<1>1. CASE Settle(t)
  <2>1. Goto(pass[t], AfterTasks(pass[t])) \in Pass
    BY GotoType DEF TypeOK, AfterTasks
  <2>2. HomeOf[t] \in Device
    BY SyncMarkerAssumptions DEF SyncMarkerAssumptions
  <2>3. unsent' \in [Device -> SUBSET Collection]
    BY <1>1, <2>2 DEF TypeOK, Settle
  <2>4. UNCHANGED <<marker, exists, claim, lapsed, dirty, late, writes, faults,
                    behind, lost, hushed>>
    BY <1>1 DEF Settle
  <2> QED BY <1>1, <2>1, <2>3, <2>4 DEF TypeOK, Settle
<1>2. CASE Void(t)
  <2>1. Goto(pass[t], IF Pushed(pass[t]) THEN "bump" ELSE "idle") \in Pass
    BY GotoType DEF TypeOK
  <2> QED BY <1>2, <2>1 DEF TypeOK, Void
<1>3. CASE ReadClaim(t)
  <2>1. ASSUME NEW p \in Pass, NEW seen \in Claim \cup {None}
        PROVE  [p EXCEPT !.step = "bump", !.seen = seen] \in Pass
    BY DEF Pass
  <2> QED BY <1>3, <2>1 DEF TypeOK, ReadClaim
<1>4. CASE Bump(t)
  <2>1. ASSUME NEW p \in Pass PROVE [p EXCEPT !.landed = {}, !.owed = {}] \in Pass
    BY DEF Pass
  <2>2. Goto([pass[t] EXCEPT !.landed = {}, !.owed = {}], AfterBump(pass[t])) \in Pass
    BY <2>1, GotoType DEF AfterBump, TypeOK
  <2> QED BY <1>4, <2>2 DEF TypeOK, Bump
<1>5. CASE BumpFails(t)
  <2>1. ASSUME NEW p \in Pass
        PROVE  [p EXCEPT !.step = "retract", !.landed = {}, !.owed = {}] \in Pass
    BY DEF Pass
  <2>2. Unannounced(t) \in [Device -> SUBSET Collection]
    BY DEF TypeOK, Unannounced
  <2>3. pass' \in [Tab -> Pass]
    BY <1>5, <2>1 DEF TypeOK, BumpFails
  <2>4. marker' \in Nat /\ lost' \in [Device -> SUBSET Collection]
    BY <1>5, <2>2 DEF TypeOK, BumpFails
  <2>5. exists' \in BOOLEAN
    BY <1>5, Zenon DEF TypeOK, BumpFails
  <2>6. faults' \in 0..MaxFaults
    BY <1>5 DEF TypeOK, BumpFails
  <2> QED BY <1>5, <2>3, <2>4, <2>5, <2>6 DEF TypeOK, BumpFails
<1>6. CASE Retract(t)
  BY <1>6, IdleType DEF TypeOK, Retract
<1> QED BY <1>1, <1>2, <1>3, <1>4, <1>5, <1>6

(* Its end, or the tab's:                                                   *)
LEMMA TypeEnd ==
    ASSUME TypeOK, NEW t \in Tab, ShapeOf(t), StoreClaim(t) \/ Advance(t) \/ Crash(t)
    PROVE  TypeOK'
<1>1. CASE StoreClaim(t)
  <2>1. pass[t].before # None =>
            [version |-> pass[t].before + (IF Pushed(pass[t]) THEN 1 ELSE 0),
             fullAt |-> pass[t].at] \in Claim
    BY <1>1 DEF TypeOK, ShapeOf, Pass, StoreClaim, Claim
  <2> QED BY <1>1, <2>1, IdleType DEF TypeOK, StoreClaim
<1>2. CASE Advance(t)
  <2>1. claim[HomeOf[t]] = pass[t].seen =>
            [claim[HomeOf[t]] EXCEPT !.version = @ + 1] \in Claim
    BY <1>2 DEF TypeOK, ShapeOf, Pass, Advance, Claim
  <2> QED BY <1>2, <2>1, IdleType DEF TypeOK, Advance
<1>3. CASE Crash(t)
  <2>1. Unannounced(t) \in [Device -> SUBSET Collection]
    BY DEF TypeOK, Unannounced
  <2> QED BY <1>3, <2>1, IdleType DEF TypeOK, Crash
<1> QED BY <1>1, <1>2, <1>3

(* Every step keeps TypeOK.                                                 *)
LEMMA TypeStep == ASSUME TypeOK, \A t \in Tab : ShapeOf(t), [Next]_vars PROVE TypeOK'
<1>1. CASE UNCHANGED vars
  BY <1>1 DEF TypeOK, vars
<1>2. CASE Next
  BY <1>2, TypeEdit, TypeServerWrites, TypeAge, TypeBegin, TypeReadMarker, TypeBefore,
     TypeTasks, TypeLate, TypeAfter, TypeEnd DEF Next, Step, Fault
<1> QED BY <1>1, <1>2

(* Initially every variable has its type.                                   *)
LEMMA TypeInit == Init => TypeOK
<1> SUFFICES ASSUME Init PROVE TypeOK
  OBVIOUS
<1>1. marker \in Nat /\ writes \in 0..MaxWrites /\ faults \in 0..MaxFaults
  BY SyncMarkerAssumptions DEF Init, SyncMarkerAssumptions
<1>2. exists \in BOOLEAN
  BY DEF Init
<1>3. claim \in [Device -> Claim \cup {None}] /\ pass \in [Tab -> Pass]
  BY IdleType DEF Init
<1>4. /\ lapsed \in [Device -> SUBSET Moment] /\ dirty \in [Device -> SUBSET Collection]
      /\ late \in [Tab -> SUBSET Collection] /\ behind \in [Device -> SUBSET Collection]
      /\ lost \in [Device -> SUBSET Collection] /\ hushed \in [Device -> SUBSET Collection]
      /\ unsent \in [Device -> SUBSET Collection]
  BY DEF Init
<1> QED BY <1>1, <1>2, <1>3, <1>4 DEF TypeOK

-----------------------------------------------------------------------------
(***************************************************************************)
(* What a step does to what is missed, and to the passes of the other tabs. *)
(***************************************************************************)

Mono(d) == marker <= marker' /\ (marker' = marker => Missed(d)' \subseteq Missed(d))

(* A step of another tab, as the pass of tab u sees it.                     *)
Kept(u) ==
    LET p == pass[u]
        q == pass'[u]
        d == HomeOf[u]
    IN
    /\ q.step = p.step /\ q.full = p.full /\ q.failed = p.failed
    /\ q.before = p.before /\ q.at = p.at /\ q.seen = p.seen
    /\ q.scope = p.scope /\ q.read = p.read /\ q.settled = p.settled
    /\ q.sent = p.sent /\ q.landed = p.landed /\ q.owed = p.owed
    /\ q.fresh \subseteq p.fresh
    /\ \A c \in p.fresh : c \in q.fresh \/ c \notin Missed(d)'
    /\ \A c \in q.fresh : c \in behind'[d] => c \in behind[d]

(* Missed, member by member, before and after a step.                       *)
LEMMA MissedMembers ==
    ASSUME NEW d, NEW c
    PROVE  /\ c \in Missed(d) <=>
                /\ c \in behind[d] /\ c \notin lost[d] /\ c \notin hushed[d]
                /\ \A u \in Tab : HomeOf[u] # d => c \notin Owed(u)
           /\ c \in Missed(d)' <=>
                /\ c \in behind'[d] /\ c \notin lost'[d] /\ c \notin hushed'[d]
                /\ \A u \in Tab : HomeOf[u] # d => c \notin Owed(u)'
<1>1. c \in Pending(d) <=> \E u \in Tab : HomeOf[u] # d /\ c \in Owed(u)
  BY DEF Pending
<1>2. c \in Pending(d)' <=> \E u \in Tab : HomeOf[u] # d /\ c \in Owed(u)'
  BY DEF Pending
<1> QED BY <1>1, <1>2 DEF Missed

(* What was honest stays honest when nothing more is missed.                *)
LEMMA HonestKept ==
    ASSUME NEW d, NEW v \in Nat, Honest(v, d), Mono(d), marker \in Nat, marker' \in Nat
    PROVE  Honest(v, d)'
BY DEF Honest, Mono

(* A bump carries what was honest before it over to the next version.       *)
LEMMA HonestBumped ==
    ASSUME NEW d, NEW v \in Nat, marker \in Nat, marker' = marker + 1, v <= marker,
           v = marker => Missed(d) = {}, Missed(d)' \subseteq Missed(d)
    PROVE  Honest(v, d)' /\ Honest(v + 1, d)'
BY DEF Honest

(* A step of another tab keeps what a pass guarantees.                      *)
LEMMA KeptInv ==
    ASSUME NEW u \in Tab, TypeOK, TypeOK', PassInv(u), Kept(u), Mono(HomeOf[u])
    PROVE  PassInv(u)'
<1> DEFINE p == pass[u]
           q == pass'[u]
           d == HomeOf[u]
<1>1. p \in Pass /\ q \in Pass /\ marker \in Nat /\ marker' \in Nat
  BY DEF TypeOK
<1>2. ShapeOf(u)'
  BY DEF PassInv, ShapeOf, Kept, Owed, Announces, Pushed
<1>3. ReadingOf(u)'
  <2>1. SUFFICES ASSUME Hopeful(q), q.step \in {"claim", "seed", "clear", "sync"}
                 PROVE  /\ q.before <= marker'
                        /\ q.before = marker' => Missed(d)' \cap q.read \subseteq q.fresh
    BY DEF ReadingOf
  <2>2. /\ p.before <= marker
        /\ p.before = marker => Missed(d) \cap p.read \subseteq p.fresh
    BY <2>1 DEF PassInv, ReadingOf, Kept, Hopeful
  <2>3. q.before = p.before /\ p.before \in Nat
    BY <1>1, <2>1 DEF Kept, Hopeful, Pass
  <2>4. q.before <= marker' /\ (q.before = marker' => marker' = marker)
    BY <1>1, <2>2, <2>3 DEF Mono
  <2> QED BY <2>2, <2>3, <2>4 DEF Kept, Mono
<1>4. PulledOf(u)'
  BY DEF PassInv, PulledOf, Kept
<1>5. StoringOf(u)'
  <2>1. SUFFICES ASSUME Hopeful(q), q.step \in {"bump", "store"}, NEW v, v = q.before + Bumped(q)
                 PROVE  Honest(v, d)'
    BY DEF StoringOf, Honest
  <2>2. q.before = p.before /\ p.before \in Nat /\ Bumped(q) = Bumped(p) /\ Bumped(p) \in Nat
    BY <1>1, <2>1 DEF Kept, Hopeful, Pass, Bumped, Pushed
  <2>3. Honest(v, d)
    BY <2>1, <2>2 DEF PassInv, StoringOf, Kept, Hopeful
  <2>4. v \in Nat
    BY <2>1, <2>2
  <2> QED BY <1>1, <2>3, <2>4, HonestKept
<1> QED BY <1>2, <1>3, <1>4, <1>5 DEF PassInv

(* A tab with no pass guarantees all of it.                                 *)
LEMMA IdleInv == ASSUME NEW t \in Tab, pass'[t] = Idle PROVE PassInv(t)'
BY DEF Idle, PassInv, ShapeOf, ReadingOf, PulledOf, StoringOf, Hopeful, Owed

(* A step that changes no ghost, and one pass but not what its bump owes.   *)
LEMMA QuietStep ==
    ASSUME TypeOK, NEW t \in Tab, NEW q, pass' = [pass EXCEPT ![t] = q],
           q.landed \cup q.owed = Owed(t),
           UNCHANGED <<marker, behind, lost, hushed>>
    PROVE  /\ pass'[t] = q
           /\ \A d \in Device : Missed(d)' = Missed(d) /\ Mono(d)
           /\ \A u \in Tab : u # t => Kept(u)
<1>1. pass'[t] = q /\ \A u \in Tab : u # t => pass'[u] = pass[u]
  BY DEF TypeOK
<1>2. \A u \in Tab : Owed(u)' = Owed(u)
  BY <1>1 DEF Owed
<1>3. ASSUME NEW d \in Device PROVE Missed(d)' = Missed(d)
  <2>1. ASSUME NEW c PROVE c \in Missed(d)' <=> c \in Missed(d)
    BY <1>2, MissedMembers
  <2> QED BY <2>1 DEF Missed
<1>4. marker \in Nat /\ marker' = marker
  BY DEF TypeOK
<1>5. \A u \in Tab : u # t => Kept(u)
  BY <1>1 DEF Kept
<1> QED BY <1>1, <1>3, <1>4, <1>5 DEF Mono

(* A pass that begins has read nothing.                                     *)
LEMMA BeginKeeps ==
    ASSUME TypeOK, NEW t \in Tab,
           BeginNarrowed(t) \/ \E background \in BOOLEAN : BeginFull(t, background)
    PROVE  /\ \A d \in Device : Mono(d)
           /\ \A u \in Tab : u # t => Kept(u)
           /\ PassInv(t)'
<1>1. CASE BeginNarrowed(t)
  <2>1. PICK S : pass' = [pass EXCEPT ![t] = [Idle EXCEPT !.step = "sync", !.scope = S]]
    BY <1>1 DEF BeginNarrowed
  <2> DEFINE q == [Idle EXCEPT !.step = "sync", !.scope = S]
  <2>2. /\ q.step = "sync" /\ q.full = FALSE /\ q.settled = {} /\ q.read = {}
        /\ q.landed = {} /\ q.owed = {}
    BY DEF Idle
  <2>3. pass[t] = Idle /\ UNCHANGED <<marker, behind, lost, hushed>>
    BY <1>1 DEF BeginNarrowed
  <2>4. q.landed \cup q.owed = Owed(t)
    BY <2>2, <2>3 DEF Owed, Idle
  <2> HIDE DEF q
  <2>5. /\ pass'[t] = q /\ \A d \in Device : Mono(d)
        /\ \A u \in Tab : u # t => Kept(u)
    BY <2>1, <2>3, <2>4, QuietStep DEF q
  <2>6. PassInv(t)'
    BY <2>2, <2>5 DEF PassInv, ShapeOf, ReadingOf, PulledOf, StoringOf, Hopeful, Owed
  <2> QED BY <2>5, <2>6
<1>2. ASSUME NEW background \in BOOLEAN, BeginFull(t, background)
      PROVE  /\ \A d \in Device : Mono(d)
             /\ \A u \in Tab : u # t => Kept(u)
             /\ PassInv(t)'
  <2>1. PICK m \in Moment : pass' = [pass EXCEPT ![t] =
            [Idle EXCEPT !.step = "marker", !.full = TRUE, !.background = background,
                         !.scope = Collection, !.at = m]]
    BY <1>2 DEF BeginFull
  <2> DEFINE q == [Idle EXCEPT !.step = "marker", !.full = TRUE, !.background = background,
                               !.scope = Collection, !.at = m]
  <2>2. /\ q.step = "marker" /\ q.at = m /\ q.scope = Collection /\ q.settled = {}
        /\ q.read = {} /\ q.landed = {} /\ q.owed = {}
    BY DEF Idle
  <2>3. pass[t] = Idle /\ UNCHANGED <<marker, behind, lost, hushed>>
    BY <1>2 DEF BeginFull
  <2>4. q.landed \cup q.owed = Owed(t)
    BY <2>2, <2>3 DEF Owed, Idle
  <2> HIDE DEF q
  <2>5. /\ pass'[t] = q /\ \A d \in Device : Mono(d)
        /\ \A u \in Tab : u # t => Kept(u)
    BY <2>1, <2>3, <2>4, QuietStep DEF q
  <2>6. PassInv(t)'
    BY <2>2, <2>5 DEF PassInv, ShapeOf, ReadingOf, PulledOf, StoringOf, Hopeful, Owed
  <2> QED BY <2>5, <2>6
<1> QED BY <1>1, <1>2

(* A quiet step that only brings the pass nearer to its collections.        *)
Nearer(p, q) ==
    /\ q.step \in {"claim", "seed", "clear", "sync"}
    /\ q.before = p.before \/ q.before = None
    /\ q.full = p.full /\ q.at = p.at /\ q.scope = p.scope /\ q.read = p.read
    /\ q.settled = p.settled /\ q.fresh = p.fresh /\ q.failed = p.failed
    /\ q.landed = p.landed /\ q.owed = p.owed

(* The steps up to the collections are such steps.                          *)
LEMMA NearerSteps ==
    ASSUME NEW p \in Pass
    PROVE  /\ Nearer(p, Going(p)) /\ Nearer(p, [p EXCEPT !.step = "claim"])
           /\ Nearer(p, [p EXCEPT !.step = "clear", !.absent = FALSE])
           /\ Nearer(p, [p EXCEPT !.step = "clear", !.before = None,
                                  !.absent = FALSE, !.background = FALSE])
           /\ Nearer(p, [p EXCEPT !.step = "sync"])
BY DEF Nearer, Going, Pass

(* They keep the invariant; reading the marker starts Reading.              *)
LEMMA ApproachKeeps ==
    ASSUME TypeOK, NEW t \in Tab, PassInv(t),
           ReadMarker(t) \/ Proceed(t) \/ Seed(t) \/ MarkerFails(t) \/ ClearClaim(t)
    PROVE  /\ \A d \in Device : Mono(d)
           /\ \A u \in Tab : u # t => Kept(u)
           /\ PassInv(t)'
<1> DEFINE p == pass[t]
           r == [p EXCEPT !.before = marker, !.absent = ~exists]
<1>0. p \in Pass
  BY DEF TypeOK
<1>1. PICK q :
        /\ pass' = [pass EXCEPT ![t] = q]
        /\ p.step \in {"marker", "claim", "seed", "clear"}
        /\ (p.step # "marker" /\ Nearer(p, q)) \/ Nearer(r, q) \/ (Nearer(p, q) /\ q.before = None)
  <2>2. CASE ReadMarker(t)
    <3>1. r \in Pass
      BY <1>0 DEF Pass, TypeOK
    <3>2. pass' = [pass EXCEPT ![t] =
              IF r.background THEN [r EXCEPT !.step = "claim"] ELSE Going(r)]
      BY <2>2 DEF ReadMarker
    <3>3. Nearer(r, IF r.background THEN [r EXCEPT !.step = "claim"] ELSE Going(r))
      BY <3>1, NearerSteps
    <3> HIDE DEF r
    <3> QED BY <2>2, <3>2, <3>3 DEF ReadMarker
  <2>3. CASE Proceed(t)
    <3>1. Nearer(p, Going(p))
      BY <1>0, NearerSteps
    <3> QED BY <2>3, <3>1 DEF Proceed
  <2>4. CASE Seed(t)
    <3>1. Nearer(p, [p EXCEPT !.step = "clear", !.absent = FALSE])
      BY <1>0, NearerSteps
    <3> QED BY <2>4, <3>1 DEF Seed
  <2>5. CASE MarkerFails(t)
    <3> DEFINE q == [p EXCEPT !.step = "clear", !.before = None,
                              !.absent = FALSE, !.background = FALSE]
    <3>1. Nearer(p, q) /\ q.before = None
      BY <1>0, NearerSteps DEF Pass
    <3>2. pass' = [pass EXCEPT ![t] = q] /\ p.step \in {"marker", "seed"}
      BY <2>5 DEF MarkerFails
    <3> HIDE DEF q
    <3> QED BY <3>1, <3>2
  <2>6. CASE ClearClaim(t)
    <3>1. Nearer(p, [p EXCEPT !.step = "sync"])
      BY <1>0, NearerSteps
    <3> QED BY <2>6, <3>1 DEF ClearClaim
  <2> QED BY <2>2, <2>3, <2>4, <2>5, <2>6
<1>2. /\ r.before = marker /\ r.full = p.full /\ r.at = p.at /\ r.scope = p.scope
      /\ r.read = p.read /\ r.settled = p.settled /\ r.fresh = p.fresh
      /\ r.failed = p.failed /\ r.landed = p.landed /\ r.owed = p.owed
  BY <1>0 DEF Pass
<1> HIDE DEF r
<1>3. /\ q.step \in {"claim", "seed", "clear", "sync"}
      /\ \/ q.before = p.before /\ p.step # "marker"
         \/ q.before = marker
         \/ q.before = None
      /\ q.full = p.full /\ q.at = p.at /\ q.scope = p.scope /\ q.read = p.read
      /\ q.settled = p.settled /\ q.fresh = p.fresh /\ q.failed = p.failed
      /\ q.landed = p.landed /\ q.owed = p.owed
  BY <1>1, <1>2 DEF Nearer
<1>4. UNCHANGED <<marker, behind, lost, hushed>>
  BY DEF ReadMarker, Proceed, Seed, MarkerFails, ClearClaim
<1>5. q.landed \cup q.owed = Owed(t)
  BY <1>3 DEF Owed
<1>6. /\ pass'[t] = q /\ \A d \in Device : Mono(d) /\ Missed(d)' = Missed(d)
      /\ \A u \in Tab : u # t => Kept(u)
  BY <1>1, <1>4, <1>5, QuietStep
<1>7. p.read = {} /\ p.settled = {} /\ (p.full => p.scope = Collection /\ p.at \in Moment)
      /\ p.landed = {} /\ p.owed = {}
  BY <1>1 DEF PassInv, ShapeOf, Owed, Announces
<1>8. marker \in Nat /\ marker' = marker
  BY <1>4 DEF TypeOK
<1>9. ReadingOf(t)'
  BY <1>1, <1>3, <1>6, <1>7, <1>8 DEF PassInv, ReadingOf, Hopeful
<1>10. ShapeOf(t)'
  BY <1>6, <1>7, <1>3 DEF ShapeOf, Owed
<1>11. PulledOf(t)'
  BY <1>6, <1>7, <1>3 DEF PulledOf
<1>12. StoringOf(t)'
  BY <1>6, <1>3 DEF StoringOf
<1> QED BY <1>6, <1>9, <1>10, <1>11, <1>12 DEF PassInv

(* The pass ends without a bump to come.                                    *)
LEMMA EndKeeps ==
    ASSUME TypeOK, NEW t \in Tab, PassInv(t),
           Skip(t) \/ Retract(t) \/ StoreClaim(t) \/ Advance(t)
    PROVE  /\ \A d \in Device : Mono(d)
           /\ \A u \in Tab : u # t => Kept(u)
           /\ PassInv(t)'
<1>1. /\ pass' = [pass EXCEPT ![t] = Idle]
      /\ pass[t].step \in {"claim", "retract", "store", "advance"}
      /\ UNCHANGED <<marker, behind, lost, hushed>>
  BY DEF Skip, Retract, StoreClaim, Advance
<1>2. Owed(t) = {}
  BY <1>1 DEF PassInv, ShapeOf, Announces
<1>3. Idle.landed \cup Idle.owed = Owed(t)
  BY <1>2 DEF Idle
<1>4. /\ pass'[t] = Idle /\ \A d \in Device : Mono(d)
      /\ \A u \in Tab : u # t => Kept(u)
  BY <1>1, <1>3, QuietStep
<1> QED BY <1>4, IdleInv

(* A collection that is read now is fresh.                                  *)
LEMMA ReadKeeps ==
    ASSUME TypeOK, NEW t \in Tab, NEW c \in Collection, PassInv(t), Read(t, c)
    PROVE  /\ \A d \in Device : Mono(d)
           /\ \A u \in Tab : u # t => Kept(u)
           /\ PassInv(t)'
<1> DEFINE p == pass[t]
           q == [p EXCEPT !.read = @ \cup {c}, !.fresh = @ \cup {c},
                          !.sent = @ \cup ({c} \cap dirty[HomeOf[t]]),
                          !.taken = @ \cup ({c} \cap dirty[HomeOf[t]])]
<1>1. /\ q.read = p.read \cup {c} /\ q.fresh = p.fresh \cup {c} /\ p.sent \subseteq q.sent
      /\ q.step = p.step /\ q.full = p.full /\ q.failed = p.failed /\ q.before = p.before
      /\ q.at = p.at /\ q.scope = p.scope /\ q.settled = p.settled
      /\ q.landed = p.landed /\ q.owed = p.owed
  BY DEF TypeOK, Pass
<1>2. /\ pass' = [pass EXCEPT ![t] = q] /\ p.step = "sync" /\ c \notin p.settled
      /\ UNCHANGED <<marker, behind, lost, hushed>>
  BY DEF Read
<1> HIDE DEF q
<1>3. q.landed \cup q.owed = Owed(t)
  BY <1>1 DEF Owed
<1>4. /\ pass'[t] = q /\ \A d \in Device : Mono(d) /\ Missed(d)' = Missed(d)
      /\ \A u \in Tab : u # t => Kept(u)
  BY <1>2, <1>3, QuietStep
<1>5. ShapeOf(t)'
  BY <1>1, <1>2, <1>4 DEF PassInv, ShapeOf, Owed, Announces, Pushed
<1>6. ReadingOf(t)'
  BY <1>1, <1>2, <1>4 DEF PassInv, ReadingOf, Hopeful
<1>7. PulledOf(t)'
  BY <1>1, <1>2, <1>4 DEF PassInv, PulledOf
<1>8. StoringOf(t)'
  BY <1>1, <1>2, <1>4 DEF StoringOf
<1> QED BY <1>4, <1>5, <1>6, <1>7, <1>8 DEF PassInv

(* A pass with a failed task hopes for no claim.                            *)
LEMMA TaskFailsKeeps ==
    ASSUME TypeOK, NEW t \in Tab, NEW c \in Collection, PassInv(t), TaskFails(t, c)
    PROVE  /\ \A d \in Device : Mono(d)
           /\ \A u \in Tab : u # t => Kept(u)
           /\ PassInv(t)'
<1> DEFINE p == pass[t]
           q == [p EXCEPT !.settled = @ \cup {c}, !.fresh = @ \ {c}, !.failed = TRUE]
<1>1. /\ q.failed = TRUE /\ q.step = p.step /\ q.full = p.full /\ q.sent = p.sent
      /\ q.at = p.at /\ q.scope = p.scope /\ q.landed = p.landed /\ q.owed = p.owed
  BY DEF TypeOK, Pass
<1>2. /\ pass' = [pass EXCEPT ![t] = q] /\ p.step = "sync"
      /\ UNCHANGED <<marker, behind, lost, hushed>>
  BY DEF TaskFails
<1> HIDE DEF q
<1>3. q.landed \cup q.owed = Owed(t)
  BY <1>1 DEF Owed
<1>4. /\ pass'[t] = q /\ \A d \in Device : Mono(d)
      /\ \A u \in Tab : u # t => Kept(u)
  BY <1>2, <1>3, QuietStep
<1>5. ShapeOf(t)'
  BY <1>1, <1>2, <1>4 DEF PassInv, ShapeOf, Owed, Announces, Pushed
<1>6. ReadingOf(t)' /\ PulledOf(t)' /\ StoringOf(t)'
  BY <1>1, <1>2, <1>4 DEF ReadingOf, PulledOf, StoringOf, Hopeful
<1> QED BY <1>4, <1>5, <1>6 DEF PassInv

(* What a pass keeps once its collections have settled.                     *)
LEMMA GotoFields ==
    ASSUME NEW p \in Pass, NEW step \in {"void", "bump", "count", "store", "advance"}
    PROVE  LET q == Goto(p, step) IN
           /\ q.step = step /\ q.full = p.full /\ q.failed = p.failed /\ q.at = p.at
           /\ q.before = p.before /\ q.seen = p.seen /\ q.sent = p.sent
           /\ q.landed = p.landed /\ q.owed = p.owed
BY DEF Goto, Pass

(* When every collection is settled, a full pass has missed nothing.        *)
LEMMA AllPulled ==
    ASSUME TypeOK, NEW t \in Tab, PassInv(t), AllSettled(t), Hopeful(pass[t])
    PROVE  /\ pass[t].before \in Nat /\ pass[t].before <= marker
           /\ pass[t].before = marker => Missed(HomeOf[t]) = {}
<1> DEFINE p == pass[t]
           d == HomeOf[t]
<1>1. p \in Pass /\ p.step = "sync" /\ p.settled = Collection /\ ~p.failed
  BY DEF TypeOK, AllSettled, PassInv, ShapeOf, Hopeful
<1>2. p.before \in Nat
  BY <1>1 DEF Pass, Hopeful
<1>3. p.before <= marker /\ (p.before = marker => Missed(d) \cap p.read \subseteq p.fresh)
  BY <1>1 DEF PassInv, ReadingOf
<1>4. p.read = Collection /\ \A c \in p.settled \cap p.fresh : c \notin behind[d]
  BY <1>1 DEF PassInv, PulledOf, Pass
<1>5. d \in Device
  BY SyncMarkerAssumptions DEF SyncMarkerAssumptions
<1>6. Missed(d) \subseteq Collection /\ Missed(d) \subseteq behind[d]
  BY <1>5 DEF TypeOK, Missed
<1> QED BY <1>1, <1>2, <1>3, <1>4, <1>6

(* So the marker it read may be stored, or bumped.                          *)
LEMMA SettleKeeps ==
    ASSUME TypeOK, NEW t \in Tab, PassInv(t), Settle(t)
    PROVE  /\ \A d \in Device : Mono(d)
           /\ \A u \in Tab : u # t => Kept(u)
           /\ PassInv(t)'
<1> DEFINE p == pass[t]
           step == AfterTasks(p)
           q == Goto(p, step)
<1>1. p \in Pass /\ p.step = "sync" /\ AllSettled(t)
  BY DEF TypeOK, Settle, AllSettled
<1>2. pass' = [pass EXCEPT ![t] = q] /\ UNCHANGED <<marker, behind, lost, hushed>>
  BY DEF Settle
<1>3. CASE step = "idle"
  <2>1. q = Idle
    BY <1>3 DEF Goto
  <2>2. Owed(t) = {}
    BY <1>3 DEF AfterTasks, PassInv, ShapeOf, Announces
  <2>3. Idle.landed \cup Idle.owed = Owed(t)
    BY <2>2 DEF Idle
  <2> HIDE DEF q
  <2> QED BY <1>2, <2>1, <2>3, QuietStep, IdleInv
<1>4. CASE step # "idle"
  <2>1. /\ step \in {"void", "bump", "count", "store"}
        /\ step = "void" <=> p.failed
        /\ step = "store" => p.full /\ ~Pushed(p)
        /\ step = "count" => ~p.full
        /\ step # "store" /\ step # "void" => Pushed(p)
    BY <1>1, <1>4 DEF AfterTasks, Pass
  <2>2. /\ q.step = step /\ q.full = p.full /\ q.failed = p.failed /\ q.at = p.at
        /\ q.before = p.before /\ q.sent = p.sent /\ q.landed = p.landed /\ q.owed = p.owed
    BY <1>1, <2>1, GotoFields
  <2> HIDE DEF q, step
  <2>3. q.landed \cup q.owed = Owed(t)
    BY <2>2 DEF Owed
  <2>4. /\ pass'[t] = q /\ \A d \in Device : Mono(d) /\ Missed(d)' = Missed(d)
        /\ \A u \in Tab : u # t => Kept(u)
    BY <1>2, <2>3, QuietStep
  <2>5. ShapeOf(t)'
    BY <1>1, <2>1, <2>2, <2>4 DEF PassInv, ShapeOf, Owed, Announces, Pushed
  <2>6. ReadingOf(t)' /\ PulledOf(t)'
    BY <2>1, <2>2, <2>4 DEF ReadingOf, PulledOf
  <2>7. StoringOf(t)'
    <3>1. HomeOf[t] \in Device
      BY SyncMarkerAssumptions DEF SyncMarkerAssumptions
    <3>2. Hopeful(q) => Hopeful(p) /\ q.before \in Nat
      BY <1>1, <2>2 DEF Hopeful, Pass
    <3>3. Hopeful(q) => q.before <= marker /\ (q.before = marker => Missed(HomeOf[t]) = {})
      BY <1>1, <2>2, <3>2, AllPulled
    <3>4. Bumped(q) = 0
      BY <2>1, <2>2 DEF Bumped, Pushed
    <3> QED BY <1>2, <2>4, <3>1, <3>2, <3>3, <3>4 DEF StoringOf, Honest
  <2> QED BY <2>4, <2>5, <2>6, <2>7 DEF PassInv
<1> QED BY <1>3, <1>4

(* A failed pass still owes its bump.                                       *)
LEMMA VoidKeeps ==
    ASSUME TypeOK, NEW t \in Tab, PassInv(t), Void(t)
    PROVE  /\ \A d \in Device : Mono(d)
           /\ \A u \in Tab : u # t => Kept(u)
           /\ PassInv(t)'
<1> DEFINE p == pass[t]
           q == Goto(p, IF Pushed(p) THEN "bump" ELSE "idle")
<1>1. p \in Pass /\ p.step = "void" /\ p.failed
  BY DEF TypeOK, Void, PassInv, ShapeOf
<1>2. pass' = [pass EXCEPT ![t] = q] /\ UNCHANGED <<marker, behind, lost, hushed>>
  BY DEF Void
<1>3. CASE ~Pushed(p)
  <2>1. q = Idle
    BY <1>3 DEF Goto
  <2>2. Idle.landed \cup Idle.owed = Owed(t)
    BY <1>3 DEF PassInv, ShapeOf, Announces, Idle
  <2> HIDE DEF q
  <2> QED BY <1>2, <2>1, <2>2, QuietStep, IdleInv
<1>4. CASE Pushed(p)
  <2>1. /\ q.step = "bump" /\ q.full = p.full /\ q.failed = p.failed /\ q.at = p.at
        /\ q.sent = p.sent /\ q.landed = p.landed /\ q.owed = p.owed
    BY <1>1, <1>4, GotoFields
  <2> HIDE DEF q
  <2>2. q.landed \cup q.owed = Owed(t)
    BY <2>1 DEF Owed
  <2>3. /\ pass'[t] = q /\ \A d \in Device : Mono(d)
        /\ \A u \in Tab : u # t => Kept(u)
    BY <1>2, <2>2, QuietStep
  <2>4. ShapeOf(t)'
    BY <1>1, <1>4, <2>1, <2>3 DEF PassInv, ShapeOf, Announces, Pushed
  <2>5. ReadingOf(t)' /\ PulledOf(t)' /\ StoringOf(t)'
    BY <1>1, <2>1, <2>3 DEF ReadingOf, PulledOf, StoringOf, Hopeful
  <2> QED BY <2>3, <2>4, <2>5 DEF PassInv
<1> QED BY <1>3, <1>4

(* Reading the claim before a narrowed pass's bump.                         *)
LEMMA ReadClaimKeeps ==
    ASSUME TypeOK, NEW t \in Tab, PassInv(t), ReadClaim(t)
    PROVE  /\ \A d \in Device : Mono(d)
           /\ \A u \in Tab : u # t => Kept(u)
           /\ PassInv(t)'
<1> DEFINE p == pass[t]
           q == [p EXCEPT !.step = "bump", !.seen = claim[HomeOf[t]]]
<1>1. /\ q.step = "bump" /\ q.full = p.full /\ q.at = p.at
      /\ q.sent = p.sent /\ q.landed = p.landed /\ q.owed = p.owed
  BY DEF TypeOK, Pass
<1>2. /\ pass' = [pass EXCEPT ![t] = q] /\ p.step = "count"
      /\ UNCHANGED <<marker, behind, lost, hushed>>
  BY DEF ReadClaim
<1> HIDE DEF q
<1>3. q.landed \cup q.owed = Owed(t)
  BY <1>1 DEF Owed
<1>4. /\ pass'[t] = q /\ \A d \in Device : Mono(d)
      /\ \A u \in Tab : u # t => Kept(u)
  BY <1>2, <1>3, QuietStep
<1>5. ~p.full
  BY <1>2 DEF PassInv, ShapeOf
<1>6. ShapeOf(t)'
  BY <1>1, <1>2, <1>4 DEF PassInv, ShapeOf, Owed, Announces, Pushed
<1>7. ReadingOf(t)' /\ PulledOf(t)' /\ StoringOf(t)'
  BY <1>1, <1>4, <1>5 DEF ReadingOf, PulledOf, StoringOf, Hopeful
<1> QED BY <1>4, <1>6, <1>7 DEF PassInv

(* A step that gives t the pass q leaves the others alone.                  *)
LEMMA OthersOwed ==
    ASSUME TypeOK, NEW t \in Tab, NEW q, pass' = [pass EXCEPT ![t] = q]
    PROVE  /\ pass'[t] = q
           /\ \A u \in Tab : u # t => pass'[u] = pass[u] /\ Owed(u)' = Owed(u)
BY DEF TypeOK, Owed

(* A bump announces what the pass owed, and moves the marker past           *)
(* every claim: a full pass's own claim moves with it.                      *)
LEMMA BumpKeeps ==
    ASSUME TypeOK, NEW t \in Tab, PassInv(t), Bump(t)
    PROVE  /\ \A d \in Device : Mono(d)
           /\ \A u \in Tab : u # t => Kept(u)
           /\ PassInv(t)'
           /\ Missed(HomeOf[t])' \subseteq Missed(HomeOf[t])
<1> DEFINE p == pass[t]
           r == [p EXCEPT !.landed = {}, !.owed = {}]
           step == AfterBump(p)
           q == Goto(r, step)
           d == HomeOf[t]
<1>1. p \in Pass /\ p.step = "bump" /\ marker \in Nat /\ marker' = marker + 1
  BY DEF TypeOK, Bump
<1>2. pass' = [pass EXCEPT ![t] = q] /\ UNCHANGED <<behind, lost, hushed>>
  BY DEF Bump
<1>3. /\ r \in Pass /\ r.landed = {} /\ r.owed = {} /\ r.full = p.full
      /\ r.failed = p.failed /\ r.at = p.at /\ r.before = p.before /\ r.seen = p.seen
      /\ r.sent = p.sent
  BY <1>1 DEF Pass
<1>4. /\ step \in {"idle", "store", "advance"}
      /\ step = "store" => p.full /\ ~p.failed
      /\ step = "advance" => p.seen # None /\ ~p.full
  BY DEF AfterBump
<1> HIDE DEF r, step
<1>5. q.landed = {} /\ q.owed = {}
  <2>1. CASE step = "idle"
    BY <2>1 DEF Goto, Idle
  <2>2. CASE step # "idle"
    BY <1>3, <1>4, <2>2, GotoFields
  <2> QED BY <2>1, <2>2
<1> HIDE DEF q
<1>6. pass'[t] = q /\ \A u \in Tab : u # t => pass'[u] = pass[u] /\ Owed(u)' = Owed(u)
  BY <1>2, OthersOwed
<1>7. Missed(d)' \subseteq Missed(d)
  <2>1. ASSUME NEW c, c \in Missed(d)' PROVE c \in Missed(d)
    BY <1>2, <1>6, <2>1, MissedMembers
  <2> QED BY <2>1
<1>8. \A e \in Device : Mono(e)
  BY <1>1 DEF Mono
<1>9. \A u \in Tab : u # t => Kept(u)
  BY <1>2, <1>6 DEF Kept
<1>10. PassInv(t)'
  <2>1. CASE step = "idle"
    <3>1. q = Idle
      BY <2>1 DEF Goto, q
    <3> QED BY <1>6, <3>1, IdleInv
  <2>2. CASE step # "idle"
    <3>1. /\ q.step = step /\ q.full = p.full /\ q.failed = p.failed /\ q.at = p.at
          /\ q.before = p.before /\ q.seen = p.seen /\ q.sent = p.sent
      BY <1>3, <1>4, <2>2, GotoFields DEF q
    <3>2. ShapeOf(t)'
      BY <1>4, <1>5, <1>6, <2>2, <3>1 DEF PassInv, ShapeOf, Owed
    <3>3. ReadingOf(t)' /\ PulledOf(t)'
      BY <1>4, <1>6, <2>2, <3>1 DEF ReadingOf, PulledOf
    <3>4. StoringOf(t)'
      <4>1. SUFFICES ASSUME Hopeful(q), q.step = "store", NEW v, v = q.before + Bumped(q)
                     PROVE  Honest(v, d)'
        BY <1>4, <1>6, <2>2, <3>1 DEF StoringOf, Honest
      <4>2. Hopeful(p) /\ p.before \in Nat /\ Bumped(p) = 0
        BY <1>1, <3>1, <4>1 DEF Hopeful, Pass, Bumped
      <4>3. p.before <= marker /\ (p.before = marker => Missed(d) = {})
        BY <1>1, <4>2 DEF PassInv, StoringOf, Honest
      <4>4. PICK n \in Nat : n = p.before
        BY <4>2
      <4>5. Honest(n, d)' /\ Honest(n + 1, d)'
        BY <1>1, <1>7, <4>3, <4>4, HonestBumped
      <4>6. v = n \/ v = n + 1
        BY <3>1, <4>1, <4>4 DEF Bumped
      <4> QED BY <4>5, <4>6
    <3> QED BY <3>2, <3>3, <3>4 DEF PassInv
  <2> QED BY <2>1, <2>2
<1> QED BY <1>7, <1>8, <1>9, <1>10

(* What t owes is lost with its pass, or with its bump.                     *)
LEMMA OwedLost ==
    ASSUME TypeOK, NEW t \in Tab, NEW q, pass' = [pass EXCEPT ![t] = q],
           q.landed = {}, q.owed = {},
           \/ marker' = marker + 1 /\ UNCHANGED lost
           \/ lost' = Unannounced(t) /\ UNCHANGED marker,
           UNCHANGED <<behind, hushed>>
    PROVE  /\ pass'[t] = q
           /\ \A d \in Device : Mono(d)
           /\ \A u \in Tab : u # t => Kept(u)
<1>1. pass'[t] = q /\ \A u \in Tab : u # t => pass'[u] = pass[u] /\ Owed(u)' = Owed(u)
  BY OthersOwed
<1>2. ASSUME NEW d \in Device PROVE Mono(d)
  <2>1. CASE marker' = marker + 1
    BY <2>1 DEF Mono, TypeOK
  <2>2. CASE lost' = Unannounced(t) /\ UNCHANGED marker
    <3>1. lost'[d] = lost[d] \cup (behind[d] \cap Owed(t))
      BY <2>2 DEF Unannounced
    <3>2. ASSUME NEW c, c \in Missed(d)' PROVE c \in Missed(d)
      <4>1. /\ c \in behind[d] /\ c \notin lost[d] /\ c \notin hushed[d] /\ c \notin Owed(t)
            /\ \A u \in Tab : u # t /\ HomeOf[u] # d => c \notin Owed(u)
        BY <1>1, <3>1, <3>2, MissedMembers
      <4> QED BY <4>1, MissedMembers
    <3> QED BY <2>2, <3>2 DEF Mono, TypeOK
  <2> QED BY <2>1, <2>2
<1>3. \A u \in Tab : u # t => Kept(u)
  BY <1>1 DEF Kept
<1> QED BY <1>1, <1>2, <1>3

(* A failed bump and a closed tab.                                          *)
LEMMA BumpFailsKeeps ==
    ASSUME TypeOK, NEW t \in Tab, PassInv(t), BumpFails(t) \/ Crash(t)
    PROVE  /\ \A d \in Device : Mono(d)
           /\ \A u \in Tab : u # t => Kept(u)
           /\ PassInv(t)'
<1> DEFINE p == pass[t]
<1>1. CASE BumpFails(t)
  <2> DEFINE q == [p EXCEPT !.step = "retract", !.landed = {}, !.owed = {}]
  <2>1. /\ q.step = "retract" /\ q.landed = {} /\ q.owed = {}
        /\ q.full = p.full /\ q.at = p.at
    BY DEF TypeOK, Pass
  <2>2. /\ pass' = [pass EXCEPT ![t] = q]
        /\ \/ marker' = marker + 1 /\ UNCHANGED lost
           \/ lost' = Unannounced(t) /\ UNCHANGED marker
        /\ UNCHANGED <<behind, hushed>>
    BY <1>1 DEF BumpFails
  <2> HIDE DEF q
  <2>3. /\ pass'[t] = q /\ \A d \in Device : Mono(d)
        /\ \A u \in Tab : u # t => Kept(u)
    BY <2>1, <2>2, OwedLost
  <2>4. ShapeOf(t)'
    BY <2>1, <2>3 DEF PassInv, ShapeOf, Owed
  <2>5. ReadingOf(t)' /\ PulledOf(t)' /\ StoringOf(t)'
    BY <2>1, <2>3 DEF ReadingOf, PulledOf, StoringOf
  <2> QED BY <2>3, <2>4, <2>5 DEF PassInv
<1>2. CASE Crash(t)
  <2>1. /\ pass' = [pass EXCEPT ![t] = Idle] /\ Idle.landed = {} /\ Idle.owed = {}
        /\ lost' = Unannounced(t) /\ UNCHANGED <<marker, behind, hushed>>
    BY <1>2 DEF Crash, Idle
  <2>2. /\ pass'[t] = Idle /\ \A d \in Device : Mono(d)
        /\ \A u \in Tab : u # t => Kept(u)
    BY <2>1, OwedLost
  <2> QED BY <2>2, IdleInv
<1> QED BY <1>1, <1>2

(* A remote change of c spoils what the passes of other devices have read,  *)
(* and no device misses it yet.                                             *)
LEMMA SpoiledKeeps ==
    ASSUME TypeOK, NEW c \in Collection, NEW D, NEW u \in Tab,
           pass'[u] = Spoiled(c, D)[u], FallBehind(c, D),
           HomeOf[u] \notin D => c \notin Missed(HomeOf[u])'
    PROVE  Kept(u)
<1> DEFINE p == pass[u]
           q == pass'[u]
           d == HomeOf[u]
<1>1. p \in Pass /\ d \in Device
  BY SyncMarkerAssumptions DEF SyncMarkerAssumptions, TypeOK
<1>2. CASE d \in D
  BY <1>1, <1>2 DEF Kept, Spoiled, FallBehind
<1>3. CASE d \notin D
  <2>1. q = [p EXCEPT !.fresh = @ \ {c}]
    BY <1>3 DEF Spoiled
  <2>2. /\ q.step = p.step /\ q.full = p.full /\ q.failed = p.failed
        /\ q.before = p.before /\ q.at = p.at /\ q.seen = p.seen
        /\ q.scope = p.scope /\ q.read = p.read /\ q.settled = p.settled
        /\ q.sent = p.sent /\ q.landed = p.landed /\ q.owed = p.owed
        /\ q.fresh = p.fresh \ {c}
    BY <1>1, <2>1 DEF Pass
  <2>3. behind'[d] = behind[d] \cup {c}
    BY <1>1, <1>3 DEF FallBehind
  <2> QED BY <1>3, <2>2, <2>3 DEF Kept
<1> QED BY <1>2, <1>3

(* A server's write is missed by nobody: no bump ever announces it.         *)
LEMMA ServerWritesKeeps ==
    ASSUME TypeOK, NEW c \in Collection, ServerWrites(c)
    PROVE  /\ \A d \in Device : Mono(d)
           /\ \A u \in Tab : Kept(u)
<1>1. /\ pass' = Spoiled(c, {}) /\ FallBehind(c, {})
      /\ lost' = [d \in Device |-> lost[d] \cup {c}]
      /\ UNCHANGED <<marker, hushed>>
  BY DEF ServerWrites
<1>2. \A u \in Tab : Owed(u)' = Owed(u)
  <2>1. ASSUME NEW p \in Pass
        PROVE  LET q == [p EXCEPT !.fresh = @ \ {c}] IN q.landed = p.landed /\ q.owed = p.owed
    BY DEF Pass
  <2> QED BY <1>1, <2>1 DEF Spoiled, Owed, TypeOK
<1>3. ASSUME NEW d \in Device PROVE Mono(d) /\ c \notin Missed(d)'
  <2>1. lost'[d] = lost[d] \cup {c} /\ behind'[d] = behind[d] \cup {c}
    BY <1>1 DEF FallBehind
  <2>2. c \notin Missed(d)'
    BY <2>1, MissedMembers
  <2>3. ASSUME NEW e, e \in Missed(d)' PROVE e \in Missed(d)
    BY <1>1, <1>2, <2>1, <2>2, <2>3, MissedMembers
  <2> QED BY <1>1, <2>2, <2>3 DEF Mono, TypeOK
<1>4. ASSUME NEW u \in Tab PROVE Kept(u)
  <2>1. HomeOf[u] \in Device
    BY SyncMarkerAssumptions DEF SyncMarkerAssumptions
  <2> QED BY <1>1, <1>3, <2>1, SpoiledKeeps
<1> QED BY <1>3, <1>4

(* A write of t lands, and is owed or hushed.                               *)
LEMMA WriteKeeps ==
    ASSUME TypeOK, NEW t \in Tab, NEW c \in Collection, NEW q,
           pass' = [Spoiled(c, {HomeOf[t]}) EXCEPT ![t] = q],
           FallBehind(c, {HomeOf[t]}), UNCHANGED <<marker, lost>>,
           Owed(t) \subseteq q.landed \cup q.owed,
           \/ c \in q.landed \cup q.owed /\ UNCHANGED hushed
           \/ hushed' = [d \in Device |-> IF d \in {HomeOf[t]} THEN hushed[d]
                                          ELSE hushed[d] \cup {c}]
    PROVE  /\ pass'[t] = q
           /\ behind'[HomeOf[t]] = behind[HomeOf[t]]
           /\ \A d \in Device : Mono(d)
           /\ \A u \in Tab : u # t => Kept(u)
<1> DEFINE D == {HomeOf[t]}
<1>1. pass'[t] = q /\ \A u \in Tab : u # t => pass'[u] = Spoiled(c, D)[u]
  BY DEF Spoiled
<1>2. HomeOf[t] \in Device
  BY SyncMarkerAssumptions DEF SyncMarkerAssumptions
<1>3. \A u \in Tab : Owed(u) \subseteq Owed(u)'
  <2>1. ASSUME NEW p \in Pass
        PROVE  LET r == [p EXCEPT !.fresh = @ \ {c}] IN r.landed = p.landed /\ r.owed = p.owed
    BY DEF Pass
  <2>2. \A u \in Tab : u # t => Owed(u)' = Owed(u)
    BY <1>1, <2>1 DEF Spoiled, Owed, TypeOK
  <2>3. Owed(t) \subseteq Owed(t)'
    BY <1>1 DEF Owed
  <2> QED BY <2>2, <2>3
<1>4. ASSUME NEW d \in Device, d \notin D PROVE Mono(d) /\ c \notin Missed(d)'
  <2>1. behind'[d] = behind[d] \cup {c} /\ lost'[d] = lost[d] /\ hushed[d] \subseteq hushed'[d]
    BY <1>4 DEF FallBehind
  <2>2. c \in Owed(t)' \/ c \in hushed'[d]
    BY <1>1, <1>4 DEF Owed
  <2>3. c \notin Missed(d)'
    BY <1>4, <2>2, MissedMembers
  <2>4. ASSUME NEW e, e \in Missed(d)' PROVE e \in Missed(d)
    BY <1>3, <2>1, <2>3, <2>4, MissedMembers
  <2> QED BY <2>3, <2>4 DEF Mono, TypeOK
<1>5. ASSUME NEW d \in Device, d \in D PROVE Mono(d)
  <2>1. behind'[d] = behind[d] /\ lost'[d] = lost[d] /\ hushed'[d] = hushed[d]
    BY <1>5 DEF FallBehind
  <2>2. ASSUME NEW e, e \in Missed(d)' PROVE e \in Missed(d)
    BY <1>3, <2>1, <2>2, MissedMembers
  <2> QED BY <2>2 DEF Mono, TypeOK
<1>6. ASSUME NEW u \in Tab, u # t PROVE Kept(u)
  <2>1. HomeOf[u] \in Device
    BY SyncMarkerAssumptions DEF SyncMarkerAssumptions
  <2> QED BY <1>1, <1>4, <1>6, <2>1, SpoiledKeeps
<1>7. behind'[HomeOf[t]] = behind[HomeOf[t]]
  BY <1>2 DEF FallBehind
<1> QED BY <1>1, <1>4, <1>5, <1>6, <1>7

(* A pushed collection is owed until the bump.                              *)
LEMMA LandKeeps ==
    ASSUME TypeOK, NEW t \in Tab, NEW c \in Collection, PassInv(t), Land(t, c)
    PROVE  /\ \A d \in Device : Mono(d)
           /\ \A u \in Tab : u # t => Kept(u)
           /\ PassInv(t)'
<1> DEFINE p == pass[t]
           q == [p EXCEPT !.landed = @ \cup {c}]
<1>1. /\ q.landed = p.landed \cup {c} /\ q.owed = p.owed /\ q.sent = p.sent
      /\ q.step = p.step /\ q.full = p.full /\ q.failed = p.failed /\ q.before = p.before
      /\ q.at = p.at /\ q.scope = p.scope /\ q.read = p.read /\ q.fresh = p.fresh
      /\ q.settled = p.settled
  BY DEF TypeOK, Pass
<1>2. /\ pass' = [Spoiled(c, {HomeOf[t]}) EXCEPT ![t] = q]
      /\ FallBehind(c, {HomeOf[t]}) /\ UNCHANGED <<marker, lost, hushed>>
      /\ p.step = "sync" /\ c \in p.sent
  BY DEF Land
<1> HIDE DEF q
<1>3. Owed(t) \subseteq q.landed \cup q.owed /\ c \in q.landed \cup q.owed
  BY <1>1 DEF Owed
<1>4. /\ pass'[t] = q /\ behind'[HomeOf[t]] = behind[HomeOf[t]]
      /\ \A d \in Device : Mono(d)
      /\ \A u \in Tab : u # t => Kept(u)
  BY <1>2, <1>3, WriteKeeps
<1>5. ShapeOf(t)'
  BY <1>1, <1>2, <1>4 DEF PassInv, ShapeOf, Announces, Pushed
<1>6. ReadingOf(t)'
  <2>1. HomeOf[t] \in Device /\ marker' = marker /\ marker \in Nat
    BY <1>2, SyncMarkerAssumptions DEF SyncMarkerAssumptions, TypeOK
  <2>2. Missed(HomeOf[t])' \subseteq Missed(HomeOf[t])
    BY <1>4, <2>1 DEF Mono
  <2> QED BY <1>1, <1>2, <1>4, <2>1, <2>2 DEF PassInv, ReadingOf, Hopeful
<1>7. PulledOf(t)'
  BY <1>1, <1>2, <1>4 DEF PassInv, PulledOf
<1>8. StoringOf(t)'
  BY <1>1, <1>2, <1>4 DEF StoringOf
<1> QED BY <1>4, <1>5, <1>6, <1>7, <1>8 DEF PassInv

(* A collection that finishes is pulled, unless it changed since it was     *)
(* read.                                                                    *)
LEMMA FinishKeeps ==
    ASSUME TypeOK, NEW t \in Tab, NEW c \in Collection, PassInv(t), Finish(t, c)
    PROVE  /\ \A d \in Device : Mono(d)
           /\ \A u \in Tab : u # t => Kept(u)
           /\ PassInv(t)'
<1> DEFINE p == pass[t]
           q == [p EXCEPT !.settled = @ \cup {c}]
           h == HomeOf[t]
<1>1. /\ q.settled = p.settled \cup {c} /\ q.landed = p.landed /\ q.owed = p.owed
      /\ q.sent = p.sent /\ q.step = p.step /\ q.full = p.full /\ q.failed = p.failed
      /\ q.before = p.before /\ q.at = p.at /\ q.scope = p.scope /\ q.read = p.read
      /\ q.fresh = p.fresh
  BY DEF TypeOK, Pass
<1>2. /\ pass' = [pass EXCEPT ![t] = q]
      /\ behind' = [behind EXCEPT ![h] = @ \ ({c} \cap p.fresh)]
      /\ lost' = [lost EXCEPT ![h] = @ \ ({c} \cap p.fresh)]
      /\ hushed' = [hushed EXCEPT ![h] = @ \ ({c} \cap p.fresh)]
      /\ UNCHANGED marker /\ p.step = "sync" /\ c \in p.read
  BY DEF Finish
<1> HIDE DEF q
<1>3. pass'[t] = q /\ \A u \in Tab : u # t => pass'[u] = pass[u] /\ Owed(u)' = Owed(u)
  BY <1>2, OthersOwed
<1>4. \A u \in Tab : Owed(u)' = Owed(u)
  BY <1>1, <1>3 DEF Owed
<1>5. ASSUME NEW d \in Device PROVE behind'[d] \subseteq behind[d] /\ Mono(d)
  <2>1. ASSUME NEW e, e \in behind'[d]
        PROVE  /\ e \in behind[d]
               /\ (e \in lost[d] => e \in lost'[d]) /\ (e \in hushed[d] => e \in hushed'[d])
    BY <1>2, <2>1 DEF TypeOK
  <2>2. ASSUME NEW e, e \in Missed(d)' PROVE e \in Missed(d)
    BY <1>4, <2>1, <2>2, MissedMembers
  <2> QED BY <1>2, <2>1, <2>2 DEF Mono, TypeOK
<1>6. h \in Device /\ \A u \in Tab : HomeOf[u] \in Device
  BY SyncMarkerAssumptions DEF SyncMarkerAssumptions
<1>7. \A u \in Tab : u # t => Kept(u)
  BY <1>3, <1>5, <1>6 DEF Kept
<1>8. ShapeOf(t)'
  BY <1>1, <1>2, <1>3 DEF PassInv, ShapeOf, Owed, Announces, Pushed
<1>9. ReadingOf(t)'
  <2>1. Missed(h)' \subseteq Missed(h)
    BY <1>2, <1>5, <1>6 DEF Mono
  <2> QED BY <1>1, <1>2, <1>3, <2>1 DEF PassInv, ReadingOf, Hopeful
<1>10. PulledOf(t)'
  <2>1. c \in p.fresh => c \notin behind'[h]
    BY <1>2, <1>6 DEF TypeOK
  <2> QED BY <1>1, <1>2, <1>3, <1>5, <1>6, <2>1 DEF PassInv, PulledOf
<1>11. StoringOf(t)'
  BY <1>1, <1>2, <1>3 DEF StoringOf
<1> QED BY <1>5, <1>7, <1>8, <1>9, <1>10, <1>11 DEF PassInv

(* A late write is owed by a bump to come, or hushed.                       *)
LEMMA LateLandsKeeps ==
    ASSUME TypeOK, NEW t \in Tab, NEW c \in Collection, PassInv(t), LateLands(t, c)
    PROVE  /\ \A d \in Device : Mono(d)
           /\ \A u \in Tab : u # t => Kept(u)
           /\ PassInv(t)'
<1> DEFINE p == pass[t]
           h == HomeOf[t]
<1>1. /\ FallBehind(c, {h}) /\ UNCHANGED <<marker, lost>>
      /\ h \in Device
  BY SyncMarkerAssumptions DEF LateLands, SyncMarkerAssumptions
<1>2. PICK q :
        /\ pass' = [Spoiled(c, {h}) EXCEPT ![t] = q]
        /\ q.landed = p.landed /\ p.owed \subseteq q.owed
        /\ q.step = p.step /\ q.full = p.full /\ q.failed = p.failed /\ q.before = p.before
        /\ q.at = p.at /\ q.scope = p.scope /\ q.read = p.read /\ q.fresh = p.fresh
        /\ q.settled = p.settled /\ q.sent = p.sent /\ q.seen = p.seen
        /\ \/ Announces(p) /\ c \in q.owed /\ UNCHANGED hushed
           \/ /\ q.owed = p.owed
              /\ hushed' = [d \in Device |-> IF d \in {h} THEN hushed[d]
                                             ELSE hushed[d] \cup {c}]
  <2>1. CASE Announces(p)
    <3> DEFINE q == [p EXCEPT !.owed = @ \cup {c}]
    <3>1. /\ q.landed = p.landed /\ q.owed = p.owed \cup {c}
          /\ q.step = p.step /\ q.full = p.full /\ q.failed = p.failed /\ q.before = p.before
          /\ q.at = p.at /\ q.scope = p.scope /\ q.read = p.read /\ q.fresh = p.fresh
          /\ q.settled = p.settled /\ q.sent = p.sent /\ q.seen = p.seen
      BY DEF TypeOK, Pass
    <3>2. pass' = [Spoiled(c, {h}) EXCEPT ![t] = q] /\ UNCHANGED hushed
      BY <2>1 DEF LateLands
    <3> HIDE DEF q
    <3> QED BY <2>1, <3>1, <3>2
  <2>2. CASE ~Announces(p)
    <3>1. /\ pass' = Spoiled(c, {h})
          /\ hushed' = [d \in Device |-> IF d \in {h} THEN hushed[d] ELSE hushed[d] \cup {c}]
      BY <2>2 DEF LateLands
    <3>2. Spoiled(c, {h}) = [Spoiled(c, {h}) EXCEPT ![t] = p]
      BY DEF Spoiled
    <3> QED BY <3>1, <3>2
  <2> QED BY <2>1, <2>2
<1>3. Owed(t) \subseteq q.landed \cup q.owed
  BY <1>2 DEF Owed
<1>4. /\ pass'[t] = q /\ behind'[h] = behind[h]
      /\ \A d \in Device : Mono(d)
      /\ \A u \in Tab : u # t => Kept(u)
  BY <1>1, <1>2, <1>3, WriteKeeps
<1>5. ShapeOf(t)'
  BY <1>2, <1>4 DEF PassInv, ShapeOf, Owed, Announces, Pushed
<1>6. ReadingOf(t)'
  <2>1. Missed(h)' \subseteq Missed(h)
    BY <1>1, <1>4 DEF Mono
  <2> QED BY <1>1, <1>2, <1>4, <2>1 DEF PassInv, ReadingOf, Hopeful
<1>7. PulledOf(t)'
  BY <1>2, <1>4 DEF PassInv, PulledOf
<1>8. StoringOf(t)'
  <2>1. SUFFICES ASSUME Hopeful(q), q.step \in {"bump", "store"}, NEW v, v = q.before + Bumped(q)
                 PROVE  Honest(v, h)'
    BY <1>4 DEF StoringOf, Honest
  <2>2. p \in Pass /\ marker \in Nat /\ marker' \in Nat
    BY <1>1 DEF TypeOK
  <2>3. Hopeful(p) /\ p.before \in Nat /\ Bumped(q) = Bumped(p) /\ Bumped(p) \in Nat
    BY <1>2, <2>1, <2>2 DEF Hopeful, Pass, Bumped, Pushed
  <2>4. Honest(v, h)
    BY <1>2, <2>1, <2>3 DEF PassInv, StoringOf
  <2>5. v \in Nat
    BY <1>2, <2>1, <2>3
  <2> QED BY <1>1, <1>4, <2>2, <2>4, <2>5, HonestKept
<1> QED BY <1>4, <1>5, <1>6, <1>7, <1>8 DEF PassInv

(* Steps that leave the passes, as the invariant sees them, and the ghosts  *)
(* alone.                                                                   *)
LEMMA NothingMissed ==
    ASSUME TypeOK, UNCHANGED <<marker, behind, lost, hushed>>,
           \/ UNCHANGED pass
           \/ \E d \in Device, c \in Collection : Edit(d, c)
    PROVE  /\ \A d \in Device : Mono(d)
           /\ \A u \in Tab : Kept(u)
<1>1. ASSUME NEW u \in Tab
      PROVE  Kept(u) /\ Owed(u)' = Owed(u)
  <2>1. CASE UNCHANGED pass
    BY <2>1 DEF Kept, Owed
  <2>2. ASSUME NEW d \in Device, NEW c \in Collection, Edit(d, c)
        PROVE  Kept(u) /\ Owed(u)' = Owed(u)
    <3> DEFINE p == pass[u]
               q == [p EXCEPT !.taken = @ \ {c}]
    <3>1. /\ q.step = p.step /\ q.full = p.full /\ q.failed = p.failed
          /\ q.before = p.before /\ q.at = p.at /\ q.seen = p.seen
          /\ q.scope = p.scope /\ q.read = p.read /\ q.settled = p.settled
          /\ q.sent = p.sent /\ q.landed = p.landed /\ q.owed = p.owed
          /\ q.fresh = p.fresh
      BY DEF TypeOK, Pass
    <3>2. pass'[u] = q \/ pass'[u] = p
      BY <2>2 DEF Edit
    <3> HIDE DEF q
    <3> QED BY <3>1, <3>2 DEF Kept, Owed
  <2> QED BY <2>1, <2>2
<1>2. ASSUME NEW d \in Device PROVE Mono(d)
  <2>1. ASSUME NEW e, e \in Missed(d)' PROVE e \in Missed(d)
    BY <1>1, <2>1, MissedMembers
  <2> QED BY <2>1 DEF Mono, TypeOK
<1> QED BY <1>1, <1>2

-----------------------------------------------------------------------------
(***************************************************************************)
(* What a step does to the claims.                                          *)
(***************************************************************************)

ClaimInv == ClaimsHonest /\ Advancing /\ MomentsUnique /\ SeenEarlier

(* A pass that starts no line of claims and counts nothing into one.        *)
Calm(p, q) ==
    /\ q.at = p.at \/ q.at = None
    /\ q.seen = p.seen \/ q.seen = None
    /\ q.step = "advance" => p.step = "advance" /\ q.seen = p.seen

(* Calm steps keep what the claims say.                                     *)
LEMMA CalmClaims ==
    ASSUME TypeOK, TypeOK', ClaimInv,
           \A u \in Tab : pass[u].step = "advance" => pass[u].seen # None,
           \A d \in Device : Mono(d),
           \A d \in Device : claim'[d] = claim[d] \/ claim'[d] = None,
           \A u \in Tab : Calm(pass[u], pass'[u])
    PROVE  ClaimInv'
<1>1. \A u \in Tab : HomeOf[u] \in Device
  BY SyncMarkerAssumptions DEF SyncMarkerAssumptions
<1>2. marker \in Nat /\ marker' \in Nat
  BY DEF TypeOK
<1>3. ClaimsHonest'
  <2>1. SUFFICES ASSUME NEW d \in Device, claim'[d] # None, NEW v, v = claim'[d].version
                 PROVE  Honest(v, d)'
    BY DEF ClaimsHonest, Honest
  <2>2. claim'[d] = claim[d] /\ claim[d] \in Claim /\ v = claim[d].version /\ v \in Nat
    BY <2>1 DEF TypeOK, Claim
  <2>3. Honest(v, d)
    BY <2>1, <2>2 DEF ClaimInv, ClaimsHonest
  <2> QED BY <1>2, <2>2, <2>3, HonestKept
<1>4. Advancing'
  <2>1. SUFFICES ASSUME NEW u \in Tab, pass'[u].step = "advance",
                        claim'[HomeOf[u]] = pass'[u].seen, NEW v, v = pass'[u].seen.version + 1
                 PROVE  Honest(v, HomeOf[u])'
    BY DEF Advancing, Honest
  <2>2. pass[u].step = "advance" /\ pass'[u].seen = pass[u].seen /\ pass[u].seen # None
    BY <2>1 DEF Calm
  <2>3. claim[HomeOf[u]] = pass[u].seen /\ pass[u].seen \in Claim
    BY <1>1, <2>1, <2>2 DEF TypeOK, Pass
  <2>4. Honest(v, HomeOf[u]) /\ v \in Nat
    BY <2>1, <2>2, <2>3 DEF ClaimInv, Advancing, Claim
  <2> QED BY <1>1, <1>2, <2>4, HonestKept
<1>5. MomentsUnique'
  BY <1>1 DEF ClaimInv, MomentsUnique, Calm
<1>6. SeenEarlier'
  BY <1>1 DEF ClaimInv, SeenEarlier, Calm
<1> QED BY <1>3, <1>4, <1>5, <1>6 DEF ClaimInv

(* Nearly every form a pass is given is calm.                               *)
LEMMA CalmUpdates ==
    ASSUME NEW p \in Pass, NEW c, NEW S
    PROVE  /\ Calm(p, p) /\ Calm(p, Idle)
           /\ Calm(p, [Idle EXCEPT !.step = "sync", !.scope = S])
           /\ Calm(p, [p EXCEPT !.taken = @ \ {c}]) /\ Calm(p, [p EXCEPT !.fresh = @ \ {c}])
           /\ Calm(p, [p EXCEPT !.step = "claim"]) /\ Calm(p, Going(p))
           /\ Calm(p, [p EXCEPT !.step = "clear", !.absent = FALSE])
           /\ Calm(p, [p EXCEPT !.step = "clear", !.before = None,
                                !.absent = FALSE, !.background = FALSE])
           /\ Calm(p, [p EXCEPT !.step = "sync"])
           /\ Calm(p, [p EXCEPT !.read = @ \cup {c}, !.fresh = @ \cup {c},
                                !.sent = @ \cup S, !.taken = @ \cup S])
           /\ Calm(p, [p EXCEPT !.landed = @ \cup {c}])
           /\ Calm(p, [p EXCEPT !.owed = @ \cup {c}])
           /\ Calm(p, [p EXCEPT !.settled = @ \cup {c}])
           /\ Calm(p, [p EXCEPT !.settled = @ \cup {c}, !.fresh = @ \ {c}, !.failed = TRUE])
           /\ Calm(p, [p EXCEPT !.step = "retract", !.landed = {}, !.owed = {}])
<1>1. Calm(p, Idle) /\ Calm(p, [Idle EXCEPT !.step = "sync", !.scope = S])
  BY DEF Calm, Idle
<1> QED BY <1>1 DEF Calm, Pass, Going

(* So is a remote change,                                                   *)
LEMMA CalmSpoiled ==
    ASSUME TypeOK, NEW c, NEW D, NEW u \in Tab
    PROVE  Calm(pass[u], Spoiled(c, D)[u])
<1>1. pass[u] \in Pass
  BY DEF TypeOK
<1> QED BY <1>1, CalmUpdates DEF Spoiled

(* One pass becomes q, the others at most spoiled.                          *)
LEMMA CalmUpdate ==
    ASSUME TypeOK, NEW t \in Tab, NEW q, Calm(pass[t], q),
           \/ pass' = [pass EXCEPT ![t] = q]
           \/ \E c, D : pass' = [Spoiled(c, D) EXCEPT ![t] = q]
    PROVE  \A u \in Tab : Calm(pass[u], pass'[u])
<1> SUFFICES ASSUME NEW u \in Tab PROVE Calm(pass[u], pass'[u])
  OBVIOUS
<1>1. CASE pass' = [pass EXCEPT ![t] = q]
  <2>1. pass'[u] = IF u = t THEN q ELSE pass[u]
    BY <1>1 DEF TypeOK
  <2> QED BY <2>1, CalmUpdates DEF TypeOK
<1>2. ASSUME NEW c, NEW D, pass' = [Spoiled(c, D) EXCEPT ![t] = q]
      PROVE  Calm(pass[u], pass'[u])
  <2>1. pass'[u] = IF u = t THEN q ELSE Spoiled(c, D)[u]
    BY <1>2 DEF Spoiled
  <2> QED BY <2>1, CalmSpoiled
<1> QED BY <1>1, <1>2

(* what happens around the passes,                                          *)
LEMMA CalmAround ==
    ASSUME TypeOK,
           \/ UNCHANGED vars
           \/ \E d \in Device : Age(d) \/ \E c \in Collection : Edit(d, c)
           \/ \E c \in Collection : ServerWrites(c)
    PROVE  UNCHANGED claim /\ \A u \in Tab : Calm(pass[u], pass'[u])
<1>1. CASE UNCHANGED vars
  BY <1>1, CalmUpdates DEF vars, TypeOK
<1>2. ASSUME NEW d \in Device, Age(d)
      PROVE  UNCHANGED claim /\ \A u \in Tab : Calm(pass[u], pass'[u])
  BY <1>2, CalmUpdates DEF Age, TypeOK
<1>3. ASSUME NEW d \in Device, NEW c \in Collection, Edit(d, c)
      PROVE  UNCHANGED claim /\ \A u \in Tab : Calm(pass[u], pass'[u])
  <2>1. ASSUME NEW u \in Tab PROVE Calm(pass[u], pass'[u])
    <3>1. pass[u] \in Pass
      BY DEF TypeOK
    <3>2. pass'[u] = pass[u] \/ pass'[u] = [pass[u] EXCEPT !.taken = @ \ {c}]
      BY <1>3 DEF Edit
    <3> QED BY <3>1, <3>2, CalmUpdates
  <2> QED BY <1>3, <2>1 DEF Edit
<1>4. ASSUME NEW c \in Collection, ServerWrites(c)
      PROVE  UNCHANGED claim /\ \A u \in Tab : Calm(pass[u], pass'[u])
  BY <1>4, CalmSpoiled DEF ServerWrites
<1> QED BY <1>1, <1>2, <1>3, <1>4

(* the steps up to the collections,                                         *)
LEMMA CalmApproach ==
    ASSUME TypeOK, NEW t \in Tab,
           \/ BeginNarrowed(t) \/ ReadMarker(t) \/ Skip(t) \/ Proceed(t) \/ Seed(t)
           \/ MarkerFails(t) \/ ClearClaim(t)
    PROVE  /\ \A d \in Device : claim'[d] = claim[d] \/ claim'[d] = None
           /\ \A u \in Tab : Calm(pass[u], pass'[u])
<1> DEFINE p == pass[t]
<1>1. p \in Pass
  BY DEF TypeOK
<1>2. \A d \in Device : claim'[d] = claim[d] \/ claim'[d] = None
  BY DEF BeginNarrowed, ReadMarker, Skip, Proceed, Seed, MarkerFails, ClearClaim, TypeOK
<1>3. CASE BeginNarrowed(t)
  <2>1. PICK S : pass' = [pass EXCEPT ![t] = [Idle EXCEPT !.step = "sync", !.scope = S]]
    BY <1>3 DEF BeginNarrowed
  <2>2. Calm(p, [Idle EXCEPT !.step = "sync", !.scope = S])
    BY <1>1, CalmUpdates
  <2> QED BY <1>2, <2>1, <2>2, CalmUpdate
<1>4. CASE ReadMarker(t)
  <2> DEFINE r == [p EXCEPT !.before = marker, !.absent = ~exists]
             q == IF r.background THEN [r EXCEPT !.step = "claim"] ELSE Going(r)
  <2>1. r \in Pass /\ r.at = p.at /\ r.seen = p.seen /\ r.step = p.step
    BY <1>1 DEF Pass, TypeOK
  <2>2. pass' = [pass EXCEPT ![t] = q]
    BY <1>4 DEF ReadMarker
  <2> HIDE DEF r
  <2>3. Calm(r, q)
    BY <2>1, CalmUpdates
  <2> HIDE DEF q
  <2>4. Calm(p, q)
    BY <2>1, <2>3 DEF Calm
  <2> QED BY <1>2, <2>2, <2>4, CalmUpdate
<1>5. CASE Skip(t)
  <2>1. pass' = [pass EXCEPT ![t] = Idle] /\ Calm(p, Idle)
    BY <1>1, <1>5, CalmUpdates DEF Skip
  <2> QED BY <1>2, <2>1, CalmUpdate
<1>6. CASE Proceed(t)
  <2>1. pass' = [pass EXCEPT ![t] = Going(p)] /\ Calm(p, Going(p))
    BY <1>1, <1>6, CalmUpdates DEF Proceed
  <2> QED BY <1>2, <2>1, CalmUpdate
<1>7. CASE Seed(t)
  <2> DEFINE q == [p EXCEPT !.step = "clear", !.absent = FALSE]
  <2>1. pass' = [pass EXCEPT ![t] = q] /\ Calm(p, q)
    BY <1>1, <1>7, CalmUpdates DEF Seed
  <2> HIDE DEF q
  <2> QED BY <1>2, <2>1, CalmUpdate
<1>8. CASE MarkerFails(t)
  <2> DEFINE q == [p EXCEPT !.step = "clear", !.before = None,
                            !.absent = FALSE, !.background = FALSE]
  <2>1. pass' = [pass EXCEPT ![t] = q] /\ Calm(p, q)
    BY <1>1, <1>8, CalmUpdates DEF MarkerFails
  <2> HIDE DEF q
  <2> QED BY <1>2, <2>1, CalmUpdate
<1>9. CASE ClearClaim(t)
  <2> DEFINE q == [p EXCEPT !.step = "sync"]
  <2>1. pass' = [pass EXCEPT ![t] = q] /\ Calm(p, q)
    BY <1>1, <1>9, CalmUpdates DEF ClearClaim
  <2> HIDE DEF q
  <2> QED BY <1>2, <2>1, CalmUpdate
<1> QED BY <1>3, <1>4, <1>5, <1>6, <1>7, <1>8, <1>9

(* the collections' tasks,                                                  *)
LEMMA CalmTasks ==
    ASSUME TypeOK, NEW t \in Tab, NEW c \in Collection,
           \/ Read(t, c) \/ Land(t, c) \/ Finish(t, c)
           \/ TaskFails(t, c) \/ LateLands(t, c) \/ LateFails(t, c)
    PROVE  UNCHANGED claim /\ \A u \in Tab : Calm(pass[u], pass'[u])
<1> DEFINE p == pass[t]
<1>1. p \in Pass
  BY DEF TypeOK
<1>2. UNCHANGED claim
  BY DEF Read, Land, Finish, TaskFails, LateLands, LateFails
<1>3. CASE Read(t, c)
  <2> DEFINE q == [p EXCEPT !.read = @ \cup {c}, !.fresh = @ \cup {c},
                            !.sent = @ \cup ({c} \cap dirty[HomeOf[t]]),
                            !.taken = @ \cup ({c} \cap dirty[HomeOf[t]])]
  <2>1. pass' = [pass EXCEPT ![t] = q]
    BY <1>3 DEF Read
  <2>2. Calm(p, q)
    BY <1>1, CalmUpdates
  <2> HIDE DEF q
  <2> QED BY <1>2, <2>1, <2>2, CalmUpdate
<1>4. CASE Land(t, c)
  <2> DEFINE q == [p EXCEPT !.landed = @ \cup {c}]
  <2>1. pass' = [Spoiled(c, {HomeOf[t]}) EXCEPT ![t] = q]
    BY <1>4 DEF Land
  <2>2. Calm(p, q)
    BY <1>1, CalmUpdates
  <2> HIDE DEF q
  <2> QED BY <1>2, <2>1, <2>2, CalmUpdate
<1>5. CASE Finish(t, c)
  <2> DEFINE q == [p EXCEPT !.settled = @ \cup {c}]
  <2>1. pass' = [pass EXCEPT ![t] = q]
    BY <1>5 DEF Finish
  <2>2. Calm(p, q)
    BY <1>1, CalmUpdates
  <2> HIDE DEF q
  <2> QED BY <1>2, <2>1, <2>2, CalmUpdate
<1>6. CASE TaskFails(t, c)
  <2> DEFINE q == [p EXCEPT !.settled = @ \cup {c}, !.fresh = @ \ {c}, !.failed = TRUE]
  <2>1. pass' = [pass EXCEPT ![t] = q]
    BY <1>6 DEF TaskFails
  <2>2. Calm(p, q)
    BY <1>1, CalmUpdates
  <2> HIDE DEF q
  <2> QED BY <1>2, <2>1, <2>2, CalmUpdate
<1>7. CASE LateLands(t, c)
  <2> DEFINE q == [p EXCEPT !.owed = @ \cup {c}]
  <2>1. \/ pass' = [Spoiled(c, {HomeOf[t]}) EXCEPT ![t] = q]
        \/ pass' = Spoiled(c, {HomeOf[t]})
    BY <1>7 DEF LateLands
  <2>2. Calm(p, q)
    BY <1>1, CalmUpdates
  <2> HIDE DEF q
  <2> QED BY <1>2, <2>1, <2>2, CalmUpdate, CalmSpoiled
<1>8. CASE LateFails(t, c)
  BY <1>2, <1>8, CalmUpdates DEF LateFails, TypeOK
<1> QED BY <1>3, <1>4, <1>5, <1>6, <1>7, <1>8

(* the end of the collections,                                              *)
LEMMA CalmGoto ==
    ASSUME NEW p \in Pass, NEW step \in {"idle", "void", "bump", "count", "store"}
    PROVE  Calm(p, Goto(p, step))
<1>1. CASE step = "idle"
  BY <1>1, CalmUpdates DEF Goto
<1>2. CASE step # "idle"
  BY <1>2, GotoFields DEF Calm
<1> QED BY <1>1, <1>2

(* and what follows it, but for the bump and the claim.                     *)
LEMMA CalmAfter ==
    ASSUME TypeOK, NEW t \in Tab,
           Settle(t) \/ Void(t) \/ BumpFails(t) \/ Retract(t) \/ Crash(t)
    PROVE  /\ \A d \in Device : claim'[d] = claim[d] \/ claim'[d] = None
           /\ \A u \in Tab : Calm(pass[u], pass'[u])
<1> DEFINE p == pass[t]
<1>1. p \in Pass
  BY DEF TypeOK
<1>2. \A d \in Device : claim'[d] = claim[d] \/ claim'[d] = None
  BY DEF Settle, Void, BumpFails, Retract, Crash, TypeOK
<1>3. CASE Settle(t)
  <2>1. pass' = [pass EXCEPT ![t] = Goto(p, AfterTasks(p))]
    BY <1>3 DEF Settle
  <2>2. AfterTasks(p) \in {"idle", "void", "bump", "count", "store"}
    BY DEF AfterTasks
  <2>3. Calm(p, Goto(p, AfterTasks(p)))
    BY <1>1, <2>2, CalmGoto
  <2> QED BY <1>2, <2>1, <2>3, CalmUpdate
<1>4. CASE Void(t)
  <2>1. pass' = [pass EXCEPT ![t] = Goto(p, IF Pushed(p) THEN "bump" ELSE "idle")]
    BY <1>4 DEF Void
  <2>2. Calm(p, Goto(p, IF Pushed(p) THEN "bump" ELSE "idle"))
    BY <1>1, CalmGoto
  <2> QED BY <1>2, <2>1, <2>2, CalmUpdate
<1>5. CASE BumpFails(t)
  <2> DEFINE q == [p EXCEPT !.step = "retract", !.landed = {}, !.owed = {}]
  <2>1. pass' = [pass EXCEPT ![t] = q] /\ Calm(p, q)
    BY <1>1, <1>5, CalmUpdates DEF BumpFails
  <2> HIDE DEF q
  <2> QED BY <1>2, <2>1, CalmUpdate
<1>6. CASE Retract(t) \/ Crash(t)
  <2>1. pass' = [pass EXCEPT ![t] = Idle] /\ Calm(p, Idle)
    BY <1>1, <1>6, CalmUpdates DEF Retract, Crash
  <2> QED BY <1>2, <2>1, CalmUpdate
<1> QED BY <1>3, <1>4, <1>5, <1>6

-----------------------------------------------------------------------------
(***************************************************************************)
(* The steps that are not calm.                                             *)
(***************************************************************************)

(* A step that leaves every claim alone and starts no count keeps what is   *)
(* said of versions.                                                        *)
LEMMA ClaimsKept ==
    ASSUME TypeOK, TypeOK', ClaimsHonest, \A d \in Device : Mono(d), UNCHANGED claim
    PROVE  ClaimsHonest'
<1>1. SUFFICES ASSUME NEW d \in Device, claim[d] # None, NEW v, v = claim[d].version
               PROVE  Honest(v, d)'
  BY DEF ClaimsHonest, Honest
<1>2. claim[d] \in Claim /\ v \in Nat /\ marker \in Nat /\ marker' \in Nat
  BY <1>1 DEF TypeOK, Claim
<1>3. Honest(v, d)
  BY <1>1 DEF ClaimsHonest
<1> QED BY <1>2, <1>3, HonestKept

(* The same of a narrowed pass that counts its bump.                        *)
LEMMA AdvancingKept ==
    ASSUME TypeOK, TypeOK', NEW u \in Tab,
           pass[u].step = "advance" /\ claim[HomeOf[u]] = pass[u].seen
                => Honest(pass[u].seen.version + 1, HomeOf[u]),
           pass[u].step = "advance" => pass[u].seen # None,
           Mono(HomeOf[u]), claim'[HomeOf[u]] = claim[HomeOf[u]],
           pass'[u].step = pass[u].step, pass'[u].seen = pass[u].seen
    PROVE  (pass[u].step = "advance" /\ claim[HomeOf[u]] = pass[u].seen
                => Honest(pass[u].seen.version + 1, HomeOf[u]))'
<1>1. SUFFICES ASSUME pass[u].step = "advance", claim[HomeOf[u]] = pass[u].seen,
                      NEW v, v = pass[u].seen.version + 1
               PROVE  Honest(v, HomeOf[u])'
  BY DEF Honest
<1>2. pass[u].seen \in Claim /\ v \in Nat /\ marker \in Nat /\ marker' \in Nat
  BY <1>1 DEF TypeOK, Pass, Claim
<1>3. Honest(v, HomeOf[u])
  BY <1>1
<1> QED BY <1>2, <1>3, HonestKept

(* A full pass starts at a moment no claim of its device names.             *)
LEMMA ClaimsBeginFull ==
    ASSUME TypeOK, TypeOK', ClaimInv, NEW t \in Tab, NEW background \in BOOLEAN,
           BeginFull(t, background),
           \A u \in Tab : pass[u].step = "advance" => pass[u].seen # None,
           \A d \in Device : Mono(d), \A u \in Tab : u # t => Kept(u)
    PROVE  ClaimInv'
<1>1. PICK m \in Moment \ InUse(HomeOf[t]) : pass' = [pass EXCEPT ![t] =
          [Idle EXCEPT !.step = "marker", !.full = TRUE, !.background = background,
                       !.scope = Collection, !.at = m]]
  BY DEF BeginFull
<1>2. UNCHANGED claim
  BY DEF BeginFull
<1>3. pass'[t].step = "marker" /\ pass'[t].at = m /\ pass'[t].seen = None /\ m # None
  BY <1>1, SyncMarkerAssumptions DEF Idle, TypeOK, SyncMarkerAssumptions
<1>4. \A u \in Tab : HomeOf[u] \in Device
  BY SyncMarkerAssumptions DEF SyncMarkerAssumptions
<1>5. ClaimsHonest'
  BY <1>2, ClaimsKept DEF ClaimInv
<1>6. Advancing'
  <2>1. ASSUME NEW u \in Tab
        PROVE  (pass[u].step = "advance" /\ claim[HomeOf[u]] = pass[u].seen
                    => Honest(pass[u].seen.version + 1, HomeOf[u]))'
    <3>1. CASE u = t
      BY <1>3, <3>1
    <3>2. CASE u # t
      BY <1>2, <1>4, <3>2, AdvancingKept DEF ClaimInv, Advancing, Kept
    <3> QED BY <3>1, <3>2
  <2> QED BY <2>1 DEF Advancing
<1>7. MomentsUnique'
  <2>1. /\ claim[HomeOf[t]] # None => claim[HomeOf[t]].fullAt # m
        /\ \A u \in Tab : HomeOf[u] = HomeOf[t] =>
            /\ pass[u].at # m
            /\ pass[u].seen # None => pass[u].seen.fullAt # m
    BY <1>1, <1>4 DEF InUse
  <2>2. \A u \in Tab : u # t => pass'[u].at = pass[u].at /\ pass'[u].seen = pass[u].seen
    BY DEF Kept
  <2> QED BY <1>2, <1>3, <2>1, <2>2 DEF ClaimInv, MomentsUnique
<1>8. SeenEarlier'
  BY <1>2, <1>3 DEF ClaimInv, SeenEarlier, Kept
<1> QED BY <1>5, <1>6, <1>7, <1>8 DEF ClaimInv

(* A narrowed pass reads the claim it will count into.                      *)
LEMMA ClaimsReadClaim ==
    ASSUME TypeOK, TypeOK', ClaimInv, NEW t \in Tab, ReadClaim(t),
           \A u \in Tab : pass[u].step = "advance" => pass[u].seen # None,
           \A d \in Device : Mono(d), \A u \in Tab : u # t => Kept(u)
    PROVE  ClaimInv'
<1>1. UNCHANGED claim
  BY DEF ReadClaim
<1>2. /\ pass'[t].step = "bump" /\ pass'[t].at = pass[t].at
      /\ pass'[t].seen = claim[HomeOf[t]]
  <2>1. pass[t] \in Pass
    BY DEF TypeOK
  <2>2. pass'[t] = [pass[t] EXCEPT !.step = "bump", !.seen = claim[HomeOf[t]]]
    BY DEF ReadClaim, TypeOK
  <2> QED BY <2>1, <2>2 DEF Pass
<1>3. \A u \in Tab : HomeOf[u] \in Device
  BY SyncMarkerAssumptions DEF SyncMarkerAssumptions
<1>4. ClaimsHonest'
  BY <1>1, ClaimsKept DEF ClaimInv
<1>5. Advancing'
  <2>1. ASSUME NEW u \in Tab
        PROVE  (pass[u].step = "advance" /\ claim[HomeOf[u]] = pass[u].seen
                    => Honest(pass[u].seen.version + 1, HomeOf[u]))'
    <3>1. CASE u = t
      BY <1>2, <3>1
    <3>2. CASE u # t
      BY <1>1, <1>3, <3>2, AdvancingKept DEF ClaimInv, Advancing, Kept
    <3> QED BY <3>1, <3>2
  <2> QED BY <2>1 DEF Advancing
<1>6. MomentsUnique'
  <2>1. \A u \in Tab : pass'[u].at = pass[u].at /\ (u # t => pass'[u].seen = pass[u].seen)
    BY <1>2 DEF Kept
  <2> QED BY <1>1, <1>2, <2>1 DEF ClaimInv, MomentsUnique
<1>7. SeenEarlier'
  <2>1. \A d \in Device : claim[d] # None => claim[d].version \in Nat
    BY DEF TypeOK, Claim
  <2> QED BY <1>1, <1>2, <1>3, <2>1 DEF ClaimInv, SeenEarlier, Kept
<1> QED BY <1>4, <1>5, <1>6, <1>7 DEF ClaimInv

(* A bump leaves every claim behind; the one it was read from may follow.   *)
LEMMA ClaimsBump ==
    ASSUME TypeOK, TypeOK', ClaimInv, NEW t \in Tab, Bump(t),
           \A u \in Tab : pass[u].step = "advance" => pass[u].seen # None,
           \A d \in Device : Mono(d), \A u \in Tab : u # t => Kept(u),
           Missed(HomeOf[t])' \subseteq Missed(HomeOf[t])
    PROVE  ClaimInv'
<1> DEFINE p == pass[t]
           q == pass'[t]
           h == HomeOf[t]
<1>1. UNCHANGED claim /\ marker \in Nat /\ marker' = marker + 1
  BY DEF Bump, TypeOK
<1>2. /\ q.at = p.at \/ q.at = None
      /\ q.seen = p.seen \/ q.seen = None
      /\ q.step = "advance" => q.seen = p.seen /\ p.seen # None
  <2> DEFINE r == [p EXCEPT !.landed = {}, !.owed = {}]
  <2>1. r \in Pass /\ r.at = p.at /\ r.seen = p.seen
    <3>1. p \in Pass
      BY DEF TypeOK
    <3> QED BY <3>1 DEF Pass
  <2>2. q = Goto(r, AfterBump(p))
    BY DEF Bump, TypeOK
  <2> HIDE DEF r
  <2>3. CASE AfterBump(p) = "idle"
    BY <2>2, <2>3 DEF Goto, Idle
  <2>4. CASE AfterBump(p) # "idle"
    <3>1. AfterBump(p) \in {"store", "advance"} /\ (AfterBump(p) = "advance" => p.seen # None)
      BY <2>4 DEF AfterBump
    <3> QED BY <2>1, <2>2, <3>1, GotoFields
  <2> QED BY <2>3, <2>4
<1>3. \A u \in Tab : HomeOf[u] \in Device
  BY SyncMarkerAssumptions DEF SyncMarkerAssumptions
<1>4. ClaimsHonest'
  BY <1>1, ClaimsKept DEF ClaimInv
<1>5. Advancing'
  <2>1. ASSUME NEW u \in Tab
        PROVE  (pass[u].step = "advance" /\ claim[HomeOf[u]] = pass[u].seen
                    => Honest(pass[u].seen.version + 1, HomeOf[u]))'
    <3>1. CASE u = t
      <4>1. SUFFICES ASSUME q.step = "advance", claim'[h] = q.seen,
                            NEW v, v = q.seen.version
                     PROVE  Honest(v + 1, h)'
        BY <3>1 DEF Honest
      <4>2. claim[h] = p.seen /\ p.seen # None /\ claim[h] \in Claim /\ v = claim[h].version
        BY <1>1, <1>2, <1>3, <4>1 DEF TypeOK
      <4>3. v \in Nat /\ Honest(v, h)
        BY <1>3, <4>2 DEF Claim, ClaimInv, ClaimsHonest
      <4> QED BY <1>1, <4>3, HonestBumped DEF Honest
    <3>2. CASE u # t
      BY <1>1, <1>3, <3>2, AdvancingKept DEF ClaimInv, Advancing, Kept
    <3> QED BY <3>1, <3>2
  <2> QED BY <2>1 DEF Advancing
<1>6. /\ \A u \in Tab : pass'[u].at = pass[u].at \/ pass'[u].at = None
      /\ \A u \in Tab : pass'[u].seen = pass[u].seen \/ pass'[u].seen = None
  BY <1>2 DEF Kept
<1>7. MomentsUnique'
  BY <1>1, <1>6 DEF ClaimInv, MomentsUnique
<1>8. SeenEarlier'
  BY <1>1, <1>6 DEF ClaimInv, SeenEarlier
<1> QED BY <1>4, <1>5, <1>7, <1>8 DEF ClaimInv

(* A full pass's claim starts a line of its own.                            *)
LEMMA ClaimsStoreClaim ==
    ASSUME TypeOK, TypeOK', ClaimInv, NEW t \in Tab, PassInv(t), StoreClaim(t),
           \A u \in Tab : pass[u].step = "advance" => pass[u].seen # None,
           \A d \in Device : Mono(d), \A u \in Tab : u # t => Kept(u)
    PROVE  ClaimInv'
<1> DEFINE p == pass[t]
           h == HomeOf[t]
<1>1. /\ p \in Pass /\ p.step = "store" /\ p.full /\ ~p.failed /\ p.at \in Moment
      /\ p.at # None
  BY SyncMarkerAssumptions DEF TypeOK, StoreClaim, PassInv, ShapeOf, SyncMarkerAssumptions
<1>2. pass' = [pass EXCEPT ![t] = Idle] /\ Calm(p, Idle)
  BY <1>1, CalmUpdates DEF StoreClaim
<1>3. \A u \in Tab : Calm(pass[u], pass'[u])
  BY <1>2, CalmUpdate
<1>4. CASE p.before = None
  <2>1. UNCHANGED claim
    BY <1>4 DEF StoreClaim
  <2> QED BY <1>3, <2>1, CalmClaims
<1>5. CASE p.before # None
  <2> DEFINE new == [version |-> p.before + Bumped(p), fullAt |-> p.at]
  <2>1. claim' = [claim EXCEPT ![h] = new]
    BY <1>1, <1>5 DEF StoreClaim, Bumped
  <2>2. p.before + Bumped(p) \in Nat /\ Honest(p.before + Bumped(p), h)
    BY <1>1, <1>5 DEF Pass, Bumped, PassInv, StoringOf, Hopeful
  <2>3. PICK n \in Nat : n = p.before + Bumped(p)
    BY <2>2
  <2>4. \A u \in Tab : HomeOf[u] \in Device
    BY SyncMarkerAssumptions DEF SyncMarkerAssumptions
  <2>5. \A d \in Device : claim'[d] = IF d = h THEN new ELSE claim[d]
    BY <2>1, <2>4 DEF TypeOK
  <2>6. new.version = n /\ new.fullAt = p.at
    BY <2>3
  <2> HIDE DEF new
  <2>7. Honest(n, h)'
    <3>1. Honest(n, h)
      BY <2>2, <2>3
    <3> QED BY <2>3, <2>4, <3>1, HonestKept DEF TypeOK
  <2>8. ClaimsHonest'
    <3>1. SUFFICES ASSUME NEW d \in Device, claim'[d] # None, NEW v, v = claim'[d].version
                   PROVE  Honest(v, d)'
      BY DEF ClaimsHonest, Honest
    <3>2. CASE d = h
      BY <2>5, <2>6, <2>7, <3>1, <3>2
    <3>3. CASE d # h
      <4>1. claim[d] # None /\ claim[d] \in Claim /\ v = claim[d].version
        BY <2>5, <3>1, <3>3 DEF TypeOK
      <4>2. v \in Nat /\ Honest(v, d)
        BY <4>1 DEF Claim, ClaimInv, ClaimsHonest
      <4> QED BY <4>2, HonestKept DEF TypeOK
    <3> QED BY <3>2, <3>3
  <2>9. Advancing'
    <3>1. ASSUME NEW u \in Tab
          PROVE  (pass[u].step = "advance" /\ claim[HomeOf[u]] = pass[u].seen
                    => Honest(pass[u].seen.version + 1, HomeOf[u]))'
      <4>1. CASE u = t
        BY <1>2, <4>1 DEF TypeOK, Idle
      <4>2. CASE u # t /\ HomeOf[u] # h
        BY <2>4, <2>5, <4>2, AdvancingKept DEF ClaimInv, Advancing, Kept
      <4>3. CASE u # t /\ HomeOf[u] = h /\ pass[u].step = "advance"
        <5>1. pass[u].seen # None /\ pass[u].seen.fullAt # p.at
          BY <1>1, <4>3 DEF ClaimInv, MomentsUnique
        <5>2. pass'[u].seen = pass[u].seen /\ claim'[h] = new
          BY <2>4, <2>5, <4>3 DEF Kept
        <5> QED BY <2>6, <4>3, <5>1, <5>2
      <4>4. CASE u # t /\ pass[u].step # "advance"
        BY <4>4 DEF Kept
      <4> QED BY <4>1, <4>2, <4>3, <4>4
    <3> QED BY <3>1 DEF Advancing
  <2>10. pass'[t].at = None /\ pass'[t].seen = None
    BY <1>2 DEF TypeOK, Idle
  <2>11. \A u \in Tab : u # t => pass'[u].at = pass[u].at /\ pass'[u].seen = pass[u].seen
    BY DEF Kept
  <2>12. MomentsUnique'
    <3>1. \A u \in Tab : u # t /\ HomeOf[u] = h /\ pass[u].at # None => pass[u].at # p.at
      BY <1>1 DEF ClaimInv, MomentsUnique
    <3> QED BY <2>4, <2>5, <2>6, <2>10, <2>11, <3>1 DEF ClaimInv, MomentsUnique
  <2>13. SeenEarlier'
    <3>1. \A u \in Tab : HomeOf[u] = h /\ pass[u].seen # None => pass[u].seen.fullAt # p.at
      BY <1>1 DEF ClaimInv, MomentsUnique
    <3> QED BY <2>4, <2>5, <2>6, <2>10, <2>11, <3>1 DEF ClaimInv, SeenEarlier
  <2> QED BY <2>8, <2>9, <2>12, <2>13 DEF ClaimInv
<1> QED BY <1>4, <1>5

(* A counted bump moves its line of claims on by one.                       *)
LEMMA ClaimsAdvance ==
    ASSUME TypeOK, TypeOK', ClaimInv, NEW t \in Tab, Advance(t),
           \A u \in Tab : pass[u].step = "advance" => pass[u].seen # None,
           \A d \in Device : Mono(d), \A u \in Tab : u # t => Kept(u)
    PROVE  ClaimInv'
<1> DEFINE p == pass[t]
           h == HomeOf[t]
<1>1. p \in Pass /\ p.step = "advance" /\ p.seen # None
  BY DEF TypeOK, Advance
<1>2. pass' = [pass EXCEPT ![t] = Idle] /\ Calm(p, Idle)
  BY <1>1, CalmUpdates DEF Advance
<1>3. \A u \in Tab : Calm(pass[u], pass'[u])
  BY <1>2, CalmUpdate
<1>4. CASE claim[h] # p.seen
  <2>1. UNCHANGED claim
    BY <1>4 DEF Advance
  <2> QED BY <1>3, <2>1, CalmClaims
<1>5. CASE claim[h] = p.seen
  <2> DEFINE old == claim[h]
             new == [old EXCEPT !.version = @ + 1]
  <2>1. \A u \in Tab : HomeOf[u] \in Device
    BY SyncMarkerAssumptions DEF SyncMarkerAssumptions
  <2>2. old \in Claim /\ old.version \in Nat /\ old # None
    BY <1>1, <1>5, <2>1 DEF TypeOK, Claim
  <2>3. PICK n \in Nat : n = old.version
    BY <2>2
  <2>4. new.version = n + 1 /\ new.fullAt = old.fullAt
    BY <2>2, <2>3 DEF Claim
  <2>5. \A d \in Device : claim'[d] = IF d = h THEN new ELSE claim[d]
    BY <1>5, <2>1 DEF Advance, TypeOK
  <2> HIDE DEF new
  <2>6. Honest(n + 1, h)'
    <3>1. Honest(n + 1, h)
      BY <1>1, <1>5, <2>3 DEF ClaimInv, Advancing
    <3> QED BY <2>1, <2>3, <3>1, HonestKept DEF TypeOK
  <2>7. ClaimsHonest'
    <3>1. SUFFICES ASSUME NEW d \in Device, claim'[d] # None, NEW v, v = claim'[d].version
                   PROVE  Honest(v, d)'
      BY DEF ClaimsHonest, Honest
    <3>2. CASE d = h
      BY <2>4, <2>5, <2>6, <3>1, <3>2
    <3>3. CASE d # h
      <4>1. claim[d] # None /\ claim[d] \in Claim /\ v = claim[d].version
        BY <2>5, <3>1, <3>3 DEF TypeOK
      <4>2. v \in Nat /\ Honest(v, d)
        BY <4>1 DEF Claim, ClaimInv, ClaimsHonest
      <4> QED BY <4>2, HonestKept DEF TypeOK
    <3> QED BY <3>2, <3>3
  <2>8. \A u \in Tab : HomeOf[u] = h /\ pass[u].seen # None /\ pass[u].seen.fullAt = old.fullAt
            => pass[u].seen.version <= n
    BY <2>2, <2>3 DEF ClaimInv, SeenEarlier
  <2>9. \A u \in Tab : pass[u].seen # None => pass[u].seen.version \in Nat
    BY DEF TypeOK, Pass, Claim
  <2>10. Advancing'
    <3>1. ASSUME NEW u \in Tab
          PROVE  (pass[u].step = "advance" /\ claim[HomeOf[u]] = pass[u].seen
                    => Honest(pass[u].seen.version + 1, HomeOf[u]))'
      <4>1. CASE u = t
        BY <1>2, <4>1 DEF TypeOK, Idle
      <4>2. CASE u # t /\ HomeOf[u] # h
        BY <2>1, <2>5, <4>2, AdvancingKept DEF ClaimInv, Advancing, Kept
      <4>3. CASE u # t /\ HomeOf[u] = h /\ pass[u].step = "advance"
        <5>1. pass[u].seen # new
          BY <2>4, <2>8, <2>9, <4>3
        <5>2. pass'[u].seen = pass[u].seen /\ claim'[h] = new
          BY <2>1, <2>5, <4>3 DEF Kept
        <5> QED BY <4>3, <5>1, <5>2
      <4>4. CASE u # t /\ pass[u].step # "advance"
        BY <4>4 DEF Kept
      <4> QED BY <4>1, <4>2, <4>3, <4>4
    <3> QED BY <3>1 DEF Advancing
  <2>11. pass'[t].at = None /\ pass'[t].seen = None
    BY <1>2 DEF TypeOK, Idle
  <2>12. \A u \in Tab : u # t => pass'[u].at = pass[u].at /\ pass'[u].seen = pass[u].seen
    BY DEF Kept
  <2>13. MomentsUnique'
    BY <2>1, <2>2, <2>4, <2>5, <2>11, <2>12 DEF ClaimInv, MomentsUnique
  <2>14. SeenEarlier'
    BY <2>1, <2>4, <2>5, <2>8, <2>9, <2>11, <2>12 DEF ClaimInv, SeenEarlier
  <2> QED BY <2>7, <2>10, <2>13, <2>14 DEF ClaimInv
<1> QED BY <1>4, <1>5

-----------------------------------------------------------------------------
(***************************************************************************)
(* The invariant is inductive.                                              *)
(***************************************************************************)

(* Every step keeps what every pass guarantees.                             *)
LEMMA PassesStep ==
    ASSUME TypeOK, TypeOK', \A t \in Tab : PassInv(t), [Next]_vars
    PROVE  /\ \A d \in Device : Mono(d)
           /\ \A u \in Tab : PassInv(u)'
<1>1. ASSUME NEW t \in Tab,
             \A d \in Device : Mono(d), \A u \in Tab : u # t => Kept(u), PassInv(t)'
      PROVE  \A u \in Tab : PassInv(u)'
  <2>1. \A u \in Tab : HomeOf[u] \in Device
    BY SyncMarkerAssumptions DEF SyncMarkerAssumptions
  <2> QED BY <1>1, <2>1, KeptInv
<1>2. ASSUME \A d \in Device : Mono(d), \A u \in Tab : Kept(u)
      PROVE  \A u \in Tab : PassInv(u)'
  <2>1. \A u \in Tab : HomeOf[u] \in Device
    BY SyncMarkerAssumptions DEF SyncMarkerAssumptions
  <2> QED BY <1>2, <2>1, KeptInv
<1> DEFINE Goal == /\ \A d \in Device : Mono(d)
                   /\ \A u \in Tab : PassInv(u)'
<1>3. CASE UNCHANGED vars
  <2>1. \A d \in Device : Mono(d) /\ \A u \in Tab : Kept(u)
    BY <1>3, NothingMissed DEF vars
  <2> QED BY <1>2, <1>3, NothingMissed DEF vars
<1>4. ASSUME NEW d \in Device, Age(d) PROVE Goal
  BY <1>2, <1>4, NothingMissed DEF Age
<1>5. ASSUME NEW d \in Device, NEW c \in Collection, Edit(d, c) PROVE Goal
  <2>1. UNCHANGED <<marker, behind, lost, hushed>>
    BY <1>5 DEF Edit
  <2> QED BY <1>2, <1>5, <2>1, NothingMissed
<1>6. ASSUME NEW c \in Collection, ServerWrites(c) PROVE Goal
  BY <1>2, <1>6, ServerWritesKeeps
<1>7. ASSUME NEW t \in Tab,
             BeginNarrowed(t) \/ \E background \in BOOLEAN : BeginFull(t, background)
      PROVE  Goal
  BY <1>1, <1>7, BeginKeeps
<1>8. ASSUME NEW t \in Tab, Step(t) PROVE Goal
  <2>1. CASE ReadMarker(t) \/ Proceed(t) \/ Seed(t) \/ ClearClaim(t)
    BY <1>1, <2>1, ApproachKeeps
  <2>2. CASE Skip(t) \/ Retract(t) \/ StoreClaim(t) \/ Advance(t)
    BY <1>1, <2>2, EndKeeps
  <2>3. ASSUME NEW c \in Collection, Read(t, c) \/ Land(t, c) \/ Finish(t, c) PROVE Goal
    BY <1>1, <2>3, ReadKeeps, LandKeeps, FinishKeeps
  <2>4. CASE Settle(t) \/ Void(t) \/ ReadClaim(t) \/ Bump(t)
    BY <1>1, <2>4, SettleKeeps, VoidKeeps, ReadClaimKeeps, BumpKeeps
  <2> QED BY <1>8, <2>1, <2>2, <2>3, <2>4 DEF Step
<1>9. ASSUME NEW t \in Tab, Fault(t) PROVE Goal
  <2>1. CASE MarkerFails(t)
    BY <1>1, <2>1, ApproachKeeps
  <2>2. CASE BumpFails(t) \/ Crash(t)
    BY <1>1, <2>2, BumpFailsKeeps
  <2>3. ASSUME NEW c \in Collection, TaskFails(t, c) \/ LateLands(t, c) PROVE Goal
    BY <1>1, <2>3, TaskFailsKeeps, LateLandsKeeps
  <2>4. ASSUME NEW c \in Collection, LateFails(t, c) PROVE Goal
    BY <1>2, <2>4, NothingMissed DEF LateFails
  <2> QED BY <1>9, <2>1, <2>2, <2>3, <2>4 DEF Fault
<1> QED BY <1>3, <1>4, <1>5, <1>6, <1>7, <1>8, <1>9 DEF Next

(* Every step keeps what every claim says.                                  *)
LEMMA ClaimsStep ==
    ASSUME TypeOK, TypeOK', \A t \in Tab : PassInv(t), ClaimInv, [Next]_vars
    PROVE  ClaimInv'
<1>1. /\ \A u \in Tab : pass[u].step = "advance" => pass[u].seen # None
      /\ \A d \in Device : Mono(d)
  BY PassesStep DEF PassInv, ShapeOf
<1>2. CASE \/ UNCHANGED vars
           \/ \E d \in Device : Age(d) \/ \E c \in Collection : Edit(d, c)
           \/ \E c \in Collection : ServerWrites(c)
  BY <1>1, <1>2, CalmAround, CalmClaims
<1>3. ASSUME NEW t \in Tab, NEW background \in BOOLEAN, BeginFull(t, background)
      PROVE  ClaimInv'
  <2>1. \A u \in Tab : u # t => Kept(u)
    BY <1>3, BeginKeeps
  <2> QED BY <1>1, <1>3, <2>1, ClaimsBeginFull
<1>4. ASSUME NEW t \in Tab, BeginNarrowed(t) PROVE ClaimInv'
  BY <1>1, <1>4, CalmApproach, CalmClaims
<1>5. ASSUME NEW t \in Tab, Step(t) PROVE ClaimInv'
  <2>1. CASE ReadMarker(t) \/ Skip(t) \/ Proceed(t) \/ Seed(t) \/ ClearClaim(t)
    BY <1>1, <2>1, CalmApproach, CalmClaims
  <2>2. ASSUME NEW c \in Collection, Read(t, c) \/ Land(t, c) \/ Finish(t, c)
        PROVE  ClaimInv'
    BY <1>1, <2>2, CalmTasks, CalmClaims
  <2>3. CASE Settle(t) \/ Void(t) \/ Retract(t)
    BY <1>1, <2>3, CalmAfter, CalmClaims
  <2>4. CASE ReadClaim(t)
    <3>1. \A u \in Tab : u # t => Kept(u)
      BY <2>4, ReadClaimKeeps
    <3> QED BY <1>1, <2>4, <3>1, ClaimsReadClaim
  <2>5. CASE Bump(t)
    <3>1. /\ \A u \in Tab : u # t => Kept(u)
          /\ Missed(HomeOf[t])' \subseteq Missed(HomeOf[t])
      BY <2>5, BumpKeeps
    <3> QED BY <1>1, <2>5, <3>1, ClaimsBump
  <2>6. CASE StoreClaim(t)
    <3>1. \A u \in Tab : u # t => Kept(u)
      BY <2>6, EndKeeps
    <3> QED BY <1>1, <2>6, <3>1, ClaimsStoreClaim
  <2>7. CASE Advance(t)
    <3>1. \A u \in Tab : u # t => Kept(u)
      BY <2>7, EndKeeps
    <3> QED BY <1>1, <2>7, <3>1, ClaimsAdvance
  <2> QED BY <1>5, <2>1, <2>2, <2>3, <2>4, <2>5, <2>6, <2>7 DEF Step
<1>6. ASSUME NEW t \in Tab, Fault(t) PROVE ClaimInv'
  <2>1. CASE MarkerFails(t)
    BY <1>1, <2>1, CalmApproach, CalmClaims
  <2>2. CASE BumpFails(t) \/ Crash(t)
    BY <1>1, <2>2, CalmAfter, CalmClaims
  <2>3. ASSUME NEW c \in Collection, TaskFails(t, c) \/ LateLands(t, c) \/ LateFails(t, c)
        PROVE  ClaimInv'
    BY <1>1, <2>3, CalmTasks, CalmClaims
  <2> QED BY <1>6, <2>1, <2>2, <2>3 DEF Fault
<1> QED BY <1>2, <1>3, <1>4, <1>5, <1>6 DEF Next

(* Every step keeps the invariant,                                          *)
LEMMA InvStep == IInv /\ [Next]_vars => IInv'
<1> SUFFICES ASSUME IInv, [Next]_vars PROVE IInv'
  OBVIOUS
<1>1. TypeOK /\ (\A t \in Tab : PassInv(t)) /\ ClaimInv
  BY DEF IInv, ClaimInv
<1>2. TypeOK'
  BY <1>1, TypeStep DEF PassInv
<1>3. \A t \in Tab : PassInv(t)'
  BY <1>1, <1>2, PassesStep
<1>4. ClaimInv'
  BY <1>1, <1>2, ClaimsStep
<1> QED BY <1>2, <1>3, <1>4 DEF IInv, ClaimInv

(* which holds initially,                                                   *)
LEMMA InvInit == Init => IInv
<1> SUFFICES ASSUME Init PROVE IInv
  OBVIOUS
<1>1. TypeOK
  BY TypeInit
<1>2. \A t \in Tab : pass[t] = Idle
  BY DEF Init
<1>3. \A t \in Tab : PassInv(t)
  BY <1>2 DEF Idle, PassInv, ShapeOf, ReadingOf, PulledOf, StoringOf, Hopeful, Owed
<1>4. \A d \in Device : claim[d] = None
  BY DEF Init
<1>5. ClaimsHonest
  BY <1>4 DEF ClaimsHonest
<1>6. Advancing /\ MomentsUnique /\ SeenEarlier
  BY <1>2 DEF Advancing, MomentsUnique, SeenEarlier, Idle
<1> QED BY <1>1, <1>3, <1>5, <1>6 DEF IInv

(* and so always.                                                           *)
LEMMA Invariance == Spec => []IInv
BY InvInit, InvStep, PTL DEF Spec

(* Every variable of the marker protocol keeps its type, and so a claim,    *)
(* when there is one, names a version and the moment of a full pass: what   *)
(* writeSeenSyncMarker stores is never half a claim.                        *)
THEOREM TypeCorrect == Spec => []TypeOK
<1>1. IInv => TypeOK
  BY DEF IInv
<1> QED BY <1>1, Invariance, PTL

(* However many devices, tabs and collections there are, however their      *)
(* passes interleave, fail or are cut short: when a device's claim equals   *)
(* the marker, so that canSkipPass may skip, it has pulled every write      *)
(* whose bump reached the marker.                                           *)
THEOREM ClaimCorrect == Spec => []ClaimHonest
<1>1. IInv => ClaimHonest
  BY DEF IInv, ClaimsHonest, Honest, ClaimHonest
<1> QED BY <1>1, Invariance, PTL

-----------------------------------------------------------------------------
(***************************************************************************)
(* One tab per device: a failure makes the next background pass read.       *)
(***************************************************************************)

OneTabEach == \A t, u \in Tab : HomeOf[t] = HomeOf[u] => t = u

(* A device that has edits which a failed pass had to push has no claim;    *)
(* they are still dirty, so that a pass that reads their collection pushes  *)
(* them; and a collection that settled without a failure is pushed.         *)
ForcedOf(t) ==
    LET p == pass[t]
        d == HomeOf[t]
    IN
    /\ unsent[d] # {} => claim[d] = None
    /\ unsent[d] \subseteq dirty[d]
    /\ p.step \in {"marker", "claim", "seed", "clear", "sync"} =>
        p.sent \subseteq p.read /\ p.landed \subseteq p.read
    /\ p.step = "sync" =>
        /\ unsent[d] \cap p.read \subseteq p.sent \ p.landed
        /\ p.failed \/ p.settled \cap p.sent \subseteq p.landed
    /\ p.step \in {"bump", "store"} /\ p.full /\ ~p.failed => unsent[d] = {}

Forced == \A t \in Tab : ForcedOf(t)

(* A step that leaves the device's edits and the pass's progress alone, and *)
(* makes no claim.                                                          *)
SameProgress(p, q) ==
    /\ q.step = p.step /\ q.full = p.full /\ q.failed = p.failed
    /\ q.read = p.read /\ q.settled = p.settled
    /\ q.sent = p.sent /\ q.landed = p.landed

LEMMA ForcedAside ==
    ASSUME NEW t \in Tab, ForcedOf(t), SameProgress(pass[t], pass'[t]),
           claim'[HomeOf[t]] = claim[HomeOf[t]], unsent'[HomeOf[t]] = unsent[HomeOf[t]],
           dirty[HomeOf[t]] \subseteq dirty'[HomeOf[t]]
    PROVE  ForcedOf(t)'
BY DEF ForcedOf, SameProgress

(* A step of another device's tab is one of those.                          *)
LEMMA ForcedElsewhere ==
    ASSUME TypeOK, NEW t \in Tab, ForcedOf(t), Kept(t), NEW u \in Tab, HomeOf[u] # HomeOf[t],
           \/ BeginNarrowed(u) \/ \E background \in BOOLEAN : BeginFull(u, background)
           \/ Step(u) \/ Fault(u)
    PROVE  ForcedOf(t)'
<1> DEFINE d == HomeOf[t]
<1>1. d \in Device /\ SameProgress(pass[t], pass'[t])
  BY SyncMarkerAssumptions DEF SyncMarkerAssumptions, Kept, SameProgress
<1>2. claim'[d] = claim[d] /\ unsent'[d] = unsent[d] /\ dirty'[d] = dirty[d]
  <2>1. CASE BeginNarrowed(u) \/ \E background \in BOOLEAN : BeginFull(u, background)
    BY <2>1 DEF BeginNarrowed, BeginFull
  <2>2. CASE Step(u)
    <3>1. CASE ReadMarker(u) \/ Skip(u) \/ Proceed(u) \/ Seed(u) \/ ClearClaim(u)
      BY <1>1, <3>1 DEF ReadMarker, Skip, Proceed, Seed, ClearClaim, TypeOK
    <3>2. CASE \E c \in Collection : Read(u, c) \/ Land(u, c) \/ Finish(u, c)
      BY <1>1, <3>2 DEF Read, Land, Finish, TypeOK
    <3>3. CASE Settle(u) \/ Void(u) \/ ReadClaim(u) \/ Bump(u)
      BY <1>1, <3>3 DEF Settle, Void, ReadClaim, Bump, TypeOK
    <3>4. CASE Retract(u) \/ StoreClaim(u) \/ Advance(u)
      BY <1>1, <3>4 DEF Retract, StoreClaim, Advance, TypeOK
    <3> QED BY <2>2, <3>1, <3>2, <3>3, <3>4 DEF Step
  <2>3. CASE Fault(u)
    BY <2>3 DEF Fault, MarkerFails, BumpFails, Crash, TaskFails, LateLands, LateFails
  <2> QED BY <2>1, <2>2, <2>3
<1> QED BY <1>1, <1>2, ForcedAside

(* Outside the collections' tasks all that matters is what becomes of the   *)
(* claim, and that a full pass which has not failed left nothing behind.    *)
LEMMA ForcedMoves ==
    ASSUME NEW t \in Tab, ForcedOf(t), UNCHANGED <<dirty, unsent>>,
           claim'[HomeOf[t]] \in {claim[HomeOf[t]], None},
           pass'[t].step \in {"marker", "claim", "seed", "clear", "sync"} =>
               /\ pass'[t].read = {} /\ pass'[t].settled = {}
               /\ pass'[t].sent = {} /\ pass'[t].landed = {},
           pass'[t].step \in {"bump", "store"} /\ pass'[t].full /\ ~pass'[t].failed
               => unsent[HomeOf[t]] = {}
    PROVE  ForcedOf(t)'
BY DEF ForcedOf

(* The start of a pass, and its way to the collections.                     *)
LEMMA ForcedApproach ==
    ASSUME TypeOK, NEW t \in Tab, PassInv(t), ForcedOf(t),
           \/ BeginNarrowed(t) \/ \E background \in BOOLEAN : BeginFull(t, background)
           \/ ReadMarker(t) \/ Skip(t) \/ Proceed(t) \/ Seed(t) \/ ClearClaim(t) \/ MarkerFails(t)
    PROVE  ForcedOf(t)'
<1> DEFINE p == pass[t]
           q == pass'[t]
<1>0. HomeOf[t] \in Device
  BY SyncMarkerAssumptions DEF SyncMarkerAssumptions
<1>1. UNCHANGED <<dirty, unsent>>
  BY DEF BeginNarrowed, BeginFull, ReadMarker, Skip, Proceed, Seed, ClearClaim, MarkerFails
<1>2. claim'[HomeOf[t]] \in {claim[HomeOf[t]], None}
  BY <1>0 DEF BeginNarrowed, BeginFull, ReadMarker, Skip, Proceed, Seed, ClearClaim, MarkerFails,
              TypeOK
<1>3. /\ q.step \notin {"bump", "store"}
      /\ q.step # "idle" => q.read = {} /\ q.settled = {} /\ q.sent = {} /\ q.landed = {}
  <2>1. CASE BeginNarrowed(t)
    <3>1. PICK S : pass' = [pass EXCEPT ![t] = [Idle EXCEPT !.step = "sync", !.scope = S]]
      BY <2>1 DEF BeginNarrowed
    <3>2. q = [Idle EXCEPT !.step = "sync", !.scope = S]
      BY <3>1 DEF TypeOK
    <3> QED BY <3>2 DEF Idle
  <2>2. CASE \E background \in BOOLEAN : BeginFull(t, background)
    <3>1. PICK background, m : pass' = [pass EXCEPT ![t] =
            [Idle EXCEPT !.step = "marker", !.full = TRUE, !.background = background,
                         !.scope = Collection, !.at = m]]
      BY <2>2 DEF BeginFull
    <3>2. q = [Idle EXCEPT !.step = "marker", !.full = TRUE, !.background = background,
                           !.scope = Collection, !.at = m]
      BY <3>1 DEF TypeOK
    <3> QED BY <3>2 DEF Idle
  <2>3. CASE Skip(t)
    BY <2>3 DEF Skip, TypeOK, Idle
  <2>4. CASE ReadMarker(t) \/ Proceed(t) \/ Seed(t) \/ MarkerFails(t) \/ ClearClaim(t)
    <3>1. p \in Pass /\ p.step \in {"marker", "claim", "seed", "clear"}
      BY <2>4 DEF TypeOK, ReadMarker, Proceed, Seed, MarkerFails, ClearClaim
    <3>2. p.read = {} /\ p.settled = {} /\ p.sent = {} /\ p.landed = {}
      BY <3>1 DEF PassInv, ShapeOf, ForcedOf
    <3>3. ASSUME NEW x, x \in {p, [p EXCEPT !.before = marker, !.absent = ~exists]}
          PROVE  /\ Going(x).step \in {"seed", "clear"}
                 /\ Going(x).read = p.read /\ Going(x).settled = p.settled
                 /\ Going(x).sent = p.sent /\ Going(x).landed = p.landed
      BY <3>1, <3>3 DEF Going, Pass
    <3>4. /\ q.step \in {"claim", "seed", "clear", "sync"}
          /\ q.read = p.read /\ q.settled = p.settled /\ q.sent = p.sent /\ q.landed = p.landed
      <4>1. CASE ReadMarker(t)
        <5>1. \/ q = Going([p EXCEPT !.before = marker, !.absent = ~exists])
              \/ q = [p EXCEPT !.before = marker, !.absent = ~exists, !.step = "claim"]
          BY <4>1, <3>1 DEF ReadMarker, TypeOK, Pass
        <5> QED BY <3>1, <3>3, <5>1 DEF Pass
      <4>2. CASE Proceed(t)
        <5>1. q = Going(p)
          BY <4>2 DEF Proceed, TypeOK
        <5> QED BY <3>3, <5>1
      <4>3. CASE Seed(t)
        BY <3>1, <4>3 DEF Seed, TypeOK, Pass
      <4>4. CASE MarkerFails(t)
        BY <3>1, <4>4 DEF MarkerFails, TypeOK, Pass
      <4>5. CASE ClearClaim(t)
        BY <3>1, <4>5 DEF ClearClaim, TypeOK, Pass
      <4> QED BY <2>4, <4>1, <4>2, <4>3, <4>4, <4>5
    <3> QED BY <3>2, <3>4
  <2> HIDE DEF p, q
  <2> QED BY <2>1, <2>2, <2>3, <2>4
<1> QED BY <1>1, <1>2, <1>3, ForcedMoves

(* A collection's task: what it reads it finds dirty, what lands is no      *)
(* longer unsent.                                                           *)
LEMMA ForcedTasks ==
    ASSUME TypeOK, NEW t \in Tab, ForcedOf(t), NEW c \in Collection,
           \/ Read(t, c) \/ Land(t, c) \/ Finish(t, c)
           \/ TaskFails(t, c) \/ LateLands(t, c) \/ LateFails(t, c)
    PROVE  ForcedOf(t)'
<1> DEFINE p == pass[t]
           q == pass'[t]
           d == HomeOf[t]
<1>0. /\ d \in Device /\ p \in Pass /\ claim' = claim
      /\ unsent \in [Device -> SUBSET Collection] /\ dirty \in [Device -> SUBSET Collection]
  BY SyncMarkerAssumptions
     DEF SyncMarkerAssumptions, TypeOK, Read, Land, Finish, TaskFails, LateLands, LateFails
<1>1. CASE Read(t, c)
  <2>1. /\ UNCHANGED <<dirty, unsent>> /\ q.step = p.step /\ q.full = p.full
        /\ q.failed = p.failed /\ q.settled = p.settled /\ q.landed = p.landed
        /\ q.read = p.read \cup {c} /\ q.sent = p.sent \cup ({c} \cap dirty[d])
        /\ p.step = "sync" /\ c \notin p.settled /\ c \notin p.read
    BY <1>0, <1>1 DEF Read, TypeOK, Pass
  <2>2. c \notin p.landed
    BY <2>1 DEF ForcedOf
  <2> QED BY <1>0, <2>1, <2>2 DEF ForcedOf
<1>2. CASE Land(t, c)
  <2>1. /\ unsent'[d] = unsent[d] \ {c} /\ dirty[d] \ {c} \subseteq dirty'[d]
        /\ q.step = p.step /\ q.full = p.full /\ q.failed = p.failed /\ q.settled = p.settled
        /\ q.landed = p.landed \cup {c} /\ q.read = p.read /\ q.sent = p.sent
        /\ p.step = "sync" /\ c \in p.sent
    BY <1>0, <1>2 DEF Land, Spoiled, TypeOK, Pass
  <2> QED BY <1>0, <2>1 DEF ForcedOf
<1>3. CASE Finish(t, c)
  <2>1. /\ UNCHANGED <<dirty, unsent>> /\ q.step = p.step /\ q.full = p.full
        /\ q.failed = p.failed /\ q.settled = p.settled \cup {c} /\ q.landed = p.landed
        /\ q.read = p.read /\ q.sent = p.sent
        /\ p.step = "sync" /\ (c \in p.sent => c \in p.landed)
    BY <1>0, <1>3 DEF Finish, TypeOK, Pass
  <2> QED BY <1>0, <2>1 DEF ForcedOf
<1>4. CASE TaskFails(t, c)
  <2>1. /\ UNCHANGED <<dirty, unsent>> /\ q.step = p.step /\ q.failed
        /\ q.landed = p.landed /\ q.read = p.read /\ q.sent = p.sent /\ p.step = "sync"
    BY <1>0, <1>4 DEF TaskFails, TypeOK, Pass
  <2> QED BY <1>0, <2>1 DEF ForcedOf
<1>5. CASE LateLands(t, c)
  <2>1. UNCHANGED <<dirty, unsent>> /\ SameProgress(p, q)
    BY <1>0, <1>5 DEF LateLands, Spoiled, TypeOK, Pass, SameProgress
  <2> QED BY <1>0, <2>1, ForcedAside
<1>6. CASE LateFails(t, c)
  <2>1. UNCHANGED <<dirty, unsent, pass>>
    BY <1>6 DEF LateFails
  <2> QED BY <1>0, <2>1, ForcedAside DEF SameProgress
<1> QED BY <1>1, <1>2, <1>3, <1>4, <1>5, <1>6

(* A full pass whose every collection settled has pushed what was unsent.   *)
LEMMA ForcedSettle ==
    ASSUME TypeOK, NEW t \in Tab, PassInv(t), ForcedOf(t), Settle(t)
    PROVE  ForcedOf(t)'
<1> DEFINE p == pass[t]
           q == pass'[t]
           d == HomeOf[t]
<1>0. /\ d \in Device /\ p \in Pass /\ unsent \in [Device -> SUBSET Collection]
      /\ UNCHANGED <<claim, dirty, unsent>> /\ q = Goto(p, AfterTasks(p))
      /\ p.step = "sync" /\ p.settled = p.scope
  BY SyncMarkerAssumptions DEF SyncMarkerAssumptions, TypeOK, Settle, AllSettled
<1>1. AfterTasks(p) \in {"idle", "void", "bump", "count", "store"}
  BY DEF AfterTasks
<1>2. /\ q.step \in {"idle", "void", "bump", "count", "store"}
      /\ q.step # "idle" => q.full = p.full /\ q.failed = p.failed
  <2>1. CASE AfterTasks(p) = "idle"
    BY <1>0, <2>1 DEF Goto, Idle
  <2>2. CASE AfterTasks(p) # "idle"
    BY <1>0, <1>1, <2>2, GotoFields
  <2> QED BY <2>1, <2>2
<1>3. p.full /\ ~p.failed => unsent[d] = {}
  <2> SUFFICES ASSUME p.full, ~p.failed PROVE unsent[d] = {}
    OBVIOUS
  <2>1. p.settled = Collection
    BY <1>0 DEF PassInv, ShapeOf
  <2>2. p.settled \subseteq p.read
    BY <1>0 DEF PassInv, PulledOf
  <2>3. unsent[d] \cap p.read \subseteq p.sent \ p.landed /\ p.settled \cap p.sent \subseteq p.landed
    BY <1>0 DEF ForcedOf
  <2> QED BY <1>0, <2>1, <2>2, <2>3
<1> QED BY <1>0, <1>2, <1>3, ForcedMoves

(* The catch puts on record what its tasks left, and clears the claim.      *)
LEMMA ForcedVoid ==
    ASSUME TypeOK, NEW t \in Tab, PassInv(t), ForcedOf(t), Void(t)
    PROVE  ForcedOf(t)'
<1> DEFINE p == pass[t]
           q == pass'[t]
           d == HomeOf[t]
<1>0. /\ d \in Device /\ p \in Pass /\ p.failed
      /\ dirty' = dirty /\ claim'[d] = None
      /\ unsent'[d] = unsent[d] \cup (dirty[d] \cap Undone(p))
      /\ q = Goto(p, IF Pushed(p) THEN "bump" ELSE "idle")
  BY SyncMarkerAssumptions DEF SyncMarkerAssumptions, TypeOK, Void, PassInv, ShapeOf
<1>1. q.step \in {"bump", "idle"} /\ (q.step = "bump" => q.failed)
  <2>1. CASE Pushed(p)
    BY <1>0, <2>1, GotoFields
  <2>2. CASE ~Pushed(p)
    BY <1>0, <2>2 DEF Goto, Idle
  <2> QED BY <2>1, <2>2
<1> QED BY <1>0, <1>1 DEF ForcedOf

(* From there to the end of the pass, or of the tab.                        *)
LEMMA ForcedEnd ==
    ASSUME TypeOK, NEW t \in Tab, PassInv(t), ForcedOf(t),
           \/ ReadClaim(t) \/ Bump(t) \/ BumpFails(t) \/ Retract(t)
           \/ StoreClaim(t) \/ Advance(t) \/ Crash(t)
    PROVE  ForcedOf(t)'
<1> DEFINE p == pass[t]
           q == pass'[t]
           d == HomeOf[t]
<1>0. /\ d \in Device /\ p \in Pass /\ UNCHANGED <<dirty, unsent>>
  BY SyncMarkerAssumptions
     DEF SyncMarkerAssumptions, TypeOK, ReadClaim, Bump, BumpFails, Retract, StoreClaim, Advance, Crash
<1>1. CASE ReadClaim(t)
  <2>1. q.full = p.full /\ ~p.full /\ q.step = "bump" /\ claim' = claim
    BY <1>0, <1>1 DEF ReadClaim, TypeOK, Pass, PassInv, ShapeOf
  <2> QED BY <1>0, <2>1, ForcedMoves
<1>2. CASE Bump(t)
  <2> DEFINE p1 == [p EXCEPT !.landed = {}, !.owed = {}]
  <2>1. /\ p1 \in Pass /\ p1.full = p.full /\ p1.failed = p.failed
        /\ p.step = "bump" /\ claim' = claim /\ q = Goto(p1, AfterBump(p))
    BY <1>0, <1>2 DEF Bump, TypeOK, Pass
  <2> HIDE DEF p1
  <2>2. AfterBump(p) \in {"idle", "store", "advance"}
    BY DEF AfterBump
  <2>3. /\ q.step \in {"idle", "store", "advance"}
        /\ q.step # "idle" => q.full = p.full /\ q.failed = p.failed
    <3>1. CASE AfterBump(p) = "idle"
      BY <2>1, <3>1 DEF Goto, Idle
    <3>2. CASE AfterBump(p) # "idle"
      BY <2>1, <2>2, <3>2, GotoFields
    <3> QED BY <3>1, <3>2
  <2>4. p.full /\ ~p.failed => unsent[d] = {}
    BY <2>1 DEF ForcedOf
  <2> QED BY <1>0, <2>1, <2>3, <2>4, ForcedMoves
<1>3. CASE BumpFails(t)
  <2>1. q.step = "retract" /\ claim' = claim
    BY <1>0, <1>3 DEF BumpFails, TypeOK, Pass
  <2> QED BY <1>0, <2>1, ForcedMoves
<1>4. CASE Retract(t)
  <2>1. q.step = "idle" /\ claim'[d] = None
    BY <1>0, <1>4 DEF Retract, TypeOK, Idle
  <2> QED BY <1>0, <2>1, ForcedMoves
<1>5. CASE StoreClaim(t) \/ Advance(t)
  <2>1. q.step = "idle" /\ (claim'[d] # claim[d] => unsent[d] = {})
    <3>1. CASE StoreClaim(t)
      BY <1>0, <3>1 DEF StoreClaim, TypeOK, Idle, PassInv, ShapeOf, ForcedOf
    <3>2. CASE Advance(t)
      <4>1. p.seen # None /\ q.step = "idle"
        BY <1>0, <3>2 DEF Advance, TypeOK, Idle, PassInv, ShapeOf
      <4>2. claim'[d] # claim[d] => claim[d] # None
        BY <1>0, <3>2, <4>1 DEF Advance, TypeOK
      <4> QED BY <4>1, <4>2 DEF ForcedOf
    <3> QED BY <1>5, <3>1, <3>2
  <2> QED BY <1>0, <2>1 DEF ForcedOf
<1>6. CASE Crash(t)
  <2>1. q.step = "idle" /\ claim' = claim
    BY <1>0, <1>6 DEF Crash, TypeOK, Idle
  <2> QED BY <1>0, <2>1, ForcedMoves
<1> QED BY <1>1, <1>2, <1>3, <1>4, <1>5, <1>6

(* A step of one tab, as the passes of all the others see it.               *)
LEMMA StepKept ==
    ASSUME TypeOK, NEW t \in Tab, PassInv(t), NEW u \in Tab, u # t,
           \/ BeginNarrowed(t) \/ \E background \in BOOLEAN : BeginFull(t, background)
           \/ Step(t) \/ Fault(t)
    PROVE  Kept(u)
<1>1. CASE BeginNarrowed(t) \/ \E background \in BOOLEAN : BeginFull(t, background)
  BY <1>1, BeginKeeps
<1>2. CASE Step(t)
  <2>1. CASE ReadMarker(t) \/ Proceed(t) \/ Seed(t) \/ ClearClaim(t)
    BY <2>1, ApproachKeeps
  <2>2. CASE Skip(t) \/ Retract(t) \/ StoreClaim(t) \/ Advance(t)
    BY <2>2, EndKeeps
  <2>3. ASSUME NEW c \in Collection, Read(t, c) \/ Land(t, c) \/ Finish(t, c) PROVE Kept(u)
    BY <2>3, ReadKeeps, LandKeeps, FinishKeeps
  <2>4. CASE Settle(t) \/ Void(t) \/ ReadClaim(t) \/ Bump(t)
    BY <2>4, SettleKeeps, VoidKeeps, ReadClaimKeeps, BumpKeeps
  <2> QED BY <1>2, <2>1, <2>2, <2>3, <2>4 DEF Step
<1>3. CASE Fault(t)
  <2>1. CASE MarkerFails(t)
    BY <2>1, ApproachKeeps
  <2>2. CASE BumpFails(t) \/ Crash(t)
    BY <2>2, BumpFailsKeeps
  <2>3. ASSUME NEW c \in Collection, TaskFails(t, c) \/ LateLands(t, c) PROVE Kept(u)
    BY <2>3, TaskFailsKeeps, LateLandsKeeps
  <2>4. ASSUME NEW c \in Collection, LateFails(t, c) PROVE Kept(u)
    BY <2>4, NothingMissed DEF LateFails
  <2> QED BY <1>3, <2>1, <2>2, <2>3, <2>4 DEF Fault
<1> QED BY <1>1, <1>2, <1>3

(* Any step keeps it: of the device's own tab, of another, or of none.      *)
LEMMA ForcedStep ==
    ASSUME OneTabEach, IInv, Forced, [Next]_vars
    PROVE  Forced'
<1>0. TypeOK /\ \A u \in Tab : PassInv(u)
  BY DEF IInv
<1>1. SUFFICES ASSUME NEW t \in Tab PROVE ForcedOf(t)'
  BY DEF Forced
<1>2. ForcedOf(t) /\ PassInv(t) /\ HomeOf[t] \in Device
  BY <1>0, SyncMarkerAssumptions DEF SyncMarkerAssumptions, Forced
<1>3. CASE UNCHANGED vars
  BY <1>2, <1>3, ForcedAside DEF vars, SameProgress
<1>4. ASSUME NEW d \in Device, Age(d) PROVE ForcedOf(t)'
  BY <1>2, <1>4, ForcedAside DEF Age, SameProgress
<1>5. ASSUME NEW d \in Device, NEW c \in Collection, Edit(d, c) PROVE ForcedOf(t)'
  <2>1. claim' = claim /\ unsent' = unsent /\ dirty[HomeOf[t]] \subseteq dirty'[HomeOf[t]]
    BY <1>0, <1>2, <1>5 DEF Edit, TypeOK
  <2>2. SameProgress(pass[t], pass'[t])
    BY <1>0, <1>5 DEF Edit, TypeOK, Pass, SameProgress
  <2> QED BY <1>2, <2>1, <2>2, ForcedAside
<1>6. ASSUME NEW c \in Collection, ServerWrites(c) PROVE ForcedOf(t)'
  <2>1. UNCHANGED <<claim, unsent, dirty>>
    BY <1>6 DEF ServerWrites
  <2>2. SameProgress(pass[t], pass'[t])
    BY <1>0, <1>6 DEF ServerWrites, Spoiled, TypeOK, Pass, SameProgress
  <2> QED BY <1>2, <2>1, <2>2, ForcedAside
<1>7. ASSUME NEW u \in Tab,
             \/ BeginNarrowed(u) \/ \E background \in BOOLEAN : BeginFull(u, background)
             \/ Step(u) \/ Fault(u)
      PROVE  ForcedOf(t)'
  <2>1. CASE u = t
    <3>1. CASE \/ BeginNarrowed(t) \/ \E background \in BOOLEAN : BeginFull(t, background)
               \/ ReadMarker(t) \/ Skip(t) \/ Proceed(t) \/ Seed(t) \/ ClearClaim(t)
               \/ MarkerFails(t)
      BY <1>0, <1>2, <3>1, ForcedApproach
    <3>2. ASSUME NEW c \in Collection,
                 \/ Read(t, c) \/ Land(t, c) \/ Finish(t, c)
                 \/ TaskFails(t, c) \/ LateLands(t, c) \/ LateFails(t, c)
          PROVE  ForcedOf(t)'
      BY <1>0, <1>2, <3>2, ForcedTasks
    <3>3. CASE Settle(t) \/ Void(t)
      BY <1>0, <1>2, <3>3, ForcedSettle, ForcedVoid
    <3>4. CASE \/ ReadClaim(t) \/ Bump(t) \/ BumpFails(t) \/ Retract(t)
               \/ StoreClaim(t) \/ Advance(t) \/ Crash(t)
      BY <1>0, <1>2, <3>4, ForcedEnd
    <3> QED BY <1>7, <2>1, <3>1, <3>2, <3>3, <3>4 DEF Step, Fault
  <2>2. CASE u # t
    <3>1. Kept(t)
      BY <1>0, <1>7, <2>2, StepKept
    <3> QED BY <1>0, <1>2, <1>7, <2>2, <3>1, ForcedElsewhere DEF OneTabEach
  <2> QED BY <2>1, <2>2
<1> QED BY <1>3, <1>4, <1>5, <1>6, <1>7 DEF Next

(* For any number of devices with one tab each, whatever fails and whatever *)
(* other devices do: once the catch of a failed pass has run, no background *)
(* pass is skipped while an edit that the failed pass had to push is not    *)
(* pushed ("the next background pass must read for real").                  *)
THEOREM FailuresCorrect ==
    ASSUME OneTabEach
    PROVE  Spec => FailureForcesRead
<1>1. Init => Forced
  BY SyncMarkerAssumptions DEF SyncMarkerAssumptions, Init, Forced, ForcedOf, Idle
<1>2. IInv /\ Forced /\ [Next]_vars => Forced'
  BY ForcedStep
<1>3. Forced /\ [Next]_vars => [\A t \in Tab : Skip(t) => unsent[HomeOf[t]] = {}]_vars
  BY DEF Forced, ForcedOf, Skip, canSkipPass
<1> QED BY <1>1, <1>2, <1>3, Invariance, PTL DEF Spec, FailureForcesRead
=============================================================================
