------------------------------ MODULE SyncMarker ------------------------------
(***************************************************************************)
(* The change marker of one Character (src/sync/syncMarker.ts) and the pass *)
(* that uses it (src/sync/planSync.ts syncCharacter): a counter on the      *)
(* remote parent doc that every pushing pass bumps once its pushes landed,  *)
(* and on each device a claim, "nothing changed since version v", that lets *)
(* an idle background pass end after one read.  What a collection holds is  *)
(* abstracted to whether a device still has to pull it, see RecordSync.     *)
(***************************************************************************)
EXTENDS Naturals

CONSTANTS
    Device, Tab,        \* devices (one IndexedDB each) and the tabs open on them
    HomeOf,             \* the device a tab runs on
    Collection,         \* the synced collections
    Moment,             \* when full passes start (Date.now(), as an identity)
    MaxWrites,          \* bound: local edits and server writes
    MaxFaults,          \* bound: reads, writes and bumps that fail, tabs that close
    Lapses,             \* bound: whether the safety interval ever goes by
    None

Claim == [version : Nat, fullAt : Moment]

ASSUME SyncMarkerAssumptions ==
    /\ HomeOf \in [Tab -> Device]
    /\ MaxWrites \in Nat /\ MaxFaults \in Nat /\ Lapses \in BOOLEAN
    /\ None \notin Claim /\ None \notin Moment /\ None \notin Nat

VARIABLES
    marker,     \* syncVersion, 0 while the field does not exist
    exists,     \* whether the field exists
    claim,      \* claim[d]: the seen marker device d stores, or None
    lapsed,     \* lapsed[d]: the moments older than SAFETY_RECONCILE_INTERVAL_MS
    dirty,      \* dirty[d]: collections with edits on d that are not remote yet
    pass,       \* pass[t]: the pass tab t runs
    late,       \* late[t]: writes of a failed task of t that are still running
    writes, faults,
    behind,     \* ghost: collections that changed remotely since d pulled them
    lost,       \* ghost: those of them whose bump failed, or never comes
    hushed,     \* ghost: those of them that a late write changed
    unsent      \* ghost: those of dirty[d] with an edit a failed task had to push

vars == <<marker, exists, claim, lapsed, dirty, pass, late, writes, faults,
          behind, lost, hushed, unsent>>

(* A pass: what it covers and when it started, the marker and claim it read, *)
(* the collections it has read, read with no remote change since, found      *)
(* edits in, found edits in with no edit since, written without announcing   *)
(* it yet (owed: by an earlier pass) and finished.                           *)
Idle == [step |-> "idle", full |-> FALSE, background |-> FALSE, scope |-> {},
         at |-> None, before |-> None, absent |-> FALSE, seen |-> None,
         read |-> {}, fresh |-> {}, sent |-> {}, taken |-> {}, landed |-> {},
         owed |-> {}, settled |-> {}, failed |-> FALSE]

Pushed(p) == p.sent # {}

(* The moments device d still compares with.                                *)
InUse(d) ==
    {claim[e].fullAt : e \in {x \in {d} : claim[x] # None}}
        \cup {pass[t].at : t \in {u \in Tab : HomeOf[u] = d}}
        \cup {pass[t].seen.fullAt : t \in {u \in Tab : HomeOf[u] = d /\ pass[u].seen # None}}

Init ==
    /\ marker = 0 /\ exists = FALSE
    /\ claim = [d \in Device |-> None]
    /\ lapsed = [d \in Device |-> {}]
    /\ dirty = [d \in Device |-> {}]
    /\ pass = [t \in Tab |-> Idle]
    /\ late = [t \in Tab |-> {}]
    /\ writes = 0 /\ faults = 0
    /\ behind = [d \in Device |-> {}]
    /\ lost = [d \in Device |-> {}]
    /\ hushed = [d \in Device |-> {}]
    /\ unsent = [d \in Device |-> {}]

-----------------------------------------------------------------------------
(***************************************************************************)
(* What happens around the passes.                                          *)
(***************************************************************************)

(* The user edits collection c on device d.                                 *)
Edit(d, c) ==
    /\ writes < MaxWrites
    /\ writes' = writes + 1
    /\ dirty' = [dirty EXCEPT ![d] = @ \cup {c}]
    /\ pass' = [t \in Tab |-> IF HomeOf[t] = d THEN [pass[t] EXCEPT !.taken = @ \ {c}]
                                              ELSE pass[t]]
    /\ UNCHANGED <<marker, exists, claim, lapsed, late, faults, behind, lost, hushed, unsent>>

(* c changes remotely: every device outside D is behind on it now, and so   *)
(* is a pass of theirs that has already read it.                            *)
FallBehind(c, D) ==
    behind' = [d \in Device |-> IF d \in D THEN behind[d] ELSE behind[d] \cup {c}]

Spoiled(c, D) ==
    [t \in Tab |-> IF HomeOf[t] \in D THEN pass[t]
                   ELSE [pass[t] EXCEPT !.fresh = @ \ {c}]]

(* A server function writes to c.  It never bumps the marker.               *)
ServerWrites(c) ==
    /\ writes < MaxWrites
    /\ writes' = writes + 1
    /\ FallBehind(c, {})
    /\ pass' = Spoiled(c, {})
    /\ lost' = [d \in Device |-> lost[d] \cup {c}]
    /\ UNCHANGED <<marker, exists, claim, lapsed, dirty, late, faults, hushed, unsent>>

(* SAFETY_RECONCILE_INTERVAL_MS goes by (three hours, never within the one   *)
(* read between a pass's start and its decision to skip).                   *)
Age(d) ==
    /\ Lapses
    /\ claim[d] # None /\ claim[d].fullAt \notin lapsed[d]
    /\ \A t \in Tab : HomeOf[t] = d => pass[t].step \notin {"marker", "claim"}
    /\ lapsed' = [lapsed EXCEPT ![d] = InUse(d) \ {None}]
    /\ UNCHANGED <<marker, exists, claim, dirty, pass, late, writes, faults, behind, lost, hushed, unsent>>

-----------------------------------------------------------------------------
(***************************************************************************)
(* syncCharacter, up to the collections.                                    *)
(***************************************************************************)

(* Faulty: the pass does not record when it started.                        *)
BeginFull_NoMoment(t, background) ==
    LET d == HomeOf[t] IN
    /\ pass[t] = Idle
    /\ \E m \in Moment \ InUse(d) :
        /\ pass' = [pass EXCEPT ![t] =
                [Idle EXCEPT !.step = "marker", !.full = TRUE, !.background = background,
                             !.scope = Collection]]
        /\ lapsed' = [lapsed EXCEPT ![d] = @ \ {m}]
    /\ UNCHANGED <<marker, exists, claim, dirty, late, writes, faults, behind, lost, hushed, unsent>>

BeginFull(t, background) ==
    LET d == HomeOf[t] IN
    /\ pass[t] = Idle
    /\ \E m \in Moment \ InUse(d) :
        /\ pass' = [pass EXCEPT ![t] =
                [Idle EXCEPT !.step = "marker", !.full = TRUE, !.background = background,
                             !.scope = Collection, !.at = m]]
        /\ lapsed' = [lapsed EXCEPT ![d] = @ \ {m}]
    /\ UNCHANGED <<marker, exists, claim, dirty, late, writes, faults, behind, lost, hushed, unsent>>

(* A narrowed pass, for the collections edits touched, skips the marker.    *)
BeginNarrowed(t) ==
    /\ pass[t] = Idle
    /\ \E S \in SUBSET dirty[HomeOf[t]] \ {{}} :
        pass' = [pass EXCEPT ![t] = [Idle EXCEPT !.step = "sync", !.scope = S]]
    /\ UNCHANGED <<marker, exists, claim, lapsed, dirty, late, writes, faults, behind, lost, hushed, unsent>>

(* Past the decision to skip: the field is created, then the claim cleared. *)
Going(p) == [p EXCEPT !.step = IF p.absent THEN "seed" ELSE "clear", !.background = FALSE]

(* Only a background pass looks at the claim.                               *)
ReadMarker(t) ==
    LET p == [pass[t] EXCEPT !.before = marker, !.absent = ~exists] IN
    /\ pass[t].step = "marker"
    /\ pass' = [pass EXCEPT ![t] = IF p.background THEN [p EXCEPT !.step = "claim"] ELSE Going(p)]
    /\ UNCHANGED <<marker, exists, claim, lapsed, dirty, late, writes, faults, behind, lost, hushed, unsent>>

(* Faulty: an unchanged marker is trusted for ever.                         *)
canSkipPass_NoInterval(d, p) ==
    /\ ~p.absent
    /\ claim[d] # None
    /\ claim[d].version = p.before

canSkipPass(d, p) ==
    /\ ~p.absent
    /\ claim[d] # None
    /\ claim[d].version = p.before
    /\ claim[d].fullAt \notin lapsed[d]

Skip(t) ==
    /\ pass[t].step = "claim"
    /\ canSkipPass(HomeOf[t], pass[t])
    /\ pass' = [pass EXCEPT ![t] = Idle]
    /\ UNCHANGED <<marker, exists, claim, lapsed, dirty, late, writes, faults, behind, lost, hushed, unsent>>

Proceed(t) ==
    /\ pass[t].step = "claim"
    /\ ~canSkipPass(HomeOf[t], pass[t])
    /\ pass' = [pass EXCEPT ![t] = Going(@)]
    /\ UNCHANGED <<marker, exists, claim, lapsed, dirty, late, writes, faults, behind, lost, hushed, unsent>>

(* bumpRemoteMarker by 0 creates the field and leaves a value alone.        *)
Seed(t) ==
    /\ pass[t].step = "seed"
    /\ exists' = TRUE
    /\ pass' = [pass EXCEPT ![t] = [@ EXCEPT !.step = "clear", !.absent = FALSE]]
    /\ UNCHANGED <<marker, claim, lapsed, dirty, late, writes, faults, behind, lost, hushed, unsent>>

(* The rules refuse the marker, or it cannot be reached.                    *)
MarkerFails(t) ==
    /\ pass[t].step \in {"marker", "seed"}
    /\ faults < MaxFaults
    /\ faults' = faults + 1
    /\ exists' \in {exists, exists \/ pass[t].step = "seed"}
    /\ pass' = [pass EXCEPT ![t] = [@ EXCEPT !.step = "clear", !.before = None,
                                            !.absent = FALSE, !.background = FALSE]]
    /\ UNCHANGED <<marker, claim, lapsed, dirty, late, writes, behind, lost, hushed, unsent>>

(* "The old claim is spent."                                                *)
ClearClaim(t) ==
    /\ pass[t].step = "clear"
    /\ claim' = [claim EXCEPT ![HomeOf[t]] = None]
    /\ pass' = [pass EXCEPT ![t] = [@ EXCEPT !.step = "sync"]]
    /\ UNCHANGED <<marker, exists, lapsed, dirty, late, writes, faults, behind, lost, hushed, unsent>>

-----------------------------------------------------------------------------
(***************************************************************************)
(* The collections, in any order (settleAllThenThrow).                      *)
(***************************************************************************)

(* A collection's task pulls it and finds the edits made so far.            *)
Read(t, c) ==
    LET edits == {c} \cap dirty[HomeOf[t]] IN
    /\ pass[t].step = "sync"
    /\ c \in pass[t].scope \ (pass[t].read \cup pass[t].settled)
    /\ pass' = [pass EXCEPT ![t] =
            [pass[t] EXCEPT !.read = @ \cup {c}, !.fresh = @ \cup {c},
                            !.sent = @ \cup edits, !.taken = @ \cup edits]]
    /\ UNCHANGED <<marker, exists, claim, lapsed, dirty, late, writes, faults, behind, lost, hushed, unsent>>

(* Its writes land.                                                         *)
Land(t, c) ==
    LET d == HomeOf[t]
        D == {d}
        clean == {c} \cap pass[t].taken
    IN
    /\ pass[t].step = "sync"
    /\ c \in pass[t].sent \ (pass[t].landed \cup pass[t].settled)
    /\ FallBehind(c, D)
    /\ pass' = [Spoiled(c, D) EXCEPT ![t] = [pass[t] EXCEPT !.landed = @ \cup {c}]]
    /\ dirty' = [dirty EXCEPT ![d] = @ \ clean]
    /\ unsent' = [unsent EXCEPT ![d] = @ \ {c}]
    /\ UNCHANGED <<marker, exists, claim, lapsed, late, writes, faults, lost, hushed>>

(* It applies what it pulled and stores its cursor.                         *)
Finish(t, c) ==
    LET d == HomeOf[t]
        done == {c} \cap pass[t].fresh
    IN
    /\ pass[t].step = "sync"
    /\ c \in pass[t].read \ pass[t].settled
    /\ c \in pass[t].sent => c \in pass[t].landed
    /\ pass' = [pass EXCEPT ![t] = [pass[t] EXCEPT !.settled = @ \cup {c}]]
    /\ behind' = [behind EXCEPT ![d] = @ \ done]
    /\ lost' = [lost EXCEPT ![d] = @ \ done]
    /\ hushed' = [hushed EXCEPT ![d] = @ \ done]
    /\ UNCHANGED <<marker, exists, claim, lapsed, dirty, late, writes, faults, unsent>>

(* It fails.  The others go on, and so may writes of its own: runBounded    *)
(* rejects on the first failure while its other workers keep writing.       *)
TaskFails(t, c) ==
    /\ pass[t].step = "sync"
    /\ c \in pass[t].scope \ pass[t].settled
    /\ faults < MaxFaults
    /\ faults' = faults + 1
    /\ pass' = [pass EXCEPT ![t] =
            [pass[t] EXCEPT !.settled = @ \cup {c}, !.fresh = @ \ {c}, !.failed = TRUE]]
    /\ \E S \in SUBSET (({c} \cap pass[t].sent) \ pass[t].landed) :
            late' = [late EXCEPT ![t] = @ \cup S]
    /\ UNCHANGED <<marker, exists, claim, lapsed, dirty, writes, behind, lost, hushed, unsent>>

(* A late write lands; the collection stays dirty, for the write that       *)
(* failed.  Only a bump still to come can announce it.                      *)
Announces(p) == Pushed(p) /\ p.step \in {"sync", "void", "count", "bump"}

LateLands(t, c) ==
    LET D == {HomeOf[t]} IN
    /\ c \in late[t]
    /\ late' = [late EXCEPT ![t] = @ \ {c}]
    /\ FallBehind(c, D)
    /\ IF Announces(pass[t])
       THEN /\ pass' = [Spoiled(c, D) EXCEPT ![t] = [pass[t] EXCEPT !.owed = @ \cup {c}]]
            /\ UNCHANGED hushed
       ELSE /\ pass' = Spoiled(c, D)
            /\ hushed' = [d \in Device |-> IF d \in D THEN hushed[d] ELSE hushed[d] \cup {c}]
    /\ UNCHANGED <<marker, exists, claim, lapsed, dirty, writes, faults, lost, unsent>>

LateFails(t, c) ==
    /\ c \in late[t]
    /\ late' = [late EXCEPT ![t] = @ \ {c}]
    /\ UNCHANGED <<marker, exists, claim, lapsed, dirty, pass, writes, faults, behind, lost, hushed, unsent>>

-----------------------------------------------------------------------------
(***************************************************************************)
(* syncCharacter, once every collection settled.                            *)
(***************************************************************************)

AllSettled(t) == pass[t].step = "sync" /\ pass[t].settled = pass[t].scope

(* What the collections' tasks kept is forgotten with them, but for what    *)
(* the catch is about.                                                      *)
Goto(p, step) ==
    IF step = "idle" THEN Idle
    ELSE IF step = "void" THEN [p EXCEPT !.step = step]
    ELSE [p EXCEPT !.step = step, !.scope = {}, !.read = {}, !.fresh = {},
                   !.taken = {}, !.settled = {}]

AfterTasks(p) ==
    IF p.failed THEN "void"
    ELSE IF Pushed(p) THEN (IF p.full THEN "bump" ELSE "count")
    ELSE (IF p.full THEN "store" ELSE "idle")

Settle(t) ==
    /\ AllSettled(t)
    /\ pass' = [pass EXCEPT ![t] = Goto(@, AfterTasks(@))]
    /\ UNCHANGED <<marker, exists, claim, lapsed, dirty, late, writes, faults, behind, lost, hushed, unsent>>

(* The collections whose task failed before its pull or its push was done.  *)
Undone(p) == (p.scope \ p.read) \cup (p.sent \ p.landed)

(* Faulty: a narrowed pass that fails leaves the claim alone.               *)
Void_FullOnly(t) ==
    LET d == HomeOf[t] IN
    /\ pass[t].step = "void"
    /\ claim' = IF pass[t].full THEN [claim EXCEPT ![d] = None] ELSE claim
    /\ pass' = [pass EXCEPT ![t] = Goto(@, IF Pushed(@) THEN "bump" ELSE "idle")]
    /\ unsent' = [unsent EXCEPT ![d] = @ \cup (dirty[d] \cap Undone(pass[t]))]
    /\ UNCHANGED <<marker, exists, lapsed, dirty, late, writes, faults, behind, lost, hushed>>

(* catch: the next background pass must read for real.                      *)
Void(t) ==
    LET d == HomeOf[t] IN
    /\ pass[t].step = "void"
    /\ claim' = [claim EXCEPT ![d] = None]
    /\ pass' = [pass EXCEPT ![t] = Goto(@, IF Pushed(@) THEN "bump" ELSE "idle")]
    /\ unsent' = [unsent EXCEPT ![d] = @ \cup (dirty[d] \cap Undone(pass[t]))]
    /\ UNCHANGED <<marker, exists, lapsed, dirty, late, writes, faults, behind, lost, hushed>>

(* finally: a narrowed pass counts its bump into the claim as it stood      *)
(* before it.                                                               *)
ReadClaim(t) ==
    /\ pass[t].step = "count"
    /\ pass' = [pass EXCEPT ![t] = [@ EXCEPT !.step = "bump", !.seen = claim[HomeOf[t]]]]
    /\ UNCHANGED <<marker, exists, claim, lapsed, dirty, late, writes, faults, behind, lost, hushed, unsent>>

AfterBump(p) ==
    IF p.failed THEN "idle"
    ELSE IF p.full THEN "store"
    ELSE IF p.seen # None THEN "advance" ELSE "idle"

Bump(t) ==
    /\ pass[t].step = "bump"
    /\ marker' = marker + 1
    /\ exists' = TRUE
    /\ pass' = [pass EXCEPT ![t] = Goto([@ EXCEPT !.landed = {}, !.owed = {}], AfterBump(@))]
    /\ UNCHANGED <<claim, lapsed, dirty, late, writes, faults, behind, lost, hushed, unsent>>

(* What t's next bump announces.                                            *)
Owed(t) == pass[t].landed \cup pass[t].owed

(* What no bump will announce any more.                                     *)
Unannounced(t) == [d \in Device |-> lost[d] \cup (behind[d] \cap Owed(t))]

(* A bump that reports a failure may have been applied.                     *)
BumpFails(t) ==
    /\ pass[t].step = "bump"
    /\ faults < MaxFaults
    /\ faults' = faults + 1
    /\ \/ /\ marker' = marker + 1
          /\ exists' = TRUE
          /\ UNCHANGED lost
       \/ /\ lost' = Unannounced(t)
          /\ UNCHANGED <<marker, exists>>
    /\ pass' = [pass EXCEPT ![t] = [@ EXCEPT !.step = "retract", !.landed = {}, !.owed = {}]]
    /\ UNCHANGED <<claim, lapsed, dirty, late, writes, behind, hushed, unsent>>

Retract(t) ==
    /\ pass[t].step = "retract"
    /\ claim' = [claim EXCEPT ![HomeOf[t]] = None]
    /\ pass' = [pass EXCEPT ![t] = Idle]
    /\ UNCHANGED <<marker, exists, lapsed, dirty, late, writes, faults, behind, lost, hushed, unsent>>

(* Faulty: the claim is the marker as it stands now.                        *)
StoreClaim_AtEnd(t) ==
    LET p == pass[t] IN
    /\ p.step = "store"
    /\ claim' = IF p.before = None THEN claim
                ELSE [claim EXCEPT ![HomeOf[t]] = [version |-> marker, fullAt |-> p.at]]
    /\ pass' = [pass EXCEPT ![t] = Idle]
    /\ UNCHANGED <<marker, exists, lapsed, dirty, late, writes, faults, behind, lost, hushed, unsent>>

(* A full pass claims the marker as it stood before it read anything, plus  *)
(* its own bump.                                                            *)
StoreClaim(t) ==
    LET p == pass[t] IN
    /\ p.step = "store"
    /\ claim' = IF p.before = None THEN claim
                ELSE [claim EXCEPT ![HomeOf[t]] =
                        [version |-> p.before + (IF Pushed(p) THEN 1 ELSE 0), fullAt |-> p.at]]
    /\ pass' = [pass EXCEPT ![t] = Idle]
    /\ UNCHANGED <<marker, exists, lapsed, dirty, late, writes, faults, behind, lost, hushed, unsent>>

(* advanceSeenSyncMarker: only while the stored claim is the one it read.   *)
Advance(t) ==
    LET d == HomeOf[t] IN
    /\ pass[t].step = "advance"
    /\ claim' = IF claim[d] = pass[t].seen THEN [claim EXCEPT ![d].version = @ + 1] ELSE claim
    /\ pass' = [pass EXCEPT ![t] = Idle]
    /\ UNCHANGED <<marker, exists, lapsed, dirty, late, writes, faults, behind, lost, hushed, unsent>>

(* The tab closes: what its pass wrote is never announced.                  *)
Crash(t) ==
    /\ pass[t] # Idle \/ late[t] # {}
    /\ faults < MaxFaults
    /\ faults' = faults + 1
    /\ lost' = Unannounced(t)
    /\ pass' = [pass EXCEPT ![t] = Idle]
    /\ late' = [late EXCEPT ![t] = {}]
    /\ UNCHANGED <<marker, exists, claim, lapsed, dirty, writes, behind, hushed, unsent>>

-----------------------------------------------------------------------------
Step(t) ==
    \/ ReadMarker(t) \/ Skip(t) \/ Proceed(t) \/ Seed(t) \/ ClearClaim(t)
    \/ \E c \in Collection : Read(t, c) \/ Land(t, c) \/ Finish(t, c)
    \/ Settle(t) \/ Void(t) \/ ReadClaim(t) \/ Bump(t)
    \/ Retract(t) \/ StoreClaim(t) \/ Advance(t)

Fault(t) ==
    \/ MarkerFails(t) \/ BumpFails(t) \/ Crash(t)
    \/ \E c \in Collection : TaskFails(t, c) \/ LateLands(t, c) \/ LateFails(t, c)

Next ==
    \/ \E d \in Device : Age(d) \/ \E c \in Collection : Edit(d, c)
    \/ \E c \in Collection : ServerWrites(c)
    \/ \E t \in Tab :
        \/ \E background \in BOOLEAN : BeginFull(t, background)
        \/ BeginNarrowed(t) \/ Step(t) \/ Fault(t)

Spec == Init /\ [][Next]_vars

(* A started pass goes on, the background sweep comes round to every        *)
(* Character, and time passes.                                              *)
Fairness ==
    /\ \A t \in Tab : WF_vars(Step(t)) /\ WF_vars(BeginFull(t, TRUE))
    /\ \A d \in Device : SF_vars(Age(d))

FairSpec == Spec /\ Fairness

-----------------------------------------------------------------------------
(***************************************************************************)
(* Properties.                                                              *)
(***************************************************************************)

Pass == [step : {"idle", "marker", "claim", "seed", "clear", "sync", "void", "count",
                 "bump", "retract", "store", "advance"},
         full : BOOLEAN, background : BOOLEAN, scope : SUBSET Collection,
         at : Moment \cup {None},
         before : Nat \cup {None}, absent : BOOLEAN, seen : Claim \cup {None},
         read : SUBSET Collection, fresh : SUBSET Collection, sent : SUBSET Collection,
         taken : SUBSET Collection, owed : SUBSET Collection,
         landed : SUBSET Collection, settled : SUBSET Collection, failed : BOOLEAN]

TypeOK ==
    /\ marker \in Nat /\ exists \in BOOLEAN
    /\ claim \in [Device -> Claim \cup {None}]
    /\ lapsed \in [Device -> SUBSET Moment]
    /\ dirty \in [Device -> SUBSET Collection]
    /\ pass \in [Tab -> Pass]
    /\ late \in [Tab -> SUBSET Collection]
    /\ writes \in 0..MaxWrites /\ faults \in 0..MaxFaults
    /\ behind \in [Device -> SUBSET Collection]
    /\ lost \in [Device -> SUBSET Collection]
    /\ hushed \in [Device -> SUBSET Collection]
    /\ unsent \in [Device -> SUBSET Collection]

(* What landed, but whose bump is still to come.                            *)
Pending(d) == UNION {Owed(t) : t \in {u \in Tab : HomeOf[u] # d}}

(* What d is behind on although it was announced.                           *)
Missed(d) == behind[d] \ (lost[d] \cup hushed[d] \cup Pending(d))

(* A claim equal to the marker is true: whatever the other devices, other   *)
(* tabs of this one, failures and crashes did in between, the device has    *)
(* pulled every write whose bump reached the marker.                        *)
ClaimHonest ==
    \A d \in Device :
        claim[d] # None /\ claim[d].version = marker => Missed(d) = {}

(* "A reader that sees the new value must find the data already there":     *)
(* only a failed bump, a closed tab or a server write can hide a write.     *)
(* The code does not keep it: no run checks it, the README says why.       *)
BumpedAfterWrites ==
    \A d \in Device :
        claim[d] # None /\ claim[d].version = marker
            => behind[d] \subseteq lost[d] \cup Pending(d)

(* "Any failure can leave a local edit unpushed: the next background pass   *)
(* must read for real": once a failed pass has run its catch, none is       *)
(* skipped over an edit that its failed tasks had to push.  (A tab that     *)
(* closes before its catch boots again with a pass that is never skipped.)  *)
FailureForcesRead ==
    [][\A t \in Tab : Skip(t) => unsent[HomeOf[t]] = {}]_vars

(* The marker hides nothing for ever: what a device is behind on it pulls,  *)
(* lost bumps and late writes included.                                     *)
CatchesUp ==
    \A d \in Device, c \in Collection : c \in behind[d] ~> c \notin behind[d]
=============================================================================
