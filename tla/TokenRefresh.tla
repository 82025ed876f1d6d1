---------------------------- MODULE TokenRefresh ----------------------------
(***************************************************************************)
(* The EVE sign-in of one Character (src/auth/session.ts): the rows of      *)
(* db.characters and db.tokens, which tabs refresh under a Web Lock while   *)
(* a login callback writes them without it and the user removes the         *)
(* Character.  EVE SSO may rotate the refresh token whenever it is used.    *)
(***************************************************************************)
EXTENDS Naturals

CONSTANTS
    Tab,
    Login,          \* the login callback, the one writer that takes no lock
    WebLocks,       \* the browser has navigator.locks
    KillsOld,       \* a rotated refresh token dies; EVE does not say
    MaxGrants,      \* bound: logins completed at EVE
    MaxVersion,     \* bound: rotations of one grant
    MaxActs,        \* bound: what time, EVE and the user do
    Null

Job == Tab \cup {Login}
Grant == 1..MaxGrants
Refresh == [grant : Grant, version : 1..MaxVersion]
Row == [refresh : Refresh, fresh : BOOLEAN]

ASSUME TokenRefreshAssumptions ==
    /\ Login \notin Tab
    /\ WebLocks \in BOOLEAN /\ KillsOld \in BOOLEAN
    /\ MaxGrants \in Nat \ {0} /\ MaxVersion \in Nat \ {0} /\ MaxActs \in Nat
    /\ Null \notin Refresh /\ Null \notin Row /\ Null \notin Nat

VARIABLES
    known,      \* db.characters has the Character
    token,      \* its row of db.tokens, or Null
    job,        \* the refresh of each tab and the login callback
    sso,        \* EVE's side: the grants it issued
    acts        \* how often time, EVE and the user acted so far

vars == <<known, token, job, sso, acts>>

(* Where a job stands.  "sent": its request is at EVE.  "answered", "seen"  *)
(* and "checked": persistTokens has the answer, then the Character's row,   *)
(* then the token's.  "putting": only the token row is left to write.       *)
Phase == {"idle", "queued", "sent", "answered", "seen", "checked", "putting"}

Idle == [pc |-> "idle", sent |-> Null, answer |-> Null, existing |-> FALSE,
         store |-> Null, crossed |-> FALSE]

Init ==
    /\ known = TRUE
    /\ token \in {[refresh |-> [grant |-> 1, version |-> 1], fresh |-> f] : f \in BOOLEAN}
    /\ job = [j \in Job |-> Idle]
    /\ sso = [issued |-> 1,
              alive |-> [g \in Grant |-> TRUE],
              newest |-> [g \in Grant |-> 1],
              strayed |-> [g \in Grant |-> FALSE]]      \* ghost: a rotation was not stored
    /\ acts = 0

-----------------------------------------------------------------------------
(***************************************************************************)
(* getValidAccessToken: one refresh per tab, one tab at a time.             *)
(***************************************************************************)

HoldsLock(t) == job[t].pc \notin {"idle", "queued"}

(* A bug: the refresh runs without the lock.                                *)
withRefreshLock_Never(t) == TRUE

withRefreshLock(t) == WebLocks => \A u \in Tab : ~HoldsLock(u)

(* A call while one is in flight joins it and changes nothing.              *)
getValidAccessToken(t) ==
    /\ job[t].pc = "idle"
    /\ job' = [job EXCEPT ![t].pc = "queued"]
    /\ UNCHANGED <<known, token, sso, acts>>

(* The lock is granted and the row is read under it: with no row the call   *)
(* throws, a fresh token is returned, an old one is sent to EVE.            *)
Granted(t) ==
    /\ job[t].pc = "queued"
    /\ withRefreshLock(t)
    /\ IF token = Null \/ (token # Null /\ token.fresh)
       THEN job' = [job EXCEPT ![t] = Idle]
       ELSE job' = [job EXCEPT ![t].pc = "sent", ![t].sent = token.refresh]
    /\ UNCHANGED <<known, token, sso, acts>>

-----------------------------------------------------------------------------
(***************************************************************************)
(* EVE's token endpoint (external).                                         *)
(***************************************************************************)

Accepts(r) ==
    /\ sso.alive[r.grant]
    /\ KillsOld => r.version = sso.newest[r.grant]

(* What a rotation answers: a new version, or no refresh_token at all.      *)
Rotated(g, rotates) ==
    [grant |-> g, version |-> IF rotates THEN sso.newest[g] + 1 ELSE Null]

Newest(g, rotates) == IF rotates THEN sso.newest[g] + 1 ELSE sso.newest[g]

RefreshAnswered(t) ==
    /\ job[t].pc = "sent" /\ Accepts(job[t].sent)
    /\ \E rotates \in BOOLEAN :
        LET g == job[t].sent.grant IN
        /\ Newest(g, rotates) <= MaxVersion
        /\ sso' = [sso EXCEPT !.newest[g] = Newest(g, rotates)]
        /\ job' = [job EXCEPT ![t].pc = "answered", ![t].answer = Rotated(g, rotates)]
    /\ UNCHANGED <<known, token, acts>>

(* invalid_grant: emitDeadGrant asks the user to log in again.              *)
RefreshRefused(t) ==
    /\ job[t].pc = "sent" /\ ~Accepts(job[t].sent)
    /\ job' = [job EXCEPT ![t] = Idle]
    /\ UNCHANGED <<known, token, sso, acts>>

(* The 15 seconds are up, or the network failed: EVE may have rotated.      *)
RefreshLost(t) ==
    /\ job[t].pc = "sent"
    /\ \E rotates \in BOOLEAN :
        LET g == job[t].sent.grant IN
        /\ rotates => Accepts(job[t].sent) /\ Newest(g, rotates) <= MaxVersion
        /\ sso' = [sso EXCEPT !.newest[g] = Newest(g, rotates),
                              !.strayed[g] = @ \/ rotates]
    /\ job' = [job EXCEPT ![t] = Idle]
    /\ UNCHANGED <<known, token, acts>>

(* completeLogin: the code is exchanged for the tokens of a new grant.      *)
completeLogin ==
    /\ job[Login].pc = "idle"
    /\ sso.issued < MaxGrants
    /\ LET g == sso.issued + 1 IN
        /\ sso' = [sso EXCEPT !.issued = g]
        /\ job' = [job EXCEPT ![Login].pc = "answered",
                              ![Login].answer = [grant |-> g, version |-> 1]]
    /\ UNCHANGED <<known, token, acts>>

-----------------------------------------------------------------------------
(***************************************************************************)
(* persistTokens.  Each read and write is a transaction of its own.         *)
(***************************************************************************)

ReadCharacter(j) ==
    /\ job[j].pc = "answered"
    /\ job' = [job EXCEPT ![j].pc = "seen", ![j].existing = known]
    /\ UNCHANGED <<known, token, sso, acts>>

(* A bug: an answer without a refresh_token overwrites the stored one.      *)
refreshTokenToStore_Answer(j) == job[j].answer

(* tokens.refresh_token ?? previous?.refreshToken                           *)
refreshTokenToStore(j) ==
    IF job[j].answer.version # Null THEN job[j].answer
    ELSE IF token # Null THEN token.refresh ELSE Null

(* With neither, persistTokens throws and nothing is written.  The cache    *)
(* purge that a withdrawn consent asks for comes next.                      *)
ReadToken(j) ==
    /\ job[j].pc = "seen"
    /\ job' = IF refreshTokenToStore(j) = Null THEN [job EXCEPT ![j] = Idle]
              ELSE [job EXCEPT ![j].pc = "checked", ![j].store = refreshTokenToStore(j)]
    /\ UNCHANGED <<known, token, sso, acts>>

(* A bug: the Character's row is only ever updated, never made.             *)
sameRecord_Always(j) == {TRUE}

(* sameRecord(existing, character): the usual refresh writes no Character.  *)
sameRecord(j) == IF job[j].existing THEN BOOLEAN ELSE {FALSE}

PutCharacter(j) ==
    /\ job[j].pc = "checked"
    /\ \E same \in sameRecord(j) : known' = (known \/ ~same)
    /\ job' = [job EXCEPT ![j].pc = "putting"]
    /\ UNCHANGED <<token, sso, acts>>

(* A bug: the promise of the refresh is never taken off inflightRefresh.    *)
Finally_Never(j) == job

(* The lock is released, and inflightRefresh forgets the Character.          *)
Finally(j) == [job EXCEPT ![j] = Idle]

PutToken(j) ==
    /\ job[j].pc = "putting"
    /\ token' = [refresh |-> job[j].store, fresh |-> TRUE]
    /\ job' = Finally(j)
    /\ UNCHANGED <<known, sso, acts>>

Rotation(j) == job[j].answer # Null /\ job[j].answer.version # Null

(* A write is refused (the disk is full), or the tab is closed or reloaded: *)
(* the browser frees its lock, and a rotation it held is gone.              *)
Interrupted(j) ==
    /\ job[j].pc # "idle"
    /\ acts < MaxActs /\ acts' = acts + 1
    /\ \E rotates \in BOOLEAN :
        /\ rotates => /\ job[j].pc = "sent" /\ Accepts(job[j].sent)
                      /\ sso.newest[job[j].sent.grant] < MaxVersion
        /\ sso' = IF rotates
                  THEN [sso EXCEPT !.newest[job[j].sent.grant] = @ + 1,
                                   !.strayed[job[j].sent.grant] = TRUE]
                  ELSE IF Rotation(j)
                  THEN [sso EXCEPT !.strayed[job[j].answer.grant] = TRUE]
                  ELSE sso
    /\ job' = [job EXCEPT ![j] = Idle]
    /\ UNCHANGED <<known, token>>

-----------------------------------------------------------------------------
(***************************************************************************)
(* Time, EVE and the user.                                                  *)
(***************************************************************************)

(* Less than EXPIRY_BUFFER_MS is left on the access token.                  *)
Expire ==
    /\ acts < MaxActs /\ acts' = acts + 1
    /\ token # Null /\ token.fresh
    /\ token' = [token EXCEPT !.fresh = FALSE]
    /\ UNCHANGED <<known, job, sso>>

(* The user withdraws a grant at EVE.                                       *)
Revoke ==
    /\ acts < MaxActs /\ acts' = acts + 1
    /\ \E g \in 1..sso.issued : sso.alive[g] /\ sso' = [sso EXCEPT !.alive[g] = FALSE]
    /\ UNCHANGED <<known, token, job>>

(* removeCharacter deletes both rows in one transaction; jobs go on.        *)
removeCharacter ==
    /\ acts < MaxActs /\ acts' = acts + 1
    /\ known
    /\ known' = FALSE /\ token' = Null
    /\ job' = [j \in Job |-> IF job[j].pc = "idle" THEN job[j]
                             ELSE [job[j] EXCEPT !.crossed = TRUE]]
    /\ UNCHANGED sso

-----------------------------------------------------------------------------
Persists(j) == ReadCharacter(j) \/ ReadToken(j) \/ PutCharacter(j) \/ PutToken(j)

Refreshes(t) == RefreshAnswered(t) \/ RefreshRefused(t) \/ RefreshLost(t)

Next ==
    \/ \E t \in Tab : getValidAccessToken(t) \/ Granted(t) \/ Refreshes(t)
    \/ completeLogin
    \/ \E j \in Job : Persists(j) \/ Interrupted(j)
    \/ Expire \/ Revoke \/ removeCharacter

Spec == Init /\ [][Next]_vars

(* A request ends within fifteen seconds, IndexedDB answers, and the        *)
(* browser grants a lock in the order it was asked for.                     *)
Fairness ==
    /\ \A t \in Tab : SF_vars(Granted(t)) /\ WF_vars(Refreshes(t))
    /\ \A j \in Job : WF_vars(Persists(j))

FairSpec == Spec /\ Fairness
-----------------------------------------------------------------------------
(* Every variable has its type, and a token row has a refresh token: what     *)
(* PutToken writes is never Null.                                              *)
TypeOK ==
    /\ known \in BOOLEAN
    /\ token \in Row \cup {Null}
    /\ job \in [Job -> [pc : Phase,
                       sent : Refresh \cup {Null},
                       answer : [grant : Grant, version : 1..MaxVersion \cup {Null}] \cup {Null},
                       existing : BOOLEAN,
                       store : Refresh \cup {Null},
                       crossed : BOOLEAN]]
    /\ sso \in [issued : Grant, alive : [Grant -> BOOLEAN],
                newest : [Grant -> 1..MaxVersion], strayed : [Grant -> BOOLEAN]]
    /\ acts \in 0..MaxActs

(* What emitDeadGrant relies on: "invalid_grant" means that the user must   *)
(* log in again.  EVE refuses a refresh only when the user withdrew the      *)
(* grant, or when a rotation of it was lost on its way to the row; never      *)
(* because of what another tab, a login or a removal did meanwhile.           *)
OnlyDeadGrantsRefused ==
    \A t \in Tab : job[t].pc = "sent" =>
        LET r == job[t].sent IN
        sso.alive[r.grant] /\ ~sso.strayed[r.grant] => Accepts(r)

(* A token row without its Character comes only from a job that was under    *)
(* way when the Character was removed.                                       *)
OnlyCrossingJobsOrphan ==
    [][token = Null /\ token' # Null /\ ~known'
        => \E j \in Job : job[j].crossed /\ job'[j] = Idle]_vars

(* A call of getValidAccessToken settles, whatever the other tabs do: no      *)
(* lock is kept by a tab that failed or closed.                              *)
EveryRefreshEnds == \A t \in Tab : job[t].pc # "idle" ~> job[t].pc = "idle"

(* removeCharacter.ts:41 says of the work that outlives the removal: "it may  *)
(* still write a stale local copy for a Character already gone, never a       *)
(* login".                                                                    *)
(* The code does not keep it: no run checks it, the README says why.          *)
NeverALogin == token # Null => known
=============================================================================
