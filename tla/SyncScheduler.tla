---------------------------- MODULE SyncScheduler ----------------------------
(***************************************************************************)
(* The sync queue of one page (src/sync/syncScheduler.ts): debounce timers, *)
(* one job per Character however many requests it gets, foreground before   *)
(* background, one pass at a time because there is one Firebase session,    *)
(* and a halt for the rest of the page's life.  The pass it is given is     *)
(* reduced to what the queue relies on: it reads each collection of its     *)
(* scope once, it may fail, and a background one may end unread (see        *)
(* SyncMarker).                                                             *)
(***************************************************************************)
EXTENDS Naturals, Sequences

CONSTANTS
    Character,
    Collection,         \* the synced collections
    Named,              \* those an edit names to scheduleSync
    MaxRequests,        \* bound: edits and flushes
    MaxFailures,        \* bound: passes that fail
    None

Request == [priority : {"foreground", "background"}, scope : SUBSET Collection]
Job == [ask : Request, started : BOOLEAN, rerun : Request \cup {None}]
Pass == [ask : Request, begun : BOOLEAN, read : SUBSET Collection,
         taken : SUBSET Collection, carried : SUBSET Collection]

(* Naming every collection is not the same as asking for all of them.       *)
ASSUME SyncSchedulerAssumptions ==
    /\ Named \subseteq Collection /\ Named # Collection
    /\ None \notin Request /\ None \notin Job /\ None \notin Pass
    /\ MaxRequests \in Nat /\ MaxFailures \in Nat

VARIABLES
    timer,      \* timer[c]: the debounced request, or None (pendingTimers)
    job,        \* job[c]: the job a promise is out for, or None (running)
    queue,      \* Characters whose job waits its turn
    busy,       \* whether a pass holds the session
    pass,       \* pass[c]: the pass that runs, or None
    recent,     \* recent[c]: a full pull inside PARTIAL_PASS_WINDOW_MS (lastFullPullAt)
    status,     \* status[c]: what the status line shows
    halt,       \* "no", "waiting" for the pass in flight, or "done"
    claimed,    \* claimed[c]: a background pass may trust the marker (planSync.ts)
    dirty,      \* dirty[c]: collections with edits that are not remote yet
    requests, failures,
    failed,     \* ghost: those of dirty[c] a failed pass should have pushed
    unreached,  \* ghost: the same, for a pass that never got to the collections
    flush       \* ghost: a caller awaiting c's promise, and the edits it counts on

vars == <<timer, job, queue, busy, pass, recent, status, halt, claimed, dirty,
          requests, failures, failed, unreached, flush>>

halted == halt # "no"

(* 'all' as a scope; unionScope is then the union.                          *)
All == Collection

scopeOf(collection) == IF collection \in Named THEN {collection} ELSE All

higher(p, q) == IF "foreground" \in {p, q} THEN "foreground" ELSE "background"

Ask(priority, scope) == [priority |-> priority, scope |-> scope]

(* Two requests that coalesce.                                              *)
Merged(a, b) ==
    IF a = None THEN b ELSE Ask(higher(a.priority, b.priority), a.scope \cup b.scope)

NewJob(ask) == [ask |-> ask, started |-> FALSE, rerun |-> None]
NewPass(ask) ==
    [ask |-> ask, begun |-> FALSE, read |-> {}, taken |-> {}, carried |-> {}]
NoFlush == [state |-> "none", owed |-> {}]

Init ==
    /\ timer = [c \in Character |-> None]
    /\ job = [c \in Character |-> None]
    /\ queue = <<>> /\ busy = FALSE
    /\ pass = [c \in Character |-> None]
    /\ recent = [c \in Character |-> FALSE]
    /\ status = [c \in Character |-> "idle"]
    /\ halt = "no"
    /\ claimed \in [Character -> BOOLEAN]
    /\ dirty = [c \in Character |-> {}]
    /\ requests = 0 /\ failures = 0
    /\ failed = [c \in Character |-> {}]
    /\ unreached = [c \in Character |-> {}]
    /\ flush = [c \in Character |-> NoFlush]

-----------------------------------------------------------------------------
(***************************************************************************)
(* pump and requestSync.  Both run to the next await in one go.             *)
(***************************************************************************)

(* The first foreground job in the queue, else the first.                   *)
NextInLine(q, jobs, k) ==
    LET Foreground(i) == jobs[q[i]].ask.priority = "foreground" IN
    \/ Foreground(k) /\ \A i \in 1..(k - 1) : ~Foreground(i)
    \/ k = 1 /\ \A i \in DOMAIN q : ~Foreground(i)

TakenOut(q, k) == SubSeq(q, 1, k - 1) \o SubSeq(q, k + 1, Len(q))

(* Decided when the job starts: narrowed only while a full pull is recent.  *)
effectiveScope(c, scope) == IF recent'[c] THEN scope ELSE All

(* Faulty: the session is not waited for.                                   *)
Pump_NotWaiting(q, jobs, passes, isBusy, states) ==
    IF q = <<>>
    THEN /\ queue' = q /\ job' = jobs /\ pass' = passes
         /\ busy' = isBusy /\ status' = states
    ELSE /\ queue' = Tail(q)
         /\ job' = [jobs EXCEPT ![Head(q)].started = TRUE]
         /\ busy' = TRUE
         /\ status' = [states EXCEPT ![Head(q)] = "syncing"]
         /\ pass' = [passes EXCEPT ![Head(q)] = NewPass(Ask(jobs[Head(q)].ask.priority, All))]

(* pump, over the queue, jobs and passes the caller leaves it.  A halt has  *)
(* emptied the queue, so its check for one here never decides anything.     *)
(* The pass may widen its scope: a new owner's wipe needs a full one.       *)
Pump(q, jobs, passes, isBusy, states) ==
    IF isBusy \/ q = <<>>
    THEN /\ queue' = q /\ job' = jobs /\ pass' = passes
         /\ busy' = isBusy /\ status' = states
    ELSE \E k \in DOMAIN q, full \in BOOLEAN :
         LET c == q[k]
             ask == jobs[c].ask
             scope == IF full THEN All ELSE effectiveScope(c, ask.scope)
         IN
         /\ NextInLine(q, jobs, k)
         /\ queue' = TakenOut(q, k)
         /\ job' = [jobs EXCEPT ![c].started = TRUE]
         /\ busy' = TRUE
         /\ status' = [states EXCEPT ![c] = "syncing"]
         /\ pass' = [passes EXCEPT ![c] = NewPass(Ask(ask.priority, scope))]

(* Faulty: a rerun is for the last request only.                            *)
requestSync_LastRerun(c, request, passes) ==
    LET ask == Merged(timer[c], request) IN
    /\ timer' = [timer EXCEPT ![c] = None]
    /\ IF job[c] = None
       THEN Pump(Append(queue, c), [job EXCEPT ![c] = NewJob(ask)], passes, busy, status)
       ELSE /\ job' = IF job[c].started
                      THEN [job EXCEPT ![c].rerun = ask]
                      ELSE [job EXCEPT ![c].ask = Merged(@, ask)]
            /\ pass' = passes
            /\ UNCHANGED <<queue, busy, status>>

(* Faulty: the pass in flight will do for a request made during it.         *)
requestSync_NoRerun(c, request, passes) ==
    LET ask == Merged(timer[c], request) IN
    /\ timer' = [timer EXCEPT ![c] = None]
    /\ IF job[c] = None
       THEN Pump(Append(queue, c), [job EXCEPT ![c] = NewJob(ask)], passes, busy, status)
       ELSE /\ job' = [job EXCEPT ![c].ask = Merged(@, ask)]
            /\ pass' = passes
            /\ UNCHANGED <<queue, busy, status>>

(* requestSync takes over the debounced request, then joins the job there   *)
(* is: before its pass started, or as a rerun after it.                     *)
requestSync(c, request, passes) ==
    LET ask == Merged(timer[c], request) IN
    /\ timer' = [timer EXCEPT ![c] = None]
    /\ IF job[c] = None
       THEN Pump(Append(queue, c), [job EXCEPT ![c] = NewJob(ask)], passes, busy, status)
       ELSE /\ job' = IF job[c].started
                      THEN [job EXCEPT ![c].rerun = Merged(@, ask)]
                      ELSE [job EXCEPT ![c].ask = Merged(@, ask)]
            /\ pass' = passes
            /\ UNCHANGED <<queue, busy, status>>

(* Faulty: an edit after haltSync still starts its timer.                   *)
scheduleSync_Unhalted(c, request) ==
    timer' = [timer EXCEPT ![c] = Merged(@, request)]

scheduleSync(c, request) ==
    timer' = IF halted THEN timer ELSE [timer EXCEPT ![c] = Merged(@, request)]

-----------------------------------------------------------------------------
(***************************************************************************)
(* Requests.                                                                *)
(***************************************************************************)

(* An edit, in a collection the running pass may have read already.         *)
Edited(p, k) == IF p = None THEN None ELSE [p EXCEPT !.taken = @ \ {k}]

Edit(c, k) ==
    /\ requests < MaxRequests
    /\ requests' = requests + 1
    /\ dirty' = [dirty EXCEPT ![c] = @ \cup {k}]
    /\ pass' = [pass EXCEPT ![c] = Edited(@, k)]
    /\ scheduleSync(c, Ask("foreground", scopeOf(k)))
    /\ UNCHANGED <<job, queue, busy, recent, status, halt, claimed, failures, failed, unreached, flush>>

(* Faulty: no priority.                                                     *)
Sweep_NoPriority(c) ==
    /\ status[c] # "syncing"
    /\ scheduleSync(c, Ask(None, All))
    /\ UNCHANGED <<job, queue, busy, pass, recent, status, halt, claimed, dirty,
                   requests, failures, failed, unreached, flush>>

(* The background sweep (src/app/backgroundSync.ts): a pass in flight covers *)
(* its Character.                                                           *)
Sweep(c) ==
    /\ status[c] # "syncing"
    /\ scheduleSync(c, Ask("background", All))
    /\ UNCHANGED <<job, queue, busy, pass, recent, status, halt, claimed, dirty,
                   requests, failures, failed, unreached, flush>>

TimerFires(c) ==
    /\ timer[c] # None
    /\ UNCHANGED <<recent, halt, claimed, dirty, requests, failures, failed, unreached, flush>>
    /\ requestSync(c, timer[c], pass)

(* flushSync: triggerSync, and its caller waits for the promise.  What the  *)
(* pass in flight read before the last edit does not count for it.          *)
Recounted(p) == IF p = None THEN None ELSE [p EXCEPT !.carried = p.taken]

Flush(c) ==
    /\ requests < MaxRequests
    /\ flush[c].state # "waiting"
    /\ ~halted
    /\ requests' = requests + 1
    /\ flush' = [flush EXCEPT ![c] = [state |-> "waiting", owed |-> dirty[c]]]
    /\ UNCHANGED <<recent, halt, claimed, dirty, failures, failed, unreached>>
    /\ requestSync(c, Ask("foreground", All), [pass EXCEPT ![c] = Recounted(@)])

(* PARTIAL_PASS_WINDOW_MS goes by.                                          *)
Lapse(c) ==
    /\ recent[c]
    /\ recent' = [recent EXCEPT ![c] = FALSE]
    /\ UNCHANGED <<timer, job, queue, busy, pass, status, halt, claimed, dirty,
                   requests, failures, failed, unreached, flush>>

(* SAFETY_RECONCILE_INTERVAL_MS goes by.                                    *)
ClaimLapses(c) ==
    /\ claimed[c]
    /\ claimed' = [claimed EXCEPT ![c] = FALSE]
    /\ UNCHANGED <<timer, job, queue, busy, pass, recent, status, halt, dirty,
                   requests, failures, failed, unreached, flush>>

-----------------------------------------------------------------------------
(***************************************************************************)
(* The pass.                                                                *)
(***************************************************************************)

Full(p) == p.ask.scope = All

(* A full pass voids the claim before it reads anything.                    *)
Begin(c) ==
    /\ pass[c] # None /\ ~pass[c].begun
    /\ pass' = [pass EXCEPT ![c].begun = TRUE]
    /\ claimed' = [claimed EXCEPT ![c] = @ /\ ~Full(pass[c])]
    /\ UNCHANGED <<timer, job, queue, busy, recent, status, halt, dirty,
                   requests, failures, failed, unreached, flush>>

Read(c, k) ==
    /\ pass[c] # None /\ pass[c].begun
    /\ k \in pass[c].ask.scope \ pass[c].read
    /\ pass' = [pass EXCEPT ![c].read = @ \cup {k},
                            ![c].taken = @ \cup ({k} \cap dirty[c]),
                            ![c].carried = @ \cup {k}]
    /\ UNCHANGED <<timer, job, queue, busy, recent, status, halt, claimed, dirty,
                   requests, failures, failed, unreached, flush>>

(* The end of runPass: the job goes round again for what arrived mid-pass,  *)
(* or its promise settles; either way the session is free.                  *)
EndPass(c, outcome, owed) ==
    LET again == job[c].rerun # None /\ ~halted
        next  == IF again THEN NewJob(job[c].rerun) ELSE None
    IN
    /\ flush' = [flush EXCEPT ![c] =
            IF @.state # "waiting" THEN @
            ELSE [state |-> IF again THEN "waiting"
                            ELSE IF outcome = "idle" THEN "resolved" ELSE "rejected",
                  owed |-> owed]]
    /\ Pump(IF again THEN Append(queue, c) ELSE queue,
            [job EXCEPT ![c] = next],
            [pass EXCEPT ![c] = None], FALSE,
            [status EXCEPT ![c] = outcome])

Finished(p) == p.begun /\ p.read = p.ask.scope

(* A pass that counts as full, and may have left a claim behind.            *)
Succeeds(c) ==
    LET p == pass[c] IN
    /\ p # None /\ Finished(p)
    /\ recent' = [recent EXCEPT ![c] = @ \/ Full(p)]
    /\ \E claim \in BOOLEAN :
        /\ claim => claimed[c] \/ Full(p)
        /\ claimed' = [claimed EXCEPT ![c] = claim]
    /\ dirty' = [dirty EXCEPT ![c] = @ \ p.taken]
    /\ failed' = [failed EXCEPT ![c] = @ \ p.read]
    /\ unreached' = [unreached EXCEPT ![c] = @ \ p.read]
    /\ UNCHANGED <<timer, halt, requests, failures>>
    /\ EndPass(c, "idle", flush[c].owed \ p.carried)

(* Faulty: a background pass takes the marker for unchanged.                *)
Skips_Always(c) ==
    LET p == pass[c] IN
    /\ p # None /\ ~p.begun
    /\ p.ask.priority = "background" /\ Full(p)
    /\ recent' = [recent EXCEPT ![c] = TRUE]
    /\ UNCHANGED <<timer, halt, claimed, dirty, requests, failures, failed, unreached>>
    /\ EndPass(c, "idle", flush[c].owed)

(* A background pass finds the marker unchanged: resolved as 'all', unread. *)
Skips(c) ==
    LET p == pass[c] IN
    /\ p # None /\ ~p.begun
    /\ p.ask.priority = "background" /\ Full(p) /\ claimed[c]
    /\ recent' = [recent EXCEPT ![c] = TRUE]
    /\ UNCHANGED <<timer, halt, claimed, dirty, requests, failures, failed, unreached>>
    /\ EndPass(c, "idle", flush[c].owed)

(* Faulty: a failure does not make the next pass a full one.                *)
Fails_StaysRecent(c) ==
    LET p == pass[c] IN
    /\ p # None /\ p.begun
    /\ failures < MaxFailures
    /\ failures' = failures + 1
    /\ UNCHANGED recent
    /\ claimed' = [claimed EXCEPT ![c] = FALSE]
    /\ \E S \in SUBSET p.taken : dirty' = [dirty EXCEPT ![c] = @ \ S]
    /\ failed' = [failed EXCEPT ![c] = (@ \cup p.ask.scope) \cap dirty'[c]]
    /\ unreached' = [unreached EXCEPT ![c] = @ \cap dirty'[c]]
    /\ UNCHANGED <<timer, halt, requests>>
    /\ EndPass(c, "error", flush[c].owed \cap dirty'[c])

(* A collection fails: the next pass is full, and no background one may     *)
(* skip.  What had landed by then has landed.                               *)
Fails(c) ==
    LET p == pass[c] IN
    /\ p # None /\ p.begun
    /\ failures < MaxFailures
    /\ failures' = failures + 1
    /\ recent' = [recent EXCEPT ![c] = FALSE]
    /\ claimed' = [claimed EXCEPT ![c] = FALSE]
    /\ \E S \in SUBSET p.taken : dirty' = [dirty EXCEPT ![c] = @ \ S]
    /\ failed' = [failed EXCEPT ![c] = (@ \cup p.ask.scope) \cap dirty'[c]]
    /\ unreached' = [unreached EXCEPT ![c] = @ \cap dirty'[c]]
    /\ UNCHANGED <<timer, halt, requests>>
    /\ EndPass(c, "error", flush[c].owed \cap dirty'[c])

(* The sign-in fails, before the pass looks at the claim or clears it.      *)
SignInFails(c) ==
    LET p == pass[c] IN
    /\ p # None /\ ~p.begun
    /\ failures < MaxFailures
    /\ failures' = failures + 1
    /\ recent' = [recent EXCEPT ![c] = FALSE]
    /\ unreached' = [unreached EXCEPT ![c] = @ \cup (p.ask.scope \cap dirty[c])]
    /\ UNCHANGED <<timer, halt, claimed, dirty, requests, failed>>
    /\ EndPass(c, "error", flush[c].owed)

(* The heartbeat fails, after a full pass pushed everything and left its    *)
(* claim behind.                                                            *)
HeartbeatFails(c) ==
    LET p == pass[c] IN
    /\ p # None /\ Finished(p) /\ Full(p)
    /\ failures < MaxFailures
    /\ failures' = failures + 1
    /\ recent' = [recent EXCEPT ![c] = FALSE]
    /\ \E claim \in BOOLEAN : claimed' = [claimed EXCEPT ![c] = claim]
    /\ dirty' = [dirty EXCEPT ![c] = @ \ p.taken]
    /\ failed' = [failed EXCEPT ![c] = @ \ p.read]
    /\ unreached' = [unreached EXCEPT ![c] = @ \ p.read]
    /\ UNCHANGED <<timer, halt, requests>>
    /\ EndPass(c, "error", flush[c].owed \ p.carried)

-----------------------------------------------------------------------------
(***************************************************************************)
(* haltSync.                                                                *)
(***************************************************************************)

Queued(c) == job[c] # None /\ ~job[c].started

haltSync ==
    /\ ~halted
    /\ halt' = "waiting"
    /\ recent' = [c \in Character |-> FALSE]
    /\ timer' = [c \in Character |-> None]
    /\ queue' = <<>>
    /\ job' = [c \in Character |-> IF Queued(c) THEN None ELSE job[c]]
    /\ flush' = [c \in Character |->
            IF Queued(c) /\ flush[c].state = "waiting"
            THEN [flush[c] EXCEPT !.state = "resolved"] ELSE flush[c]]
    /\ UNCHANGED <<busy, pass, status, claimed, dirty, requests, failures, failed, unreached>>

(* Every promise haltSync awaits has settled.                               *)
HaltResolves ==
    /\ halt = "waiting"
    /\ \A c \in Character : job[c] = None
    /\ halt' = "done"
    /\ UNCHANGED <<timer, job, queue, busy, pass, recent, status, claimed, dirty,
                   requests, failures, failed, unreached, flush>>

PassStep(c) ==
    Begin(c) \/ (\E k \in Collection : Read(c, k)) \/ Succeeds(c) \/ Skips(c)

Next ==
    \/ \E c \in Character :
        \/ \E k \in Collection : Edit(c, k)
        \/ Sweep(c) \/ TimerFires(c) \/ Flush(c) \/ Lapse(c) \/ ClaimLapses(c)
        \/ PassStep(c) \/ Fails(c) \/ SignInFails(c) \/ HeartbeatFails(c)
    \/ haltSync \/ HaltResolves

Spec == Init /\ [][Next]_vars

(* Timers fire, passes go on, the sweep comes round to every Character and  *)
(* time passes.                                                             *)
Fairness ==
    \A c \in Character :
        WF_vars(TimerFires(c)) /\ WF_vars(PassStep(c)) /\ WF_vars(Sweep(c))
        /\ WF_vars(ClaimLapses(c))

FairSpec == Spec /\ Fairness

-----------------------------------------------------------------------------
(***************************************************************************)
(* Properties.                                                              *)
(***************************************************************************)

TypeOK ==
    /\ timer \in [Character -> Request \cup {None}]
    /\ job \in [Character -> Job \cup {None}]
    /\ queue \in Seq(Character) /\ busy \in BOOLEAN
    /\ pass \in [Character -> Pass \cup {None}]
    /\ recent \in [Character -> BOOLEAN]
    /\ status \in [Character -> {"idle", "syncing", "error"}]
    /\ halt \in {"no", "waiting", "done"}
    /\ claimed \in [Character -> BOOLEAN]
    /\ dirty \in [Character -> SUBSET Collection]
    /\ requests \in 0..MaxRequests /\ failures \in 0..MaxFailures
    /\ failed \in [Character -> SUBSET Collection]
    /\ unreached \in [Character -> SUBSET Collection]
    /\ flush \in [Character -> [state : {"none", "waiting", "resolved", "rejected"},
                                owed : SUBSET Collection]]

(* "One Firebase session, so one pass at a time": the passes that run are   *)
(* those whose job has started, and there is at most one.                   *)
OneSession ==
    \A c \in Character :
        /\ pass[c] # None <=> job[c] # None /\ job[c].started
        /\ \A d \in Character : pass[c] # None /\ pass[d] # None => c = d
        /\ pass[c] # None => busy

(* A request that will push an edit of k: in the foreground, since a        *)
(* background pass may skip its reads.                                      *)
Serves(request, k) ==
    request # None /\ request.priority = "foreground" /\ k \in request.scope

InFlight(c, k) ==
    /\ pass[c] # None /\ k \in pass[c].ask.scope
    /\ IF pass[c].begun THEN k \in pass[c].taken \/ k \notin pass[c].read
                        ELSE pass[c].ask.priority = "foreground"

(* No edit is forgotten, wherever it falls between the debounce, the queue  *)
(* and the passes: a timer, a waiting job, a rerun or the pass in flight    *)
(* will push it, unless a pass failed on it or sync was halted.             *)
NoEditForgotten ==
    \A c \in Character : \A k \in dirty[c] :
        \/ Serves(timer[c], k)
        \/ job[c] # None /\ Serves(job[c].rerun, k)
        \/ Queued(c) /\ Serves(job[c].ask, k)
        \/ InFlight(c, k)
        \/ k \in failed[c] \cup unreached[c]
        \/ halted

(* "No narrowed success on some other collection can clear the error while  *)
(* the failed one stays behind", nor can a skipped pass.                    *)
IdleMeansRecovered ==
    \A c \in Character : status[c] = "idle" => failed[c] = {}

(* "Any failure leaves something unsynced.  The next pass runs full so it   *)
(* retries that": the error stands until it has, whatever failed.           *)
(* The code does not keep it: no run checks it, the README says why.       *)
AnyFailureRetried ==
    \A c \in Character : status[c] = "idle" => failed[c] \cup unreached[c] = {}

(* A flush that resolves has pushed every edit made before it was called,   *)
(* through reruns and failed passes, unless a sign-in failed meanwhile.     *)
FlushedMeansPushed ==
    [][\A c \in Character :
        flush[c].state = "waiting" /\ flush'[c].state = "resolved" /\ halt' = "no"
            => flush'[c].owed \subseteq unreached'[c]]_vars

(* Nothing syncs once haltSync has resolved.                                *)
HaltIsFinal ==
    halt = "done" => \A c \in Character : pass[c] = None /\ timer[c] = None /\ job[c] = None

(* "Never deletes a Character's rows before an edit made mid-pass has       *)
(* actually been pushed": nothing is left unpushed when a flush resolves.   *)
(* The code does not keep it: no run checks it, the README says why.       *)
FlushSeesMidPassEdits ==
    [][\A c \in Character :
        flush[c].state = "waiting" /\ flush'[c].state = "resolved" /\ halt' = "no"
            => dirty'[c] = {}]_vars

(* Every edit is pushed in the end, whatever failed, unless sync is halted. *)
EventuallyPushed ==
    \A c \in Character, k \in Collection :
        k \in dirty[c] ~> k \notin dirty[c] \/ halted
=============================================================================
