------------------------------ MODULE TabLeader ------------------------------
(***************************************************************************)
(* createTabLeader and createTabElections (src/lib/tabLeader.ts): of the    *)
(* tabs with a seat in one job's election, the one that holds a Web Lock    *)
(* leads.  A tab talks to the browser's lock manager asynchronously: a      *)
(* request may be granted, refused, stolen or released after the tab gave   *)
(* up on it, and each of its tabs is shown, hidden and closed meanwhile.    *)
(***************************************************************************)
EXTENDS Naturals, Sequences, FiniteSets

CONSTANTS
    Tab,
    Slots,          \* bound: requests of one tab that are outstanding at once
    MaxChanges,     \* bound: what users and components do (changes)
    MaxSeats,       \* bound: components of one tab that join the election
    None

Request == Tab \X (1..Slots)
TabOf(r) == r[1]

ASSUME TabLeaderAssumptions ==
    /\ Slots \in Nat \ {0} /\ MaxChanges \in Nat /\ MaxSeats \in Nat \ {0}
    /\ None \notin Request

VARIABLES
    keepWhileHidden,    \* the job: TRUE for the poller, FALSE for the sweep
    seats,              \* seats[t]: how many components of t want the job
    visible,            \* visible[t]: t's visibilityState
    paged,              \* paged[t]: t is frozen in the back/forward cache
    asks,               \* asks[t]: its queries of the waiting tabs, in order
    changes,            \* shows, hides, joins, leaves and closes so far
    election            \* the lock, the requests and what each tab makes of them

vars == <<keepWhileHidden, seats, visible, paged, asks, changes, election>>

(* Where a request stands.  "returning": its callback is done and the       *)
(* browser has yet to release the lock.  "robbed", "stolen": the lock went   *)
(* to another before or after the callback ran, and the rejection is still   *)
(* to be heard.  "settled": the promise resolved, its finally is to run.     *)
Phase == {"free", "queued", "granted", "held", "returning", "robbed", "stolen",
          "refused", "settled"}

Kind == {"queue", "steal", "try"}

Init ==
    /\ keepWhileHidden \in BOOLEAN
    /\ seats = [t \in Tab |-> 0]
    /\ visible \in [Tab -> BOOLEAN]
    /\ paged = [t \in Tab |-> FALSE]
    /\ asks = [t \in Tab |-> <<>>]
    /\ changes = 0
    /\ election = [holder |-> None,                         \* the browser's
                   queue |-> <<>>,
                   phase |-> [r \in Request |-> "free"],
                   kind |-> [r \in Request |-> "queue"],
                   current |-> [t \in Tab |-> None],        \* each tab's
                   leads |-> [t \in Tab |-> FALSE]]

-----------------------------------------------------------------------------
(***************************************************************************)
(* What the functions of a tab do to the election e.                        *)
(***************************************************************************)

FreeSlots(e, t) == {r \in Request : TabOf(r) = t /\ e.phase[r] = "free"}

(* Stealing ends the holder's hold; its tab hears of it later.              *)
Robbed(phase) ==
    CASE phase = "granted" -> "robbed"
      [] phase = "held" -> "stolen"
      [] OTHER -> "free"

(* The queue without request r, which is in it once if at all.              *)
Dropped(q, r) ==
    IF \E k \in DOMAIN q : q[k] = r
    THEN LET k == CHOOSE i \in DOMAIN q : q[i] = r
         IN SubSeq(q, 1, k - 1) \o SubSeq(q, k + 1, Len(q))
    ELSE q

request(e, t, kind) ==
    LET r == CHOOSE x \in FreeSlots(e, t) : TRUE
        e1 == [e EXCEPT !.current[t] = r, !.kind[r] = kind]
        taken == [e1 EXCEPT !.holder = r, !.phase[r] = "granted"]
    IN
    CASE kind = "queue" -> [e1 EXCEPT !.queue = Append(@, r), !.phase[r] = "queued"]
      [] kind = "try" /\ (e.holder # None \/ e.queue # <<>>) -> [e1 EXCEPT !.phase[r] = "refused"]
      [] kind = "steal" /\ e.holder # None -> [taken EXCEPT !.phase[e.holder] = Robbed(@)]
      [] OTHER -> taken

stand(e, t, shown) ==
    CASE e.current[t] = None /\ shown -> request(e, t, "queue")
      [] e.current[t] = None /\ ~shown /\ keepWhileHidden -> request(e, t, "try")
      [] OTHER -> e

(* Faulty: a queued request is forgotten but not aborted.                   *)
relinquish_NoAbort(e, t) ==
    LET r == e.current[t] IN
    IF r = None THEN e
    ELSE [e EXCEPT !.current[t] = None, !.leads[t] = FALSE,
                   !.phase[r] = IF @ = "held" THEN "returning" ELSE @]

(* A request still queued is dropped, a held lock goes back; a request that *)
(* is granted but whose callback has not run is left to that callback.      *)
relinquish(e, t) ==
    LET r == e.current[t] IN
    IF r = None THEN e
    ELSE [e EXCEPT !.current[t] = None, !.leads[t] = FALSE,
                   !.queue = Dropped(@, r),
                   !.phase[r] = CASE @ = "queued" -> "free"
                                  [] @ = "held" -> "returning"
                                  [] OTHER -> @]

onShown(e, t) ==
    LET stealing == e.current[t] # None /\ e.kind[e.current[t]] = "steal" IN
    CASE ~keepWhileHidden -> stand(e, t, TRUE)
      [] keepWhileHidden /\ ~e.leads[t] /\ ~stealing -> request(relinquish(e, t), t, "steal")
      [] OTHER -> e

(* onHidden, but for a leader that keeps its lock: it asks who waits.       *)
onHidden(e, t) ==
    LET waiting == e.current[t] # None /\ e.kind[e.current[t]] = "queue" IN
    CASE ~keepWhileHidden -> relinquish(e, t)
      [] keepWhileHidden /\ ~e.leads[t] -> stand(IF waiting THEN relinquish(e, t) ELSE e, t, FALSE)
      [] OTHER -> e

-----------------------------------------------------------------------------
(***************************************************************************)
(* The browser's lock manager.                                              *)
(***************************************************************************)

Grant ==
    /\ election.holder = None /\ election.queue # <<>>
    /\ election' = [election EXCEPT !.holder = Head(election.queue), !.queue = Tail(@),
                                    !.phase[Head(election.queue)] = "granted"]
    /\ UNCHANGED <<keepWhileHidden, seats, visible, paged, asks, changes>>

(* The browser takes back a lock whose callback is done.                    *)
Freed(r) ==
    /\ election.phase[r] = "returning"
    /\ election' = [election EXCEPT !.holder = None, !.phase[r] = "settled"]
    /\ UNCHANGED <<keepWhileHidden, seats, visible, paged, asks, changes>>

(* query() reads the queue some time after the tab asked, or fails.         *)
AnswerQuery(t) ==
    \E i \in DOMAIN asks[t], answer \in {"waiter", "nobody"} :
        /\ asks[t][i] = "sent" /\ \A j \in 1..(i - 1) : asks[t][j] # "sent"
        /\ answer = "waiter" => election.queue # <<>>
        /\ asks' = [asks EXCEPT ![t][i] = answer]
        /\ UNCHANGED <<keepWhileHidden, seats, visible, paged, changes, election>>

-----------------------------------------------------------------------------
(***************************************************************************)
(* What a running tab hears of its requests.                                *)
(***************************************************************************)

(* Faulty: a lock granted after the tab gave up on it is kept.              *)
Wanted_Always(r) == TRUE

(* A lock is taken only by the tab's live request, and by the sweep only    *)
(* while the tab is visible.                                                *)
Wanted(r) == election.current[TabOf(r)] = r /\ (keepWhileHidden \/ visible[TabOf(r)])

(* The request's callback runs: with the lock, with one stolen since, or,   *)
(* refused, with none.                                                      *)
Callback(r) ==
    /\ ~paged[TabOf(r)]
    /\ election.phase[r] \in {"granted", "robbed", "refused"}
    /\ election' =
         IF election.phase[r] # "refused" /\ Wanted(r)
         THEN [election EXCEPT !.leads[TabOf(r)] = TRUE,
                               !.phase[r] = IF @ = "granted" THEN "held" ELSE "stolen"]
         ELSE [election EXCEPT !.phase[r] = CASE @ = "granted" -> "returning"
                                              [] @ = "robbed" -> "stolen"
                                              [] OTHER -> "settled"]
    /\ UNCHANGED <<keepWhileHidden, seats, visible, paged, asks, changes>>

(* Faulty: a tab robbed of its lock goes on believing that it leads.        *)
Rejected_KeepsLeading(r) ==
    /\ ~paged[TabOf(r)]
    /\ election.phase[r] \in {"robbed", "stolen"}
    /\ election' = [election EXCEPT !.phase[r] = "free"]
    /\ UNCHANGED <<keepWhileHidden, seats, visible, paged, asks, changes>>

(* Faulty: a tab robbed of its lock does not stand again.                   *)
Rejected_NoStand(r) ==
    LET t == TabOf(r)
        e == [election EXCEPT !.phase[r] = "free"]
    IN
    /\ ~paged[t]
    /\ election.phase[r] \in {"robbed", "stolen"}
    /\ election' = IF election.current[t] # r THEN e
                   ELSE [e EXCEPT !.current[t] = None, !.leads[t] = FALSE]
    /\ UNCHANGED <<keepWhileHidden, seats, visible, paged, asks, changes>>

(* .catch: the live request was stolen, so the tab stands again.            *)
Rejected(r) ==
    LET t == TabOf(r)
        e == [election EXCEPT !.phase[r] = "free"]
    IN
    /\ ~paged[t]
    /\ election.phase[r] \in {"robbed", "stolen"}
    /\ election' = IF election.current[t] # r THEN e
                   ELSE stand([e EXCEPT !.current[t] = None, !.leads[t] = FALSE], t, visible[t])
    /\ UNCHANGED <<keepWhileHidden, seats, visible, paged, asks, changes>>

(* .finally of a request that was not rejected.                             *)
Settled(r) ==
    LET t == TabOf(r) IN
    /\ ~paged[t]
    /\ election.phase[r] = "settled"
    /\ election' = [election EXCEPT
                      !.phase[r] = "free",
                      !.current[t] = IF @ = r /\ ~election.leads[t] THEN None ELSE @]
    /\ UNCHANGED <<keepWhileHidden, seats, visible, paged, asks, changes>>

(* The rest of onHidden, after visibleTabWaiting.                           *)
HearAnswer(t) ==
    /\ ~paged[t]
    /\ asks[t] # <<>> /\ Head(asks[t]) # "sent"
    /\ asks' = [asks EXCEPT ![t] = Tail(@)]
    /\ election' = IF Head(asks[t]) = "waiter" /\ ~visible[t] /\ election.leads[t]
                   THEN stand(relinquish(election, t), t, FALSE)
                   ELSE election
    /\ UNCHANGED <<keepWhileHidden, seats, visible, paged, changes>>

-----------------------------------------------------------------------------
(***************************************************************************)
(* What users, pages and components do.  An election has handlers only      *)
(* while the tab has a seat in it.                                          *)
(***************************************************************************)

Change(t) ==
    /\ changes < MaxChanges
    /\ Cardinality(FreeSlots(election, t)) > Len(asks[t])
    /\ changes' = changes + 1
    /\ UNCHANGED keepWhileHidden

Handled(t, e) == election' = IF seats[t] > 0 THEN e ELSE election

Show(t) ==
    /\ Change(t) /\ ~visible[t] /\ ~paged[t]
    /\ visible' = [visible EXCEPT ![t] = TRUE]
    /\ Handled(t, onShown(election, t))
    /\ UNCHANGED <<seats, paged, asks>>

(* A leader that keeps its lock asks who waits, and goes on at HearAnswer.  *)
Hide(t) ==
    /\ Change(t) /\ visible[t] /\ ~paged[t]
    /\ visible' = [visible EXCEPT ![t] = FALSE]
    /\ asks' = [asks EXCEPT ![t] = IF keepWhileHidden /\ election.leads[t]
                                   THEN Append(@, "sent") ELSE @]
    /\ Handled(t, onHidden(election, t))
    /\ UNCHANGED <<seats, paged>>

(* Leaving the page: pagehide, then visibilitychange, then it is frozen.    *)
PageHide(t) ==
    LET e == relinquish(election, t) IN
    /\ Change(t) /\ ~paged[t]
    /\ paged' = [paged EXCEPT ![t] = TRUE]
    /\ visible' = [visible EXCEPT ![t] = FALSE]
    /\ Handled(t, IF visible[t] THEN onHidden(e, t) ELSE e)
    /\ UNCHANGED <<seats, asks>>

(* Back from the cache: pageshow with persisted set.                        *)
PageShow(t) ==
    /\ Change(t) /\ paged[t]
    /\ paged' = [paged EXCEPT ![t] = FALSE]
    /\ \E shown \in BOOLEAN :
          /\ visible' = [visible EXCEPT ![t] = shown]
          /\ Handled(t, IF shown THEN onShown(election, t) ELSE onHidden(election, t))
    /\ UNCHANGED <<seats, asks>>

(* The first seat creates the tab's leader, which stands at once.           *)
Join(t) ==
    /\ Change(t) /\ seats[t] < MaxSeats /\ ~paged[t]
    /\ seats' = [seats EXCEPT ![t] = @ + 1]
    /\ election' = CASE seats[t] = 0 /\ visible[t] -> onShown(election, t)
                     [] seats[t] = 0 /\ ~visible[t] -> stand(election, t, FALSE)
                     [] OTHER -> election
    /\ UNCHANGED <<visible, paged, asks>>

(* The last seat stops it: answers it still waits for find no lock held.    *)
Leave(t) ==
    /\ Change(t) /\ seats[t] > 0 /\ ~paged[t]
    /\ seats' = [seats EXCEPT ![t] = @ - 1]
    /\ election' = IF seats[t] = 1 THEN relinquish(election, t) ELSE election
    /\ asks' = [asks EXCEPT ![t] = IF seats[t] = 1 THEN <<>> ELSE @]
    /\ UNCHANGED <<visible, paged>>

(* The page is gone: the browser drops its requests and releases its lock.  *)
(* Of its requests only the live one can be queued: the others are aborted. *)
Gone(t) ==
    /\ seats' = [seats EXCEPT ![t] = 0]
    /\ paged' = [paged EXCEPT ![t] = FALSE]
    /\ asks' = [asks EXCEPT ![t] = <<>>]
    /\ election' =
         [election EXCEPT
            !.holder = IF @ # None /\ TabOf(@) = t THEN None ELSE @,
            !.queue = Dropped(@, election.current[t]),
            !.phase = [r \in Request |-> IF TabOf(r) = t THEN "free" ELSE @[r]],
            !.current[t] = None, !.leads[t] = FALSE]
    /\ UNCHANGED visible

(* Closed, crashed or reloaded; a page opened in its place joins anew.      *)
Close(t) == Change(t) /\ ~paged[t] /\ seats[t] > 0 /\ Gone(t)

(* A browser does not keep a cached page that has a lock or waits for one.  *)
Evict(t) ==
    /\ paged[t] /\ \E r \in Request : TabOf(r) = t /\ election.phase[r] # "free"
    /\ Gone(t)
    /\ UNCHANGED <<keepWhileHidden, changes>>

Heard ==
    \/ \E r \in Request : Callback(r) \/ Rejected(r) \/ Settled(r)
    \/ \E t \in Tab : HearAnswer(t)

Next ==
    \/ Grant \/ Heard
    \/ \E r \in Request : Freed(r)
    \/ \E t \in Tab : \/ AnswerQuery(t) \/ Evict(t)
                       \/ Show(t) \/ Hide(t) \/ PageHide(t) \/ PageShow(t)
                       \/ Join(t) \/ Leave(t) \/ Close(t)

Spec == Init /\ [][Next]_vars

(* The browser keeps its lock queue moving and a page runs the tasks queued *)
(* for it; nobody is obliged to show, hide or close anything.               *)
FairSpec ==
    /\ Spec
    /\ WF_vars(Grant)
    /\ \A r \in Request : /\ WF_vars(Freed(r)) /\ WF_vars(Callback(r))
                          /\ WF_vars(Rejected(r)) /\ WF_vars(Settled(r))
    /\ \A t \in Tab : WF_vars(AnswerQuery(t)) /\ WF_vars(HearAnswer(t)) /\ WF_vars(Evict(t))

-----------------------------------------------------------------------------
(* Every variable has its type, and a tab never runs out of request slots.  *)
TypeOK ==
    /\ keepWhileHidden \in BOOLEAN
    /\ seats \in [Tab -> 0..MaxSeats]
    /\ visible \in [Tab -> BOOLEAN] /\ paged \in [Tab -> BOOLEAN]
    /\ \A t \in Tab : \A i \in DOMAIN asks[t] : asks[t][i] \in {"sent", "waiter", "nobody"}
    /\ changes \in 0..MaxChanges
    /\ election.holder \in Request \cup {None}
    /\ \A i \in DOMAIN election.queue : election.queue[i] \in Request
    /\ election.phase \in [Request -> Phase]
    /\ election.kind \in [Request -> Kind]
    /\ election.current \in [Tab -> Request \cup {None}]
    /\ election.leads \in [Tab -> BOOLEAN]

Holds(t) == election.current[t] # None /\ election.current[t] = election.holder

(* isLeader() is never wrong but for a theft the tab has not heard of: a    *)
(* tab that says it leads holds the lock, so two tabs do one job only in    *)
(* that moment, and a tab without a seat never says it.                     *)
LeadersHoldTheLock ==
    \A t \in Tab : election.leads[t] =>
        /\ seats[t] > 0
        /\ \/ Holds(t) /\ election.phase[election.holder] = "held"
           \/ \E r \in Request : election.current[t] = r /\ election.phase[r] = "stolen"

(* No lock is leaked: one whose callback kept it is the live request of a   *)
(* tab that knows it leads; a lock nobody would ever release ends the job   *)
(* in every tab until the page is closed.                                   *)
NoLockLeaked ==
    election.holder # None /\ election.phase[election.holder] = "held" =>
        Holds(TabOf(election.holder)) /\ election.leads[TabOf(election.holder)]

(* "The queue holds visible tabs alone", which is what lets a leader that   *)
(* is hidden take any waiter for a visible tab; and the sweep's leader,     *)
(* which skips while hidden, is never hidden.  Types included.              *)
HiddenTabsStandAside ==
    /\ TypeOK
    /\ \A i \in DOMAIN election.queue : visible[TabOf(election.queue[i])]
    /\ ~keepWhileHidden => \A t \in Tab : election.leads[t] => visible[t]

(* "A visible tab wins over a hidden one" (src/lib/tabLeader.ts:20-21).      *)
(* The code does not keep it: no run checks it, the README says why.       *)
VisibleTabWins ==
    (\E t \in Tab : seats[t] > 0 /\ visible[t])
        ~> \/ \E t \in Tab : election.leads[t] /\ visible[t]
           \/ ~ \E t \in Tab : seats[t] > 0 /\ visible[t]

(* While a visible tab wants the job, somebody gets to lead it.             *)
SomeoneLeads ==
    (\E t \in Tab : seats[t] > 0 /\ visible[t])
        ~> \/ \E t \in Tab : election.leads[t]
           \/ ~ \E t \in Tab : seats[t] > 0 /\ visible[t]
=============================================================================
