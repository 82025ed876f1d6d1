------------------------------ MODULE Semaphore ------------------------------
(***************************************************************************)
(* createSemaphore (src/lib/concurrency.ts): permits handed out to three    *)
(* lanes of waiters.  Every call below is one synchronous turn; what a       *)
(* waiter does with the permit it was given is its caller's (EsiGate).      *)
(***************************************************************************)
EXTENDS Naturals, Sequences, FiniteSets

CONSTANTS
    Waiter,         \* one per acquire that is outstanding
    Ticket,         \* PriorityTickets, each shared by a group of acquires
    NoTicket,       \* acquire(signal) with no ticket
    Limit,
    LowReserve,
    None

ASSUME SemaphoreAssumptions ==
    /\ Limit \in Nat \ {0} /\ LowReserve \in Nat
    /\ NoTicket \notin Ticket /\ None \notin {"high", "normal", "low"}

VARIABLES
    pool,           \* the closure's lanes, held and lowHeld, and each permit
    priority        \* priority[k]: ticket k's current lane

Priority == {"high", "normal", "low"}

outranks(a, b) == \/ a = "high" /\ b # "high"
                  \/ a = "normal" /\ b = "low"

lowLimit == IF LowReserve < Limit THEN Limit - LowReserve ELSE 1

(* A fresh semaphore; permit[w] is the lane w was admitted in, what its     *)
(* release gives back.                                                      *)
EmptyPool == [lanes |-> [lane \in Priority |-> <<>>], held |-> 0, lowHeld |-> 0,
              permit |-> [w \in Waiter |-> None]]

LaneOf(ticket) == IF ticket = NoTicket THEN "normal" ELSE priority[ticket]

In(p, w, lane) == \E i \in DOMAIN p.lanes[lane] : p.lanes[lane][i].who = w

Waiting(p, w) == \E lane \in Priority : In(p, w, lane)

-----------------------------------------------------------------------------
nextLane(p) ==
    CASE p.lanes["high"] # <<>> -> "high"
      [] p.lanes["high"] = <<>> /\ p.lanes["normal"] # <<>> -> "normal"
      [] /\ p.lanes["high"] = <<>> /\ p.lanes["normal"] = <<>>
         /\ p.lanes["low"] # <<>> /\ p.lowHeld < lowLimit -> "low"
      [] OTHER -> None

(* One turn of drain's loop.                                                *)
admit(p) ==
    LET lane == nextLane(p) IN
    IF p.held >= Limit \/ lane = None THEN p
    ELSE [p EXCEPT !.lanes[lane] = Tail(@), !.held = @ + 1,
                   !.lowHeld = IF lane = "low" THEN @ + 1 ELSE @,
                   !.permit[Head(p.lanes[lane]).who] = lane]

drain(p) == LET after[n \in 0..Limit] == IF n = 0 THEN p ELSE admit(after[n - 1])
            IN  after[Limit]

(* How many of the numbers S are at most n.                                 *)
Rank(n, S) == Cardinality({m \in S : m <= n})

(* Array.filter: what is at the positions I of a lane, in their order.      *)
Kept(lane, I) == [n \in 1..Cardinality(I) |-> lane[CHOOSE i \in I : Rank(i, I) = n]]

Elements(lane) == {lane[i] : i \in DOMAIN lane}

(* seq only orders the waiters, so they are renumbered as another arrives.  *)
Queued(p, w, ticket, lane) ==
    LET seqs == UNION {{x.seq : x \in Elements(p.lanes[l])} : l \in Priority}
        lanes == [l \in Priority |-> [i \in DOMAIN p.lanes[l] |->
                     [p.lanes[l][i] EXCEPT !.seq = Rank(@, seqs)]]]
        last == [who |-> w, ticket |-> ticket, seq |-> Cardinality(seqs) + 1]
    IN  [p EXCEPT !.lanes = [lanes EXCEPT ![lane] = Append(@, last)]]

(* acquire, up to its return: the promise is settled if permit[w] is set.   *)
acquire(w, ticket) ==
    /\ ~Waiting(pool, w) /\ pool.permit[w] = None
    /\ pool' = drain(Queued(pool, w, ticket, LaneOf(ticket)))
    /\ UNCHANGED priority

Aborted(p, w) ==
    [p EXCEPT !.lanes = [lane \in Priority |->
        Kept(p.lanes[lane], {i \in DOMAIN p.lanes[lane] : p.lanes[lane][i].who # w})]]

(* onAbort of a waiter: it leaves its lane.                                 *)
onAbort(w) ==
    /\ Waiting(pool, w)
    /\ pool' = Aborted(pool, w)
    /\ UNCHANGED priority

Returned(p, w) == [p EXCEPT !.held = @ - 1, !.permit[w] = None,
                            !.lowHeld = IF p.permit[w] = "low" THEN @ - 1 ELSE @]

(* Faulty: each call of a release gives a permit back.                      *)
release_NotOnce(w) == pool' = drain(Returned(pool, w)) /\ UNCHANGED priority

(* Faulty: a freed permit is not handed on.                                 *)
release_NoDrain(w) ==
    /\ pool' = IF pool.permit[w] = None THEN pool ELSE Returned(pool, w)
    /\ UNCHANGED priority

(* releaseOnce: a second call finds no permit and does nothing.             *)
release(w) ==
    /\ pool' = IF pool.permit[w] = None THEN pool ELSE drain(Returned(pool, w))
    /\ UNCHANGED priority

(* Faulty: promoted waiters go to the back of the lane.                     *)
Merged_AtTheBack(lane, moving) == lane \o moving

(* [...lane, ...moving] sorted by seq, which no two waiters share.          *)
Merged(lane, moving) ==
    LET all == Elements(lane) \cup Elements(moving)
        seqs == {x.seq : x \in all}
    IN  [n \in 1..Cardinality(all) |-> CHOOSE x \in all : Rank(x.seq, seqs) = n]

(* The waiters at the positions I of a lane move to another.                *)
Promoted(p, from, to, I) ==
    [p EXCEPT !.lanes[from] = Kept(@, DOMAIN @ \ I),
              !.lanes[to] = Merged(@, Kept(p.lanes[from], I))]

(* The ticket's waiters move up, merged into the lane by arrival.           *)
promote(ticket, to) ==
    LET from == priority[ticket]
        moves == {i \in DOMAIN pool.lanes[from] : pool.lanes[from][i].ticket = ticket}
    IN
    /\ outranks(to, from)
    /\ priority' = [priority EXCEPT ![ticket] = to]
    /\ pool' = IF moves = {} THEN pool ELSE drain(Promoted(pool, from, to, moves))

-----------------------------------------------------------------------------
(***************************************************************************)
(* The semaphore and callers that use it in any order (esiFetch's use of it *)
(* is EsiGate's).                                                           *)
(***************************************************************************)

semVars == <<pool, priority>>

SemInit == pool = EmptyPool /\ priority \in [Ticket -> {"high", "low"}]

(* The caller makes a new ticket in place of one no waiter has.             *)
NewTicket(k) ==
    /\ \A lane \in Priority : \A i \in DOMAIN pool.lanes[lane] : pool.lanes[lane][i].ticket # k
    /\ \E first \in {"high", "low"} : priority' = [priority EXCEPT ![k] = first]
    /\ UNCHANGED pool

SemNext ==
    \/ \E w \in Waiter : \/ onAbort(w) \/ release(w)
                         \/ \E k \in Ticket \cup {NoTicket} : acquire(w, k)
    \/ \E k \in Ticket : NewTicket(k) \/ \E to \in Priority : promote(k, to)

SemSpec == SemInit /\ [][SemNext]_semVars

(* "No permit holder waits on another permit", so each returns its own.     *)
SemFairSpec == SemSpec /\ \A w \in Waiter : WF_semVars(release(w))

-----------------------------------------------------------------------------
(* Every variable has its type, and the counters count the permits that are *)
(* out: one lost, or given back twice, would narrow or widen the pool for   *)
(* as long as the app runs, and a low count that drifted would starve the   *)
(* background or eat the reserve.                                           *)
PermitsAccounted ==
    LET Out(Lanes) == {w \in Waiter : pool.permit[w] \in Lanes} IN
    /\ pool.held = Cardinality(Out(Priority)) /\ pool.lowHeld = Cardinality(Out({"low"}))
    /\ pool.permit \in [Waiter -> Priority \cup {None}]
    /\ priority \in [Ticket -> Priority]
    /\ \A lane \in Priority : \A i \in DOMAIN pool.lanes[lane] :
          pool.lanes[lane][i] \in [who : Waiter, ticket : Ticket \cup {NoTicket}, seq : Nat]

(* The promise the lanes keep: who waits where, and who came before whom.   *)
WaitsIn(p, w) == IF Waiting(p, w) THEN CHOOSE lane \in Priority : In(p, w, lane) ELSE None

CameBefore(p, v, w) ==
    \E l, m \in Priority : \E i \in DOMAIN p.lanes[l], j \in DOMAIN p.lanes[m] :
        /\ p.lanes[l][i].who = v /\ p.lanes[m][j].who = w
        /\ p.lanes[l][i].seq < p.lanes[m][j].seq

Waits(p) == [w \in Waiter |-> WaitsIn(p, w)]

Arrivals(p) == {a \in Waiter \X Waiter : CameBefore(p, a[1], a[2])}

Promise == INSTANCE PermitPool WITH
               waits <- Waits(pool), before <- Arrivals(pool),
               holding <- pool.permit, LowLimit <- lowLimit

(* Whatever order acquires, aborts, releases and promotions come in, the    *)
(* three lanes do what one queue would (PermitPool): nobody waits who may   *)
(* be admitted, and nobody is admitted before one that comes first.         *)
KeepsItsPromise == Promise!Spec

(* "No lane is starved by the others alone; it waits only while higher work *)
(* is actually queued": a waiter stuck in its lane for good has, again and  *)
(* again, someone above it in line.                                         *)
NoLaneStarvedAlone ==
    \A w \in Waiter, lane \in Priority :
        <>[]In(pool, w, lane) => []<>(\E above \in Priority : /\ outranks(above, lane)
                                                      /\ pool.lanes[above] # <<>>)
=============================================================================
