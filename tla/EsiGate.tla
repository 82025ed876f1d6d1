------------------------------- MODULE EsiGate -------------------------------
(***************************************************************************)
(* The gate every ESI request passes: planRequest and observeBudget         *)
(* (src/esi/budget.ts), the semaphore behind them and esiFetch's use of     *)
(* both (src/esi/client.ts).  A Waiter is one esiFetch call, which may ask  *)
(* twice: a throttled answer is retried once.  The clock counts ticks and   *)
(* never runs backwards.                                                    *)
(***************************************************************************)
EXTENDS Semaphore

CONSTANTS
    TicketOf,       \* the lane ticket each call carries, or NoTicket
    InitialLane,    \* a ticket's priority when it is made
    Response,       \* what ESI may answer: a status, and the headers it names
    LowWater,       \* ERROR_LIMIT_LOW_WATER
    MaxWait,        \* MAX_BUDGET_WAIT_MS
    MaxSpacing,     \* MAX_REQUEST_SPACING_MS
    MaxCircuit,     \* MAX_CIRCUIT_MS
    ErrorWindow,    \* DEFAULT_ERROR_WINDOW_MS
    RateWindow,     \* DEFAULT_RATE_WINDOW_MS
    MaxTime         \* bound: later than this, time passes only for a sleeper

ASSUME EsiGateAssumptions ==
    /\ TicketOf \in [Waiter -> Ticket \cup {NoTicket}]
    /\ InitialLane \in [Ticket -> {"high", "low"}]
    /\ {LowWater, MaxWait, MaxSpacing, MaxCircuit, ErrorWindow, RateWindow, MaxTime} \subseteq Nat
    /\ None \notin Nat
    /\ \A r \in Response :
          /\ r.status \in Nat
          /\ {r.errorRemain, r.errorReset, r.rateRemain, r.rateReset, r.retryAfter}
                \subseteq Nat \cup {None}

VARIABLES
    now,
    budget,         \* BudgetState, the circuit's status left out
    call            \* call[c]: where c is between esiFetch and its return

gateVars == <<pool, priority, now, budget, call>>

INITIAL_BUDGET == [errorRemain |-> None, errorResetAt |-> None,
                   rateRemain |-> None, rateResetAt |-> None,
                   circuitUntil |-> None, circuitShutAt |-> None, nextAdmissionAt |-> 0]

(* until, spacing: the slot planRequest gave it.  aborted: its signal fired *)
(* after its permit came.                                                   *)
IdleCall == [phase |-> "idle", until |-> 0, spacing |-> 0, startedAt |-> 0,
             retry |-> FALSE, aborted |-> FALSE]

GateInit ==
    /\ pool = EmptyPool
    /\ priority = InitialLane
    /\ now = 0
    /\ budget = INITIAL_BUDGET
    /\ call = [c \in Waiter |-> IdleCall]

Smaller(a, b) == IF a < b THEN a ELSE b
Larger(a, b) == IF a > b THEN a ELSE b

-----------------------------------------------------------------------------
(***************************************************************************)
(* The policy.                                                              *)
(***************************************************************************)

resetInstant(ticks) == IF ticks = None THEN None ELSE now + Smaller(ticks, MaxCircuit)

Or(reading, otherwise) == IF reading # None THEN reading ELSE otherwise

(* A success speaks for now only if it was asked for since the door shut.   *)
startedAfterTheShut_Always(startedAt) == TRUE
startedAfterTheShut(startedAt) ==
    budget.circuitShutAt = None \/ startedAt >= budget.circuitShutAt

Circuit(b, until, shutAt) == [b EXCEPT !.circuitUntil = until, !.circuitShutAt = shutAt]

observeBudget(r, startedAt) ==
    LET next == [budget EXCEPT !.errorRemain = Or(r.errorRemain, @),
                               !.errorResetAt = Or(resetInstant(r.errorReset), @),
                               !.rateRemain = Or(r.rateRemain, @),
                               !.rateResetAt = Or(resetInstant(r.rateReset), @)]
    IN
    CASE r.status = 420 ->
           Circuit(next, Or(resetInstant(r.errorReset), now + ErrorWindow), now)
      [] r.status = 429 ->
           Circuit(next, Or(resetInstant(r.retryAfter),
                            Or(resetInstant(r.rateReset), now + RateWindow)), now)
      [] r.status < 400 /\ startedAfterTheShut(startedAt) -> Circuit(next, None, None)
      [] OTHER -> next

(* The instances' low readings are 0 and 1, so the division is exact.       *)
brakeMs(remain, resetAt) ==
    CASE remain = None \/ resetAt = None -> 0
      [] remain # None /\ resetAt # None /\ (resetAt <= now \/ remain > LowWater) -> 0
      [] OTHER -> Smaller((resetAt - now) \div Larger(remain, 1), MaxSpacing)

spacingMs == Larger(brakeMs(budget.errorRemain, budget.errorResetAt),
                    brakeMs(budget.rateRemain, budget.rateResetAt))

(* The earliest moment a request planned now may fire.                      *)
Earliest ==
    LET shutUntil == IF budget.circuitUntil = None THEN 0 ELSE budget.circuitUntil
    IN  Larger(now, Larger(shutUntil, budget.nextAdmissionAt))

(* Faulty: the next slot is counted from now, not from this one.            *)
Reserved_FromNow == IF spacingMs = 0 THEN budget
                    ELSE [budget EXCEPT !.nextAdmissionAt = now + spacingMs]

Reserved == IF spacingMs = 0 THEN budget
            ELSE [budget EXCEPT !.nextAdmissionAt = Earliest + spacingMs]

-----------------------------------------------------------------------------
(***************************************************************************)
(* A call, from passEsiGate to its answer.                                  *)
(***************************************************************************)

Goes(c, phase) == call' = [call EXCEPT ![c].phase = phase]

(* A call that has ended keeps nothing.                                     *)
Ends(c) == call' = [call EXCEPT ![c] = [IdleCall EXCEPT !.phase = "done"]]

TooLong == Earliest - now > MaxWait

(* planRequest, for a new call or for the one retry: a slot is reserved, or *)
(* the call is refused and reserves none.  One that need not sleep queues   *)
(* for its permit in the same turn.                                         *)
Plan(c) ==
    /\ call[c].phase \in {"idle", "retrying"}
    /\ \/ /\ TooLong
          /\ Ends(c) /\ UNCHANGED <<pool, priority, budget>>
       \/ /\ ~TooLong
          /\ budget' = Reserved
          /\ call' = [call EXCEPT ![c].phase = IF Earliest > now THEN "sleeping" ELSE "queued",
                                  ![c].until = Earliest, ![c].spacing = spacingMs]
          /\ IF Earliest > now THEN UNCHANGED <<pool, priority>> ELSE acquire(c, TicketOf[c])
    /\ UNCHANGED now

(* A call whose signal fired already gives up only after its slot is taken. *)
PlanAborted(c) ==
    /\ call[c].phase \in {"idle", "retrying"} /\ ~TooLong
    /\ budget' = Reserved
    /\ Ends(c)
    /\ UNCHANGED <<pool, priority, now>>

(* The policy wait is over: it queues for a permit, and does not look at    *)
(* the budget again.                                                        *)
Wake(c) ==
    /\ call[c].phase = "sleeping" /\ call[c].until <= now
    /\ acquire(c, TicketOf[c])
    /\ Goes(c, "queued")
    /\ UNCHANGED <<now, budget>>

(* Its permit came: the request goes out, or, aborted since, fails at once. *)
Send(c) ==
    /\ call[c].phase = "queued" /\ pool.permit[c] # None
    /\ IF call[c].aborted
       THEN release(c) /\ Ends(c)
       ELSE /\ call' = [call EXCEPT ![c] = [IdleCall EXCEPT !.phase = "sent", !.retry = call[c].retry,
                                                           !.startedAt = now]]
            /\ UNCHANGED <<pool, priority>>
    /\ UNCHANGED <<now, budget>>

(* The answer is folded into the budget and the permit returned, and only   *)
(* then may a throttled call ask again.                                     *)
Answer(c, r) ==
    /\ call[c].phase = "sent"
    /\ budget' = observeBudget(r, call[c].startedAt)
    /\ release(c)
    /\ IF r.status \in {420, 429} /\ ~call[c].retry
       THEN call' = [call EXCEPT ![c] = [IdleCall EXCEPT !.phase = "retrying", !.retry = TRUE]]
       ELSE Ends(c)
    /\ UNCHANGED now

(* Faulty: the permit is returned only by an answer.                        *)
NetworkError_NoRelease(c) ==
    /\ call[c].phase = "sent" /\ Ends(c)
    /\ UNCHANGED <<pool, priority, now, budget>>

NetworkError(c) ==
    /\ call[c].phase = "sent"
    /\ release(c) /\ Ends(c)
    /\ UNCHANGED <<now, budget>>

(* Faulty: a waiter that gave up stays in its lane.                         *)
Abort_InLane(c) ==
    /\ call[c].phase = "queued" /\ Waiting(pool, c) /\ Ends(c)
    /\ UNCHANGED <<pool, priority, now, budget>>

(* The caller cancels, or REQUEST_TIMEOUT_MS is over.                       *)
Abort(c) ==
    /\ \/ call[c].phase = "sleeping" /\ Ends(c) /\ UNCHANGED <<pool, priority>>
       \/ call[c].phase = "queued" /\ onAbort(c) /\ Ends(c)
       \/ /\ call[c].phase = "queued" /\ pool.permit[c] # None
          /\ call' = [call EXCEPT ![c].aborted = TRUE]
          /\ UNCHANGED <<pool, priority>>
       \/ call[c].phase = "sent" /\ release(c) /\ Ends(c)
    /\ UNCHANGED <<now, budget>>

(* A view joins a load that background work started.                        *)
promoteEsiLane(ticket, to) ==
    /\ promote(ticket, to)
    /\ UNCHANGED <<now, budget, call>>

Tick ==
    /\ now < MaxTime \/ \E c \in Waiter : call[c].phase = "sleeping" /\ call[c].until > now
    /\ now' = now + 1
    /\ UNCHANGED <<pool, priority, budget, call>>

GateNext ==
    \/ Tick
    \/ \E c \in Waiter : \/ Plan(c) \/ PlanAborted(c) \/ Wake(c) \/ Send(c)
                         \/ NetworkError(c) \/ Abort(c) \/ \E r \in Response : Answer(c, r)
    \/ \E k \in Ticket, to \in {"high", "normal"} : promoteEsiLane(k, to)

GateSpec == GateInit /\ [][GateNext]_gateVars

(* What goes on by itself: timers fire, promises are awaited and a fetch    *)
(* settles.  Nothing obliges a call to be made, aborted in time or promoted.*)
Progress ==
    \/ Tick
    \/ \E c \in Waiter : \/ call[c].phase = "retrying" /\ Plan(c)
                         \/ Wake(c) \/ Send(c) \/ NetworkError(c)
                         \/ \E r \in Response : Answer(c, r)

GateFairSpec == GateSpec /\ WF_gateVars(Progress)

-----------------------------------------------------------------------------
Types ==
    /\ now \in Nat
    /\ \A f \in DOMAIN INITIAL_BUDGET : budget[f] \in Nat \cup {None}
    /\ call \in [Waiter -> [phase : {"idle", "sleeping", "queued", "sent", "retrying", "done"},
                            until : 0..(now + MaxWait), spacing : 0..MaxSpacing,
                            startedAt : 0..now, retry : BOOLEAN, aborted : BOOLEAN]]

(* No permit outlives its call: one is held by a call that is out, or about *)
(* to go, whichever way the others ended; twelve lost would be the app's    *)
(* whole ESI until a reload.  And the permits add up, every variable has    *)
(* its type, and nobody is held by the policy past its bound.               *)
PermitsHeldByCalls ==
    /\ Types /\ PermitsAccounted
    /\ \A c \in Waiter :
          /\ pool.permit[c] # None \/ Waiting(pool, c) => call[c].phase \in {"queued", "sent"}
          /\ call[c].phase = "sent" => pool.permit[c] # None

(* Under the brake planned slots form a queue: the slots of two calls that  *)
(* were planned while it was on, and are not sent yet, lie at least as far   *)
(* apart as the spacing the earlier one was given, aborts and retries       *)
(* notwithstanding.  A slot is when a call may ask for its permit: what it  *)
(* waits for that is not spaced, so two may still be sent together.         *)
BrakeSpreads ==
    \A c, d \in Waiter :
        c # d /\ call[c].spacing > 0 /\ call[d].spacing > 0 /\ call[c].until <= call[d].until
        => call[d].until >= call[c].until + call[c].spacing

(* The circuit is not reopened by its own stragglers: the success that      *)
(* reopens it was asked for after the last throttled answer came in.        *)
OnlyFreshAnswersReopen ==
    [][budget.circuitShutAt # None /\ budget'.circuitShutAt = None =>
         \E c \in Waiter : /\ call[c].phase = "sent" /\ call'[c].phase # "sent"
                           /\ call[c].startedAt >= budget.circuitShutAt]_gateVars

(* "Nothing here waits without an end", even if no timeout ever fires:      *)
(* whoever called gets an answer, in whichever lane, and the gate clears.   *)
EveryCallEnds ==
    LET Clear == \A c \in Waiter : call[c].phase \in {"idle", "done"} IN ~Clear ~> Clear

(* "Queued and subsequent callers read that one shared verdict instead of   *)
(* each firing its own blind retry into a closed door" (budget.ts:35-37):   *)
(* no request goes out while the circuit is shut.                           *)
(* The code does not keep it: no run checks it, the README says why.       *)
NothingSentIntoAClosedDoor ==
    [][\A c \in Waiter : call[c].phase = "queued" /\ call'[c].phase = "sent" =>
          budget.circuitUntil = None \/ budget.circuitUntil <= now]_gateVars
=============================================================================
