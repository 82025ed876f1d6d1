------------------------------ MODULE PermitPool ------------------------------
(***************************************************************************)
(* What createSemaphore promises (src/lib/concurrency.ts:92-113), with no   *)
(* lanes to manage: one queue in the order of arrival, and after every call *)
(* whoever may hold a permit holds one.                                     *)
(***************************************************************************)
EXTENDS Naturals, FiniteSets

CONSTANTS Waiter, Limit, LowLimit, None

Priority == {"high", "normal", "low"}

Outranks(a, b) == \/ a = "high" /\ b # "high"
                  \/ a = "normal" /\ b = "low"

VARIABLES
    waits,      \* waits[w]: the lane w waits in, or None
    before,     \* the pairs of waiters of which the first arrived first
    holding     \* holding[w]: the lane w was admitted in, or None

vars == <<waits, before, holding>>

Within(q) == {w \in Waiter : q[w] # None}

Holders(h, Lanes) == {w \in Waiter : h[w] \in Lanes}

LowIsFull(h) == Cardinality(Holders(h, {"low"})) >= LowLimit

(* Of the waiters q, in the order b, and the holders h, everyone who may is *)
(* admitted and nobody else: highest lane first, the oldest first in a      *)
(* lane, low work only while no other waits and low holders are under their *)
(* limit.                                                                   *)
Admits(q, b, h) ==
    \E In \in SUBSET Within(q) :
        LET Left == Within(q) \ In IN
        /\ waits' = [w \in Waiter |-> IF w \in In THEN None ELSE q[w]]
        /\ before' = b \cap (Left \X Left)
        /\ holding' = [w \in Waiter |-> IF w \in In THEN q[w] ELSE h[w]]
        /\ Cardinality(Holders(holding', Priority)) <= Limit
        /\ Cardinality(Holders(holding', {"low"})) <= LowLimit
        /\ \A v \in In, w \in Left : \/ Outranks(q[v], q[w])
                                     \/ q[v] = q[w] /\ <<v, w>> \in b
        /\ \/ Left = {}
           \/ Cardinality(Holders(holding', Priority)) = Limit
           \/ LowIsFull(holding') /\ \A w \in Left : q[w] = "low"

Init ==
    /\ waits = [w \in Waiter |-> None]
    /\ before = {}
    /\ holding = [w \in Waiter |-> None]

Ask(w, lane) ==
    /\ holding[w] = None /\ waits[w] = None
    /\ Admits([waits EXCEPT ![w] = lane], before \cup (Within(waits) \X {w}), holding)

(* A waiter that gives up leaves the queue and takes nothing with it.       *)
GiveUp(w) ==
    /\ waits[w] # None
    /\ waits' = [waits EXCEPT ![w] = None]
    /\ before' = {p \in before : p[1] # w /\ p[2] # w}
    /\ UNCHANGED holding

GiveBack(w) == holding[w] # None /\ Admits(waits, before, [holding EXCEPT ![w] = None])

(* Some of the waiters move up, each keeping its place in line.             *)
Raise(S, to) ==
    /\ S # {} /\ \A w \in S : Outranks(to, waits[w])
    /\ Admits([w \in Waiter |-> IF w \in S THEN to ELSE waits[w]], before, holding)

Next ==
    \/ \E w \in Waiter : GiveUp(w) \/ GiveBack(w) \/ \E lane \in Priority : Ask(w, lane)
    \/ \E S \in SUBSET Within(waits), to \in Priority : Raise(S, to)

Spec == Init /\ [][Next]_vars
=============================================================================
