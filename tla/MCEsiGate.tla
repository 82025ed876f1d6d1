------------------------------ MODULE MCEsiGate ------------------------------
(* Two pages of one background load at two permits, one of them kept from   *)
(* low: the second page waits, unless a view promotes the load.             *)
EXTENDS EsiGate

MCTicketOf == [c \in Waiter |-> CHOOSE k \in Ticket : TRUE]

MCInitialLane == [k \in Ticket |-> "low"]

Headers == [errorRemain |-> None, errorReset |-> None, rateRemain |-> None,
            rateReset |-> None, retryAfter |-> None, status |-> 200]

(* A success, one that shows the error budget nearly spent, a throttle that *)
(* does too, whose wait is absorbed, and one that names no reset, whose     *)
(* default is not.                                                          *)
Low == [Headers EXCEPT !.errorRemain = 1, !.errorReset = 2]

MCResponse == {Headers, Low, [Low EXCEPT !.status = 429, !.retryAfter = 1],
               [Headers EXCEPT !.status = 420]}
=============================================================================
