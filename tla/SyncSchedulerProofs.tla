------------------------- MODULE SyncSchedulerProofs -------------------------
(***************************************************************************)
(* What the sync_scheduler run checks for two Characters, proved for any    *)
(* number of Characters, collections, requests and failures: every safety   *)
(* property of SyncScheduler.                                               *)
(***************************************************************************)
EXTENDS SyncScheduler, SequenceTheorems, TLAPS

-----------------------------------------------------------------------------
(***************************************************************************)
(* The session.  The operators take the queue, jobs and passes as arguments *)
(* because pump is called in the middle of a step, over those its caller    *)
(* leaves it.                                                               *)
(***************************************************************************)

Status == {"idle", "syncing", "error"}
Jobs == [Character -> Job \cup {None}]
Passes == [Character -> Pass \cup {None}]

Waits(J) == J # None /\ ~J.started

(* Whoever is in the queue waits, and is in it once; a pass is that of a    *)
(* started job, and holds the session.                                      *)
SessionOf(q, jobs, passes, isBusy) ==
    /\ \A i \in DOMAIN q : Waits(jobs[q[i]])
    /\ \A i, j \in DOMAIN q : q[i] = q[j] => i = j
    /\ \A c \in Character :
        /\ passes[c] # None <=> jobs[c] # None /\ jobs[c].started
        /\ passes[c] # None => isBusy
        /\ \A d \in Character : passes[c] # None /\ passes[d] # None => c = d

Session == SessionOf(queue, job, pass, busy)

Typed == TypeOK /\ Session

(* What pump leaves of the job J, the pass P and the status S of c: either  *)
(* nothing changed, or the job's pass starts.                               *)
Pumped(c, J, P, S) ==
    \/ job'[c] = J /\ pass'[c] = P /\ status'[c] = S
    \/ /\ Waits(J) /\ P = None
       /\ job'[c] = [J EXCEPT !.started = TRUE]
       /\ status'[c] = "syncing"
       /\ \E scope \in SUBSET Collection :
            /\ J.ask.scope \subseteq scope /\ (scope = All \/ recent'[c])
            /\ pass'[c] = NewPass(Ask(J.ask.priority, scope))

LEMMA TakenOutIs ==
  ASSUME NEW q \in Seq(Character), NEW k \in DOMAIN q
  PROVE  /\ TakenOut(q, k) \in Seq(Character)
         /\ DOMAIN TakenOut(q, k) = 1..(Len(q) - 1)
         /\ \A i \in 1..(Len(q) - 1) : TakenOut(q, k)[i] = IF i < k THEN q[i] ELSE q[i + 1]
<1> DEFINE s1 == SubSeq(q, 1, k - 1)
           s2 == SubSeq(q, k + 1, Len(q))
<1>1. k \in 1..Len(q) /\ Len(q) \in Nat /\ \A i \in 1..Len(q) : q[i] \in Character
  OBVIOUS
<1>2. /\ s1 \in Seq(Character) /\ Len(s1) = k - 1
      /\ \A i \in 1..(k - 1) : s1[i] = q[i]
  <2>1. \A i \in 1..(k - 1) : q[i] \in Character
    BY <1>1
  <2> QED BY <1>1, <2>1, SubSeqProperties
<1>3. /\ s2 \in Seq(Character) /\ Len(s2) = Len(q) - k
      /\ \A i \in 1..(Len(q) - k) : s2[i] = q[k + i]
  <2>1. \A i \in (k + 1)..Len(q) : q[i] \in Character
    BY <1>1
  <2>2. /\ s2 \in Seq(Character)
        /\ Len(s2) = IF k + 1 <= Len(q) THEN Len(q) - (k + 1) + 1 ELSE 0
        /\ \A i \in 1..(Len(q) - (k + 1) + 1) : s2[i] = q[(k + 1) + i - 1]
    BY <1>1, <2>1, SubSeqProperties
  <2>3. \A i \in 1..(Len(q) - k) : i \in 1..(Len(q) - (k + 1) + 1) /\ (k + 1) + i - 1 = k + i
    BY <1>1
  <2> QED BY <1>1, <2>2, <2>3
<1>4. TakenOut(q, k) = s1 \o s2
  BY DEF TakenOut
<1> HIDE DEF s1, s2
<1>5. /\ s1 \o s2 \in Seq(Character)
      /\ Len(s1 \o s2) = Len(s1) + Len(s2)
      /\ \A i \in 1..(Len(s1) + Len(s2)) :
            (s1 \o s2)[i] = IF i <= Len(s1) THEN s1[i] ELSE s2[i - Len(s1)]
  BY <1>2, <1>3, ConcatProperties
<1>6. Len(s1) + Len(s2) = Len(q) - 1
  BY <1>1, <1>2, <1>3
<1>7. DOMAIN (s1 \o s2) = 1..(Len(q) - 1)
  BY <1>5, <1>6
<1>8. \A i \in 1..(Len(q) - 1) : (s1 \o s2)[i] = IF i < k THEN q[i] ELSE q[i + 1]
  <2> TAKE i \in 1..(Len(q) - 1)
  <2>1. CASE i < k
    BY <2>1, <1>1, <1>2, <1>5, <1>6
  <2>2. CASE ~(i < k)
    <3>1. i - Len(s1) \in 1..(Len(q) - k) /\ k + (i - Len(s1)) = i + 1 /\ ~(i <= Len(s1))
      BY <2>2, <1>1, <1>2
    <3> QED BY <2>2, <3>1, <1>3, <1>5, <1>6
  <2> QED BY <2>1, <2>2
<1> QED BY <1>4, <1>5, <1>7, <1>8

LEMMA PumpDoes ==
  ASSUME NEW q \in Seq(Character), NEW jobs \in Jobs, NEW passes \in Passes,
         NEW b \in BOOLEAN, NEW states \in [Character -> Status],
         recent' \in [Character -> BOOLEAN],
         SessionOf(q, jobs, passes, b),
         Pump(q, jobs, passes, b, states)
  PROVE  /\ queue' \in Seq(Character) /\ job' \in Jobs /\ pass' \in Passes
         /\ busy' \in BOOLEAN /\ status' \in [Character -> Status]
         /\ SessionOf(queue', job', pass', busy')
         /\ \A d \in Character : Pumped(d, jobs[d], passes[d], states[d])
<1>1. CASE b \/ q = <<>>
  BY <1>1 DEF Pump, Pumped
<1>2. CASE ~(b \/ q = <<>>)
  <2>1. PICK k \in DOMAIN q, full \in BOOLEAN :
            LET c == q[k]
                ask == jobs[c].ask
                scope == IF full THEN All ELSE effectiveScope(c, ask.scope)
            IN
            /\ queue' = TakenOut(q, k)
            /\ job' = [jobs EXCEPT ![c].started = TRUE]
            /\ busy' = TRUE
            /\ status' = [states EXCEPT ![c] = "syncing"]
            /\ pass' = [passes EXCEPT ![c] = NewPass(Ask(ask.priority, scope))]
    BY <1>2 DEF Pump
  <2> DEFINE c == q[k]
             J == jobs[c]
             scope == IF full THEN All ELSE effectiveScope(c, J.ask.scope)
             N == NewPass(Ask(J.ask.priority, scope))
             K == [J EXCEPT !.started = TRUE]
  <2>2. c \in Character /\ Waits(J) /\ passes[c] = None /\ J \in Job
    BY DEF SessionOf, Waits, Jobs
  <2>3. /\ scope \in SUBSET Collection /\ J.ask.scope \subseteq scope
        /\ scope = All \/ recent'[c]
    BY <2>2 DEF effectiveScope, All, Job, Request
  <2>4. N \in Pass
    BY <2>2, <2>3 DEF NewPass, Ask, Pass, Request, Job
  <2>5. K \in Job /\ K.started
    BY <2>2 DEF Job
  <2>6. N # None /\ K # None
    BY <2>4, <2>5, SyncSchedulerAssumptions
  <2>7. /\ queue' = TakenOut(q, k) /\ job' = [jobs EXCEPT ![c] = K] /\ busy' = TRUE
        /\ status' = [states EXCEPT ![c] = "syncing"] /\ pass' = [passes EXCEPT ![c] = N]
    BY <2>1
  <2>9. \A d \in Character : Pumped(d, jobs[d], passes[d], states[d])
    <3> SUFFICES ASSUME NEW d \in Character PROVE Pumped(d, jobs[d], passes[d], states[d])
      OBVIOUS
    <3>1. CASE d = c
      <4>1. job'[c] = K /\ pass'[c] = N /\ status'[c] = "syncing"
        BY <2>2, <2>7 DEF Jobs, Passes
      <4> QED BY <3>1, <4>1, <2>2, <2>3 DEF Pumped
    <3>2. CASE d # c
      BY <3>2, <2>2, <2>7 DEF Pumped, Jobs, Passes
    <3> QED BY <3>1, <3>2
  <2> HIDE DEF c, J, scope, N, K
  <2>10. job' \in Jobs /\ pass' \in Passes /\ status' \in [Character -> Status]
    BY <2>2, <2>4, <2>5, <2>7 DEF Jobs, Passes, Status
  <2>11. SessionOf(queue', job', pass', busy')
    <3>1. /\ queue' \in Seq(Character) /\ DOMAIN queue' = 1..(Len(q) - 1)
          /\ \A i \in 1..(Len(q) - 1) : queue'[i] = IF i < k THEN q[i] ELSE q[i + 1]
      BY <2>7, TakenOutIs
    <3>2. ASSUME NEW i \in DOMAIN queue'
          PROVE  \E j \in DOMAIN q : j # k /\ queue'[i] = q[j] /\ j = IF i < k THEN i ELSE i + 1
      <4>1. DOMAIN q = 1..Len(q) /\ Len(q) \in Nat /\ k \in 1..Len(q) /\ i \in 1..(Len(q) - 1)
        BY <3>1
      <4> QED BY <3>1, <4>1
    <3>3. ASSUME NEW i \in DOMAIN queue' PROVE Waits(job'[queue'[i]])
      <4>1. PICK j \in DOMAIN q : j # k /\ queue'[i] = q[j]
        BY <3>2
      <4>2. q[j] # c /\ q[j] \in Character /\ Waits(jobs[q[j]])
        BY <4>1 DEF SessionOf, c
      <4> QED BY <4>1, <4>2, <2>2, <2>7 DEF Jobs
    <3>4. ASSUME NEW i \in DOMAIN queue', NEW j \in DOMAIN queue', queue'[i] = queue'[j]
          PROVE  i = j
      <4>1. PICK x \in DOMAIN q : queue'[i] = q[x] /\ x = IF i < k THEN i ELSE i + 1
        BY <3>2
      <4>2. PICK y \in DOMAIN q : queue'[j] = q[y] /\ y = IF j < k THEN j ELSE j + 1
        BY <3>2
      <4>3. x = y
        BY <3>4, <4>1, <4>2 DEF SessionOf
      <4>4. i \in Int /\ j \in Int /\ k \in Int
        BY <3>1
      <4> QED BY <4>1, <4>2, <4>3, <4>4
    <3>5. \A d \in Character : passes[d] = None
      BY <1>2 DEF SessionOf
    <3>6. \A d \in Character : /\ job'[d] = IF d = c THEN K ELSE jobs[d]
                               /\ pass'[d] = IF d = c THEN N ELSE None
      BY <2>2, <2>7, <3>5 DEF Jobs, Passes
    <3>7. \A d \in Character : pass'[d] # None <=> job'[d] # None /\ job'[d].started
      BY <2>2, <2>5, <2>6, <3>5, <3>6 DEF SessionOf
    <3>8. \A d \in Character : pass'[d] # None => d = c
      BY <3>6
    <3> QED BY <2>7, <3>3, <3>4, <3>7, <3>8 DEF SessionOf
  <2> QED BY <2>7, <2>9, <2>10, <2>11, TakenOutIs
<1> QED BY <1>1, <1>2

-----------------------------------------------------------------------------
(***************************************************************************)
(* What requestSync and the end of a pass do to each Character.             *)
(***************************************************************************)

LEMMA MergedRequest ==
  ASSUME NEW a \in Request \cup {None}, NEW b \in Request
  PROVE  /\ Merged(a, b) \in Request
         /\ b.scope \subseteq Merged(a, b).scope
         /\ b.priority = "foreground" => Merged(a, b).priority = "foreground"
         /\ a # None => /\ a.scope \subseteq Merged(a, b).scope
                        /\ a.priority = "foreground" => Merged(a, b).priority = "foreground"
BY DEF Merged, Ask, higher, Request

LEMMA MadeJobs ==
  /\ \A ask \in Request : NewJob(ask) \in Job /\ Waits(NewJob(ask))
  /\ None \notin Job
<1>1. \A ask \in Request : NewJob(ask) \in Job
  BY DEF NewJob, Job
<1>2. \A ask \in Request : ~NewJob(ask).started
  BY DEF NewJob
<1> QED BY <1>1, <1>2, SyncSchedulerAssumptions DEF Waits

(* The job of a Character that was asked for another pass.                  *)
Asked(J, ask) ==
    IF J = None THEN NewJob(ask)
    ELSE IF J.started THEN [J EXCEPT !.rerun = Merged(@, ask)]
    ELSE [J EXCEPT !.ask = Merged(@, ask)]

LEMMA AskedJob ==
  ASSUME NEW J \in Job \cup {None}, NEW ask \in Request
  PROVE  /\ Asked(J, ask) \in Job
         /\ J = None => Waits(Asked(J, ask))
         /\ J # None => Asked(J, ask).started = J.started
         /\ J # None /\ J.started => /\ Asked(J, ask).rerun = Merged(J.rerun, ask)
                                   /\ Asked(J, ask).ask = J.ask
         /\ J # None /\ ~J.started => /\ Asked(J, ask).ask = Merged(J.ask, ask)
                                    /\ Asked(J, ask).rerun = J.rerun
<1>1. CASE J = None
  BY <1>1, MadeJobs DEF Asked
<1>2. CASE J # None /\ J.started
  <2>1. J \in Job /\ Merged(J.rerun, ask) \in Request
    BY <1>2, MergedRequest DEF Job
  <2> QED BY <1>2, <2>1 DEF Asked, Job
<1>3. CASE J # None /\ ~J.started
  <2>1. J \in Job /\ Merged(J.ask, ask) \in Request
    BY <1>3, MergedRequest DEF Job
  <2> QED BY <1>3, <2>1 DEF Asked, Job
<1> QED BY <1>1, <1>2, <1>3

LEMMA requestSyncDoes ==
  ASSUME Typed, NEW c \in Character, NEW request \in Request, NEW passes \in Passes,
         \A d \in Character : passes[d] # None <=> pass[d] # None,
         recent' \in [Character -> BOOLEAN],
         requestSync(c, request, passes)
  PROVE  /\ timer' = [timer EXCEPT ![c] = None]
         /\ queue' \in Seq(Character) /\ job' \in Jobs /\ pass' \in Passes
         /\ busy' \in BOOLEAN /\ status' \in [Character -> Status]
         /\ Session'
         /\ Merged(timer[c], request) \in Request
         /\ \A d \in Character \ {c} : Pumped(d, job[d], passes[d], status[d])
         /\ Pumped(c, Asked(job[c], Merged(timer[c], request)), passes[c], status[c])
<1> DEFINE ask == Merged(timer[c], request)
<1>1. ask \in Request
  BY MergedRequest DEF Typed, TypeOK
<1>2. /\ job \in Jobs /\ status \in [Character -> Status] /\ queue \in Seq(Character)
      /\ busy \in BOOLEAN /\ pass \in Passes
  BY DEF Typed, TypeOK, Jobs, Passes, Status
<1>3. timer' = [timer EXCEPT ![c] = None]
  BY DEF requestSync
<1>4. SessionOf(queue, job, passes, busy)
  BY DEF Typed, Session, SessionOf
<1>5. CASE job[c] = None
  <2> DEFINE q == Append(queue, c)
             jobs == [job EXCEPT ![c] = NewJob(ask)]
  <2>1. Pump(q, jobs, passes, busy, status)
    BY <1>5 DEF requestSync
  <2>2. jobs \in Jobs /\ jobs[c] = NewJob(ask) /\ \A d \in Character \ {c} : jobs[d] = job[d]
    BY <1>1, <1>2, MadeJobs DEF Jobs
  <2>3. /\ q \in Seq(Character) /\ DOMAIN q = 1..(Len(queue) + 1) /\ Len(queue) \in Nat
        /\ DOMAIN queue = 1..Len(queue)
        /\ \A i \in DOMAIN queue : q[i] = queue[i]
        /\ q[Len(queue) + 1] = c
    BY <1>2, AppendProperties
  <2>4. \A i \in DOMAIN queue : queue[i] # c /\ queue[i] \in Character
    BY <1>2, <1>4, <1>5 DEF SessionOf, Waits
  <2> HIDE DEF q, jobs
  <2>5. SessionOf(q, jobs, passes, busy)
    <3>1. \A i \in DOMAIN q : i \in DOMAIN queue \/ i = Len(queue) + 1
      BY <2>3
    <3>2. \A i \in DOMAIN q : Waits(jobs[q[i]])
      BY <3>1, <2>2, <2>3, <2>4, <1>1, <1>4, MadeJobs DEF SessionOf
    <3>3. \A i, j \in DOMAIN q : q[i] = q[j] => i = j
      BY <3>1, <2>3, <2>4, <1>4 DEF SessionOf
    <3>4. passes[c] = None /\ jobs[c] # None /\ ~jobs[c].started
      BY <1>1, <1>4, <1>5, <2>2, MadeJobs DEF SessionOf, Waits
    <3> QED BY <3>2, <3>3, <3>4, <1>4, <2>2 DEF SessionOf
  <2>6. Asked(job[c], ask) = NewJob(ask)
    BY <1>5 DEF Asked
  <2>7. /\ queue' \in Seq(Character) /\ job' \in Jobs /\ pass' \in Passes
        /\ busy' \in BOOLEAN /\ status' \in [Character -> Status]
        /\ SessionOf(queue', job', pass', busy')
        /\ \A d \in Character : Pumped(d, jobs[d], passes[d], status[d])
    BY <1>2, <2>1, <2>2, <2>3, <2>5, PumpDoes
  <2>8. Session'
    BY <2>7 DEF Session
  <2> QED BY <1>1, <1>3, <2>2, <2>6, <2>7, <2>8
<1>6. CASE job[c] # None
  <2>1. /\ job' = [job EXCEPT ![c] = Asked(job[c], ask)]
        /\ pass' = passes /\ UNCHANGED <<queue, busy, status>>
    <3>1. CASE job[c].started
      BY <1>6, <3>1 DEF requestSync, Asked
    <3>2. CASE ~job[c].started
      BY <1>6, <3>2 DEF requestSync, Asked
    <3> QED BY <3>1, <3>2
  <2>2. job[c] \in Job
    BY <1>2, <1>6 DEF Jobs
  <2>3. /\ Asked(job[c], ask) \in Job /\ Asked(job[c], ask) # None
        /\ Asked(job[c], ask).started = job[c].started
    BY <1>1, <1>6, <2>2, AskedJob, MadeJobs
  <2>4. /\ job' \in Jobs /\ job'[c] = Asked(job[c], ask)
        /\ \A d \in Character \ {c} : job'[d] = job[d]
    BY <2>1, <2>3, <1>2 DEF Jobs
  <2>5. \A d \in Character : job'[d] # None <=> job[d] # None
    BY <2>3, <2>4, <1>6
  <2>6. \A d \in Character : job'[d].started = job[d].started
    BY <2>3, <2>4
  <2>7. \A i \in DOMAIN queue : queue[i] \in Character
    BY <1>2
  <2>8. SessionOf(queue, job', passes, busy)
    BY <1>4, <2>5, <2>6, <2>7 DEF SessionOf, Waits
  <2>9. Session'
    BY <2>1, <2>8 DEF Session
  <2> QED BY <1>1, <1>2, <1>3, <2>1, <2>4, <2>9 DEF Pumped
<1> QED BY <1>5, <1>6

(* A job whose pass ends goes round again for what arrived during it.       *)
Again(c) == job[c].rerun # None /\ ~halted

NextJob(c) == IF Again(c) THEN NewJob(job[c].rerun) ELSE None

Settled(W, again, outcome, owed) ==
    IF W.state # "waiting" THEN W
    ELSE [state |-> IF again THEN "waiting"
                    ELSE IF outcome = "idle" THEN "resolved" ELSE "rejected",
          owed |-> owed]

LEMMA EndPassDoes ==
  ASSUME Typed, NEW c \in Character, pass[c] # None,
         NEW outcome \in {"idle", "error"}, NEW owed \in SUBSET Collection,
         recent' \in [Character -> BOOLEAN],
         EndPass(c, outcome, owed)
  PROVE  /\ job[c] \in Job /\ pass[c] \in Pass /\ flush'[c] = Settled(flush[c], Again(c), outcome, owed)
         /\ \A d \in Character \ {c} : flush'[d] = flush[d]
         /\ flush' \in [Character -> [state : {"none", "waiting", "resolved", "rejected"},
                                      owed : SUBSET Collection]]
         /\ queue' \in Seq(Character) /\ job' \in Jobs /\ pass' \in Passes
         /\ busy' \in BOOLEAN /\ status' \in [Character -> Status]
         /\ Session'
         /\ \A d \in Character \ {c} : Pumped(d, job[d], pass[d], status[d])
         /\ Pumped(c, NextJob(c), None, outcome)
<1>1. /\ job \in Jobs /\ status \in [Character -> Status] /\ queue \in Seq(Character)
      /\ busy \in BOOLEAN /\ pass \in Passes
  BY DEF Typed, TypeOK, Jobs, Passes, Status
<1>2. job[c] \in Job /\ job[c].started /\ pass[c] \in Pass
  BY <1>1 DEF Typed, Session, SessionOf, Jobs, Passes
<1>3. /\ flush'[c] = Settled(flush[c], Again(c), outcome, owed)
      /\ \A d \in Character \ {c} : flush'[d] = flush[d]
      /\ flush' \in [Character -> [state : {"none", "waiting", "resolved", "rejected"},
                                   owed : SUBSET Collection]]
  BY DEF EndPass, Typed, TypeOK, Settled, Again
<1> DEFINE q == IF Again(c) THEN Append(queue, c) ELSE queue
           jobs == [job EXCEPT ![c] = NextJob(c)]
           passes == [pass EXCEPT ![c] = None]
           states == [status EXCEPT ![c] = outcome]
<1>4. Pump(q, jobs, passes, FALSE, states)
  BY DEF EndPass, Again, NextJob
<1>5. /\ Again(c) => job[c].rerun \in Request
      /\ NextJob(c) \in Job \cup {None}
      /\ Again(c) => Waits(NextJob(c))
      /\ ~Again(c) => NextJob(c) = None
  BY <1>2, MadeJobs DEF Again, NextJob, Job
<1>6. /\ jobs \in Jobs /\ jobs[c] = NextJob(c) /\ \A d \in Character \ {c} : jobs[d] = job[d]
      /\ passes \in Passes /\ passes[c] = None /\ \A d \in Character \ {c} : passes[d] = pass[d]
      /\ states \in [Character -> Status] /\ states[c] = outcome
      /\ \A d \in Character \ {c} : states[d] = status[d]
  BY <1>1, <1>5 DEF Jobs, Passes, Status
<1>7. \A d \in Character : passes[d] = None
  BY <1>6 DEF Typed, Session, SessionOf
<1>8. \A i \in DOMAIN queue : queue[i] # c /\ queue[i] \in Character
  BY <1>1, <1>2 DEF Typed, Session, SessionOf, Waits
<1>9. /\ q \in Seq(Character)
      /\ \A i \in DOMAIN q :
            \/ i \in DOMAIN queue /\ q[i] = queue[i]
            \/ i \notin DOMAIN queue /\ q[i] = c /\ i = Len(queue) + 1 /\ Again(c)
  <2>1. CASE Again(c)
    <3>1. /\ Append(queue, c) \in Seq(Character) /\ Len(queue) \in Nat
          /\ DOMAIN Append(queue, c) = 1..(Len(queue) + 1) /\ DOMAIN queue = 1..Len(queue)
          /\ \A i \in DOMAIN queue : Append(queue, c)[i] = queue[i]
          /\ Append(queue, c)[Len(queue) + 1] = c
      BY <1>1, AppendProperties
    <3> QED BY <2>1, <3>1
  <2>2. CASE ~Again(c)
    BY <1>1, <2>2
  <2> QED BY <2>1, <2>2
<1> HIDE DEF q, jobs, passes, states
<1>10. SessionOf(q, jobs, passes, FALSE)
  <2>1. \A i \in DOMAIN q : Waits(jobs[q[i]])
    BY <1>5, <1>6, <1>8, <1>9 DEF Typed, Session, SessionOf
  <2>2. \A i, j \in DOMAIN q : q[i] = q[j] => i = j
    BY <1>8, <1>9 DEF Typed, Session, SessionOf
  <2>3. \A d \in Character : jobs[d] # None => ~jobs[d].started
    BY <1>5, <1>6, <1>7 DEF Typed, Session, SessionOf, Waits
  <2> QED BY <1>7, <2>1, <2>2, <2>3 DEF SessionOf
<1>11. /\ queue' \in Seq(Character) /\ job' \in Jobs /\ pass' \in Passes
       /\ busy' \in BOOLEAN /\ status' \in [Character -> Status]
       /\ SessionOf(queue', job', pass', busy')
       /\ \A d \in Character : Pumped(d, jobs[d], passes[d], states[d])
  BY <1>1, <1>4, <1>6, <1>9, <1>10, PumpDoes
<1>12. Session'
  BY <1>11 DEF Session
<1> QED BY <1>2, <1>3, <1>6, <1>11, <1>12

-----------------------------------------------------------------------------
(***************************************************************************)
(* Types and the session, action by action.                                 *)
(***************************************************************************)

LEMMA TypedInit == Init => Typed
<1> SUFFICES ASSUME Init PROVE Typed
  OBVIOUS
<1>1. /\ queue \in Seq(Character) /\ requests \in 0..MaxRequests /\ failures \in 0..MaxFailures
  BY SyncSchedulerAssumptions, EmptySeq DEF Init
<1>2. flush \in [Character -> [state : {"none", "waiting", "resolved", "rejected"},
                             owed : SUBSET Collection]]
  BY DEF Init, NoFlush
<1>3. TypeOK
  BY <1>1, <1>2 DEF Init, TypeOK
<1>4. Session
  BY DEF Init, Session, SessionOf
<1> QED BY <1>3, <1>4 DEF Typed

LEMMA Asks ==
  /\ \A S \in SUBSET Collection : Ask("foreground", S) \in Request /\ Ask("background", S) \in Request
  /\ \A k \in Collection : scopeOf(k) \in SUBSET Collection /\ k \in scopeOf(k)
  /\ All \in SUBSET Collection
BY DEF Ask, Request, scopeOf, All

(* Changing a pass, without starting or ending it, keeps the session.       *)
LEMMA PassChanged ==
  ASSUME Typed, NEW c \in Character, NEW P \in Pass \cup {None},
         P # None <=> pass[c] # None,
         pass' = [pass EXCEPT ![c] = P], UNCHANGED <<job, queue, busy>>
  PROVE  /\ Session' /\ pass' \in [Character -> Pass \cup {None}]
         /\ pass'[c] = P /\ \A d \in Character \ {c} : pass'[d] = pass[d]
<1>1. pass \in [Character -> Pass \cup {None}]
  BY DEF Typed, TypeOK
<1>2. pass'[c] = P /\ \A d \in Character \ {c} : pass'[d] = pass[d]
  BY <1>1
<1>3. \A d \in Character : pass'[d] # None <=> pass[d] # None
  BY <1>2
<1> QED BY <1>1, <1>2, <1>3 DEF Typed, Session, SessionOf

LEMMA EditedPass ==
  ASSUME NEW P \in Pass \cup {None}, NEW k \in Collection
  PROVE  /\ Edited(P, k) \in Pass \cup {None} /\ (Edited(P, k) # None <=> P # None)
         /\ P # None => Edited(P, k) = [P EXCEPT !.taken = @ \ {k}]
<1>1. CASE P = None
  BY <1>1 DEF Edited
<1>2. CASE P # None
  BY <1>2, SyncSchedulerAssumptions DEF Edited, Pass
<1> QED BY <1>1, <1>2

LEMMA RecountedPass ==
  ASSUME NEW P \in Pass \cup {None}
  PROVE  /\ Recounted(P) \in Pass \cup {None} /\ (Recounted(P) # None <=> P # None)
         /\ P # None => Recounted(P) = [P EXCEPT !.carried = P.taken]
<1>1. CASE P = None
  BY <1>1 DEF Recounted
<1>2. CASE P # None
  BY <1>2, SyncSchedulerAssumptions DEF Recounted, Pass
<1> QED BY <1>1, <1>2

(* An edit or a sweep: the timer has the request, unless sync was halted.   *)
LEMMA scheduleSyncDoes ==
  ASSUME Typed, NEW c \in Character, NEW request \in Request, scheduleSync(c, request)
  PROVE  /\ timer' \in [Character -> Request \cup {None}]
         /\ \A d \in Character \ {c} : timer'[d] = timer[d]
         /\ timer'[c] = IF halted THEN timer[c] ELSE Merged(timer[c], request)
         /\ halted => timer' = timer
<1>1. timer \in [Character -> Request \cup {None}]
  BY DEF Typed, TypeOK
<1>2. Merged(timer[c], request) \in Request
  BY <1>1, MergedRequest
<1> QED BY <1>1, <1>2 DEF scheduleSync

LEMMA EditTyped ==
  ASSUME Typed, NEW c \in Character, NEW k \in Collection, Edit(c, k)
  PROVE  Typed'
<1>1. pass[c] \in Pass \cup {None}
  BY DEF Typed, TypeOK
<1>2. pass' = [pass EXCEPT ![c] = Edited(pass[c], k)] /\ UNCHANGED <<job, queue, busy>>
  BY DEF Edit
<1>3. Session' /\ pass' \in [Character -> Pass \cup {None}]
  BY <1>1, <1>2, EditedPass, PassChanged
<1>4. timer' \in [Character -> Request \cup {None}]
  BY Asks, scheduleSyncDoes DEF Edit
<1>5. dirty' \in [Character -> SUBSET Collection] /\ requests' \in 0..MaxRequests
  BY SyncSchedulerAssumptions DEF Edit, Typed, TypeOK
<1> QED BY <1>3, <1>4, <1>5 DEF Typed, TypeOK, Edit

LEMMA SweepTyped ==
  ASSUME Typed, NEW c \in Character, Sweep(c)
  PROVE  Typed'
<1>1. timer' \in [Character -> Request \cup {None}]
  BY Asks, scheduleSyncDoes DEF Sweep
<1> QED BY <1>1 DEF Typed, TypeOK, Sweep, Session, SessionOf

LEMMA TimerFiresTyped ==
  ASSUME Typed, NEW c \in Character, TimerFires(c)
  PROVE  Typed'
<1>1. timer[c] \in Request /\ pass \in Passes /\ recent' \in [Character -> BOOLEAN]
  BY DEF Typed, TypeOK, TimerFires, Passes
<1>2. /\ timer' = [timer EXCEPT ![c] = None]
      /\ queue' \in Seq(Character) /\ job' \in Jobs /\ pass' \in Passes
      /\ busy' \in BOOLEAN /\ status' \in [Character -> Status]
      /\ Session'
  BY <1>1, requestSyncDoes DEF TimerFires
<1> QED BY <1>2 DEF Typed, TypeOK, TimerFires, Jobs, Passes, Status

LEMMA FlushTyped ==
  ASSUME Typed, NEW c \in Character, Flush(c)
  PROVE  Typed'
<1> DEFINE passes == [pass EXCEPT ![c] = Recounted(pass[c])]
<1>1. recent' \in [Character -> BOOLEAN] /\ pass[c] \in Pass \cup {None}
  BY DEF Typed, TypeOK, Flush
<1>2. passes \in Passes /\ \A d \in Character : passes[d] # None <=> pass[d] # None
  BY <1>1, RecountedPass DEF Typed, TypeOK, Passes
<1>3. requestSync(c, Ask("foreground", All), passes)
  BY DEF Flush
<1>4. /\ timer' = [timer EXCEPT ![c] = None]
      /\ queue' \in Seq(Character) /\ job' \in Jobs /\ pass' \in Passes
      /\ busy' \in BOOLEAN /\ status' \in [Character -> Status]
      /\ Session'
  <2> HIDE DEF passes
  <2> QED BY <1>1, <1>2, <1>3, Asks, requestSyncDoes
<1>5. /\ flush' \in [Character -> [state : {"none", "waiting", "resolved", "rejected"},
                                   owed : SUBSET Collection]]
      /\ requests' \in 0..MaxRequests
  BY SyncSchedulerAssumptions DEF Flush, Typed, TypeOK
<1> QED BY <1>4, <1>5 DEF Typed, TypeOK, Flush, Jobs, Passes, Status

LEMMA LapseTyped ==
  ASSUME Typed, NEW c \in Character, Lapse(c) \/ ClaimLapses(c)
  PROVE  Typed'
<1>1. recent' \in [Character -> BOOLEAN] /\ claimed' \in [Character -> BOOLEAN]
  BY DEF Typed, TypeOK, Lapse, ClaimLapses
<1>2. UNCHANGED <<timer, job, queue, busy, pass, status, halt, dirty, requests, failures,
                  failed, unreached, flush>>
  BY DEF Lapse, ClaimLapses
<1> QED BY <1>1, <1>2 DEF Typed, TypeOK, Session, SessionOf

LEMMA BeginTyped ==
  ASSUME Typed, NEW c \in Character, Begin(c)
  PROVE  Typed'
<1> DEFINE P == [pass[c] EXCEPT !.begun = TRUE]
<1>1. pass[c] \in Pass
  BY DEF Typed, TypeOK, Begin
<1>2. P \in Pass /\ P # None
  BY <1>1, SyncSchedulerAssumptions DEF Pass
<1>3. pass' = [pass EXCEPT ![c] = P] /\ UNCHANGED <<job, queue, busy>> /\ pass[c] # None
  BY DEF Begin
<1> HIDE DEF P
<1>4. Session' /\ pass' \in [Character -> Pass \cup {None}]
  BY <1>2, <1>3, PassChanged
<1>5. claimed' \in [Character -> BOOLEAN]
  BY DEF Begin, Typed, TypeOK
<1> QED BY <1>4, <1>5 DEF Typed, TypeOK, Begin

LEMMA ReadTyped ==
  ASSUME Typed, NEW c \in Character, NEW k \in Collection, Read(c, k)
  PROVE  Typed'
<1> DEFINE P == [pass[c] EXCEPT !.read = @ \cup {k}, !.taken = @ \cup ({k} \cap dirty[c]),
                                !.carried = @ \cup {k}]
<1>1. pass[c] \in Pass
  BY DEF Typed, TypeOK, Read
<1>2. P \in Pass /\ P # None
  <2>1. /\ pass[c].read \cup {k} \in SUBSET Collection
        /\ pass[c].taken \cup ({k} \cap dirty[c]) \in SUBSET Collection
        /\ pass[c].carried \cup {k} \in SUBSET Collection
    BY <1>1 DEF Pass
  <2>2. P \in Pass
    BY <1>1, <2>1 DEF Pass
  <2> QED BY <2>2, SyncSchedulerAssumptions
<1>3. pass' = [pass EXCEPT ![c] = P] /\ UNCHANGED <<job, queue, busy>> /\ pass[c] # None
  BY DEF Read
<1> HIDE DEF P
<1>4. Session' /\ pass' \in [Character -> Pass \cup {None}]
  BY <1>2, <1>3, PassChanged
<1> QED BY <1>4 DEF Typed, TypeOK, Read

(* The five ways a pass can end.                                            *)
Ends(c) == Succeeds(c) \/ Skips(c) \/ Fails(c) \/ SignInFails(c) \/ HeartbeatFails(c)

LEMMA EndsTyped ==
  ASSUME Typed, NEW c \in Character, Ends(c)
  PROVE  Typed'
<1>1. pass[c] # None /\ pass[c] \in Pass /\ flush[c].owed \in SUBSET Collection
  BY DEF Typed, TypeOK, Ends, Succeeds, Skips, Fails, SignInFails, HeartbeatFails
<1>2. /\ recent' \in [Character -> BOOLEAN] /\ claimed' \in [Character -> BOOLEAN]
      /\ dirty' \in [Character -> SUBSET Collection]
      /\ failed' \in [Character -> SUBSET Collection]
      /\ unreached' \in [Character -> SUBSET Collection]
      /\ failures' \in 0..MaxFailures
      /\ UNCHANGED <<timer, halt, requests>>
      /\ \E outcome \in {"idle", "error"}, owed \in SUBSET Collection : EndPass(c, outcome, owed)
  <2>1. CASE Succeeds(c)
    BY <2>1, <1>1 DEF Succeeds, Typed, TypeOK, Pass, Request
  <2>2. CASE Skips(c)
    BY <2>2, <1>1 DEF Skips, Typed, TypeOK
  <2>3. CASE Fails(c)
    <3>1. PICK S \in SUBSET pass[c].taken : dirty' = [dirty EXCEPT ![c] = @ \ S]
      BY <2>3 DEF Fails
    <3>2. dirty' \in [Character -> SUBSET Collection]
      BY <3>1 DEF Typed, TypeOK
    <3>3. flush[c].owed \cap dirty'[c] \in SUBSET Collection
      BY <1>1
    <3> QED BY <2>3, <1>1, <3>2, <3>3, SyncSchedulerAssumptions DEF Fails, Typed, TypeOK, Pass, Request
  <2>4. CASE SignInFails(c)
    BY <2>4, <1>1, SyncSchedulerAssumptions DEF SignInFails, Typed, TypeOK, Pass, Request
  <2>5. CASE HeartbeatFails(c)
    BY <2>5, <1>1, SyncSchedulerAssumptions DEF HeartbeatFails, Typed, TypeOK, Pass, Request
  <2> QED BY <2>1, <2>2, <2>3, <2>4, <2>5 DEF Ends
<1>3. /\ flush' \in [Character -> [state : {"none", "waiting", "resolved", "rejected"},
                                   owed : SUBSET Collection]]
      /\ queue' \in Seq(Character) /\ job' \in Jobs /\ pass' \in Passes
      /\ busy' \in BOOLEAN /\ status' \in [Character -> Status]
      /\ Session'
  <2>1. PICK outcome \in {"idle", "error"}, owed \in SUBSET Collection : EndPass(c, outcome, owed)
    BY <1>2
  <2> QED BY <1>1, <1>2, <2>1, EndPassDoes
<1> QED BY <1>2, <1>3 DEF Typed, TypeOK, Jobs, Passes, Status

LEMMA haltSyncTyped ==
  ASSUME Typed, haltSync
  PROVE  Typed'
<1>1. TypeOK'
  BY DEF haltSync, Typed, TypeOK
<1>2. Session'
  BY DEF haltSync, Typed, Session, SessionOf, Queued
<1> QED BY <1>1, <1>2 DEF Typed

LEMMA TypedStep == Typed /\ [Next]_vars => Typed'
<1> SUFFICES ASSUME Typed, [Next]_vars PROVE Typed'
  OBVIOUS
<1>1. ASSUME NEW c \in Character, NEW k \in Collection, Edit(c, k) PROVE Typed'
  BY <1>1, EditTyped
<1>2. ASSUME NEW c \in Character, Sweep(c) PROVE Typed'
  BY <1>2, SweepTyped
<1>3. ASSUME NEW c \in Character, TimerFires(c) PROVE Typed'
  BY <1>3, TimerFiresTyped
<1>4. ASSUME NEW c \in Character, Flush(c) PROVE Typed'
  BY <1>4, FlushTyped
<1>5. ASSUME NEW c \in Character, Lapse(c) \/ ClaimLapses(c) PROVE Typed'
  BY <1>5, LapseTyped
<1>6. ASSUME NEW c \in Character, Begin(c) PROVE Typed'
  BY <1>6, BeginTyped
<1>7. ASSUME NEW c \in Character, NEW k \in Collection, Read(c, k) PROVE Typed'
  BY <1>7, ReadTyped
<1>8. ASSUME NEW c \in Character, Ends(c) PROVE Typed'
  BY <1>8, EndsTyped
<1>9. CASE haltSync
  BY <1>9, haltSyncTyped
<1>10. CASE HaltResolves
  BY <1>10 DEF HaltResolves, Typed, TypeOK, Session, SessionOf
<1>11. CASE UNCHANGED vars
  BY <1>11 DEF vars, Typed, TypeOK, Session, SessionOf
<1> QED
  BY <1>1, <1>2, <1>3, <1>4, <1>5, <1>6, <1>7, <1>8, <1>9, <1>10, <1>11 DEF Next, PassStep, Ends

(* Every variable of the queue keeps its type.                              *)
THEOREM TypeCorrect == Spec => []TypeOK
<1>1. Typed => TypeOK
  BY DEF Typed
<1> QED BY <1>1, TypedInit, TypedStep, PTL DEF Spec

(* One Firebase session, so one pass at a time, for any number of           *)
(* Characters: the passes that run are those whose job has started.         *)
THEOREM SessionCorrect == Spec => []OneSession
<1>1. Typed => OneSession
  BY DEF Typed, Session, SessionOf, OneSession
<1> QED BY <1>1, TypedInit, TypedStep, PTL DEF Spec

-----------------------------------------------------------------------------
(***************************************************************************)
(* Halting.                                                                 *)
(***************************************************************************)

(* Once halted nothing waits, so that only the pass in flight can go on.    *)
HaltInv ==
    /\ halted => queue = <<>> /\ \A c \in Character : timer[c] = None /\ ~Waits(job[c])
    /\ halt = "done" => \A c \in Character : job[c] = None

LEMMA HaltEnds ==
  ASSUME Typed, HaltInv, NEW c \in Character, Ends(c)
  PROVE  HaltInv'
<1>1. UNCHANGED <<timer, halt>> /\ pass[c] # None
  BY DEF Ends, Succeeds, Skips, Fails, SignInFails, HeartbeatFails
<1>4. PICK outcome \in {"idle", "error"}, owed \in SUBSET Collection : EndPass(c, outcome, owed)
  <2>1. flush[c].owed \in SUBSET Collection
    BY DEF Typed, TypeOK
  <2> QED BY <2>1 DEF Ends, Succeeds, Skips, Fails, SignInFails, HeartbeatFails
<1>2. CASE halted
  <2>1. queue' = <<>> /\ job' = [job EXCEPT ![c] = None]
    BY <1>4, <1>2 DEF EndPass, Pump, HaltInv
  <2>2. job \in [Character -> Job \cup {None}]
    BY DEF Typed, TypeOK
  <2> QED BY <1>1, <2>1, <2>2 DEF HaltInv, halted, Waits
<1>3. CASE ~halted
  BY <1>1, <1>3 DEF HaltInv, halted
<1> QED BY <1>2, <1>3

LEMMA HaltStep == Typed /\ HaltInv /\ [Next]_vars => HaltInv'
<1> SUFFICES ASSUME Typed, HaltInv, [Next]_vars PROVE HaltInv'
  OBVIOUS
<1> USE DEF HaltInv, halted
<1>1. ASSUME NEW c \in Character, NEW k \in Collection, Edit(c, k) PROVE HaltInv'
  BY <1>1, Asks, scheduleSyncDoes DEF Edit
<1>2. ASSUME NEW c \in Character, Sweep(c) PROVE HaltInv'
  BY <1>2, Asks, scheduleSyncDoes DEF Sweep
<1>3. ASSUME NEW c \in Character, TimerFires(c) PROVE HaltInv'
  BY <1>3 DEF TimerFires
<1>4. ASSUME NEW c \in Character, Flush(c) PROVE HaltInv'
  BY <1>4 DEF Flush
<1>5. ASSUME NEW c \in Character, Lapse(c) \/ ClaimLapses(c) PROVE HaltInv'
  BY <1>5 DEF Lapse, ClaimLapses
<1>6. ASSUME NEW c \in Character, Begin(c) PROVE HaltInv'
  BY <1>6 DEF Begin
<1>7. ASSUME NEW c \in Character, NEW k \in Collection, Read(c, k) PROVE HaltInv'
  BY <1>7 DEF Read
<1>8. ASSUME NEW c \in Character, Ends(c) PROVE HaltInv'
  BY <1>8, HaltEnds
<1>9. CASE haltSync
  BY <1>9 DEF haltSync, Queued, Waits, Typed, TypeOK
<1>10. CASE HaltResolves
  BY <1>10 DEF HaltResolves
<1>11. CASE UNCHANGED vars
  BY <1>11 DEF vars
<1> QED
  BY <1>1, <1>2, <1>3, <1>4, <1>5, <1>6, <1>7, <1>8, <1>9, <1>10, <1>11 DEF Next, PassStep, Ends

(* Nothing syncs once haltSync has resolved.                                *)
THEOREM HaltCorrect == Spec => []HaltIsFinal
<1>1. Init => HaltInv
  BY DEF Init, HaltInv, halted
<1>2. Typed /\ HaltInv => HaltIsFinal
  BY DEF Typed, Session, SessionOf, HaltInv, halted, HaltIsFinal
<1> QED BY <1>1, <1>2, TypedInit, TypedStep, HaltStep, PTL DEF Spec

-----------------------------------------------------------------------------
(***************************************************************************)
(* No edit is forgotten.  For one Character with timer T, job J, pass P,    *)
(* edits D, failed edits F and unreached ones U.                            *)
(***************************************************************************)

(* A pass reads nothing before it began, and only what is in its scope.     *)
Shapely(P) ==
    P # None => /\ ~P.begun => P.read = {} /\ P.taken = {} /\ P.carried = {}
                /\ P.read \subseteq P.ask.scope

(* The job will push an edit of k in a pass that has not started.           *)
Pending(J, k) ==
    \/ J # None /\ Serves(J.rerun, k)
    \/ Waits(J) /\ Serves(J.ask, k)

Pushing(P, k) ==
    /\ P # None /\ k \in P.ask.scope
    /\ IF P.begun THEN k \in P.taken \/ k \notin P.read ELSE P.ask.priority = "foreground"

(* An edit made after the pass had read its collection waits for the next.  *)
Late(T, J, P, D) ==
    P # None => \A k \in D \cap (P.read \ P.taken) :
                    Serves(T, k) \/ (J # None /\ Serves(J.rerun, k))

Remembered(T, J, P, D, F, U) ==
    /\ Shapely(P) /\ Late(T, J, P, D)
    /\ \A k \in D : Serves(T, k) \/ Pending(J, k) \/ Pushing(P, k) \/ k \in F \cup U

Remembers(c) == Remembered(timer[c], job[c], pass[c], dirty[c], failed[c], unreached[c])

EditInv == ~halted => \A c \in Character : Remembers(c)

LEMMA NewPassIs ==
  ASSUME NEW priority \in {"foreground", "background"}, NEW scope \in SUBSET Collection
  PROVE  LET P == NewPass(Ask(priority, scope)) IN
         /\ P \in Pass /\ P # None /\ P.ask = Ask(priority, scope) /\ ~P.begun
         /\ P.read = {} /\ P.carried = {} /\ P.taken = {}
         /\ P.ask.priority = priority /\ P.ask.scope = scope
<1>1. NewPass(Ask(priority, scope)) \in Pass
  BY DEF NewPass, Ask, Pass, Request
<1> QED BY <1>1, SyncSchedulerAssumptions DEF NewPass, Ask

(* A pass that starts takes over what its job had to push.                  *)
LEMMA PumpRemembers ==
  ASSUME NEW c, NEW T, NEW J \in Job \cup {None}, NEW P, NEW S, NEW D \in SUBSET Collection,
         NEW F, NEW U,
         Remembered(T, J, P, D, F, U), Pumped(c, J, P, S)
  PROVE  Remembered(T, job'[c], pass'[c], D, F, U)
<1>1. CASE job'[c] = J /\ pass'[c] = P
  BY <1>1
<1>2. CASE /\ Waits(J) /\ P = None
           /\ job'[c] = [J EXCEPT !.started = TRUE]
           /\ \E scope \in SUBSET Collection :
                /\ J.ask.scope \subseteq scope
                /\ pass'[c] = NewPass(Ask(J.ask.priority, scope))
  <2>1. PICK scope \in SUBSET Collection :
            J.ask.scope \subseteq scope /\ pass'[c] = NewPass(Ask(J.ask.priority, scope))
    BY <1>2
  <2>2. J \in Job /\ J # None
    BY <1>2 DEF Waits
  <2>3. job'[c] \in Job /\ job'[c] # None /\ job'[c].rerun = J.rerun
    BY <1>2, <2>2, MadeJobs DEF Job
  <2>4. /\ pass'[c] # None /\ pass'[c].ask = Ask(J.ask.priority, scope) /\ ~pass'[c].begun
        /\ pass'[c].read = {} /\ pass'[c].taken = {} /\ pass'[c].carried = {}
        /\ pass'[c].ask.priority = J.ask.priority /\ pass'[c].ask.scope = scope
    BY <2>1, <2>2, NewPassIs DEF Job, Request
  <2>5. Shapely(pass'[c]) /\ Late(T, job'[c], pass'[c], D)
    BY <2>4 DEF Shapely, Late
  <2>6. \A k \in D : Pending(J, k) => Pending(job'[c], k) \/ Pushing(pass'[c], k)
    BY <2>1, <2>2, <2>3, <2>4 DEF Pending, Pushing, Serves
  <2>7. \A k : ~Pushing(P, k)
    BY <1>2 DEF Pushing
  <2> QED BY <2>5, <2>6, <2>7 DEF Remembered
<1> QED BY <1>1, <1>2 DEF Pumped

LEMMA MergedServes ==
  ASSUME NEW a \in Request \cup {None}, NEW b \in Request, NEW k
  PROVE  Serves(a, k) \/ Serves(b, k) => Serves(Merged(a, b), k)
BY MergedRequest, SyncSchedulerAssumptions DEF Serves

LEMMA AskedServes ==
  ASSUME NEW J \in Job \cup {None}, NEW ask \in Request, NEW k
  PROVE  /\ Serves(ask, k) \/ Pending(J, k) => Pending(Asked(J, ask), k)
         /\ J # None /\ Serves(J.rerun, k) => Serves(Asked(J, ask).rerun, k)
         /\ J # None /\ J.started /\ Serves(ask, k) => Serves(Asked(J, ask).rerun, k)
<1>1. CASE J = None
  <2>1. Asked(J, ask) = NewJob(ask) /\ Waits(NewJob(ask)) /\ NewJob(ask).ask = ask
    BY <1>1, MadeJobs DEF Asked, NewJob
  <2> QED BY <1>1, <2>1 DEF Pending, Waits
<1>2. CASE J # None /\ J.started
  <2>1. J \in Job /\ J.rerun \in Request \cup {None}
    BY <1>2 DEF Job
  <2>2. Asked(J, ask) \in Job /\ Asked(J, ask) # None /\ Asked(J, ask).rerun = Merged(J.rerun, ask)
    BY <1>2, AskedJob, MadeJobs
  <2>3. Serves(ask, k) \/ Serves(J.rerun, k) => Serves(Merged(J.rerun, ask), k)
    BY <2>1, MergedServes
  <2>4. ~Waits(J)
    BY <1>2 DEF Waits
  <2> QED BY <1>2, <2>2, <2>3, <2>4 DEF Pending
<1>3. CASE J # None /\ ~J.started
  <2>1. J \in Job /\ J.ask \in Request
    BY <1>3 DEF Job
  <2>2. /\ Asked(J, ask) \in Job /\ Asked(J, ask) # None /\ Asked(J, ask).rerun = J.rerun
        /\ Asked(J, ask).ask = Merged(J.ask, ask) /\ ~Asked(J, ask).started
    BY <1>3, AskedJob, MadeJobs
  <2>3. Serves(ask, k) \/ Serves(J.ask, k) => Serves(Merged(J.ask, ask), k)
    BY <2>1, MergedServes
  <2> QED BY <1>3, <2>2, <2>3 DEF Pending, Waits
<1> QED BY <1>1, <1>2, <1>3

(* The other Characters of a step: nothing of theirs but a pass may start.  *)
Aside(d) ==
    /\ timer'[d] = timer[d] /\ recent'[d] = recent[d] /\ claimed'[d] = claimed[d]
    /\ dirty'[d] = dirty[d] /\ failed'[d] = failed[d] /\ unreached'[d] = unreached[d]
    /\ flush'[d] = flush[d]
    /\ Pumped(d, job[d], pass[d], status[d])

LEMMA AsideRemembers ==
  ASSUME Typed, NEW d \in Character, Remembers(d), Aside(d)
  PROVE  Remembers(d)'
<1>1. job[d] \in Job \cup {None} /\ dirty[d] \in SUBSET Collection
  BY DEF Typed, TypeOK
<1>2. Remembered(timer[d], job'[d], pass'[d], dirty[d], failed[d], unreached[d])
  BY <1>1, PumpRemembers DEF Remembers, Aside
<1> QED BY <1>2 DEF Remembers, Aside

(* What a step of c leaves of the others.                                   *)
LEMMA Others ==
  ASSUME Typed, NEW c \in Character, NEW d \in Character \ {c},
         \/ \E k \in Collection : Edit(c, k) \/ Read(c, k)
         \/ Sweep(c) \/ TimerFires(c) \/ Flush(c) \/ Lapse(c) \/ ClaimLapses(c) \/ Begin(c)
         \/ Ends(c)
  PROVE  Aside(d)
<1>1. TypeOK
  BY DEF Typed
<1>2. CASE \E k \in Collection : Edit(c, k)
  <2>1. timer'[d] = timer[d]
    BY <1>2, Asks, scheduleSyncDoes DEF Edit
  <2> QED BY <1>1, <1>2, <2>1 DEF TypeOK, Edit, Aside, Pumped
<1>3. CASE \E k \in Collection : Read(c, k)
  BY <1>1, <1>3 DEF TypeOK, Read, Aside, Pumped
<1>4. CASE Sweep(c)
  <2>1. timer'[d] = timer[d]
    BY <1>4, Asks, scheduleSyncDoes DEF Sweep
  <2> QED BY <1>1, <1>4, <2>1 DEF TypeOK, Sweep, Aside, Pumped
<1>5. CASE TimerFires(c)
  <2>1. timer[c] \in Request /\ pass \in Passes /\ recent' \in [Character -> BOOLEAN]
    BY <1>1, <1>5 DEF TypeOK, TimerFires, Passes
  <2>2. timer' = [timer EXCEPT ![c] = None] /\ Pumped(d, job[d], pass[d], status[d])
    BY <1>5, <2>1, requestSyncDoes DEF TimerFires
  <2> QED BY <1>1, <1>5, <2>2 DEF TypeOK, TimerFires, Aside
<1>6. CASE Flush(c)
  <2> DEFINE passes == [pass EXCEPT ![c] = Recounted(pass[c])]
  <2>1. recent' \in [Character -> BOOLEAN] /\ pass[c] \in Pass \cup {None}
    BY <1>1, <1>6 DEF TypeOK, Flush
  <2>2. /\ passes \in Passes /\ passes[d] = pass[d]
        /\ \A e \in Character : passes[e] # None <=> pass[e] # None
    BY <1>1, <2>1, RecountedPass DEF TypeOK, Passes
  <2>3. requestSync(c, Ask("foreground", All), passes)
    BY <1>6 DEF Flush
  <2>4. timer' = [timer EXCEPT ![c] = None] /\ Pumped(d, job[d], pass[d], status[d])
    <3>1. timer' = [timer EXCEPT ![c] = None] /\ Pumped(d, job[d], passes[d], status[d])
      <4> HIDE DEF passes
      <4> QED BY <2>1, <2>2, <2>3, Asks, requestSyncDoes
    <3> QED BY <2>2, <3>1
  <2> QED BY <1>1, <1>6, <2>4 DEF TypeOK, Flush, Aside
<1>7. CASE Lapse(c) \/ ClaimLapses(c)
  BY <1>1, <1>7 DEF TypeOK, Lapse, ClaimLapses, Aside, Pumped
<1>8. CASE Begin(c)
  BY <1>1, <1>8 DEF TypeOK, Begin, Aside, Pumped
<1>9. CASE Ends(c)
  <2>1. /\ pass[c] # None /\ flush[c].owed \in SUBSET Collection
        /\ recent' \in [Character -> BOOLEAN] /\ UNCHANGED timer
        /\ recent'[d] = recent[d] /\ claimed'[d] = claimed[d] /\ dirty'[d] = dirty[d]
        /\ failed'[d] = failed[d] /\ unreached'[d] = unreached[d]
    BY <1>1, <1>9 DEF TypeOK, Ends, Succeeds, Skips, Fails, SignInFails, HeartbeatFails
  <2>2. \E outcome \in {"idle", "error"}, owed \in SUBSET Collection : EndPass(c, outcome, owed)
    BY <1>9, <2>1 DEF Ends, Succeeds, Skips, Fails, SignInFails, HeartbeatFails
  <2>3. flush'[d] = flush[d] /\ Pumped(d, job[d], pass[d], status[d])
    BY <2>1, <2>2, EndPassDoes
  <2> QED BY <2>1, <2>3 DEF Aside
<1> QED BY <1>2, <1>3, <1>4, <1>5, <1>6, <1>7, <1>8, <1>9

LEMMA EditRemembers ==
  ASSUME Typed, NEW c \in Character, NEW k \in Collection, Remembers(c), ~halted, Edit(c, k)
  PROVE  Remembers(c)'
<1> DEFINE ask == Ask("foreground", scopeOf(k))
           P == pass[c]
<1>1. /\ timer[c] \in Request \cup {None} /\ P \in Pass \cup {None} /\ dirty[c] \in SUBSET Collection
      /\ ask \in Request /\ Serves(ask, k)
  BY Asks, SyncSchedulerAssumptions DEF Typed, TypeOK, Serves, Ask
<1>2. timer'[c] = Merged(timer[c], ask)
  BY <1>1, scheduleSyncDoes DEF Edit
<1>3. /\ pass'[c] = Edited(P, k) /\ dirty'[c] = dirty[c] \cup {k}
      /\ job'[c] = job[c] /\ failed'[c] = failed[c] /\ unreached'[c] = unreached[c]
  BY DEF Edit, Typed, TypeOK
<1>4. Serves(timer'[c], k) /\ \A x : Serves(timer[c], x) => Serves(timer'[c], x)
  BY <1>1, <1>2, MergedServes
<1>5. CASE P = None
  <2>1. pass'[c] = None
    BY <1>3, <1>5 DEF Edited
  <2> QED BY <1>3, <1>4, <1>5, <2>1 DEF Remembers, Remembered, Shapely, Late, Pushing
<1>6. CASE P # None
  <2>1. P \in Pass /\ pass'[c] # None /\ pass'[c] = [P EXCEPT !.taken = @ \ {k}]
    BY <1>1, <1>3, <1>6, EditedPass
  <2>2. /\ pass'[c].ask = P.ask /\ pass'[c].begun = P.begun /\ pass'[c].read = P.read
        /\ pass'[c].carried = P.carried /\ pass'[c].taken = P.taken \ {k}
    BY <2>1 DEF Pass
  <2>3. Shapely(pass'[c])
    BY <1>6, <2>2 DEF Remembers, Remembered, Shapely
  <2>4. Late(timer'[c], job'[c], pass'[c], dirty'[c])
    BY <1>3, <1>4, <1>6, <2>2 DEF Remembers, Remembered, Late
  <2>5. \A x : x # k /\ Pushing(P, x) => Pushing(pass'[c], x)
    BY <2>1, <2>2 DEF Pushing
  <2> QED BY <1>3, <1>4, <2>3, <2>4, <2>5 DEF Remembers, Remembered
<1> QED BY <1>5, <1>6

LEMMA SweepRemembers ==
  ASSUME Typed, NEW c \in Character, Remembers(c), ~halted, Sweep(c)
  PROVE  Remembers(c)'
<1>1. timer[c] \in Request \cup {None} /\ Ask("background", All) \in Request
  BY Asks DEF Typed, TypeOK
<1>2. timer'[c] = Merged(timer[c], Ask("background", All))
  BY <1>1, scheduleSyncDoes DEF Sweep
<1>3. \A x : Serves(timer[c], x) => Serves(timer'[c], x)
  BY <1>1, <1>2, MergedServes
<1> QED BY <1>3 DEF Sweep, Remembers, Remembered, Late

(* A request the job is asked for takes the timer's with it.                *)
LEMMA AskedRemembers ==
  ASSUME NEW T \in Request \cup {None}, NEW J \in Job \cup {None}, NEW P, NEW D, NEW F, NEW U,
         NEW ask \in Request, \A k : Serves(T, k) => Serves(ask, k),
         P # None => J # None /\ J.started,
         Remembered(T, J, P, D, F, U)
  PROVE  Remembered(None, Asked(J, ask), P, D, F, U)
<1>1. \A k : Serves(T, k) \/ Pending(J, k) => Pending(Asked(J, ask), k)
  BY AskedServes
<1>2. Late(None, Asked(J, ask), P, D)
  <2> SUFFICES ASSUME P # None, NEW k \in D \cap (P.read \ P.taken)
               PROVE  Asked(J, ask) # None /\ Serves(Asked(J, ask).rerun, k)
    BY DEF Late
  <2>1. Serves(T, k) \/ Serves(J.rerun, k)
    BY DEF Remembered, Late
  <2> QED BY <2>1, AskedServes, AskedJob, MadeJobs
<1> QED BY <1>1, <1>2 DEF Remembered

LEMMA TimerFiresRemembers ==
  ASSUME Typed, NEW c \in Character, Remembers(c), TimerFires(c)
  PROVE  Remembers(c)'
<1> DEFINE ask == Merged(timer[c], timer[c])
<1>1. /\ timer[c] \in Request /\ pass \in Passes /\ recent' \in [Character -> BOOLEAN]
      /\ job[c] \in Job \cup {None} /\ dirty[c] \in SUBSET Collection
      /\ timer \in [Character -> Request \cup {None}]
  BY DEF Typed, TypeOK, TimerFires, Passes
<1>2. /\ timer' = [timer EXCEPT ![c] = None] /\ ask \in Request
      /\ Pumped(c, Asked(job[c], ask), pass[c], status[c])
  BY <1>1, requestSyncDoes DEF TimerFires
<1>3. \A k : Serves(timer[c], k) => Serves(ask, k)
  BY <1>1, MergedServes
<1>4. pass[c] # None => job[c] # None /\ job[c].started
  BY DEF Typed, Session, SessionOf
<1>5. Remembered(None, Asked(job[c], ask), pass[c], dirty[c], failed[c], unreached[c])
  BY <1>1, <1>2, <1>3, <1>4, AskedRemembers DEF Remembers
<1>6. Asked(job[c], ask) \in Job \cup {None}
  BY <1>1, <1>2, AskedJob
<1>7. Remembered(None, job'[c], pass'[c], dirty[c], failed[c], unreached[c])
  BY <1>1, <1>2, <1>5, <1>6, PumpRemembers
<1>8. timer'[c] = None /\ UNCHANGED <<dirty, failed, unreached>>
  BY <1>1, <1>2 DEF TimerFires
<1> QED BY <1>7, <1>8 DEF Remembers

LEMMA FlushRemembers ==
  ASSUME Typed, NEW c \in Character, Remembers(c), Flush(c)
  PROVE  Remembers(c)'
<1> DEFINE passes == [pass EXCEPT ![c] = Recounted(pass[c])]
           ask == Merged(timer[c], Ask("foreground", All))
           P == Recounted(pass[c])
<1>1. /\ recent' \in [Character -> BOOLEAN] /\ pass[c] \in Pass \cup {None}
      /\ job[c] \in Job \cup {None} /\ dirty[c] \in SUBSET Collection
      /\ timer \in [Character -> Request \cup {None}] /\ Ask("foreground", All) \in Request
  BY Asks DEF Typed, TypeOK, Flush
<1>2. /\ passes \in Passes /\ passes[c] = P
      /\ \A e \in Character : passes[e] # None <=> pass[e] # None
  BY <1>1, RecountedPass DEF Typed, TypeOK, Passes
<1>3. requestSync(c, Ask("foreground", All), passes)
  BY DEF Flush
<1>4. /\ timer' = [timer EXCEPT ![c] = None] /\ ask \in Request
      /\ Pumped(c, Asked(job[c], ask), P, status[c])
  <2>1. /\ timer' = [timer EXCEPT ![c] = None] /\ ask \in Request
        /\ Pumped(c, Asked(job[c], ask), passes[c], status[c])
    <3> HIDE DEF passes
    <3> QED BY <1>1, <1>2, <1>3, requestSyncDoes
  <2> QED BY <2>1, <1>2
<1>5. \A k : Serves(timer[c], k) => Serves(ask, k)
  BY <1>1, MergedServes
<1>6. P # None => job[c] # None /\ job[c].started
  BY <1>1, RecountedPass DEF Typed, Session, SessionOf
<1>7. Remembered(timer[c], job[c], P, dirty[c], failed[c], unreached[c])
  <2>1. CASE pass[c] = None
    BY <2>1 DEF Recounted, Remembers
  <2>2. CASE pass[c] # None
    <3>1. /\ P # None /\ pass[c] \in Pass
          /\ P = [pass[c] EXCEPT !.carried = pass[c].taken]
      BY <1>1, <2>2, RecountedPass
    <3>2. /\ P.ask = pass[c].ask /\ P.begun = pass[c].begun /\ P.read = pass[c].read
          /\ P.taken = pass[c].taken /\ P.carried = pass[c].taken
      BY <3>1 DEF Pass
    <3> QED BY <2>2, <3>1, <3>2 DEF Remembers, Remembered, Shapely, Late, Pushing
  <2> QED BY <2>1, <2>2
<1> HIDE DEF P, ask
<1>8. Remembered(None, Asked(job[c], ask), P, dirty[c], failed[c], unreached[c])
  BY <1>1, <1>4, <1>5, <1>6, <1>7, AskedRemembers
<1>9. Asked(job[c], ask) \in Job \cup {None}
  BY <1>1, <1>4, AskedJob
<1>10. Remembered(None, job'[c], pass'[c], dirty[c], failed[c], unreached[c])
  BY <1>1, <1>4, <1>8, <1>9, PumpRemembers
<1>11. timer'[c] = None /\ UNCHANGED <<dirty, failed, unreached>>
  BY <1>1, <1>4 DEF Flush
<1> QED BY <1>10, <1>11 DEF Remembers

LEMMA BeginRemembers ==
  ASSUME Typed, NEW c \in Character, Remembers(c), Begin(c)
  PROVE  Remembers(c)'
<1>1. /\ pass[c] \in Pass /\ pass[c] # None /\ ~pass[c].begun
      /\ pass'[c] = [pass[c] EXCEPT !.begun = TRUE]
      /\ UNCHANGED <<timer, job, dirty, failed, unreached>>
  BY DEF Typed, TypeOK, Begin
<1>2. /\ pass'[c].ask = pass[c].ask /\ pass'[c].begun /\ pass'[c].read = pass[c].read
      /\ pass'[c].taken = pass[c].taken /\ pass'[c] # None
  BY <1>1, SyncSchedulerAssumptions DEF Pass
<1>3. Shapely(pass'[c]) /\ Late(timer[c], job[c], pass'[c], dirty[c]) /\ pass'[c].read = {}
  BY <1>1, <1>2 DEF Remembers, Remembered, Shapely, Late
<1>4. \A k : Pushing(pass[c], k) => Pushing(pass'[c], k)
  BY <1>1, <1>2, <1>3 DEF Pushing
<1> QED BY <1>1, <1>3, <1>4 DEF Remembers, Remembered

LEMMA ReadRemembers ==
  ASSUME Typed, NEW c \in Character, NEW k \in Collection, Remembers(c), Read(c, k)
  PROVE  Remembers(c)'
<1>1. /\ pass[c] \in Pass /\ pass[c] # None /\ pass[c].begun /\ k \in pass[c].ask.scope
      /\ pass'[c] = [pass[c] EXCEPT !.read = @ \cup {k}, !.taken = @ \cup ({k} \cap dirty[c]),
                                    !.carried = @ \cup {k}]
      /\ UNCHANGED <<timer, job, dirty, failed, unreached>>
  BY DEF Typed, TypeOK, Read
<1>2. /\ pass'[c].ask = pass[c].ask /\ pass'[c].begun /\ pass'[c].read = pass[c].read \cup {k}
      /\ pass'[c].taken = pass[c].taken \cup ({k} \cap dirty[c])
  BY <1>1 DEF Pass
<1>3. pass'[c] # None
  BY <1>1, ReadTyped DEF Typed, Session, SessionOf
<1>4. Shapely(pass'[c]) /\ Late(timer[c], job[c], pass'[c], dirty[c])
  BY <1>1, <1>2, <1>3 DEF Remembers, Remembered, Shapely, Late
<1>5. \A x \in dirty[c] : Pushing(pass[c], x) => Pushing(pass'[c], x)
  BY <1>1, <1>2, <1>3 DEF Pushing
<1> QED BY <1>1, <1>4, <1>5 DEF Remembers, Remembered

LEMMA EndsRemembers ==
  ASSUME Typed, NEW c \in Character, Remembers(c), ~halted, Ends(c)
  PROVE  Remembers(c)'
<1> DEFINE P == pass[c]
           Waiting(k) == Serves(timer[c], k) \/ Serves(job[c].rerun, k)
<1>1. /\ P # None /\ P \in Pass /\ job[c] # None /\ job[c] \in Job /\ job[c].started
      /\ dirty[c] \in SUBSET Collection /\ flush[c].owed \in SUBSET Collection
      /\ recent' \in [Character -> BOOLEAN] /\ UNCHANGED timer
  <2>1. P # None /\ UNCHANGED timer
    BY DEF Ends, Succeeds, Skips, Fails, SignInFails, HeartbeatFails
  <2>2. recent' \in [Character -> BOOLEAN]
    BY EndsTyped DEF Typed, TypeOK
  <2> QED BY <2>1, <2>2 DEF Typed, TypeOK, Session, SessionOf
<1>2. \A k \in dirty[c] \cap (P.read \ P.taken) : Waiting(k)
  BY <1>1 DEF Remembers, Remembered, Late
<1>3. /\ dirty'[c] \subseteq dirty[c]
      /\ \A k \in dirty'[c] : Pushing(P, k) \/ k \in failed[c] \cup unreached[c]
                                => k \in failed'[c] \cup unreached'[c] \/ Waiting(k)
  <2>1. CASE Succeeds(c) \/ HeartbeatFails(c)
    <3>1. /\ P.begun /\ P.read = P.ask.scope /\ dirty'[c] = dirty[c] \ P.taken
          /\ failed'[c] = failed[c] \ P.read /\ unreached'[c] = unreached[c] \ P.read
      BY <2>1 DEF Succeeds, HeartbeatFails, Finished, Typed, TypeOK
    <3> HIDE DEF Waiting
    <3> QED BY <1>2, <3>1 DEF Pushing
  <2>2. CASE Skips(c)
    <3>1. /\ ~P.begun /\ P.ask.priority = "background"
          /\ UNCHANGED <<dirty, failed, unreached>>
      BY <2>2 DEF Skips
    <3> QED BY <3>1 DEF Pushing
  <2>3. CASE Fails(c)
    <3>1. /\ P.begun /\ dirty'[c] \subseteq dirty[c]
          /\ failed'[c] = (failed[c] \cup P.ask.scope) \cap dirty'[c]
          /\ unreached'[c] = unreached[c] \cap dirty'[c]
      <4>1. PICK S \in SUBSET P.taken : dirty' = [dirty EXCEPT ![c] = @ \ S]
        BY <2>3 DEF Fails
      <4> QED BY <2>3, <4>1 DEF Fails, Typed, TypeOK
    <3> HIDE DEF Waiting
    <3> QED BY <3>1 DEF Pushing
  <2>4. CASE SignInFails(c)
    <3>1. /\ UNCHANGED <<dirty, failed>>
          /\ unreached'[c] = unreached[c] \cup (P.ask.scope \cap dirty[c])
      BY <2>4 DEF SignInFails, Typed, TypeOK
    <3> HIDE DEF Waiting
    <3> QED BY <3>1 DEF Pushing
  <2> QED BY <2>1, <2>2, <2>3, <2>4 DEF Ends
<1>4. PICK outcome \in {"idle", "error"}, owed \in SUBSET Collection : EndPass(c, outcome, owed)
  BY <1>1 DEF Ends, Succeeds, Skips, Fails, SignInFails, HeartbeatFails
<1>5. Pumped(c, NextJob(c), None, outcome)
  BY <1>1, <1>4, EndPassDoes
<1>6. \A k : Serves(job[c].rerun, k) => Pending(NextJob(c), k)
  <2> SUFFICES ASSUME NEW k, Serves(job[c].rerun, k) PROVE Pending(NextJob(c), k)
    OBVIOUS
  <2>1. Again(c) /\ job[c].rerun \in Request
    BY <1>1 DEF Again, Serves, Job
  <2>2. /\ NextJob(c) = NewJob(job[c].rerun) /\ Waits(NextJob(c))
        /\ NextJob(c).ask = job[c].rerun
    BY <2>1, MadeJobs DEF NextJob, NewJob
  <2> QED BY <2>2 DEF Pending
<1>7. \A k : Pending(job[c], k) => Serves(job[c].rerun, k)
  BY <1>1 DEF Pending, Waits
<1>8. Remembered(timer[c], NextJob(c), None, dirty'[c], failed'[c], unreached'[c])
  <2>1. Shapely(None) /\ Late(timer[c], NextJob(c), None, dirty'[c])
    BY DEF Shapely, Late
  <2>2. \A k \in dirty'[c] :
            Serves(timer[c], k) \/ Pending(NextJob(c), k) \/ k \in failed'[c] \cup unreached'[c]
    <3> SUFFICES ASSUME NEW k \in dirty'[c]
                 PROVE  \/ Serves(timer[c], k) \/ Pending(NextJob(c), k)
                        \/ k \in failed'[c] \cup unreached'[c]
      OBVIOUS
    <3>1. \/ Serves(timer[c], k) \/ Pending(job[c], k) \/ Pushing(P, k)
          \/ k \in failed[c] \cup unreached[c]
      BY <1>3 DEF Remembers, Remembered
    <3> QED BY <1>3, <1>6, <1>7, <3>1
  <2> QED BY <2>1, <2>2 DEF Remembered
<1>9. NextJob(c) \in Job \cup {None} /\ dirty'[c] \in SUBSET Collection
  BY <1>1, <1>3, MadeJobs DEF NextJob, Again, Job
<1>10. Remembered(timer[c], job'[c], pass'[c], dirty'[c], failed'[c], unreached'[c])
  BY <1>5, <1>8, <1>9, PumpRemembers
<1> QED BY <1>1, <1>10 DEF Remembers

LEMMA EditStep == Typed /\ EditInv /\ [Next]_vars => EditInv'
<1> SUFFICES ASSUME Typed, EditInv, [Next]_vars PROVE EditInv'
  OBVIOUS
<1>1. CASE UNCHANGED vars
  BY <1>1 DEF vars, EditInv, Remembers, halted
<1>2. CASE haltSync \/ HaltResolves
  BY <1>2 DEF haltSync, HaltResolves, EditInv, halted
<1>3. ASSUME NEW c \in Character,
             \/ \E k \in Collection : Edit(c, k) \/ Read(c, k)
             \/ Sweep(c) \/ TimerFires(c) \/ Flush(c) \/ Lapse(c) \/ ClaimLapses(c) \/ Begin(c)
             \/ Ends(c)
      PROVE  EditInv'
  <2> SUFFICES ASSUME ~halted' PROVE \A d \in Character : Remembers(d)'
    BY DEF EditInv
  <2>1. halt' = halt
    BY <1>3 DEF Edit, Read, Sweep, TimerFires, Flush, Lapse, ClaimLapses, Begin, Ends,
                Succeeds, Skips, Fails, SignInFails, HeartbeatFails
  <2>2. ~halted /\ \A d \in Character : Remembers(d)
    BY <2>1 DEF EditInv, halted
  <2>3. \A d \in Character \ {c} : Remembers(d)'
    BY <1>3, <2>2, Others, AsideRemembers
  <2>4. Remembers(c)'
    <3>1. CASE Lapse(c) \/ ClaimLapses(c)
      BY <2>2, <3>1 DEF Lapse, ClaimLapses, Remembers
    <3> QED BY <1>3, <2>2, <3>1, EditRemembers, ReadRemembers, SweepRemembers, TimerFiresRemembers,
               FlushRemembers, BeginRemembers, EndsRemembers
  <2> QED BY <2>3, <2>4
<1> QED BY <1>1, <1>2, <1>3 DEF Next, PassStep, Ends

(* No edit is forgotten: for any number of Characters, collections, edits   *)
(* and failures, a timer, a job, its rerun or its pass will push it, or a   *)
(* failure is on record for it.                                             *)
THEOREM EditsCorrect == Spec => []NoEditForgotten
<1>1. Init => EditInv
  <2> SUFFICES ASSUME Init, NEW c \in Character PROVE Remembers(c)
    BY DEF EditInv
  <2>1. pass[c] = None /\ dirty[c] = {}
    BY DEF Init
  <2> QED BY <2>1 DEF Remembers, Remembered, Shapely, Late
<1>2. Typed /\ EditInv => NoEditForgotten
  BY DEF EditInv, Remembers, Remembered, Pending, Pushing, Waits, NoEditForgotten, Queued,
         InFlight
<1> QED BY <1>1, <1>2, TypedInit, TypedStep, EditStep, PTL DEF Spec

-----------------------------------------------------------------------------
(***************************************************************************)
(* Failures are retried.  For one Character with pass P, status S, a recent *)
(* full pull R, a claim C and failed edits F.                               *)
(***************************************************************************)

(* Nothing vouches for a Character whose pass failed: the next one is full, *)
(* it may not skip, and until it is done the status is not idle.            *)
Unvouched(P, S, R, C, F) ==
    F # {} => /\ ~R /\ ~C /\ S # "idle"
              /\ P # None => P.ask.scope = All

Retries(c) == Unvouched(pass[c], status[c], recent[c], claimed[c], failed[c])

RetryInv == \A c \in Character : Retries(c)

LEMMA PumpRetries ==
  ASSUME NEW c, NEW J \in Job \cup {None}, NEW P, NEW S, NEW C, NEW F,
         Unvouched(P, S, recent'[c], C, F), Pumped(c, J, P, S)
  PROVE  Unvouched(pass'[c], status'[c], recent'[c], C, F)
<1>1. CASE pass'[c] = P /\ status'[c] = S
  BY <1>1
<1>2. CASE /\ Waits(J) /\ status'[c] = "syncing"
           /\ \E scope \in SUBSET Collection :
                /\ scope = All \/ recent'[c]
                /\ pass'[c] = NewPass(Ask(J.ask.priority, scope))
  <2>1. PICK scope \in SUBSET Collection :
            /\ scope = All \/ recent'[c]
            /\ pass'[c] = NewPass(Ask(J.ask.priority, scope))
    BY <1>2
  <2>2. J.ask.priority \in {"foreground", "background"}
    BY <1>2 DEF Waits, Job, Request
  <2>3. pass'[c].ask.scope = scope
    BY <2>1, <2>2, NewPassIs
  <2> QED BY <1>2, <2>1, <2>3 DEF Unvouched
<1> QED BY <1>1, <1>2 DEF Pumped

LEMMA AsideRetries ==
  ASSUME Typed, NEW d \in Character, Retries(d), Aside(d)
  PROVE  Retries(d)'
<1>1. job[d] \in Job \cup {None}
  BY DEF Typed, TypeOK
<1>2. Unvouched(pass[d], status[d], recent'[d], claimed[d], failed[d])
  BY DEF Retries, Aside
<1>3. Unvouched(pass'[d], status'[d], recent'[d], claimed[d], failed[d])
  BY <1>1, <1>2, PumpRetries DEF Aside
<1> QED BY <1>3 DEF Retries, Aside

(* A pass that goes on keeps its scope.                                     *)
LEMMA GoingOnRetries ==
  ASSUME Typed, NEW c \in Character, Retries(c),
         \/ \E k \in Collection : Edit(c, k) \/ Read(c, k)
         \/ Sweep(c) \/ Lapse(c) \/ ClaimLapses(c) \/ Begin(c)
  PROVE  Retries(c)'
<1>1. /\ failed'[c] = failed[c] /\ status'[c] = status[c]
      /\ recent'[c] => recent[c]
      /\ claimed'[c] => claimed[c]
  BY DEF Typed, TypeOK, Edit, Read, Sweep, Lapse, ClaimLapses, Begin
<1>2. pass[c] \in Pass \cup {None}
  BY DEF Typed, TypeOK
<1>3. pass'[c] # None => pass[c] # None /\ pass'[c].ask = pass[c].ask
  <2>1. CASE \E k \in Collection : Edit(c, k)
    <3>1. PICK k \in Collection : pass'[c] = Edited(pass[c], k)
      BY <2>1 DEF Edit, Typed, TypeOK
    <3>2. pass[c] # None => pass'[c] = [pass[c] EXCEPT !.taken = @ \ {k}]
      BY <1>2, <3>1, EditedPass
    <3> QED BY <1>2, <3>1, <3>2, EditedPass DEF Pass
  <2>2. CASE \E k \in Collection : Read(c, k)
    <3>1. PICK k \in Collection :
              /\ pass[c] # None
              /\ pass'[c] = [pass[c] EXCEPT !.read = @ \cup {k},
                                            !.taken = @ \cup ({k} \cap dirty[c]),
                                            !.carried = @ \cup {k}]
      BY <2>2 DEF Read, Typed, TypeOK
    <3> QED BY <1>2, <3>1 DEF Pass
  <2>3. CASE Begin(c)
    BY <1>2, <2>3 DEF Begin, Pass, Typed, TypeOK
  <2>4. CASE Sweep(c) \/ Lapse(c) \/ ClaimLapses(c)
    BY <2>4 DEF Sweep, Lapse, ClaimLapses
  <2> QED BY <2>1, <2>2, <2>3, <2>4
<1> QED BY <1>1, <1>3 DEF Retries, Unvouched

LEMMA AskingRetries ==
  ASSUME Typed, NEW c \in Character, Retries(c), TimerFires(c) \/ Flush(c)
  PROVE  Retries(c)'
<1> DEFINE request == IF TimerFires(c) THEN timer[c] ELSE Ask("foreground", All)
           passes == IF TimerFires(c) THEN pass ELSE [pass EXCEPT ![c] = Recounted(pass[c])]
           ask == Merged(timer[c], request)
<1>1. /\ UNCHANGED <<recent, claimed, failed>> /\ recent' \in [Character -> BOOLEAN]
      /\ pass[c] \in Pass \cup {None} /\ job[c] \in Job \cup {None}
  BY DEF Typed, TypeOK, TimerFires, Flush
<1>2. /\ passes \in Passes /\ request \in Request
      /\ \A e \in Character : passes[e] # None <=> pass[e] # None
      /\ passes[c] # None => pass[c] # None /\ passes[c].ask = pass[c].ask
      /\ requestSync(c, request, passes)
  <2>1. CASE TimerFires(c)
    BY <2>1 DEF TimerFires, Typed, TypeOK, Passes
  <2>2. CASE ~TimerFires(c)
    <3>1. /\ Recounted(pass[c]) \in Pass \cup {None}
          /\ Recounted(pass[c]) # None <=> pass[c] # None
          /\ pass[c] # None => Recounted(pass[c]) = [pass[c] EXCEPT !.carried = pass[c].taken]
      BY <1>1, RecountedPass
    <3>2. pass[c] # None => Recounted(pass[c]).ask = pass[c].ask
      BY <1>1, <3>1 DEF Pass
    <3> QED BY <2>2, <3>1, <3>2, Asks DEF Flush, Typed, TypeOK, Passes
  <2> QED BY <2>1, <2>2
<1>3. ask \in Request /\ Pumped(c, Asked(job[c], ask), passes[c], status[c])
  <2> HIDE DEF passes, request
  <2> QED BY <1>1, <1>2, requestSyncDoes
<1> HIDE DEF passes, request, ask
<1>4. Asked(job[c], ask) \in Job \cup {None}
  BY <1>1, <1>3, AskedJob
<1>5. Unvouched(passes[c], status[c], recent'[c], claimed[c], failed[c])
  BY <1>1, <1>2 DEF Retries, Unvouched
<1>6. Unvouched(pass'[c], status'[c], recent'[c], claimed[c], failed[c])
  BY <1>3, <1>4, <1>5, PumpRetries
<1> QED BY <1>1, <1>6 DEF Retries

LEMMA EndsRetries ==
  ASSUME Typed, NEW c \in Character, Retries(c), Ends(c)
  PROVE  Retries(c)'
<1>1. /\ pass[c] # None /\ pass[c] \in Pass /\ job[c] \in Job
      /\ failed[c] \in SUBSET Collection /\ flush[c].owed \in SUBSET Collection
      /\ recent' \in [Character -> BOOLEAN]
  <2>1. pass[c] # None
    BY DEF Ends, Succeeds, Skips, Fails, SignInFails, HeartbeatFails
  <2>2. recent' \in [Character -> BOOLEAN]
    BY EndsTyped DEF Typed, TypeOK
  <2> QED BY <2>1, <2>2 DEF Typed, TypeOK, Session, SessionOf
<1>2. NextJob(c) \in Job \cup {None}
  BY <1>1, MadeJobs DEF NextJob, Again, Job
<1>3. ASSUME NEW outcome \in {"idle", "error"}, NEW owed \in SUBSET Collection,
             EndPass(c, outcome, owed),
             failed'[c] # {} => outcome = "error" /\ ~recent'[c] /\ ~claimed'[c]
      PROVE  Retries(c)'
  <2>1. Pumped(c, NextJob(c), None, outcome)
    BY <1>1, <1>3, EndPassDoes
  <2>2. Unvouched(None, outcome, recent'[c], claimed'[c], failed'[c])
    BY <1>3 DEF Unvouched
  <2>3. Unvouched(pass'[c], status'[c], recent'[c], claimed'[c], failed'[c])
    BY <1>2, <2>1, <2>2, PumpRetries
  <2> QED BY <2>3 DEF Retries
<1>4. CASE Succeeds(c)
  <2>1. failed'[c] = failed[c] \ pass[c].read /\ pass[c].read = pass[c].ask.scope
    BY <1>4 DEF Succeeds, Finished, Typed, TypeOK
  <2>2. failed'[c] = {}
    BY <1>1, <2>1 DEF Retries, Unvouched, All
  <2> QED BY <1>1, <1>3, <1>4, <2>2 DEF Succeeds
<1>5. CASE Skips(c)
  <2>1. failed'[c] = {}
    BY <1>5 DEF Skips, Retries, Unvouched
  <2> QED BY <1>1, <1>3, <1>5, <2>1 DEF Skips
<1>6. CASE Fails(c)
  <2>1. ~recent'[c] /\ ~claimed'[c]
    BY <1>6 DEF Fails, Typed, TypeOK
  <2>2. flush[c].owed \cap dirty'[c] \in SUBSET Collection
    BY <1>1
  <2> QED BY <1>3, <1>6, <2>1, <2>2 DEF Fails
<1>7. CASE SignInFails(c)
  <2>1. ~recent'[c] /\ claimed' = claimed /\ failed' = failed
    BY <1>7 DEF SignInFails, Typed, TypeOK
  <2> QED BY <1>1, <1>3, <1>7, <2>1 DEF SignInFails, Retries, Unvouched
<1>8. CASE HeartbeatFails(c)
  <2>1. failed'[c] = failed[c] \ pass[c].read /\ pass[c].read = All
    BY <1>8 DEF HeartbeatFails, Finished, Full, Typed, TypeOK
  <2>2. failed'[c] = {}
    BY <1>1, <2>1 DEF All
  <2> QED BY <1>1, <1>3, <1>8, <2>2 DEF HeartbeatFails
<1> QED BY <1>4, <1>5, <1>6, <1>7, <1>8 DEF Ends

LEMMA RetryStep == Typed /\ RetryInv /\ [Next]_vars => RetryInv'
<1> SUFFICES ASSUME Typed, RetryInv, [Next]_vars PROVE RetryInv'
  OBVIOUS
<1>1. CASE UNCHANGED vars
  BY <1>1 DEF vars, RetryInv, Retries
<1>2. CASE haltSync
  BY <1>2 DEF haltSync, RetryInv, Retries, Unvouched, Typed, TypeOK
<1>3. CASE HaltResolves
  BY <1>3 DEF HaltResolves, RetryInv, Retries
<1>4. ASSUME NEW c \in Character,
             \/ \E k \in Collection : Edit(c, k) \/ Read(c, k)
             \/ Sweep(c) \/ TimerFires(c) \/ Flush(c) \/ Lapse(c) \/ ClaimLapses(c) \/ Begin(c)
             \/ Ends(c)
      PROVE  RetryInv'
  <2>1. \A d \in Character \ {c} : Retries(d)'
    BY <1>4, Others, AsideRetries DEF RetryInv
  <2>2. Retries(c)'
    BY <1>4, GoingOnRetries, AskingRetries, EndsRetries DEF RetryInv
  <2> QED BY <2>1, <2>2 DEF RetryInv
<1> QED BY <1>1, <1>2, <1>3, <1>4 DEF Next, PassStep, Ends

(* While a collection's failure is not retried the status is not idle:      *)
(* neither a narrowed success nor a skipped pass can clear the error.       *)
THEOREM RetriesCorrect == Spec => []IdleMeansRecovered
<1>1. Init => RetryInv
  BY DEF Init, RetryInv, Retries, Unvouched
<1>2. RetryInv => IdleMeansRecovered
  BY DEF RetryInv, Retries, Unvouched, IdleMeansRecovered
<1> QED BY <1>1, <1>2, TypedInit, TypedStep, RetryStep, PTL DEF Spec

-----------------------------------------------------------------------------
(***************************************************************************)
(* What a flush waits for.  For one Character with job J, pass P, edits D,  *)
(* failed edits F, unreached ones U and caller W.                           *)
(***************************************************************************)

(* The pass will read k, or fail.                                           *)
Coming(P, k) ==
    /\ P # None /\ k \in P.ask.scope
    /\ P.begun \/ P.ask.priority = "foreground"

(* What the pass had read before the flush is read again.                   *)
Recarried(J, P) ==
    P # None => /\ P.taken \subseteq P.carried
                /\ \A k \in P.read \ P.carried : J # None /\ Serves(J.rerun, k)

Owed(J, P, D, F, U, W) ==
    W.state = "waiting" =>
        /\ W.owed \subseteq D
        /\ \A k \in W.owed : Pending(J, k) \/ Coming(P, k) \/ k \in F \cup U

Awaited(J, P, D, F, U, W) == Recarried(J, P) /\ Owed(J, P, D, F, U, W)

Awaits(c) == Awaited(job[c], pass[c], dirty[c], failed[c], unreached[c], flush[c])

FlushInv == ~halted => \A c \in Character : Awaits(c)

LEMMA PumpAwaits ==
  ASSUME NEW c, NEW J \in Job \cup {None}, NEW P, NEW S, NEW D, NEW F, NEW U, NEW W,
         Awaited(J, P, D, F, U, W), Pumped(c, J, P, S)
  PROVE  Awaited(job'[c], pass'[c], D, F, U, W)
<1>1. CASE job'[c] = J /\ pass'[c] = P
  BY <1>1
<1>2. CASE /\ Waits(J) /\ P = None
           /\ job'[c] = [J EXCEPT !.started = TRUE]
           /\ \E scope \in SUBSET Collection :
                /\ J.ask.scope \subseteq scope
                /\ pass'[c] = NewPass(Ask(J.ask.priority, scope))
  <2>1. PICK scope \in SUBSET Collection :
            J.ask.scope \subseteq scope /\ pass'[c] = NewPass(Ask(J.ask.priority, scope))
    BY <1>2
  <2>2. J \in Job /\ J # None
    BY <1>2 DEF Waits
  <2>3. job'[c] \in Job /\ job'[c] # None /\ job'[c].rerun = J.rerun
    BY <1>2, <2>2, MadeJobs DEF Job
  <2>4. /\ pass'[c] # None /\ ~pass'[c].begun /\ pass'[c].read = {} /\ pass'[c].taken = {}
        /\ pass'[c].ask.priority = J.ask.priority /\ pass'[c].ask.scope = scope
    BY <2>1, <2>2, NewPassIs DEF Job, Request
  <2>5. Recarried(job'[c], pass'[c])
    BY <2>4 DEF Recarried
  <2>6. \A k : Pending(J, k) => Pending(job'[c], k) \/ Coming(pass'[c], k)
    BY <2>1, <2>2, <2>3, <2>4 DEF Pending, Coming, Serves
  <2>7. \A k : ~Coming(P, k)
    BY <1>2 DEF Coming
  <2> QED BY <2>5, <2>6, <2>7 DEF Awaited, Owed
<1> QED BY <1>1, <1>2 DEF Pumped

LEMMA AsideAwaits ==
  ASSUME Typed, NEW d \in Character, Awaits(d), Aside(d)
  PROVE  Awaits(d)'
<1>1. job[d] \in Job \cup {None}
  BY DEF Typed, TypeOK
<1>2. Awaited(job'[d], pass'[d], dirty[d], failed[d], unreached[d], flush[d])
  BY <1>1, PumpAwaits DEF Awaits, Aside
<1> QED BY <1>2 DEF Awaits, Aside

LEMMA GoingOnAwaits ==
  ASSUME Typed, NEW c \in Character, Awaits(c),
         \/ \E k \in Collection : Edit(c, k) \/ Read(c, k)
         \/ Sweep(c) \/ Lapse(c) \/ ClaimLapses(c) \/ Begin(c)
  PROVE  Awaits(c)'
<1>1. /\ UNCHANGED <<job, failed, unreached, flush>>
      /\ dirty[c] \subseteq dirty'[c]
      /\ pass[c] \in Pass \cup {None}
  <2>1. UNCHANGED <<job, failed, unreached, flush>>
    BY DEF Edit, Read, Sweep, Lapse, ClaimLapses, Begin
  <2>2. CASE \E k \in Collection : Edit(c, k)
    BY <2>1, <2>2 DEF Edit, Typed, TypeOK
  <2>3. CASE ~ \E k \in Collection : Edit(c, k)
    <3>1. dirty' = dirty
      BY <2>3 DEF Read, Sweep, Lapse, ClaimLapses, Begin
    <3> QED BY <2>1, <3>1 DEF Typed, TypeOK
  <2> QED BY <2>2, <2>3
<1>2. /\ pass'[c] # None <=> pass[c] # None
      /\ pass[c] # None =>
            /\ pass'[c].ask = pass[c].ask
            /\ pass[c].begun => pass'[c].begun
            /\ pass[c].taken \subseteq pass[c].carried => pass'[c].taken \subseteq pass'[c].carried
            /\ pass'[c].read \ pass'[c].carried \subseteq pass[c].read \ pass[c].carried
  <2>1. CASE \E k \in Collection : Edit(c, k)
    <3>1. PICK k \in Collection : pass'[c] = Edited(pass[c], k)
      BY <2>1 DEF Edit, Typed, TypeOK
    <3>2. /\ pass'[c] # None <=> pass[c] # None
          /\ pass[c] # None => pass'[c] = [pass[c] EXCEPT !.taken = @ \ {k}]
      BY <1>1, <3>1, EditedPass
    <3> QED BY <1>1, <3>2 DEF Pass
  <2>2. CASE \E k \in Collection : Read(c, k)
    <3>1. PICK k \in Collection :
              /\ pass[c] # None
              /\ pass'[c] = [pass[c] EXCEPT !.read = @ \cup {k},
                                            !.taken = @ \cup ({k} \cap dirty[c]),
                                            !.carried = @ \cup {k}]
      BY <2>2 DEF Read, Typed, TypeOK
    <3>2. /\ pass'[c].ask = pass[c].ask /\ pass'[c].begun = pass[c].begun
          /\ pass'[c].read = pass[c].read \cup {k}
          /\ pass'[c].taken = pass[c].taken \cup ({k} \cap dirty[c])
          /\ pass'[c].carried = pass[c].carried \cup {k}
      BY <1>1, <3>1 DEF Pass
    <3>3. pass'[c] # None
      BY <2>2, <3>1, ReadTyped DEF Typed, Session, SessionOf, Read
    <3> QED BY <3>1, <3>2, <3>3
  <2>3. CASE Begin(c)
    <3>1. pass[c] # None /\ pass'[c] = [pass[c] EXCEPT !.begun = TRUE]
      BY <2>3 DEF Begin, Typed, TypeOK
    <3>2. pass'[c] # None
      BY <2>3, <3>1, BeginTyped DEF Typed, Session, SessionOf, Begin
    <3> QED BY <1>1, <3>1, <3>2 DEF Pass
  <2>4. CASE Sweep(c) \/ Lapse(c) \/ ClaimLapses(c)
    BY <2>4 DEF Sweep, Lapse, ClaimLapses
  <2> QED BY <2>1, <2>2, <2>3, <2>4
<1>3. Recarried(job[c], pass'[c])
  BY <1>2 DEF Awaits, Awaited, Recarried
<1>4. \A k : Coming(pass[c], k) => Coming(pass'[c], k)
  BY <1>2 DEF Coming
<1> QED BY <1>1, <1>3, <1>4 DEF Awaits, Awaited, Owed

LEMMA TimerFiresAwaits ==
  ASSUME Typed, NEW c \in Character, Awaits(c), TimerFires(c)
  PROVE  Awaits(c)'
<1> DEFINE ask == Merged(timer[c], timer[c])
<1>1. /\ timer[c] \in Request /\ pass \in Passes /\ recent' \in [Character -> BOOLEAN]
      /\ job[c] \in Job \cup {None} /\ UNCHANGED <<dirty, failed, unreached, flush>>
  BY DEF Typed, TypeOK, TimerFires, Passes
<1>2. ask \in Request /\ Pumped(c, Asked(job[c], ask), pass[c], status[c])
  BY <1>1, requestSyncDoes DEF TimerFires
<1> HIDE DEF ask
<1>3. Asked(job[c], ask) \in Job \cup {None} /\ Asked(job[c], ask) # None
  BY <1>1, <1>2, AskedJob, MadeJobs
<1>4. \A k : Pending(job[c], k) => Pending(Asked(job[c], ask), k)
  BY <1>1, <1>2, AskedServes
<1>5. Recarried(Asked(job[c], ask), pass[c])
  BY <1>1, <1>2, <1>3, AskedServes DEF Awaits, Awaited, Recarried
<1>6. Awaited(Asked(job[c], ask), pass[c], dirty[c], failed[c], unreached[c], flush[c])
  BY <1>4, <1>5 DEF Awaits, Awaited, Owed
<1>7. Awaited(job'[c], pass'[c], dirty[c], failed[c], unreached[c], flush[c])
  BY <1>2, <1>3, <1>6, PumpAwaits
<1> QED BY <1>1, <1>7 DEF Awaits

LEMMA FlushAwaits ==
  ASSUME Typed, NEW c \in Character, Awaits(c), Flush(c)
  PROVE  Awaits(c)'
<1> DEFINE passes == [pass EXCEPT ![c] = Recounted(pass[c])]
           ask == Merged(timer[c], Ask("foreground", All))
           P == Recounted(pass[c])
<1>1. /\ recent' \in [Character -> BOOLEAN] /\ pass[c] \in Pass \cup {None}
      /\ job[c] \in Job \cup {None} /\ dirty[c] \in SUBSET Collection
      /\ timer[c] \in Request \cup {None} /\ Ask("foreground", All) \in Request
      /\ UNCHANGED <<dirty, failed, unreached>>
      /\ flush'[c] = [state |-> "waiting", owed |-> dirty[c]]
  BY Asks DEF Typed, TypeOK, Flush
<1>2. /\ passes \in Passes /\ passes[c] = P
      /\ \A e \in Character : passes[e] # None <=> pass[e] # None
  BY <1>1, RecountedPass DEF Typed, TypeOK, Passes
<1>3. requestSync(c, Ask("foreground", All), passes)
  BY DEF Flush
<1>4. ask \in Request /\ Pumped(c, Asked(job[c], ask), P, status[c])
  <2>1. ask \in Request /\ Pumped(c, Asked(job[c], ask), passes[c], status[c])
    <3> HIDE DEF passes
    <3> QED BY <1>1, <1>2, <1>3, requestSyncDoes
  <2> QED BY <2>1, <1>2
<1>5. \A k \in Collection : Serves(ask, k)
  <2>1. \A k \in Collection : Serves(Ask("foreground", All), k)
    BY <1>1, SyncSchedulerAssumptions DEF Serves, Ask, All
  <2> QED BY <1>1, <2>1, MergedServes
<1>6. P # None => /\ job[c] # None /\ job[c].started
                  /\ P.read \subseteq Collection /\ P.taken \subseteq P.carried
  <2>1. P # None => job[c] # None /\ job[c].started
    BY <1>1, RecountedPass DEF Typed, Session, SessionOf
  <2>2. P # None => pass[c] \in Pass /\ P = [pass[c] EXCEPT !.carried = pass[c].taken]
    BY <1>1, RecountedPass
  <2>3. P # None => P.read \subseteq Collection /\ P.taken \subseteq P.carried
    <3> HIDE DEF P
    <3> QED BY <2>2 DEF Pass
  <2> QED BY <2>1, <2>3
<1> HIDE DEF P, ask, passes
<1>7. Asked(job[c], ask) \in Job \cup {None} /\ Asked(job[c], ask) # None
  BY <1>1, <1>4, AskedJob, MadeJobs
<1>8. Recarried(Asked(job[c], ask), P)
  <2> SUFFICES ASSUME P # None, NEW k \in P.read PROVE Serves(Asked(job[c], ask).rerun, k)
    BY <1>6, <1>7 DEF Recarried
  <2>1. Serves(ask, k)
    BY <1>5, <1>6
  <2> QED BY <1>1, <1>4, <1>6, <2>1, AskedServes
<1>9. \A k \in Collection : Pending(Asked(job[c], ask), k)
  BY <1>1, <1>4, <1>5, AskedServes
<1>10. Awaited(Asked(job[c], ask), P, dirty[c], failed[c], unreached[c], flush'[c])
  BY <1>1, <1>8, <1>9 DEF Awaited, Owed
<1>11. Awaited(job'[c], pass'[c], dirty[c], failed[c], unreached[c], flush'[c])
  BY <1>4, <1>7, <1>10, PumpAwaits
<1> QED BY <1>1, <1>11 DEF Awaits

(* The end of a pass that read what it was to read, or only looked at the   *)
(* marker: what is owed after it waits for a rerun, or was not reached.     *)
LEMMA OwedAtEnd ==
  ASSUME Typed, NEW c \in Character, Remembers(c), Retries(c), Awaits(c),
         flush[c].state = "waiting",
         NEW k \in flush[c].owed,
         \/ Skips(c)
         \/ (Succeeds(c) \/ HeartbeatFails(c)) /\ k \notin pass[c].carried
  PROVE  Serves(job[c].rerun, k) \/ k \in unreached'[c]
<1>1. /\ pass[c] # None /\ job[c] # None /\ job[c].started
      /\ failed[c] \subseteq All
  <2>1. pass[c] # None
    BY DEF Succeeds, Skips, HeartbeatFails
  <2> QED BY <2>1 DEF Typed, TypeOK, Session, SessionOf, All
<1>2. Serves(job[c].rerun, k) \/ Coming(pass[c], k) \/ k \in failed[c] \cup unreached[c]
  BY <1>1 DEF Awaits, Awaited, Owed, Pending, Waits
<1>3. CASE Skips(c)
  <2>1. /\ ~pass[c].begun /\ pass[c].ask.priority = "background" /\ claimed[c]
        /\ UNCHANGED unreached
    BY <1>3 DEF Skips
  <2> QED BY <1>2, <2>1 DEF Coming, Retries, Unvouched
<1>4. CASE (Succeeds(c) \/ HeartbeatFails(c)) /\ k \notin pass[c].carried
  <2>1. pass[c].read = pass[c].ask.scope /\ unreached'[c] = unreached[c] \ pass[c].read
    BY <1>4 DEF Succeeds, HeartbeatFails, Finished, Typed, TypeOK
  <2>2. k \in pass[c].read => Serves(job[c].rerun, k)
    BY <1>1, <1>4 DEF Awaits, Awaited, Recarried
  <2>3. k \in failed[c] => k \in pass[c].read
    BY <1>1, <2>1 DEF Retries, Unvouched
  <2> QED BY <1>2, <2>1, <2>2, <2>3 DEF Coming
<1> QED BY <1>3, <1>4

LEMMA EndsAwaits ==
  ASSUME Typed, NEW c \in Character, Remembers(c), Retries(c), Awaits(c), ~halted, Ends(c)
  PROVE  Awaits(c)'
<1>1. /\ pass[c] # None /\ pass[c] \in Pass /\ job[c] # None /\ job[c] \in Job /\ job[c].started
      /\ flush[c] \in [state : {"none", "waiting", "resolved", "rejected"},
                       owed : SUBSET Collection]
      /\ recent' \in [Character -> BOOLEAN]
  <2>1. pass[c] # None
    BY DEF Ends, Succeeds, Skips, Fails, SignInFails, HeartbeatFails
  <2>2. recent' \in [Character -> BOOLEAN]
    BY EndsTyped DEF Typed, TypeOK
  <2> QED BY <2>1, <2>2 DEF Typed, TypeOK, Session, SessionOf
<1>2. /\ NextJob(c) \in Job \cup {None}
      /\ \A k : Serves(job[c].rerun, k) => Pending(NextJob(c), k)
  <2>1. NextJob(c) \in Job \cup {None}
    BY <1>1, MadeJobs DEF NextJob, Again, Job
  <2>2. ASSUME NEW k, Serves(job[c].rerun, k) PROVE Pending(NextJob(c), k)
    <3>1. Again(c) /\ job[c].rerun \in Request
      BY <1>1, <2>2 DEF Again, Serves, Job
    <3>2. /\ NextJob(c) = NewJob(job[c].rerun) /\ Waits(NextJob(c))
          /\ NextJob(c).ask = job[c].rerun
      BY <3>1, MadeJobs DEF NextJob, NewJob
    <3> QED BY <2>2, <3>2 DEF Pending
  <2> QED BY <2>1, <2>2
<1>3. ASSUME NEW outcome \in {"idle", "error"}, NEW owed \in SUBSET Collection,
             EndPass(c, outcome, owed),
             flush[c].state = "waiting" =>
                /\ owed \subseteq dirty'[c]
                /\ \A k \in owed : Serves(job[c].rerun, k) \/ k \in failed'[c] \cup unreached'[c]
      PROVE  Awaits(c)'
  <2>1. /\ Pumped(c, NextJob(c), None, outcome)
        /\ flush'[c] = Settled(flush[c], Again(c), outcome, owed)
    BY <1>1, <1>3, EndPassDoes
  <2>2. flush'[c].state = "waiting" => flush[c].state = "waiting" /\ flush'[c].owed = owed
    BY <2>1 DEF Settled
  <2>3. Owed(NextJob(c), None, dirty'[c], failed'[c], unreached'[c], flush'[c])
    BY <1>2, <1>3, <2>2 DEF Owed
  <2>4. Recarried(NextJob(c), None)
    BY DEF Recarried
  <2>5. Awaited(NextJob(c), None, dirty'[c], failed'[c], unreached'[c], flush'[c])
    BY <2>3, <2>4 DEF Awaited
  <2>6. Awaited(job'[c], pass'[c], dirty'[c], failed'[c], unreached'[c], flush'[c])
    BY <1>2, <2>1, <2>5, PumpAwaits
  <2> QED BY <2>6 DEF Awaits
<1>4. /\ flush[c].state = "waiting" => flush[c].owed \subseteq dirty[c]
      /\ pass[c].taken \subseteq pass[c].carried
  BY <1>1 DEF Awaits, Awaited, Owed, Recarried
<1>5. \A k \in flush[c].owed : flush[c].state = "waiting" =>
          Serves(job[c].rerun, k) \/ Coming(pass[c], k) \/ k \in failed[c] \cup unreached[c]
  BY <1>1 DEF Awaits, Awaited, Owed, Pending, Waits
<1>6. CASE Succeeds(c)
  <2>1. dirty'[c] = dirty[c] \ pass[c].taken
    BY <1>6 DEF Succeeds, Typed, TypeOK
  <2>2. EndPass(c, "idle", flush[c].owed \ pass[c].carried)
    BY <1>6 DEF Succeeds
  <2> QED BY <1>1, <1>3, <1>4, <1>6, <2>1, <2>2, OwedAtEnd
<1>7. CASE Skips(c)
  <2>1. UNCHANGED dirty /\ EndPass(c, "idle", flush[c].owed)
    BY <1>7 DEF Skips
  <2> QED BY <1>1, <1>3, <1>4, <1>7, <2>1, OwedAtEnd
<1>8. CASE Fails(c)
  <2>1. /\ pass[c].begun
        /\ failed'[c] = (failed[c] \cup pass[c].ask.scope) \cap dirty'[c]
        /\ unreached'[c] = unreached[c] \cap dirty'[c]
        /\ EndPass(c, "error", flush[c].owed \cap dirty'[c])
    BY <1>8 DEF Fails, Typed, TypeOK
  <2>2. flush[c].owed \cap dirty'[c] \in SUBSET Collection
    BY <1>1
  <2> QED BY <1>3, <1>5, <2>1, <2>2 DEF Coming
<1>9. CASE SignInFails(c)
  <2>1. /\ UNCHANGED <<dirty, failed>>
        /\ unreached'[c] = unreached[c] \cup (pass[c].ask.scope \cap dirty[c])
        /\ EndPass(c, "error", flush[c].owed)
    BY <1>9 DEF SignInFails, Typed, TypeOK
  <2> QED BY <1>1, <1>3, <1>4, <1>5, <2>1 DEF Coming
<1>10. CASE HeartbeatFails(c)
  <2>1. dirty'[c] = dirty[c] \ pass[c].taken
    BY <1>10 DEF HeartbeatFails, Typed, TypeOK
  <2>2. EndPass(c, "error", flush[c].owed \ pass[c].carried)
    BY <1>10 DEF HeartbeatFails
  <2> QED BY <1>1, <1>3, <1>4, <1>10, <2>1, <2>2, OwedAtEnd
<1> QED BY <1>6, <1>7, <1>8, <1>9, <1>10 DEF Ends

LEMMA FlushStep == Typed /\ EditInv /\ RetryInv /\ FlushInv /\ [Next]_vars => FlushInv'
<1> SUFFICES ASSUME Typed, EditInv, RetryInv, FlushInv, [Next]_vars PROVE FlushInv'
  OBVIOUS
<1>1. CASE UNCHANGED vars
  BY <1>1 DEF vars, FlushInv, Awaits, halted
<1>2. CASE haltSync \/ HaltResolves
  BY <1>2 DEF haltSync, HaltResolves, FlushInv, halted
<1>3. ASSUME NEW c \in Character,
             \/ \E k \in Collection : Edit(c, k) \/ Read(c, k)
             \/ Sweep(c) \/ TimerFires(c) \/ Flush(c) \/ Lapse(c) \/ ClaimLapses(c) \/ Begin(c)
             \/ Ends(c)
      PROVE  FlushInv'
  <2> SUFFICES ASSUME ~halted' PROVE \A d \in Character : Awaits(d)'
    BY DEF FlushInv
  <2>1. halt' = halt
    BY <1>3 DEF Edit, Read, Sweep, TimerFires, Flush, Lapse, ClaimLapses, Begin, Ends,
                Succeeds, Skips, Fails, SignInFails, HeartbeatFails
  <2>2. ~halted /\ \A d \in Character : Remembers(d) /\ Retries(d) /\ Awaits(d)
    BY <2>1 DEF EditInv, RetryInv, FlushInv, halted
  <2>3. \A d \in Character \ {c} : Awaits(d)'
    BY <1>3, <2>2, Others, AsideAwaits
  <2>4. Awaits(c)'
    BY <1>3, <2>2, GoingOnAwaits, TimerFiresAwaits, FlushAwaits, EndsAwaits
  <2> QED BY <2>3, <2>4
<1> QED BY <1>1, <1>2, <1>3 DEF Next, PassStep, Ends

(* FlushedMeansPushed, as what each step does.                              *)
Flushes(c) ==
    flush[c].state = "waiting" /\ flush'[c].state = "resolved" /\ halt' = "no"
        => flush'[c].owed \subseteq unreached'[c]

LEMMA FlushResolves ==
  ASSUME Typed, EditInv, RetryInv, FlushInv, Next, NEW c \in Character
  PROVE  Flushes(c)
<1> SUFFICES ASSUME flush[c].state = "waiting", flush'[c].state = "resolved", halt' = "no"
             PROVE  flush'[c].owed \subseteq unreached'[c]
  BY DEF Flushes
<1>1. Ends(c)
  <2>1. ~haltSync /\ ~HaltResolves
    BY DEF haltSync, HaltResolves
  <2>2. PICK d \in Character :
             \/ \E k \in Collection : Edit(d, k) \/ Read(d, k)
             \/ Sweep(d) \/ TimerFires(d) \/ Flush(d) \/ Lapse(d) \/ ClaimLapses(d) \/ Begin(d)
             \/ Ends(d)
    BY <2>1 DEF Next, PassStep, Ends
  <2>3. flush'[c] # flush[c]
    OBVIOUS
  <2>4. d = c
    BY <2>2, <2>3, Others DEF Aside
  <2>5. ~Flush(c)
    BY DEF Flush
  <2> QED
    BY <2>2, <2>3, <2>4, <2>5 DEF Edit, Read, Sweep, TimerFires, Lapse, ClaimLapses, Begin
<1>2. ~halted /\ Remembers(c) /\ Retries(c) /\ Awaits(c)
  <2>1. halt' = halt
    BY <1>1 DEF Ends, Succeeds, Skips, Fails, SignInFails, HeartbeatFails
  <2> QED BY <2>1 DEF EditInv, RetryInv, FlushInv, halted
<1>3. /\ pass[c] # None /\ flush[c].owed \in SUBSET Collection
      /\ recent' \in [Character -> BOOLEAN]
  <2>1. pass[c] # None
    BY <1>1 DEF Ends, Succeeds, Skips, Fails, SignInFails, HeartbeatFails
  <2>2. recent' \in [Character -> BOOLEAN]
    BY <1>1, EndsTyped DEF Typed, TypeOK
  <2> QED BY <2>1, <2>2 DEF Typed, TypeOK
<1>4. ASSUME NEW outcome \in {"idle", "error"}, NEW owed \in SUBSET Collection,
             EndPass(c, outcome, owed)
      PROVE  outcome = "idle" /\ flush'[c].owed = owed /\ job[c].rerun = None
  <2>1. flush'[c] = Settled(flush[c], Again(c), outcome, owed)
    BY <1>3, <1>4, EndPassDoes
  <2>2. ~Again(c) /\ outcome = "idle" /\ flush'[c].owed = owed
    BY <2>1 DEF Settled
  <2> QED BY <1>2, <2>2 DEF Again
<1>5. CASE Succeeds(c)
  <2>1. EndPass(c, "idle", flush[c].owed \ pass[c].carried)
    BY <1>5 DEF Succeeds
  <2>2. flush'[c].owed = flush[c].owed \ pass[c].carried /\ job[c].rerun = None
    BY <1>3, <1>4, <2>1
  <2>3. \A k \in flush[c].owed \ pass[c].carried : k \in unreached'[c]
    BY <1>2, <1>5, <2>2, OwedAtEnd DEF Serves
  <2> QED BY <2>2, <2>3
<1>6. CASE Skips(c)
  <2>1. EndPass(c, "idle", flush[c].owed)
    BY <1>6 DEF Skips
  <2>2. flush'[c].owed = flush[c].owed /\ job[c].rerun = None
    BY <1>3, <1>4, <2>1
  <2>3. \A k \in flush[c].owed : k \in unreached'[c]
    BY <1>2, <1>6, <2>2, OwedAtEnd DEF Serves
  <2> QED BY <2>2, <2>3
<1>7. CASE Fails(c) \/ SignInFails(c) \/ HeartbeatFails(c)
  <2>1. \E owed \in SUBSET Collection : EndPass(c, "error", owed)
    BY <1>3, <1>7 DEF Fails, SignInFails, HeartbeatFails
  <2> QED BY <1>4, <2>1
<1> QED BY <1>1, <1>5, <1>6, <1>7 DEF Ends

(* A flush that resolves has pushed every edit made before it was called,   *)
(* through any number of reruns and failed passes, unless a sign-in failed. *)
THEOREM FlushCorrect == Spec => FlushedMeansPushed
<1>1. Init => EditInv /\ RetryInv /\ FlushInv
  BY DEF Init, EditInv, Remembers, Remembered, Shapely, Late, RetryInv, Retries, Unvouched,
         FlushInv, Awaits, Awaited, Recarried, Owed, NoFlush
<1>2. Typed /\ EditInv /\ RetryInv /\ FlushInv /\ [Next]_vars =>
          [\A c \in Character : flush[c].state = "waiting" /\ flush'[c].state = "resolved" /\ halt' = "no"
              => flush'[c].owed \subseteq unreached'[c]]_vars
  BY FlushResolves DEF Flushes
<1> QED BY <1>1, <1>2, TypedInit, TypedStep, EditStep, RetryStep, FlushStep, PTL
        DEF Spec, FlushedMeansPushed
=============================================================================
