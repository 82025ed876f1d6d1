------------------------- MODULE AlertsPollerProofs -------------------------
(***************************************************************************)
(* What the alerts_poller run checks of one grant, two devices and two      *)
(* notifications, proved for any number of each: nothing that a device is   *)
(* owed falls behind the grant's mark, no mail that was logged goes out     *)
(* twice, and nothing that passed while nobody wanted it is pushed later.   *)
(***************************************************************************)
EXTENDS AlertsPoller, WellFoundedInduction, TLAPS

-----------------------------------------------------------------------------
(***************************************************************************)
(* The types.                                                               *)
(***************************************************************************)

RegMap == [Device -> Registrations \cup {None}]
Saves == [grant : Grants \cup {None}, token : 1..MaxTokens, mailScope : BOOLEAN]
Nums == 0..(MaxNotes + MaxMails)

Runs ==
    [pc : Phase, grant : Grants \cup {None}, devs : RegMap \cup {None}, listedAt : Notes,
     next : (1..MaxTokens) \cup {None}, todo : SUBSET (Device \X SUBSET Ids), failed : BOOLEAN,
     found : Nums, pushed : SUBSET (Device \X Ids)]

(* A run has in hand what its phase needs.                                  *)
Equipped(r) ==
    /\ r.pc # "off" => r.grant \in Grants /\ r.grant.status = "active"
    /\ r.pc = "rotated" => r.next \in 1..MaxTokens
    /\ r.pc \notin {"off", "listed"} => r.devs \in RegMap
    /\ r.todo # {} => r.pc \in {"sending", "mailing"}
    /\ \A m \in r.todo : r.devs[m[1]] # None
    /\ r.pc # "mailing" => r.pushed = {}

Ghosts ==
    [owed : SUBSET (Device \X (1..MaxNotes)), passed : Notes, sure : SUBSET (Device \X Ids),
     twice : BOOLEAN, replayed : BOOLEAN]

Typed ==
    /\ feed \in [notes : Notes, mails : Mails]
    /\ reg \in RegMap /\ fcm \in [Device -> 1..2]
    /\ grant \in Grants \cup {None}
    /\ sso \in [minted : 1..MaxTokens, good : SUBSET (1..MaxTokens)] /\ sso.good \subseteq 1..sso.minted
    /\ save \in Saves \cup {None}
    /\ run \in Runs /\ Equipped(run)
    /\ turn \in 0..(SleepingEvery - 1)
    /\ spent \in [acts : Nat, faults : Nat]
    /\ ghost \in Ghosts

-----------------------------------------------------------------------------
(***************************************************************************)
(* The invariant, its parts over explicit arguments: v is the save under    *)
(* way, r the run, O what devices are owed, S the mails that went out.      *)
(***************************************************************************)

(* The tokens that the grant and the run hold; the one a save brings is     *)
(* none of them, and EVE takes it.                                          *)
Held(g, r) ==
    {t \in 1..MaxTokens : \/ g # None /\ t = g.token
                          \/ r.pc # "off" /\ t = r.grant.token
                          \/ r.pc = "rotated" /\ t = r.next}

TokensOf(s, v, H) ==
    /\ H \subseteq 1..s.minted
    /\ v # None => v.token \in s.good /\ v.token \notin H

(* Every mark and stamp is one the feed has reached.                        *)
GrantPast(g, n) == g # None => g.mark <= n /\ g.enabledAt <= n
StampsPast(devs, n) == \A d \in Device : devs[d] # None => devs[d].stamp <= n
SavePast(v, n) == v # None => GrantPast(v.grant, n)

RunPast(r, n) ==
    /\ r.pc # "off" => GrantPast(r.grant, n) /\ r.listedAt <= n
    /\ r.pc \notin {"off", "listed"} => StampsPast(r.devs, n)
    /\ r.pc = "sending" => r.found <= n /\ r.listedAt <= r.found

Past == /\ GrantPast(grant, feed.notes) /\ SavePast(save, feed.notes)
        /\ StampsPast(reg, feed.notes) /\ RunPast(run, feed.notes)

(* What is owed lies above the marks, of the run's copy and of the one a    *)
(* save will write back too; who is owed something wants it and registered  *)
(* before it came; a run that has read the feed has it among its pushes,    *)
(* unless one of them failed.                                               *)
Above(g, O) == \A p \in O : p[2] > g.mark /\ p[2] > g.enabledAt
Expected(devs, O) == \A p \in O : Wanting(devs, p[1], p[2]) /\ p[2] > devs[p[1]].stamp

GrantOwed(g, O) == IF Active(g) THEN Above(g, O) ELSE O = {}
SaveOwed(v, g, O) == v # None => IF Active(v.grant) THEN Above(v.grant, O) ELSE ~Active(g)

Sent(r, O) == \A p \in O : p[2] <= r.found => \E m \in r.todo : m[1] = p[1] /\ p[2] \in m[2]

RunOwed(r, O) ==
    /\ r.pc \in {"listed", "poll", "rotated", "read", "sending"} => Above(r.grant, O)
    /\ r.pc \in {"poll", "rotated", "read"} => Expected(r.devs, O)
    /\ r.pc = "sending" /\ ~r.failed => Sent(r, O)

OwedInv ==
    /\ \A p \in ghost.owed : p[2] <= feed.notes
    /\ GrantOwed(grant, ghost.owed) /\ SaveOwed(save, grant, ghost.owed)
    /\ Expected(reg, ghost.owed) /\ RunOwed(run, ghost.owed)

(* Of what passed while nobody wanted it, n being the last: the mark or the *)
(* day of the grant is beyond it, or the grant is idle and whoever wants    *)
(* notifications now registered since.                                      *)
Wishing(devs) == {d \in Live(devs) : devs[d].types # {}}
Since(devs, n) == \A d \in Wishing(devs) : devs[d].stamp >= n
Covered(g, devs, n) == n <= g.mark \/ n <= g.enabledAt \/ (g.idle /\ Since(devs, n))

RunCovered(r, R, n) ==
    /\ r.pc # "off" => n <= r.listedAt
    /\ r.pc = "listed" => Covered(r.grant, R, n)
    /\ r.pc \in {"poll", "rotated", "read"} => Covered(r.grant, r.devs, n)
    /\ r.pc = "idle" => Wishing(r.devs) = {}
    /\ r.pc = "sending" => \A m \in r.todo : \A i \in m[2] : i > n

(* Whoever wishes now did so when the run read the devices, or since.       *)
WishesKnown(r, R) ==
    r.pc \notin {"off", "listed"} =>
        \A d \in Wishing(R) : R[d].stamp >= r.listedAt \/ d \in Wishing(r.devs)

ReplayInv ==
    /\ ~ghost.replayed
    /\ ghost.passed <= feed.notes
    /\ grant # None => Covered(grant, reg, ghost.passed)
    /\ RunCovered(run, reg, ghost.passed)
    /\ WishesKnown(run, reg)

(* A mail that went out is below the mark or in the log, but for what the   *)
(* run has yet to log; the run's copy of both is the grant's while the      *)
(* token is.                                                                *)
Logged(g, S) == g.mailMark # None => \A p \in S : p[2] <= g.mailMark \/ p \in g.mailPushed

Copied(g, r) ==
    g # None /\ r.pc \notin {"off", "defer"} /\ g.token = r.grant.token =>
        g.mailMark = r.grant.mailMark /\ g.mailPushed = r.grant.mailPushed

Mailing(r, S) ==
    r.pc = "mailing" =>
        /\ r.found \in Mails /\ \A p \in S : p[2] <= r.found
        /\ \A m \in r.todo : \E n \in Ids : m[2] = {n} /\ n <= r.found /\ <<m[1], n>> \notin S

MailInv ==
    /\ ~ghost.twice
    /\ \A p \in ghost.sure : p[2] <= feed.mails
    /\ run.pc = "mailing" => run.found <= feed.mails
    /\ grant # None => Logged(grant, ghost.sure \ run.pushed)
    /\ run.pc # "off" => Logged(run.grant, ghost.sure \ run.pushed)
    /\ Copied(grant, run)
    /\ Mailing(run, ghost.sure)

Tokens == TokensOf(sso, save, Held(grant, run))

IInv == Typed /\ Tokens /\ Past /\ OwedInv /\ ReplayInv /\ MailInv

-----------------------------------------------------------------------------
(***************************************************************************)
(* Numbers.                                                                 *)
(***************************************************************************)

LEMMA Bounds ==
  /\ MaxNotes \in Nat /\ MaxMails \in Nat /\ SummaryThreshold \in Nat
  /\ SleepingEvery \in Nat \ {0} /\ IdleRecheck \in Nat /\ MaxTokens \in Nat \ {0}
  /\ Notes \subseteq Nat /\ Mails \subseteq Nat /\ Nums \subseteq Nat
  /\ Notes \subseteq Nums /\ Mails \subseteq Nums /\ 0 \in Notes
  /\ \A n \in 1..MaxNotes : n \in Ids /\ n \in Notes /\ n > 0
  /\ \A n \in 1..MaxMails : n \in Ids /\ n \in Mails
  /\ Ids \subseteq Nat /\ \A n \in Ids : n > 0
BY AlertsPollerAssumptions DEF Notes, Mails, Nums, Ids

LEMMA MaxOfTwo ==
  ASSUME NEW a \in Nat, NEW b \in Nat
  PROVE  Max({a, b}) \in {a, b} /\ a <= Max({a, b}) /\ b <= Max({a, b})
<1>1. \E x \in {a, b} : \A y \in {a, b} : x >= y
  OBVIOUS
<1>2. /\ Max({a, b}) \in {a, b}
      /\ \A y \in {a, b} : Max({a, b}) >= y
  BY <1>1 DEF Max
<1> QED BY <1>2

LEMMA MinExists ==
  ASSUME NEW S, S \subseteq Nat, S # {}
  PROVE  Min(S) \in S /\ \A n \in S : Min(S) <= n
<1>1. PICK m \in S : \A n \in S : ~(<<n, m>> \in OpToRel(<, Nat))
  BY NatLessThanWellFounded, WFMin
<1>2. \A n \in S : m <= n
  <2> SUFFICES ASSUME NEW n \in S, n < m PROVE FALSE
    OBVIOUS
  <2>1. <<n, m>> \in OpToRel(<, Nat)
    BY DEF OpToRel
  <2> QED BY <1>1, <2>1
<1> QED BY <1>2 DEF Min

(* The next hourly slot is less than an hour after IdleRecheck runs.        *)
LEMMA RecheckBounded ==
  ASSUME turn \in 0..(SleepingEvery - 1)
  PROVE  idleRecheckAt \in 0..(IdleRecheck + SleepingEvery)
<1> DEFINE a == turn + IdleRecheck + SleepingEvery - 1
           q == a \div SleepingEvery
           p == q * SleepingEvery
<1>1. a \in Nat /\ SleepingEvery \in Nat \ {0} /\ turn \in Nat /\ IdleRecheck \in Nat
  BY Bounds
<1>2. q \in Nat /\ p <= a /\ a < p + SleepingEvery
  <2> HIDE DEF a
  <2> QED BY <1>1
<1>3. p \in Nat
  <2> HIDE DEF q
  <2> QED BY <1>1, <1>2
<1>4. p - turn \in 0..(IdleRecheck + SleepingEvery)
  <2>1. p - turn <= IdleRecheck + SleepingEvery
    <3> HIDE DEF p
    <3> QED BY <1>1, <1>2, <1>3
  <2>2. 0 <= p - turn
    <3> HIDE DEF p
    <3> QED BY <1>1, <1>2, <1>3
  <2> HIDE DEF p
  <2> QED BY <2>1, <2>2, <1>1, <1>3
<1> QED BY <1>4 DEF idleRecheckAt

LEMMA NextTurn ==
  ASSUME turn \in 0..(SleepingEvery - 1)
  PROVE  (turn + 1) % SleepingEvery \in 0..(SleepingEvery - 1)
BY Bounds

-----------------------------------------------------------------------------
(***************************************************************************)
(* What the writes do to a grant.                                           *)
(***************************************************************************)

NotesKept(g, h) == h.status = g.status /\ h.mark = g.mark /\ h.enabledAt = g.enabledAt
MailKept(g, h) == h.mailMark = g.mailMark /\ h.mailPushed = g.mailPushed

LEMMA GrantIs ==
  /\ None \notin Grants /\ None \notin Registrations
  /\ \A g \in Grants : /\ g.token \in 1..MaxTokens /\ g.status \in {"active", "revoked"}
                       /\ g.enabledAt \in Notes /\ g.mark \in Notes
                       /\ g.seen \subseteq Type /\ g.idle \in BOOLEAN /\ g.mailScope \in BOOLEAN
                       /\ g.mailMark \in Mails \cup {None}
                       /\ g.mailPushed \subseteq Device \X Ids
                       /\ g.wait \in 0..(IdleRecheck + SleepingEvery)
BY NoneIsNothing DEF Grants

LEMMA Waiting ==
  ASSUME NEW g \in Grants, NEW w \in 0..(IdleRecheck + SleepingEvery)
  PROVE  LET h == [g EXCEPT !.wait = w] IN
         /\ h \in Grants /\ h.token = g.token /\ h.idle = g.idle
         /\ NotesKept(g, h) /\ MailKept(g, h)
BY DEF Grants, NotesKept, MailKept

LEMMA MarkNotesIdleIs ==
  ASSUME NEW g \in Grants
  PROVE  LET h == MarkNotesIdle(g) IN
         /\ h \in Grants /\ h.token = g.token /\ h.idle
         /\ NotesKept(g, h) /\ MailKept(g, h)
BY DEF Grants, NotesKept, MailKept, MarkNotesIdle

LEMMA ForgetMailIs ==
  ASSUME NEW g \in Grants
  PROVE  LET h == ForgetMail(g) IN
         /\ h \in Grants /\ h.token = g.token /\ h.idle = g.idle
         /\ NotesKept(g, h) /\ h.mailMark = None
BY DEF Grants, NotesKept, ForgetMail

LEMMA UnscopedIs ==
  ASSUME NEW g \in Grants
  PROVE  LET h == [ForgetMail(g) EXCEPT !.mailScope = FALSE] IN
         /\ h \in Grants /\ h.token = g.token /\ h.idle = g.idle
         /\ NotesKept(g, h) /\ h.mailMark = None
<1>1. PICK f \in Grants : /\ f = ForgetMail(g) /\ f.token = g.token /\ f.idle = g.idle
                          /\ NotesKept(g, f) /\ f.mailMark = None
  BY ForgetMailIs
<1>2. LET h == [f EXCEPT !.mailScope = FALSE] IN
      /\ h \in Grants /\ h.token = f.token /\ h.idle = f.idle /\ NotesKept(f, h)
      /\ h.mailMark = f.mailMark
  BY DEF Grants, NotesKept
<1> QED BY <1>1, <1>2 DEF NotesKept

LEMMA RotatedIs ==
  ASSUME NEW g \in Grants, NEW t \in 1..MaxTokens
  PROVE  LET h == [g EXCEPT !.token = t] IN
         /\ h \in Grants /\ h.token = t /\ h.idle = g.idle
         /\ NotesKept(g, h) /\ MailKept(g, h)
BY DEF Grants, NotesKept, MailKept

LEMMA RevokedIs ==
  ASSUME NEW g \in Grants
  PROVE  LET h == [g EXCEPT !.status = "revoked"] IN
         /\ h \in Grants /\ h.token = g.token /\ h.idle = g.idle /\ h.status = "revoked"
         /\ h.mark = g.mark /\ h.enabledAt = g.enabledAt /\ MailKept(g, h)
BY DEF Grants, MailKept

LEMMA NewGrantIs ==
  ASSUME NEW t \in 1..MaxTokens, NEW n \in Notes, NEW scope \in BOOLEAN
  PROVE  LET h == NewGrant(t, n, scope) IN
         /\ h \in Grants /\ h.token = t /\ h.status = "active" /\ h.enabledAt = n /\ h.mark = 0
         /\ h.mailMark = None
<1>1. 0 \in Notes /\ 0 \in 0..(IdleRecheck + SleepingEvery)
  BY Bounds
<1> QED BY <1>1 DEF Grants, NewGrant

-----------------------------------------------------------------------------
(***************************************************************************)
(* What the invariant says of the grant, the run and the ghosts.            *)
(***************************************************************************)

LEMMA GhostIs ==
  ASSUME NEW h \in Ghosts
  PROVE  /\ h.owed \subseteq Device \X (1..MaxNotes) /\ h.passed \in Notes
         /\ h.sure \subseteq Device \X Ids /\ h.twice \in BOOLEAN /\ h.replayed \in BOOLEAN
         /\ \A p \in h.owed : p[1] \in Device /\ p[2] \in Nat /\ p[2] > 0
         /\ \A p \in h.sure : p[1] \in Device /\ p[2] \in Nat
<1>1. /\ h.owed \subseteq Device \X (1..MaxNotes) /\ h.passed \in Notes
      /\ h.sure \subseteq Device \X Ids /\ h.twice \in BOOLEAN /\ h.replayed \in BOOLEAN
  BY DEF Ghosts
<1>2. \A p \in h.owed : p[1] \in Device /\ p[2] \in Nat /\ p[2] > 0
  BY <1>1, Bounds
<1>3. \A p \in h.sure : p[1] \in Device /\ p[2] \in Nat
  BY <1>1, Bounds
<1> QED BY <1>1, <1>2, <1>3

LEMMA RunIs ==
  ASSUME NEW r \in Runs
  PROVE  /\ r.pc \in Phase /\ r.listedAt \in Notes /\ r.failed \in BOOLEAN /\ r.found \in Nums
         /\ r.todo \subseteq Device \X SUBSET Ids /\ r.pushed \subseteq Device \X Ids
         /\ \A m \in r.todo : m = <<m[1], m[2]>> /\ m[1] \in Device /\ m[2] \subseteq Ids
BY DEF Runs

LEMMA RegIs ==
  ASSUME NEW R \in RegMap, NEW d \in Device
  PROVE  R[d] # None => /\ R[d] \in Registrations /\ R[d].types \subseteq Type
                        /\ R[d].mail \in BOOLEAN /\ R[d].stamp \in Notes
                        /\ R[d].age \in {"fresh", "stale", "dormant"} /\ R[d].tok \in 1..2
BY DEF RegMap, Registrations

LEMMA OffIs ==
  /\ Off \in Runs /\ Off.pc = "off" /\ Off.todo = {} /\ Off.pushed = {}
  /\ Equipped(Off)
  /\ \A g : Held(g, Off) = {t \in 1..MaxTokens : g # None /\ t = g.token}
  /\ \A n : RunPast(Off, n)
  /\ \A O : RunOwed(Off, O)
  /\ \A R, n : RunCovered(Off, R, n) /\ WishesKnown(Off, R)
  /\ \A g, S : Copied(g, Off) /\ Mailing(Off, S)
<1>1. /\ Off \in Runs
      /\ Off.pc = "off" /\ Off.todo = {} /\ Off.pushed = {}
  BY Bounds DEF Off, Runs, Phase
<1> HIDE DEF Off
<1>2. Equipped(Off)
  BY <1>1 DEF Equipped
<1>3. \A g : Held(g, Off) = {t \in 1..MaxTokens : g # None /\ t = g.token}
  BY <1>1 DEF Held
<1>4. /\ \A n : RunPast(Off, n)
      /\ \A O : RunOwed(Off, O)
  BY <1>1 DEF RunPast, RunOwed
<1>5. /\ \A R, n : RunCovered(Off, R, n) /\ WishesKnown(Off, R)
      /\ \A g, S : Copied(g, Off) /\ Mailing(Off, S)
  BY <1>1 DEF RunCovered, WishesKnown, Copied, Mailing
<1> QED BY <1>1, <1>2, <1>3, <1>4, <1>5

(* Fewer are owed and the marks stay.                                       *)
LEMMA OwedLess ==
  ASSUME NEW O, NEW P, P \subseteq O
  PROVE  /\ \A g : Above(g, O) => Above(g, P)
         /\ \A R : Expected(R, O) => Expected(R, P)
         /\ \A r : RunOwed(r, O) => RunOwed(r, P)
BY DEF Above, Expected, RunOwed, Sent

LEMMA AboveKept ==
  ASSUME NEW g, NEW h, NEW O, Above(g, O), h.mark = g.mark, h.enabledAt = g.enabledAt
  PROVE  Above(h, O)
BY DEF Above

(* The run is over: its grant is as it was, but for what its last write     *)
(* does to the mail and to the status.                                      *)
LEMMA RunEnded ==
  ASSUME IInv, run' = Off, UNCHANGED <<feed, reg, fcm, sso, save, turn>>,
         spent' \in [acts : Nat, faults : Nat], ghost' \in Ghosts,
         ghost'.owed \subseteq ghost.owed, ghost'.passed = ghost.passed,
         ghost'.sure \subseteq ghost.sure, ghost'.twice = ghost.twice,
         ghost'.replayed = ghost.replayed,
         grant' = grant \/
           /\ grant # None /\ grant' \in Grants
           /\ grant'.token = grant.token /\ grant'.idle = grant.idle
           /\ grant'.mark = grant.mark /\ grant'.enabledAt = grant.enabledAt,
         Active(grant') => Active(grant),
         Active(grant) => Active(grant') \/ ghost'.owed = {},
         grant' # None => Logged(grant', ghost'.sure)
  PROVE  IInv'
<1>0. /\ grant' # None <=> grant # None
      /\ grant # None => /\ grant'.token = grant.token /\ grant'.idle = grant.idle
                         /\ grant'.mark = grant.mark /\ grant'.enabledAt = grant.enabledAt
  BY GrantIs
<1>1. Typed'
  BY OffIs DEF IInv, Typed
<1>2. Tokens'
  <2>1. Held(grant, Off)' \subseteq Held(grant, run)
    BY <1>0, OffIs DEF Held
  <2> QED BY <2>1, OffIs DEF IInv, Tokens, TokensOf, Held
<1>3. Past'
  BY <1>0, OffIs DEF IInv, Past, GrantPast
<1>4. OwedInv'
  <2> DEFINE O == ghost.owed
  <2>1. GrantOwed(grant', ghost'.owed)
    <3>1. CASE Active(grant')
      <4>1. Above(grant, ghost'.owed)
        BY <3>1, OwedLess DEF IInv, OwedInv, GrantOwed
      <4> QED BY <3>1, <4>1, <1>0, AboveKept DEF GrantOwed, Active
    <3>2. CASE ~Active(grant')
      BY <3>2 DEF IInv, OwedInv, GrantOwed
    <3> QED BY <3>1, <3>2
  <2>2. SaveOwed(save, grant', ghost'.owed)
    BY OwedLess DEF IInv, OwedInv, SaveOwed
  <2>3. Expected(reg, ghost'.owed)
    BY OwedLess DEF IInv, OwedInv
  <2> QED BY <2>1, <2>2, <2>3, OffIs DEF IInv, OwedInv
<1>5. ReplayInv'
  <2>1. grant' # None => Covered(grant', reg, ghost.passed)
    BY <1>0 DEF IInv, ReplayInv, Covered
  <2> QED BY <2>1, OffIs DEF IInv, ReplayInv
<1>6. MailInv'
  <2>1. ghost'.sure \ Off.pushed = ghost'.sure
    BY OffIs
  <2> QED BY <2>1, OffIs DEF IInv, MailInv
<1> QED BY <1>1, <1>2, <1>3, <1>4, <1>5, <1>6 DEF IInv

(* Every field of the run but its phase.                                    *)
LEMMA PhaseOnly ==
  ASSUME NEW r \in Runs, NEW x \in Phase
  PROVE  LET q == [r EXCEPT !.pc = x] IN
         /\ q \in Runs /\ q.pc = x /\ q.grant = r.grant /\ q.devs = r.devs
         /\ q.listedAt = r.listedAt /\ q.next = r.next /\ q.todo = r.todo
         /\ q.failed = r.failed /\ q.found = r.found /\ q.pushed = r.pushed
BY DEF Runs

(* The run goes on to its next phase: nobody has been told of anything yet, *)
(* and the grant may have been marked idle.                                 *)
LEMMA RunMoved ==
  ASSUME IInv, NEW x \in {"defer", "refused", "mail", "read"},
         run.pc \in {"idle", "poll", "read"}, x = "read" => run.pc = "poll",
         run' = [run EXCEPT !.pc = x], UNCHANGED <<feed, reg, fcm, sso, save, turn>>,
         spent' \in [acts : Nat, faults : Nat], ghost' \in Ghosts,
         ghost'.owed = ghost.owed, ghost'.sure = ghost.sure, ghost'.twice = ghost.twice,
         ghost'.replayed = ghost.replayed,
         ghost'.passed = ghost.passed \/ (x # "read" /\ ghost'.passed = run.listedAt),
         grant' = grant \/
           /\ grant # None /\ grant' \in Grants /\ grant'.token = grant.token
           /\ NotesKept(grant, grant')
           /\ x # "defer" => MailKept(grant, grant'),
         grant' # None => Covered(grant', reg, ghost'.passed) /\ Logged(grant', ghost'.sure)
  PROVE  IInv'
<1>0. /\ grant' # None <=> grant # None
      /\ grant # None => grant'.token = grant.token /\ NotesKept(grant, grant')
  BY GrantIs DEF NotesKept
<1>r. /\ run' \in Runs /\ run'.pc = x /\ run'.grant = run.grant /\ run'.devs = run.devs
      /\ run'.listedAt = run.listedAt /\ run'.next = run.next /\ run'.todo = run.todo
      /\ run'.failed = run.failed /\ run'.found = run.found /\ run'.pushed = run.pushed
  <2>1. x \in Phase /\ run \in Runs
    BY DEF Phase, IInv, Typed
  <2> QED BY <2>1, PhaseOnly
<1>e. /\ run.pc \notin {"off", "listed", "defer", "rotated", "sending", "mailing"}
      /\ x \notin {"off", "listed", "rotated", "sending", "mailing", "idle", "poll"}
  OBVIOUS
<1>1. Typed'
  <2>1. Equipped(run')
    BY <1>r, <1>e DEF IInv, Typed, Equipped
  <2> QED BY <2>1, <1>r DEF IInv, Typed
<1>2. Tokens'
  <2>1. Held(grant, run)' \subseteq Held(grant, run)
    BY <1>0, <1>r, <1>e DEF Held
  <2> QED BY <2>1 DEF IInv, Tokens, TokensOf
<1>3. Past'
  <2>1. RunPast(run', feed.notes)
    BY <1>r, <1>e DEF IInv, Past, RunPast
  <2>2. GrantPast(grant', feed.notes)
    BY <1>0 DEF IInv, Past, GrantPast, NotesKept
  <2> QED BY <2>1, <2>2 DEF IInv, Past
<1>4. OwedInv'
  <2>1. GrantOwed(grant', ghost.owed)
    BY <1>0, AboveKept DEF IInv, OwedInv, GrantOwed, Active, NotesKept
  <2>2. SaveOwed(save, grant', ghost.owed)
    BY <1>0 DEF IInv, OwedInv, SaveOwed, Active, NotesKept
  <2>3. RunOwed(run', ghost.owed)
    BY <1>r, <1>e DEF IInv, OwedInv, RunOwed
  <2> QED BY <2>1, <2>2, <2>3 DEF IInv, OwedInv
<1>5. ReplayInv'
  <2>1. run.listedAt \in Nat /\ feed.notes \in Nat /\ run.listedAt <= feed.notes
    BY <1>e, RunIs, Bounds DEF IInv, Typed, Past, RunPast
  <2>2. RunCovered(run', reg, ghost'.passed)
    <3>1. ghost'.passed <= run'.listedAt
      BY <1>r, <1>e, <2>1 DEF IInv, ReplayInv, RunCovered
    <3>2. x = "read" => Covered(run'.grant, run'.devs, ghost'.passed)
      BY <1>r, <1>e DEF IInv, ReplayInv, RunCovered
    <3> QED BY <3>1, <3>2, <1>r, <1>e DEF RunCovered
  <2>3. WishesKnown(run', reg)
    BY <1>r, <1>e DEF IInv, ReplayInv, WishesKnown
  <2>4. ghost'.passed <= feed.notes
    BY <2>1 DEF IInv, ReplayInv
  <2> QED BY <2>2, <2>3, <2>4 DEF IInv, ReplayInv
<1>6. MailInv'
  <2>1. run.pushed = {} /\ ghost.sure \ run.pushed = ghost.sure
    BY <1>e DEF IInv, Typed, Equipped
  <2>2. Copied(grant', run')
    BY <1>0, <1>r, <1>e DEF IInv, MailInv, Copied, MailKept
  <2>3. Mailing(run', ghost.sure)
    BY <1>r, <1>e DEF Mailing
  <2>4. Logged(run'.grant, ghost.sure)
    BY <1>r, <1>e, <2>1 DEF IInv, MailInv
  <2> QED BY <2>1, <2>2, <2>3, <2>4, <1>r DEF IInv, MailInv
<1> QED BY <1>1, <1>2, <1>3, <1>4, <1>5, <1>6 DEF IInv

-----------------------------------------------------------------------------
(***************************************************************************)
(* The run's steps up to its first read of EVE.                             *)
(***************************************************************************)

LEMMA Spending ==
  ASSUME IInv
  PROVE  /\ Act => spent' \in [acts : Nat, faults : Nat]
         /\ Fault => spent' \in [acts : Nat, faults : Nat]
BY DEF IInv, Typed, Act, Fault

LEMMA GhostKept ==
  ASSUME IInv
  PROVE  /\ ghost \in Ghosts /\ spent \in [acts : Nat, faults : Nat]
         /\ run.pc # "mailing" => run.pushed = {} /\ ghost.sure \ run.pushed = ghost.sure
         /\ grant # None => grant \in Grants /\ grant.token = grant.token
BY DEF IInv, Typed, Equipped

LEMMA InitHolds == Init => IInv
<1> SUFFICES ASSUME Init PROVE IInv
  OBVIOUS
<1> DEFINE first == NewGrant(1, 0, TRUE)
<1>0. 1 \in 1..MaxTokens /\ 0 \in Notes /\ 0 \in Mails /\ 0 \in 0..(SleepingEvery - 1)
  BY Bounds DEF Mails
<1>1. /\ grant \in Grants /\ grant.token = 1 /\ grant.mark = 0 /\ grant.enabledAt = 0
      /\ grant.mailMark = None /\ grant.status = "active"
  <2>1. /\ first \in Grants /\ first.token = 1 /\ first.mark = 0 /\ first.enabledAt = 0
        /\ first.mailMark = None /\ first.status = "active"
    BY <1>0, NewGrantIs
  <2>2. grant = [first EXCEPT !.seen = Type]
    BY DEF Init
  <2> HIDE DEF first
  <2> QED BY <2>1, <2>2 DEF Grants
<1>g. /\ ghost \in Ghosts /\ ghost.owed = {} /\ ghost.sure = {} /\ ghost.passed = 0
      /\ ~ghost.twice /\ ~ghost.replayed
  BY <1>0 DEF Init, Ghosts
<1>i. /\ feed \in [notes : Notes, mails : Mails] /\ feed.notes = 0
      /\ reg \in RegMap /\ fcm \in [Device -> 1..2] /\ \A d \in Device : reg[d] = None
      /\ sso \in [minted : 1..MaxTokens, good : SUBSET (1..MaxTokens)]
      /\ sso.good = {1} /\ sso.minted = 1 /\ save = None /\ run = Off /\ turn = 0
      /\ spent \in [acts : Nat, faults : Nat]
  BY <1>0 DEF Init, RegMap
<1> HIDE DEF Init
<1>2. Typed
  BY <1>0, <1>1, <1>g, <1>i, OffIs DEF Typed
<1>3. Tokens
  <2>1. Held(grant, run) = {t \in 1..MaxTokens : grant # None /\ t = grant.token}
    BY <1>i, OffIs
  <2> QED BY <2>1, <1>1, <1>i DEF Tokens, TokensOf
<1>4. Past
  BY <1>1, <1>i, OffIs DEF Past, GrantPast, SavePast, StampsPast
<1>5. OwedInv
  BY <1>g, <1>i, OffIs DEF OwedInv, GrantOwed, SaveOwed, Expected, Above
<1>6. ReplayInv
  BY <1>1, <1>g, <1>i, OffIs DEF ReplayInv, Covered
<1>7. MailInv
  BY <1>1, <1>g, <1>i, OffIs DEF MailInv, Logged
<1> QED BY <1>2, <1>3, <1>4, <1>5, <1>6, <1>7 DEF IInv

LEMMA devicesForManyKeeps == IInv /\ devicesForMany => IInv'
<1> SUFFICES ASSUME IInv, devicesForMany PROVE IInv'
  OBVIOUS
<1> DEFINE plan == planGrant(run.grant, reg)
<1>1. plan \in {"idle", "off", "poll"}
  BY DEF planGrant
<1>2. CASE plan = "off"
  BY <1>2, RunEnded, GhostKept DEF devicesForMany, IInv, MailInv, OwedInv
<1>3. CASE plan # "off"
  <2>r. /\ run' \in Runs /\ run'.pc = plan /\ run'.grant = run.grant /\ run'.devs = reg
        /\ run'.listedAt = run.listedAt /\ run'.next = run.next /\ run'.todo = run.todo
        /\ run'.failed = run.failed /\ run'.found = run.found /\ run'.pushed = run.pushed
    <3> HIDE DEF plan
    <3>1. run' = [run EXCEPT !.pc = plan, !.devs = reg]
      BY <1>3 DEF devicesForMany, plan
    <3>2. plan \in Phase /\ run \in Runs /\ reg \in RegMap
      BY <1>1 DEF Phase, IInv, Typed
    <3> QED BY <3>1, <3>2 DEF Runs
  <2>e. run.pc = "listed" /\ run'.pc \in {"idle", "poll"}
    BY <1>1, <1>3, <2>r DEF devicesForMany
  <2>u. UNCHANGED <<feed, reg, fcm, grant, sso, save, turn, spent, ghost>>
    BY DEF devicesForMany
  <2> HIDE DEF plan
  <2>1. Typed'
    <3>1. run.todo = {} /\ run.pushed = {} /\ run.grant \in Grants /\ run.grant.status = "active"
      BY <2>e DEF IInv, Typed, Equipped
    <3>2. Equipped(run')
      BY <3>1, <2>r, <2>e DEF Equipped, IInv, Typed
    <3> QED BY <3>2, <2>r, <2>u DEF IInv, Typed
  <2>2. Tokens'
    <3>1. Held(grant, run)' \subseteq Held(grant, run)
      BY <2>r, <2>e, <2>u DEF Held
    <3> QED BY <3>1, <2>u DEF IInv, Tokens, TokensOf
  <2>3. Past'
    BY <2>r, <2>e, <2>u DEF IInv, Past, RunPast
  <2>4. OwedInv'
    BY <2>r, <2>e, <2>u DEF IInv, OwedInv, RunOwed
  <2>5. ReplayInv'
    <3>1. RunCovered(run', reg, ghost.passed)
      <4>1. plan = "idle" => Wishing(reg) = {}
        BY DEF plan, planGrant, AnyWanted, WantsNotes, Wishing
      <4> QED BY <4>1, <2>r, <2>e DEF IInv, ReplayInv, RunCovered
    <3>2. WishesKnown(run', reg)
      BY <2>r DEF WishesKnown
    <3> QED BY <3>1, <3>2, <2>u DEF IInv, ReplayInv
  <2>6. MailInv'
    BY <2>r, <2>e, <2>u DEF IInv, MailInv, Copied, Mailing
  <2> QED BY <2>1, <2>2, <2>3, <2>4, <2>5, <2>6 DEF IInv
<1> QED BY <1>2, <1>3

LEMMA listDueKeeps == IInv /\ listDue => IInv'
<1> SUFFICES ASSUME IInv, listDue PROVE IInv'
  OBVIOUS
<1>o. /\ run.pc = "off" /\ turn' \in 0..(SleepingEvery - 1)
      /\ UNCHANGED <<feed, reg, fcm, sso, save, spent, ghost>>
  BY NextTurn DEF listDue, IInv, Typed
<1>w. \A w \in {grant.wait - 1, 0} : grant # None /\ (grant.wait > 1 \/ w = 0) =>
         w \in 0..(IdleRecheck + SleepingEvery)
  BY GrantIs, Bounds DEF IInv, Typed
<1>g. /\ grant' # None <=> grant # None
      /\ grant # None => /\ grant' \in Grants /\ grant'.token = grant.token
                         /\ grant'.idle = grant.idle
                         /\ NotesKept(grant, grant') /\ MailKept(grant, grant')
  <2>1. CASE UNCHANGED grant
    BY <2>1 DEF IInv, Typed, NotesKept, MailKept
  <2>2. CASE Active(grant) /\ grant.wait > 1 /\ grant' = [grant EXCEPT !.wait = @ - 1]
    <3>1. grant \in Grants /\ grant.wait - 1 \in 0..(IdleRecheck + SleepingEvery)
      BY <2>2, <1>w DEF IInv, Typed, Active
    <3>2. grant' = [grant EXCEPT !.wait = grant.wait - 1]
      BY <2>2
    <3> QED BY <3>1, <3>2, Waiting, GrantIs
  <2>3. CASE Active(grant) /\ grant' = [grant EXCEPT !.wait = 0]
    <3>1. grant \in Grants /\ 0 \in 0..(IdleRecheck + SleepingEvery)
      BY <2>3, <1>w DEF IInv, Typed, Active
    <3> QED BY <3>1, <2>3, Waiting, GrantIs
  <2> QED BY <2>1, <2>2, <2>3 DEF listDue
<1>r. \/ run' = run
      \/ /\ Active(grant) /\ run'.grant = grant'
         /\ run' \in Runs /\ run'.pc = "listed" /\ run'.listedAt = feed.notes
         /\ run'.todo = {} /\ run'.pushed = {}
  <2> SUFFICES ASSUME run' # run PROVE
         /\ Active(grant) /\ run'.grant = grant'
         /\ run' \in Runs /\ run'.pc = "listed" /\ run'.listedAt = feed.notes
         /\ run'.todo = {} /\ run'.pushed = {}
    OBVIOUS
  <2>1. /\ Active(grant)
        /\ run' = [Off EXCEPT !.pc = "listed", !.grant = grant', !.listedAt = feed.notes]
    BY DEF listDue
  <2>2. feed.notes \in Notes /\ grant' \in Grants /\ "listed" \in Phase
    BY <2>1, <1>g DEF IInv, Typed, Active, Phase
  <2>3. Off \in Runs /\ Off.todo = {} /\ Off.pushed = {}
    BY OffIs
  <2> QED BY <2>1, <2>2, <2>3 DEF Runs
<1>1. Typed'
  <2>1. run' \in Runs /\ Equipped(run')
    <3>1. CASE run' = run
      BY <3>1 DEF IInv, Typed
    <3>2. CASE run' # run
      <4>1. run'.grant \in Grants /\ run'.grant.status = "active"
        BY <3>2, <1>r, <1>g DEF Active, NotesKept
      <4> QED BY <3>2, <4>1, <1>r DEF Equipped
    <3> QED BY <3>1, <3>2
  <2> QED BY <2>1, <1>o, <1>g DEF IInv, Typed
<1>2. Tokens'
  <2>1. Held(grant, run)' \subseteq Held(grant, run)
    BY <1>g, <1>r, <1>o DEF Held, Active
  <2> QED BY <2>1, <1>o DEF IInv, Tokens, TokensOf
<1>3. Past'
  <2>1. GrantPast(grant', feed.notes)
    BY <1>g DEF IInv, Past, GrantPast, NotesKept
  <2>2. RunPast(run', feed.notes)
    <3>1. CASE run' = run
      BY <3>1 DEF IInv, Past
    <3>2. CASE run' # run
      <4>1. feed.notes \in Nat
        BY Bounds DEF IInv, Typed
      <4> QED BY <3>2, <4>1, <1>r, <2>1 DEF RunPast
    <3> QED BY <3>1, <3>2
  <2> QED BY <2>1, <2>2, <1>o DEF IInv, Past
<1>4. OwedInv'
  <2>1. GrantOwed(grant', ghost.owed)
    BY <1>g, AboveKept DEF IInv, OwedInv, GrantOwed, Active, NotesKept
  <2>2. SaveOwed(save, grant', ghost.owed)
    BY <1>g DEF IInv, OwedInv, SaveOwed, Active, NotesKept
  <2>3. RunOwed(run', ghost.owed)
    <3>1. CASE run' = run
      BY <3>1 DEF IInv, OwedInv
    <3>2. CASE run' # run
      <4>1. Active(grant')
        BY <3>2, <1>r, <1>g DEF Active, NotesKept
      <4> QED BY <3>2, <4>1, <1>r, <2>1 DEF RunOwed, GrantOwed
    <3> QED BY <3>1, <3>2
  <2> QED BY <2>1, <2>2, <2>3, <1>o DEF IInv, OwedInv
<1>5. ReplayInv'
  <2>1. grant' # None => Covered(grant', reg, ghost.passed)
    BY <1>g DEF IInv, ReplayInv, Covered, NotesKept
  <2>2. RunCovered(run', reg, ghost.passed) /\ WishesKnown(run', reg)
    <3>1. CASE run' = run
      BY <3>1 DEF IInv, ReplayInv
    <3>2. CASE run' # run
      BY <3>2, <1>r, <1>g, <2>1 DEF IInv, ReplayInv, RunCovered, WishesKnown, Active
    <3> QED BY <3>1, <3>2
  <2> QED BY <2>1, <2>2, <1>o DEF IInv, ReplayInv
<1>6. MailInv'
  <2>0. run.pushed = {} /\ run'.pushed = {} /\ run'.pc \in {"off", "listed"}
    BY <1>o, <1>r DEF IInv, Typed, Equipped
  <2>1. grant' # None => Logged(grant', ghost.sure \ run'.pushed)
    BY <2>0, <1>g DEF IInv, MailInv, Logged, MailKept
  <2>2. run'.pc # "off" => Logged(run'.grant, ghost.sure \ run'.pushed)
    BY <2>1, <1>o, <1>r, <1>g DEF Active
  <2>3. Copied(grant', run') /\ Mailing(run', ghost.sure)
    BY <2>0, <1>o, <1>r DEF Copied, Mailing
  <2> QED BY <2>0, <2>1, <2>2, <2>3, <1>o DEF IInv, MailInv
<1> QED BY <1>1, <1>2, <1>3, <1>4, <1>5, <1>6 DEF IInv

LEMMA Passing ==
  ASSUME IInv, run.pc \in {"idle", "read"}
  PROVE  /\ Max({ghost.passed, run.listedAt}) = run.listedAt
         /\ ghost.passed \in Notes /\ run.listedAt \in Notes
         /\ [ghost EXCEPT !.passed = run.listedAt] \in Ghosts
         /\ Wishing(run.devs) = {} => Since(reg, run.listedAt)
<1>1. /\ ghost.passed \in Notes /\ run.listedAt \in Notes /\ ghost.passed <= run.listedAt
      /\ ghost \in Ghosts
  BY RunIs, GhostIs DEF IInv, Typed, ReplayInv, RunCovered
<1>2. Max({ghost.passed, run.listedAt}) = run.listedAt
  <2>1. ghost.passed \in Nat /\ run.listedAt \in Nat
    BY <1>1, Bounds
  <2>2. /\ Max({ghost.passed, run.listedAt}) \in {ghost.passed, run.listedAt}
        /\ run.listedAt <= Max({ghost.passed, run.listedAt})
    BY <2>1, MaxOfTwo
  <2> QED BY <1>1, <2>1, <2>2
<1>3. [ghost EXCEPT !.passed = run.listedAt] \in Ghosts
  BY <1>1 DEF Ghosts
<1>4. Wishing(run.devs) = {} => Since(reg, run.listedAt)
  BY DEF IInv, ReplayInv, WishesKnown, Since
<1> QED BY <1>1, <1>2, <1>3, <1>4

(* The grant goes idle, with or without its mail.                           *)
LEMMA Idled ==
  ASSUME IInv, run.pc \in {"idle", "read"}, Guarded(grant), Wishing(run.devs) = {},
         NEW x \in {"defer", "mail"}, run' = [run EXCEPT !.pc = x],
         grant' = MarkNotesIdle(grant)
           \/ (x = "defer" /\ grant' = MarkNotesIdle(ForgetMail(grant))),
         ghost' = [ghost EXCEPT !.passed = Max({@, run.listedAt})],
         UNCHANGED <<feed, reg, fcm, sso, save, turn, spent>>
  PROVE  IInv'
<1>1. grant \in Grants /\ run.pushed = {} /\ ghost.sure \ run.pushed = ghost.sure
  BY GhostKept DEF Guarded, IInv, Typed
<1>2. /\ grant' \in Grants /\ grant'.token = grant.token /\ grant'.idle
      /\ NotesKept(grant, grant')
      /\ x # "defer" => MailKept(grant, grant')
      /\ MailKept(grant, grant') \/ grant'.mailMark = None
  <2>1. CASE grant' = MarkNotesIdle(grant)
    BY <2>1, <1>1, MarkNotesIdleIs
  <2>2. CASE x = "defer" /\ grant' = MarkNotesIdle(ForgetMail(grant))
    <3>1. PICK f \in Grants : /\ f = ForgetMail(grant) /\ f.token = grant.token
                              /\ NotesKept(grant, f) /\ f.mailMark = None
      BY <1>1, ForgetMailIs
    <3>2. /\ grant' \in Grants /\ grant'.token = f.token /\ grant'.idle
          /\ NotesKept(f, grant') /\ MailKept(f, grant')
      BY <2>2, <3>1, MarkNotesIdleIs
    <3> QED BY <2>2, <3>1, <3>2 DEF NotesKept, MailKept
  <2> QED BY <2>1, <2>2
<1>3. ghost' = [ghost EXCEPT !.passed = run.listedAt]
  BY Passing
<1>4. /\ ghost' \in Ghosts /\ ghost'.owed = ghost.owed /\ ghost'.sure = ghost.sure
      /\ ghost'.twice = ghost.twice /\ ghost'.replayed = ghost.replayed
      /\ ghost'.passed = run.listedAt
  BY <1>3, Passing DEF IInv, Typed, Ghosts
<1>5. Covered(grant', reg, ghost'.passed)
  BY <1>2, <1>4, Passing DEF Covered
<1>6. Logged(grant', ghost'.sure)
  BY <1>1, <1>2, <1>4, GrantIs DEF IInv, MailInv, Logged, MailKept
<1>7. grant # None
  BY <1>1, GrantIs
<1>8. /\ spent' \in [acts : Nat, faults : Nat] /\ run.pc \in {"idle", "poll", "read"}
      /\ x # "read" /\ x \in {"defer", "refused", "mail", "read"}
      /\ UNCHANGED <<feed, reg, fcm, sso, save, turn>>
  BY GhostKept
<1>9. grant' = grant \/
        /\ grant # None /\ grant' \in Grants /\ grant'.token = grant.token
        /\ NotesKept(grant, grant')
        /\ x # "defer" => MailKept(grant, grant')
  BY <1>2, <1>7
<1> QED BY <1>4, <1>5, <1>6, <1>8, <1>9, RunMoved

LEMMA markIdleKeeps == IInv /\ markIdle => IInv'
<1> SUFFICES ASSUME IInv, markIdle PROVE IInv'
  OBVIOUS
<1>1. Wishing(run.devs) = {} /\ run.pc = "idle"
  BY DEF markIdle, IInv, ReplayInv, RunCovered
<1>2. CASE Guarded(grant)
  BY <1>1, <1>2, Idled DEF markIdle
<1>3. CASE ~Guarded(grant)
  BY <1>1, <1>3, RunMoved, GhostKept DEF markIdle, IInv, ReplayInv, MailInv
<1> QED BY <1>2, <1>3

LEMMA deferNextPollKeeps == IInv /\ deferNextPoll => IInv'
<1> SUFFICES ASSUME IInv, deferNextPoll PROVE IInv'
  OBVIOUS
<1>1. CASE Guarded(grant)
  <2>1. grant \in Grants /\ grant # None
    BY <1>1 DEF Guarded, IInv, Typed
  <2>2. /\ grant' \in Grants /\ grant'.token = grant.token /\ grant'.idle = grant.idle
        /\ NotesKept(grant, grant') /\ MailKept(grant, grant')
    BY <1>1, <2>1, Waiting, RecheckBounded DEF deferNextPoll, IInv, Typed
  <2>3. Logged(grant', ghost.sure)
    BY <2>1, <2>2, GhostKept DEF deferNextPoll, IInv, MailInv, Logged, MailKept
  <2>4. /\ run' = Off /\ UNCHANGED <<feed, reg, fcm, sso, save, turn>>
        /\ spent' = spent /\ ghost' = ghost
    BY DEF deferNextPoll
  <2>5. Active(grant') <=> Active(grant)
    BY <2>1, <2>2, GrantIs DEF Active, NotesKept
  <2>6. grant'.mark = grant.mark /\ grant'.enabledAt = grant.enabledAt
    BY <2>2 DEF NotesKept
  <2> QED BY <2>1, <2>2, <2>3, <2>4, <2>5, <2>6, RunEnded, GhostKept
<1>2. CASE ~Guarded(grant)
  BY <1>2, RunEnded, GhostKept DEF deferNextPoll, IInv, MailInv
<1> QED BY <1>1, <1>2

LEMMA RefreshAtSsoKeeps == IInv /\ RefreshAtSso => IInv'
<1> SUFFICES ASSUME IInv, RefreshAtSso PROVE IInv'
  OBVIOUS
<1>1. CASE run' = [run EXCEPT !.pc = "read"] /\ UNCHANGED sso
  <2>1. /\ UNCHANGED <<feed, reg, fcm, sso, save, turn>> /\ UNCHANGED <<grant, spent, ghost>>
        /\ run.pc = "poll" /\ "read" \in {"defer", "refused", "mail", "read"}
    BY <1>1 DEF RefreshAtSso
  <2>2. grant # None => Covered(grant, reg, ghost.passed) /\ Logged(grant, ghost.sure)
    BY <2>1, GhostKept DEF IInv, ReplayInv, MailInv
  <2> QED BY <1>1, <2>1, <2>2, GhostKept, RunMoved
<1>2. CASE ~(run' = [run EXCEPT !.pc = "read"] /\ UNCHANGED sso)
  <2> DEFINE t == sso.minted + 1
  <2>s. /\ sso.minted < MaxTokens /\ run.pc = "poll" /\ run.grant.token \in sso.good
        /\ sso' = [minted |-> t, good |-> (sso.good \ {run.grant.token}) \cup {t}]
        /\ run' = [run EXCEPT !.pc = "rotated", !.next = t]
        /\ UNCHANGED <<feed, reg, fcm, grant, save, turn, spent, ghost>>
    BY <1>2 DEF RefreshAtSso
  <2>t. /\ sso.minted \in 1..MaxTokens /\ t \in 1..MaxTokens /\ t > sso.minted
        /\ sso.good \subseteq 1..sso.minted /\ sso.minted \in Nat
    BY <2>s, Bounds DEF IInv, Typed
  <2>r. /\ run' \in Runs /\ run'.pc = "rotated" /\ run'.grant = run.grant /\ run'.devs = run.devs
        /\ run'.listedAt = run.listedAt /\ run'.next = t /\ run'.todo = run.todo
        /\ run'.failed = run.failed /\ run'.found = run.found /\ run'.pushed = run.pushed
    <3> HIDE DEF t
    <3>1. "rotated" \in Phase /\ run \in Runs
      BY DEF Phase, IInv, Typed
    <3> QED BY <3>1, <2>s, <2>t DEF Runs
  <2> HIDE DEF t
  <2>1. Typed'
    <3>1. Equipped(run')
      BY <2>s, <2>r, <2>t DEF IInv, Typed, Equipped
    <3>2. /\ sso' \in [minted : 1..MaxTokens, good : SUBSET (1..MaxTokens)]
          /\ sso'.good \subseteq 1..sso'.minted
      <4>1. 1..sso.minted \subseteq 1..t /\ t \in 1..t /\ 1..t \subseteq 1..MaxTokens
        BY <2>t, Bounds
      <4>2. (sso.good \ {run.grant.token}) \cup {t} \subseteq 1..t
        BY <4>1, <2>t
      <4> QED BY <4>1, <4>2, <2>s, <2>t
    <3> QED BY <3>1, <3>2, <2>s, <2>r DEF IInv, Typed
  <2>2. Tokens'
    <3>1. Held(grant', run') \subseteq Held(grant, run) \cup {t}
      BY <2>s, <2>r DEF Held
    <3>2. run.grant.token \in Held(grant, run)
      BY <2>s, GrantIs DEF Held, IInv, Typed, Equipped
    <3>3. /\ Held(grant, run) \subseteq 1..sso.minted
          /\ save # None => save.token \in sso.good /\ save.token \notin Held(grant, run)
      BY DEF IInv, Tokens, TokensOf
    <3>4. sso'.minted = t /\ sso'.good = (sso.good \ {run.grant.token}) \cup {t}
      BY <2>s
    <3>5. 1..sso.minted \subseteq 1..t /\ t \in 1..t
      BY <2>t
    <3>6. save # None => save.token \in sso'.good /\ save.token \notin Held(grant, run) \cup {t}
      BY <3>2, <3>3, <3>4, <2>t
    <3>7. TokensOf(sso', save', Held(grant', run'))
      BY <3>1, <3>3, <3>4, <3>5, <3>6, <2>s DEF TokensOf
    <3> QED BY <3>7 DEF Tokens
  <2>3. Past'
    BY <2>s, <2>r DEF IInv, Past, RunPast
  <2>4. OwedInv'
    BY <2>s, <2>r DEF IInv, OwedInv, RunOwed
  <2>5. ReplayInv'
    BY <2>s, <2>r DEF IInv, ReplayInv, RunCovered, WishesKnown
  <2>6. MailInv'
    BY <2>s, <2>r DEF IInv, MailInv, Copied, Mailing
  <2> QED BY <2>1, <2>2, <2>3, <2>4, <2>5, <2>6 DEF IInv
<1> QED BY <1>1, <1>2 DEF RefreshAtSso

LEMMA GivesUp ==
  ASSUME IInv, NEW x \in {"refused", "mail"}, run.pc \in {"poll", "read"},
         run' = [run EXCEPT !.pc = x],
         UNCHANGED <<feed, reg, fcm, grant, sso, save, turn, ghost>>,
         spent' \in [acts : Nat, faults : Nat]
  PROVE  IInv'
<1>1. /\ UNCHANGED <<feed, reg, fcm, sso, save, turn>> /\ UNCHANGED <<grant, ghost>>
      /\ run.pc \in {"idle", "poll", "read"} /\ x \in {"defer", "refused", "mail", "read"}
      /\ x # "read"
  OBVIOUS
<1>2. grant # None => Covered(grant, reg, ghost.passed) /\ Logged(grant, ghost.sure)
  BY <1>1, GhostKept DEF IInv, ReplayInv, MailInv
<1> QED BY <1>1, <1>2, GhostKept, RunMoved

LEMMA InvalidGrantKeeps == IInv /\ InvalidGrant => IInv'
<1> SUFFICES ASSUME IInv, InvalidGrant PROVE IInv'
  OBVIOUS
<1>1. /\ run.pc \in {"poll", "read"} /\ run' = [run EXCEPT !.pc = "refused"]
      /\ UNCHANGED <<feed, reg, fcm, grant, sso, save, turn, ghost>>
      /\ spent' \in [acts : Nat, faults : Nat]
  BY GhostKept DEF InvalidGrant
<1> QED BY <1>1, GivesUp

LEMMA FeedFailsKeeps == IInv /\ FeedFails => IInv'
<1> SUFFICES ASSUME IInv, FeedFails PROVE IInv'
  OBVIOUS
<1>1. PICK x \in {"refused", "mail"} : run' = [run EXCEPT !.pc = x]
  BY DEF FeedFails
<1>2. /\ run.pc \in {"poll", "read"}
      /\ UNCHANGED <<feed, reg, fcm, grant, sso, save, turn, ghost>>
      /\ spent' \in [acts : Nat, faults : Nat]
  BY Spending DEF FeedFails
<1> QED BY <1>1, <1>2, GivesUp

LEMMA SkipFeedKeeps == IInv /\ SkipFeed => IInv'
<1> SUFFICES ASSUME IInv, SkipFeed PROVE IInv'
  OBVIOUS
<1>1. /\ run.pc = "read" /\ run' = [run EXCEPT !.pc = "mail"]
      /\ UNCHANGED <<feed, reg, fcm, sso, save, turn, spent>>
  BY DEF SkipFeed
<1>2. CASE IdleNotes(run.grant, run.devs) /\ Guarded(grant)
  <2>1. /\ grant' = MarkNotesIdle(grant)
        /\ ghost' = [ghost EXCEPT !.passed = Max({@, run.listedAt})]
    BY <1>2 DEF SkipFeed
  <2>2. Wishing(run.devs) = {}
    BY <1>2 DEF IdleNotes, WantsNotes, Wishing
  <2> QED BY <1>1, <1>2, <2>1, <2>2, Idled
<1>3. CASE ~(IdleNotes(run.grant, run.devs) /\ Guarded(grant))
  <2>1. /\ run.pc \in {"poll", "read"}
        /\ UNCHANGED <<feed, reg, fcm, grant, sso, save, turn, ghost>>
        /\ spent' \in [acts : Nat, faults : Nat]
    BY <1>1, <1>3, GhostKept DEF SkipFeed
  <2> QED BY <1>1, <2>1, GivesUp
<1> QED BY <1>2, <1>3

LEMMA WriteRotatedKeeps == IInv /\ WriteRotated => IInv'
<1> SUFFICES ASSUME IInv, WriteRotated PROVE IInv'
  OBVIOUS
<1>1. CASE ~Guarded(grant)
  BY <1>1, RunEnded, GhostKept DEF WriteRotated, IInv, MailInv
<1>2. CASE Guarded(grant)
  <2>u. /\ run.pc = "rotated" /\ run.grant \in Grants /\ run.next \in 1..MaxTokens
        /\ grant \in Grants /\ grant # None /\ grant.token = run.grant.token
        /\ UNCHANGED <<feed, reg, fcm, sso, save, turn, spent, ghost>>
    BY <1>2 DEF WriteRotated, Guarded, IInv, Typed, Equipped
  <2>g. /\ grant' \in Grants /\ grant' # None /\ grant'.token = run.next
        /\ grant'.idle = grant.idle /\ NotesKept(grant, grant') /\ MailKept(grant, grant')
    <3>1. grant' = [grant EXCEPT !.token = run.next]
      BY <1>2 DEF WriteRotated
    <3> QED BY <3>1, <2>u, RotatedIs, GrantIs
  <2>r. /\ run' \in Runs /\ run'.pc = "read" /\ run'.devs = run.devs
        /\ run'.grant \in Grants /\ run'.grant.token = run.next
        /\ run'.grant.idle = run.grant.idle
        /\ NotesKept(run.grant, run'.grant) /\ MailKept(run.grant, run'.grant)
        /\ run'.listedAt = run.listedAt /\ run'.next = run.next /\ run'.todo = run.todo
        /\ run'.failed = run.failed /\ run'.found = run.found /\ run'.pushed = run.pushed
    <3> DEFINE h == [run.grant EXCEPT !.token = run.next]
    <3>1. /\ h \in Grants /\ h.token = run.next /\ h.idle = run.grant.idle
          /\ NotesKept(run.grant, h) /\ MailKept(run.grant, h)
      BY <2>u, RotatedIs
    <3>2. run' = [run EXCEPT !.pc = "read", !.grant = h]
      BY <1>2 DEF WriteRotated, IInv, Typed, Runs
    <3>3. "read" \in Phase /\ run \in Runs
      BY DEF Phase, IInv, Typed
    <3> HIDE DEF h
    <3> QED BY <3>1, <3>2, <3>3 DEF Runs
  <2>1. Typed'
    <3>1. Equipped(run')
      BY <2>u, <2>r DEF IInv, Typed, Equipped, NotesKept
    <3> QED BY <3>1, <2>u, <2>r, <2>g DEF IInv, Typed
  <2>2. Tokens'
    <3>1. Held(grant', run') \subseteq Held(grant, run)
      BY <2>u, <2>r, <2>g DEF Held
    <3> QED BY <3>1, <2>u DEF IInv, Tokens, TokensOf
  <2>3. Past'
    <3>1. GrantPast(grant', feed.notes)
      BY <2>u, <2>g DEF IInv, Past, GrantPast, NotesKept
    <3>2. RunPast(run', feed.notes)
      <4>1. GrantPast(run.grant, feed.notes) /\ run.grant # None
        BY <2>u, GrantIs DEF IInv, Past, RunPast
      <4>2. GrantPast(run'.grant, feed.notes)
        BY <4>1, <2>r DEF GrantPast, NotesKept
      <4> QED BY <4>2, <2>u, <2>r DEF IInv, Past, RunPast
    <3> QED BY <3>1, <3>2, <2>u DEF IInv, Past
  <2>4. OwedInv'
    <3>1. GrantOwed(grant', ghost.owed)
      BY <2>u, <2>g, AboveKept DEF IInv, OwedInv, GrantOwed, Active, NotesKept
    <3>2. SaveOwed(save, grant', ghost.owed)
      BY <2>u, <2>g DEF IInv, OwedInv, SaveOwed, Active, NotesKept
    <3>3. Above(run'.grant, ghost.owed)
      BY <2>u, <2>r, AboveKept DEF IInv, OwedInv, RunOwed, NotesKept
    <3> QED BY <3>1, <3>2, <3>3, <2>u, <2>r DEF IInv, OwedInv, RunOwed
  <2>5. ReplayInv'
    BY <2>u, <2>r, <2>g DEF IInv, ReplayInv, RunCovered, WishesKnown, Covered, NotesKept
  <2>6. MailInv'
    BY <2>u, <2>r, <2>g DEF IInv, MailInv, Copied, Mailing, Logged, MailKept
  <2> QED BY <2>1, <2>2, <2>3, <2>4, <2>5, <2>6 DEF IInv
<1> QED BY <1>1, <1>2

LEMMA markRevokedKeeps == IInv /\ markRevoked => IInv'
<1> SUFFICES ASSUME IInv, markRevoked PROVE IInv'
  OBVIOUS
<1>0. run.pc = "refused" /\ run' = Off /\ UNCHANGED <<feed, reg, fcm, sso, save, turn>> /\ spent' = spent
  BY DEF markRevoked
<1>1. CASE Guarded(grant)
  <2>1. grant \in Grants /\ grant # None
    BY <1>1 DEF Guarded, IInv, Typed
  <2>2. /\ grant' \in Grants /\ grant'.token = grant.token /\ grant'.idle = grant.idle
        /\ grant'.status = "revoked" /\ MailKept(grant, grant')
        /\ grant'.mark = grant.mark /\ grant'.enabledAt = grant.enabledAt
    BY <1>1, <2>1, RevokedIs DEF markRevoked
  <2>3. /\ ghost' \in Ghosts /\ ghost'.owed = {} /\ ghost'.sure = ghost.sure
        /\ ghost'.passed = ghost.passed /\ ghost'.twice = ghost.twice
        /\ ghost'.replayed = ghost.replayed
    BY <1>1 DEF markRevoked, IInv, Typed, Ghosts
  <2>4. Logged(grant', ghost'.sure)
    BY <1>0, <2>1, <2>2, <2>3, GhostKept DEF IInv, MailInv, Logged, MailKept
  <2>5. ~Active(grant')
    BY <2>2 DEF Active
  <2> QED BY <1>0, <2>1, <2>2, <2>3, <2>4, <2>5, RunEnded, GhostKept
<1>2. CASE ~Guarded(grant)
  BY <1>2, RunEnded, GhostKept DEF markRevoked, IInv, MailInv
<1> QED BY <1>1, <1>2

-----------------------------------------------------------------------------
(***************************************************************************)
(* The feed.                                                                *)
(***************************************************************************)

LEMMA PushesIs ==
  ASSUME NEW ids
  PROVE  /\ \A b \in buildPushes(ids) : b \subseteq ids
         /\ \A n \in ids : \E b \in buildPushes(ids) : n \in b
<1>1. CASE buildPushes(ids) = {ids}
  BY <1>1
<1>2. CASE buildPushes(ids) = {{n} : n \in ids}
  BY <1>2
<1> QED BY <1>1, <1>2 DEF buildPushes

(* The feed resumes at the earliest wish, or at the listing.                *)
LEMMA WakeIs ==
  ASSUME run.listedAt \in Nat, run.devs \in RegMap
  PROVE  /\ wakeCutoff \in Nat
         /\ \A d \in Wishing(run.devs) : wakeCutoff <= run.devs[d].stamp
         /\ \A n \in Nat : n <= run.listedAt /\ Since(run.devs, n) => n <= wakeCutoff
<1> DEFINE S == {run.listedAt} \cup {run.devs[d].stamp : d \in Wishing(run.devs)}
<1>1. wakeCutoff = Min(S)
  BY DEF wakeCutoff, Wishing
<1>2. \A d \in Wishing(run.devs) : run.devs[d].stamp \in Nat
  BY RegIs, Bounds DEF Wishing, Live
<1>3. S \subseteq Nat /\ S # {}
  BY <1>2
<1>4. Min(S) \in S /\ \A n \in S : Min(S) <= n
  <2> HIDE DEF S
  <2> QED BY <1>3, MinExists
<1>5. \A d \in Wishing(run.devs) : run.devs[d].stamp \in S
  OBVIOUS
<1>6. \A n \in Nat : n <= run.listedAt /\ Since(run.devs, n) => \A m \in S : n <= m
  BY DEF Since
<1> HIDE DEF S
<1> QED BY <1>1, <1>3, <1>4, <1>5, <1>6

(* What a device gets: nothing that is behind it, and all it is owed.       *)
LEMMA PushableIs ==
  ASSUME IInv, run.pc = "read", NEW d \in Device
  PROVE  /\ Pushable(d) \subseteq Ids /\ \A n \in Pushable(d) : n > ghost.passed
         /\ \A n \in 1..MaxNotes :
              <<d, n>> \in ghost.owed /\ ~FirstSighting(n) => n \in Pushable(d) /\ d \in Live(run.devs)
<1>1. /\ run.grant \in Grants /\ run.devs \in RegMap /\ run.listedAt \in Nat
      /\ run.grant.enabledAt \in Nat /\ run.grant.mark \in Nat /\ run.grant.idle \in BOOLEAN
      /\ feed.notes \in Notes /\ feed.notes \in Nat /\ ghost.passed \in Nat
      /\ ghost.owed \subseteq Device \X (1..MaxNotes)
  BY GrantIs, RunIs, GhostIs, Bounds DEF IInv, Typed, Equipped
<1>2. /\ wakeCutoff \in Nat
      /\ \A x \in Wishing(run.devs) : wakeCutoff <= run.devs[x].stamp
      /\ \A n \in Nat : n <= run.listedAt /\ Since(run.devs, n) => n <= wakeCutoff
  BY <1>1, WakeIs
<1>3. /\ enabledAt \in Nat /\ run.grant.enabledAt <= enabledAt
      /\ run.grant.idle => enabledAt \in {run.grant.enabledAt, wakeCutoff} /\ wakeCutoff <= enabledAt
      /\ ~run.grant.idle => enabledAt = run.grant.enabledAt
  <2>1. CASE run.grant.idle
    BY <2>1, <1>1, <1>2, MaxOfTwo DEF enabledAt
  <2>2. CASE ~run.grant.idle
    BY <2>2, <1>1 DEF enabledAt
  <2> QED BY <2>1, <2>2
<1>4. Pushable(d) \subseteq Ids
  <2>1. 1..feed.notes \subseteq Ids
    BY <1>1, Bounds DEF Notes, Ids
  <2> QED BY <2>1 DEF Pushable
<1>5. \A n \in Pushable(d) : n > ghost.passed
  <2> SUFFICES ASSUME NEW n \in Pushable(d) PROVE n > ghost.passed
    OBVIOUS
  <2>1. n \in Nat /\ n > run.grant.mark /\ n > enabledAt
    BY <1>1 DEF Pushable
  <2>2. Covered(run.grant, run.devs, ghost.passed) /\ ghost.passed <= run.listedAt
    BY DEF IInv, ReplayInv, RunCovered
  <2>3. CASE ghost.passed <= run.grant.mark
    BY <2>1, <2>3, <1>1
  <2>4. CASE ghost.passed <= run.grant.enabledAt
    BY <2>1, <2>4, <1>1, <1>3
  <2>5. CASE run.grant.idle /\ Since(run.devs, ghost.passed)
    <3>1. ghost.passed <= wakeCutoff
      BY <2>2, <2>5, <1>1, <1>2
    <3> QED BY <3>1, <2>1, <2>5, <1>1, <1>2, <1>3
  <2> QED BY <2>2, <2>3, <2>4, <2>5 DEF Covered
<1>6. ASSUME NEW n \in 1..MaxNotes, <<d, n>> \in ghost.owed, ~FirstSighting(n)
      PROVE  n \in Pushable(d) /\ d \in Live(run.devs)
  <2>1. /\ n \in Nat /\ n <= feed.notes /\ n > run.grant.mark /\ n > run.grant.enabledAt
        /\ Wanting(run.devs, d, n) /\ n > run.devs[d].stamp
    BY <1>6, Bounds DEF IInv, OwedInv, RunOwed, Above, Expected
  <2>2. d \in Wishing(run.devs) /\ d \in Live(run.devs) /\ run.devs[d].stamp \in Nat
    BY <2>1, <1>1, RegIs, Bounds DEF Wanting, Wishing, Live
  <2>3. n > enabledAt
    BY <2>1, <2>2, <1>1, <1>2, <1>3
  <2>4. n \in 1..feed.notes
    BY <2>1, <1>1, <1>6, Bounds
  <2>5. KindOf[n] \in run.devs[d].types
    BY <2>1 DEF Wanting
  <2> QED BY <2>1, <2>2, <2>3, <2>4, <2>5, <1>6 DEF Pushable
<1> QED BY <1>4, <1>5, <1>6

LEMMA ReadFeedKeeps == IInv /\ ReadFeed => IInv'
<1> SUFFICES ASSUME IInv, ReadFeed PROVE IInv'
  OBVIOUS
<1>0. /\ run.pc = "read" /\ UNCHANGED <<feed, reg, fcm, grant, sso, save, turn, spent>>
      /\ run.grant \in Grants /\ run.devs \in RegMap /\ run.pushed = {}
      /\ feed.notes \in Notes /\ feed.notes \in Nat
  BY Bounds DEF ReadFeed, IInv, Typed, Equipped
<1>1. CASE NotModified
  <2>1. /\ run.pc \in {"poll", "read"} /\ run' = [run EXCEPT !.pc = "mail"]
        /\ UNCHANGED <<feed, reg, fcm, grant, sso, save, turn, ghost>>
        /\ spent' \in [acts : Nat, faults : Nat]
    BY <1>0, <1>1, GhostKept DEF ReadFeed
  <2> QED BY <2>1, GivesUp
<1>2. CASE ~NotModified
  <2> DEFINE T(q) == UNION {{<<d, ids>> : ids \in buildPushes(Pushable(d))}
                              : d \in Live(run.devs) \ q}
  <2>1. PICK quiet \in SUBSET (Quiet \cap Live(run.devs)) :
          /\ run' = [run EXCEPT !.pc = "sending", !.found = feed.notes, !.todo = T(quiet)]
          /\ ghost' = [ghost EXCEPT !.owed =
                {q \in @ : q[1] \notin quiet /\ ~FirstSighting(q[2])}]
    BY <1>2 DEF ReadFeed
  <2> DEFINE todo == T(quiet)
             owed == {q \in ghost.owed : q[1] \notin quiet /\ ~FirstSighting(q[2])}
  <2>2. /\ \A m \in todo : /\ m = <<m[1], m[2]>> /\ m[1] \in Live(run.devs)
                           /\ m[2] \subseteq Pushable(m[1])
        /\ \A d \in Live(run.devs) \ quiet : \A n \in Pushable(d) :
              \E m \in todo : m[1] = d /\ n \in m[2]
    <3>1. ASSUME NEW m \in todo
          PROVE  /\ m = <<m[1], m[2]>> /\ m[1] \in Live(run.devs)
                 /\ m[2] \subseteq Pushable(m[1])
      <4>1. PICK d \in Live(run.devs) \ quiet : \E ids \in buildPushes(Pushable(d)) : m = <<d, ids>>
        OBVIOUS
      <4> QED BY <4>1, PushesIs
    <3>2. ASSUME NEW d \in Live(run.devs) \ quiet, NEW n \in Pushable(d)
          PROVE  \E m \in todo : m[1] = d /\ n \in m[2]
      <4>1. PICK b \in buildPushes(Pushable(d)) : n \in b
        BY PushesIs
      <4>2. <<d, b>> \in todo
        OBVIOUS
      <4> QED BY <4>1, <4>2
    <3> QED BY <3>1, <3>2
  <2>3. todo \subseteq Device \X SUBSET Ids /\ \A m \in todo : run.devs[m[1]] # None
    <3> SUFFICES ASSUME NEW m \in todo PROVE m \in Device \X SUBSET Ids /\ run.devs[m[1]] # None
      OBVIOUS
    <3>1. m = <<m[1], m[2]>> /\ m[1] \in Device /\ run.devs[m[1]] # None
      BY <2>2 DEF Live
    <3>2. m[2] \subseteq Ids
      BY <2>2, <3>1, <1>0, PushableIs
    <3> QED BY <3>1, <3>2
  <2>4. owed \subseteq ghost.owed
    OBVIOUS
  <2>5. /\ ghost' \in Ghosts /\ ghost'.owed = owed /\ ghost'.passed = ghost.passed
        /\ ghost'.sure = ghost.sure /\ ghost'.twice = ghost.twice
        /\ ghost'.replayed = ghost.replayed
    <3>1. ghost' = [ghost EXCEPT !.owed = owed]
      BY <2>1
    <3> HIDE DEF owed
    <3> QED BY <3>1, <2>4 DEF IInv, Typed, Ghosts
  <2>r. /\ run' \in Runs /\ run'.pc = "sending" /\ run'.grant = run.grant /\ run'.devs = run.devs
        /\ run'.listedAt = run.listedAt /\ run'.todo = todo /\ run'.found = feed.notes
        /\ run'.failed = run.failed /\ run'.pushed = {}
    <3>1. run' = [run EXCEPT !.pc = "sending", !.found = feed.notes, !.todo = todo]
      BY <2>1
    <3>2. "sending" \in Phase /\ run \in Runs /\ feed.notes \in Nums
      BY <1>0, Bounds DEF Phase, IInv, Typed
    <3> HIDE DEF todo
    <3> QED BY <3>1, <3>2, <2>3, <1>0 DEF Runs
  <2>6. \A p \in owed : \E m \in todo : m[1] = p[1] /\ p[2] \in m[2]
    <3> SUFFICES ASSUME NEW p \in owed PROVE \E m \in todo : m[1] = p[1] /\ p[2] \in m[2]
      OBVIOUS
    <3>1. p \in ghost.owed /\ p[1] \notin quiet /\ ~FirstSighting(p[2])
      OBVIOUS
    <3>2. p = <<p[1], p[2]>> /\ p[1] \in Device /\ p[2] \in 1..MaxNotes
      BY <3>1, GhostIs DEF IInv, Typed
    <3>3. p[2] \in Pushable(p[1]) /\ p[1] \in Live(run.devs)
      BY <3>1, <3>2, <1>0, PushableIs
    <3> HIDE DEF todo
    <3> QED BY <3>1, <3>3, <2>2
  <2> HIDE DEF todo, owed
  <2>7. Typed'
    <3>1. Equipped(run')
      BY <2>3, <2>r, <1>0 DEF Equipped, IInv, Typed
    <3> QED BY <3>1, <2>5, <2>r, <1>0 DEF IInv, Typed
  <2>8. Tokens'
    <3>1. Held(grant, run)' \subseteq Held(grant, run)
      BY <2>r, <1>0 DEF Held
    <3> QED BY <3>1, <1>0 DEF IInv, Tokens, TokensOf
  <2>9. Past'
    BY <2>r, <1>0 DEF IInv, Past, RunPast
  <2>10. OwedInv'
    <3>1. GrantOwed(grant, owed) /\ SaveOwed(save, grant, owed)
      BY <2>4, OwedLess DEF IInv, OwedInv, GrantOwed, SaveOwed
    <3>2. Expected(reg, owed) /\ Above(run.grant, owed)
      BY <1>0, <2>4, OwedLess DEF IInv, OwedInv, RunOwed
    <3>3. RunOwed(run', owed)
      BY <3>2, <2>6, <2>r DEF RunOwed, Sent
    <3> QED BY <3>1, <3>2, <3>3, <2>4, <2>5, <1>0 DEF IInv, OwedInv
  <2>11. ReplayInv'
    <3>1. \A m \in todo : \A i \in m[2] : i > ghost.passed
      BY <2>2, <1>0, PushableIs DEF Live
    <3>2. RunCovered(run', reg, ghost.passed)
      BY <3>1, <2>r, <1>0 DEF IInv, ReplayInv, RunCovered
    <3>3. WishesKnown(run', reg)
      BY <2>r, <1>0 DEF IInv, ReplayInv, WishesKnown
    <3> QED BY <3>2, <3>3, <2>5, <1>0 DEF IInv, ReplayInv
  <2>12. MailInv'
    BY <2>5, <2>r, <1>0 DEF IInv, MailInv, Copied, Mailing
  <2> QED BY <2>7, <2>8, <2>9, <2>10, <2>11, <2>12 DEF IInv
<1> QED BY <1>1, <1>2

-----------------------------------------------------------------------------
(***************************************************************************)
(* The pushes, of the feed and of the mail.                                 *)
(***************************************************************************)

(* One push less to send: it went out, failed, or its device is gone.       *)
LEMMA PushDone ==
  ASSUME IInv, run.pc \in {"sending", "mailing"},
         run' \in Runs, run'.pc = run.pc, run'.grant = run.grant, run'.devs = run.devs,
         run'.listedAt = run.listedAt, run'.found = run.found, run'.todo \subseteq run.todo,
         run.pc = "sending" => run'.pushed = {},
         UNCHANGED <<feed, fcm, grant, sso, save, turn>>,
         spent' \in [acts : Nat, faults : Nat], ghost' \in Ghosts,
         reg' \in RegMap, \A d \in Device : reg'[d] # None => reg'[d] = reg[d],
         ghost'.owed \subseteq ghost.owed, Expected(reg', ghost'.owed),
         run.pc = "sending" /\ ~run'.failed => Sent(run', ghost'.owed),
         ghost'.passed = ghost.passed, ghost'.replayed = ghost.replayed,
         ghost'.twice = ghost.twice, \A p \in ghost'.sure : p[2] <= feed.mails,
         ghost'.sure \ run'.pushed \subseteq ghost.sure \ run.pushed,
         Mailing(run', ghost'.sure)
  PROVE  IInv'
<1>1. Typed'
  <2>1. Equipped(run')
    BY DEF IInv, Typed, Equipped
  <2> QED BY <2>1 DEF IInv, Typed
<1>2. Tokens'
  <2>1. Held(grant', run') \subseteq Held(grant, run)
    BY DEF Held
  <2> QED BY <2>1 DEF IInv, Tokens, TokensOf
<1>3. Past'
  <2>1. StampsPast(reg', feed.notes)
    BY DEF IInv, Past, StampsPast
  <2>2. RunPast(run', feed.notes)
    BY DEF IInv, Past, RunPast
  <2> QED BY <2>1, <2>2 DEF IInv, Past
<1>4. OwedInv'
  <2>1. GrantOwed(grant, ghost'.owed) /\ SaveOwed(save, grant, ghost'.owed)
    BY OwedLess DEF IInv, OwedInv, GrantOwed, SaveOwed
  <2>2. run.pc = "sending" => Above(run.grant, ghost'.owed)
    BY OwedLess DEF IInv, OwedInv, RunOwed
  <2>3. RunOwed(run', ghost'.owed)
    BY <2>2 DEF RunOwed
  <2>4. \A p \in ghost'.owed : p[2] <= feed.notes
    BY DEF IInv, OwedInv
  <2> QED BY <2>1, <2>3, <2>4 DEF OwedInv
<1>5. ReplayInv'
  <2>1. Wishing(reg') \subseteq Wishing(reg) /\ \A d \in Wishing(reg') : reg'[d] = reg[d]
    BY DEF Wishing, Live
  <2>2. grant # None => Covered(grant, reg', ghost.passed)
    BY <2>1 DEF IInv, ReplayInv, Covered, Since
  <2>3. RunCovered(run', reg', ghost.passed)
    BY DEF IInv, ReplayInv, RunCovered
  <2>4. WishesKnown(run', reg')
    BY <2>1 DEF IInv, ReplayInv, WishesKnown
  <2> QED BY <2>2, <2>3, <2>4 DEF IInv, ReplayInv
<1>6. MailInv'
  <2>1. \A g : Logged(g, ghost.sure \ run.pushed) => Logged(g, ghost'.sure \ run'.pushed)
    BY DEF Logged
  <2>2. Copied(grant, run')
    BY DEF IInv, MailInv, Copied
  <2> QED BY <2>1, <2>2 DEF IInv, MailInv
<1> QED BY <1>1, <1>2, <1>3, <1>4, <1>5, <1>6 DEF IInv

LEMMA DeliveredKeeps == ASSUME NEW m, IInv, Delivered(m) PROVE IInv'
<1>0. /\ run.pc = "sending" /\ m \in run.todo
      /\ UNCHANGED <<feed, reg, fcm, grant, sso, save, turn, spent>>
      /\ run \in Runs /\ run.pushed = {} /\ reg \in RegMap
  BY DEF Delivered, IInv, Typed, Equipped
<1>r. /\ run' \in Runs /\ run'.pc = run.pc /\ run'.grant = run.grant /\ run'.devs = run.devs
      /\ run'.listedAt = run.listedAt /\ run'.found = run.found
      /\ run'.todo = run.todo \ {m} /\ run'.failed = run.failed /\ run'.pushed = {}
  <2>1. run' = [run EXCEPT !.todo = @ \ {m}]
    BY DEF Delivered
  <2>2. run.todo \ {m} \in SUBSET (Device \X SUBSET Ids)
    BY <1>0, RunIs
  <2> QED BY <2>1, <2>2, <1>0 DEF Runs
<1>g. /\ ghost' \in Ghosts /\ ghost'.owed = ghost.owed \ ({m[1]} \X m[2])
      /\ ghost'.passed = ghost.passed /\ ghost'.sure = ghost.sure
      /\ ghost'.twice = ghost.twice /\ ghost'.replayed = ghost.replayed
  <2>1. ~\E n \in m[2] : n <= ghost.passed
    <3>1. \A n \in m[2] : n > ghost.passed /\ n \in Nat
      BY <1>0, RunIs, Bounds DEF IInv, ReplayInv, RunCovered
    <3>2. ghost.passed \in Nat
      BY GhostIs, Bounds DEF IInv, Typed
    <3> QED BY <3>1, <3>2
  <2>2. ghost' = [ghost EXCEPT !.owed = ghost.owed \ ({m[1]} \X m[2]),
                               !.replayed = ghost.replayed \/ \E n \in m[2] : n <= ghost.passed]
    BY DEF Delivered
  <2>3. ghost \in Ghosts
    BY DEF IInv, Typed
  <2>4. (ghost.replayed \/ \E n \in m[2] : n <= ghost.passed) <=> ghost.replayed
    BY <2>1
  <2>5. ghost' \in Ghosts /\ ghost'.owed = ghost.owed \ ({m[1]} \X m[2])
        /\ ghost'.passed = ghost.passed /\ ghost'.sure = ghost.sure /\ ghost'.twice = ghost.twice
        /\ ghost'.replayed = (ghost.replayed \/ \E n \in m[2] : n <= ghost.passed)
    BY <2>2, <2>3 DEF Ghosts
  <2>6. ghost.replayed \in BOOLEAN /\ ghost'.replayed \in BOOLEAN
    BY <2>3, <2>5, GhostIs
  <2> QED BY <2>4, <2>5, <2>6
<1>1. Expected(reg', ghost'.owed)
  BY <1>0, <1>g, OwedLess DEF IInv, OwedInv
<1>2. ~run'.failed => Sent(run', ghost'.owed)
  <2> SUFFICES ASSUME ~run.failed, NEW p \in ghost'.owed, p[2] <= run.found
               PROVE  \E o \in run.todo \ {m} : o[1] = p[1] /\ p[2] \in o[2]
    BY <1>r DEF Sent
  <2>1. PICK o \in run.todo : o[1] = p[1] /\ p[2] \in o[2]
    BY <1>0, <1>g DEF IInv, OwedInv, RunOwed, Sent
  <2>2. p = <<p[1], p[2]>>
    BY <1>g, GhostIs DEF IInv, Typed
  <2>3. o # m
    BY <2>1, <2>2, <1>g
  <2> QED BY <2>1, <2>3
<1>3. /\ \A p \in ghost'.sure : p[2] <= feed.mails
      /\ ghost'.sure \ run'.pushed \subseteq ghost.sure \ run.pushed
      /\ Mailing(run', ghost'.sure)
  BY <1>0, <1>r, <1>g DEF IInv, MailInv, Mailing
<1> QED BY <1>0, <1>r, <1>g, <1>1, <1>2, <1>3, GhostKept, PushDone

LEMMA MailDeliveredKeeps == ASSUME NEW m, IInv, MailDelivered(m) PROVE IInv'
<1>0. /\ run.pc = "mailing" /\ m \in run.todo
      /\ UNCHANGED <<feed, reg, fcm, grant, sso, save, turn, spent>>
      /\ run \in Runs /\ reg \in RegMap /\ ghost \in Ghosts
  BY DEF MailDelivered, IInv, Typed
<1>1. PICK n \in Ids : m[2] = {n} /\ n <= run.found /\ <<m[1], n>> \notin ghost.sure
  BY <1>0 DEF IInv, MailInv, Mailing
<1> DEFINE new == {m[1]} \X m[2]
           pair == <<m[1], n>>
<1>2. /\ new = {pair} /\ m = <<m[1], m[2]>> /\ m[1] \in Device
      /\ new \subseteq Device \X Ids
  BY <1>0, <1>1, RunIs
<1>3. ~(new \subseteq ghost.sure)
  BY <1>1, <1>2
<1>r. /\ run' \in Runs /\ run'.pc = run.pc /\ run'.grant = run.grant /\ run'.devs = run.devs
      /\ run'.listedAt = run.listedAt /\ run'.found = run.found
      /\ run'.todo = run.todo \ {m} /\ run'.failed = run.failed /\ run'.pushed = run.pushed \cup new
  <2>1. run' = [run EXCEPT !.todo = run.todo \ {m}, !.pushed = run.pushed \cup new]
    BY DEF MailDelivered
  <2>2. /\ run.todo \ {m} \in SUBSET (Device \X SUBSET Ids)
        /\ run.pushed \cup new \in SUBSET (Device \X Ids)
    BY <1>0, <1>2, RunIs
  <2> HIDE DEF new
  <2> QED BY <2>1, <2>2, <1>0 DEF Runs
<1>g. /\ ghost' \in Ghosts /\ ghost'.owed = ghost.owed
      /\ ghost'.passed = ghost.passed /\ ghost'.sure = ghost.sure \cup new
      /\ ghost'.twice = ghost.twice /\ ghost'.replayed = ghost.replayed
  <2>1. ghost' = [ghost EXCEPT !.twice = ghost.twice \/ new \subseteq ghost.sure,
                               !.sure = ghost.sure \cup new]
    BY DEF MailDelivered
  <2>2. ghost.sure \cup new \in SUBSET (Device \X Ids)
    BY <1>0, <1>2, GhostIs
  <2>3. (ghost.twice \/ new \subseteq ghost.sure) <=> ghost.twice
    BY <1>3
  <2> HIDE DEF new
  <2>4. /\ ghost' \in Ghosts /\ ghost'.owed = ghost.owed
        /\ ghost'.passed = ghost.passed /\ ghost'.sure = ghost.sure \cup new
        /\ ghost'.twice = (ghost.twice \/ new \subseteq ghost.sure)
        /\ ghost'.replayed = ghost.replayed
    BY <2>1, <2>2, <1>0 DEF Ghosts
  <2>5. ghost.twice \in BOOLEAN /\ ghost'.twice \in BOOLEAN
    BY <1>0, <2>4, GhostIs
  <2> QED BY <2>3, <2>4, <2>5
<1>4. Expected(reg', ghost'.owed)
  BY <1>0, <1>g DEF IInv, OwedInv
<1>5. \A p \in ghost'.sure : p[2] <= run.found /\ p[2] <= feed.mails
  <2>1. n <= feed.mails
    <3>1. run.found <= feed.mails /\ run.found \in Nat /\ feed.mails \in Nat /\ n \in Nat
      BY <1>0, Bounds DEF IInv, MailInv, Mailing, Typed
    <3> QED BY <1>1, <3>1
  <2> QED BY <2>1, <1>0, <1>1, <1>2, <1>g DEF IInv, MailInv, Mailing
<1>6. Mailing(run', ghost'.sure)
  <2>1. ASSUME NEW o \in run.todo \ {m}
        PROVE  \E i \in Ids : o[2] = {i} /\ i <= run.found /\ <<o[1], i>> \notin ghost'.sure
    <3>1. PICK i \in Ids : o[2] = {i} /\ i <= run.found /\ <<o[1], i>> \notin ghost.sure
      BY <1>0 DEF IInv, MailInv, Mailing
    <3>2. o = <<o[1], o[2]>>
      BY <1>0, RunIs
    <3>3. <<o[1], i>> # pair
      BY <3>1, <3>2, <1>1, <1>2
    <3> QED BY <3>1, <3>3, <1>2, <1>g
  <2>2. run.found \in Mails
    BY <1>0 DEF IInv, MailInv, Mailing
  <2> QED BY <2>1, <2>2, <1>5, <1>r DEF Mailing
<1>7. ghost'.sure \ run'.pushed \subseteq ghost.sure \ run.pushed
  BY <1>r, <1>g
<1> HIDE DEF new
<1> QED BY <1>0, <1>r, <1>g, <1>4, <1>5, <1>6, <1>7, GhostKept, PushDone

LEMMA TokenGoneKeeps == ASSUME NEW m, IInv, TokenGone(m) PROVE IInv'
<1> DEFINE d == m[1]
           T == {o \in run.todo : o[1] # d}
<1>0. /\ run.pc \in {"sending", "mailing"} /\ m \in run.todo
      /\ UNCHANGED <<feed, fcm, grant, sso, save, turn, spent>>
      /\ run \in Runs /\ reg \in RegMap /\ ghost \in Ghosts
  BY DEF TokenGone, IInv, Typed
<1>1. /\ reg' = [reg EXCEPT ![d] = None] /\ d \in Device
      /\ ghost' = [ghost EXCEPT !.owed = Without(ghost.owed, d)]
      /\ run' = [run EXCEPT !.todo = T]
  BY <1>0, RunIs DEF TokenGone, deleteDevice
<1>r. /\ run' \in Runs /\ run'.pc = run.pc /\ run'.grant = run.grant /\ run'.devs = run.devs
      /\ run'.listedAt = run.listedAt /\ run'.found = run.found /\ run'.todo = T
      /\ run'.failed = run.failed /\ run'.pushed = run.pushed
  <2>1. T \in SUBSET (Device \X SUBSET Ids)
    BY <1>0, RunIs
  <2> HIDE DEF T
  <2> QED BY <2>1, <1>0, <1>1 DEF Runs
<1>g. /\ ghost' \in Ghosts /\ ghost'.owed = Without(ghost.owed, d)
      /\ ghost'.passed = ghost.passed /\ ghost'.sure = ghost.sure
      /\ ghost'.twice = ghost.twice /\ ghost'.replayed = ghost.replayed
  <2>1. Without(ghost.owed, d) \in SUBSET (Device \X (1..MaxNotes))
    BY <1>0, GhostIs DEF Without
  <2> QED BY <2>1, <1>0, <1>1 DEF Ghosts
<1>2. /\ reg' \in RegMap /\ \A x \in Device : reg'[x] # None => reg'[x] = reg[x]
      /\ \A x \in Device \ {d} : reg'[x] = reg[x]
  BY <1>0, <1>1 DEF RegMap
<1>3. ghost'.owed \subseteq ghost.owed
  BY <1>g DEF Without
<1>4. Expected(reg', ghost'.owed)
  <2> SUFFICES ASSUME NEW p \in ghost'.owed
               PROVE  Wanting(reg', p[1], p[2]) /\ p[2] > reg'[p[1]].stamp
    BY DEF Expected
  <2>1. p \in ghost.owed /\ p[1] # d /\ p[1] \in Device
    BY <1>0, <1>g, GhostIs DEF Without
  <2> QED BY <2>1, <1>2 DEF IInv, OwedInv, Expected, Wanting
<1>5. run.pc = "sending" /\ ~run'.failed => Sent(run', ghost'.owed)
  <2> SUFFICES ASSUME run.pc = "sending", ~run.failed, NEW p \in ghost'.owed, p[2] <= run.found
               PROVE  \E o \in T : o[1] = p[1] /\ p[2] \in o[2]
    BY <1>r DEF Sent
  <2>1. p \in ghost.owed /\ p[1] # d
    BY <1>g DEF Without
  <2> QED BY <2>1 DEF IInv, OwedInv, RunOwed, Sent
<1>6. /\ \A p \in ghost'.sure : p[2] <= feed.mails
      /\ ghost'.sure \ run'.pushed \subseteq ghost.sure \ run.pushed
      /\ Mailing(run', ghost'.sure)
      /\ run.pc = "sending" => run'.pushed = {}
  BY <1>0, <1>r, <1>g DEF IInv, MailInv, Mailing, Typed, Equipped
<1>7. T \subseteq run.todo
  OBVIOUS
<1> HIDE DEF T, d
<1> QED BY <1>0, <1>r, <1>g, <1>2, <1>3, <1>4, <1>5, <1>6, <1>7, GhostKept, PushDone

LEMMA SendFailsKeeps == ASSUME NEW m, IInv, SendFails(m) PROVE IInv'
<1>0. /\ run.pc \in {"sending", "mailing"} /\ m \in run.todo
      /\ UNCHANGED <<feed, reg, fcm, grant, sso, save, turn, ghost>>
      /\ spent' \in [acts : Nat, faults : Nat]
      /\ run \in Runs /\ reg \in RegMap /\ ghost \in Ghosts
  BY Spending DEF SendFails, IInv, Typed
<1>r. /\ run' \in Runs /\ run'.pc = run.pc /\ run'.grant = run.grant /\ run'.devs = run.devs
      /\ run'.listedAt = run.listedAt /\ run'.found = run.found
      /\ run'.todo = run.todo \ {m} /\ run'.failed = TRUE /\ run'.pushed = run.pushed
  <2>1. run.todo \ {m} \in SUBSET (Device \X SUBSET Ids)
    BY <1>0, RunIs
  <2>2. run' = [run EXCEPT !.todo = run.todo \ {m}, !.failed = TRUE]
    BY DEF SendFails
  <2> QED BY <2>1, <2>2, <1>0 DEF Runs
<1>1. Expected(reg', ghost'.owed)
  BY <1>0 DEF IInv, OwedInv
<1>2. /\ \A p \in ghost'.sure : p[2] <= feed.mails
      /\ ghost'.sure \ run'.pushed \subseteq ghost.sure \ run.pushed
      /\ Mailing(run', ghost'.sure)
      /\ run.pc = "sending" => run'.pushed = {}
  BY <1>0, <1>r DEF IInv, MailInv, Mailing, Typed, Equipped
<1> QED BY <1>0, <1>r, <1>1, <1>2, PushDone

(* What the mark becomes once the pushes are out.                           *)
LEMMA patchIs ==
  ASSUME IInv, run.pc = "sending", NEW g \in Grants
  PROVE  /\ patch(g) \in Grants /\ patch(g).token = g.token /\ patch(g).status = g.status
         /\ patch(g).enabledAt = g.enabledAt /\ MailKept(g, patch(g))
         /\ run.failed => patch(g) = g
         /\ ~run.failed => /\ patch(g).mark \in {run.grant.mark, run.found}
                           /\ run.grant.mark <= patch(g).mark /\ run.found <= patch(g).mark
<1>1. CASE run.failed
  BY <1>1 DEF patch, MailKept
<1>2. CASE ~run.failed
  <2> DEFINE mark == Max({run.grant.mark, run.found})
             seen == run.grant.seen \cup {KindOf[n] : n \in 1..run.found}
  <2>1. /\ run.grant \in Grants /\ run.grant.mark \in Notes /\ run.found \in Notes
        /\ run.found \in 0..MaxNotes
    <3>1. run.found \in Nat /\ run.found <= feed.notes /\ feed.notes \in 0..MaxNotes
      BY RunIs, Bounds DEF IInv, Past, RunPast, Typed, Notes
    <3>2. run.found \in 0..MaxNotes
      BY <3>1, Bounds
    <3> QED BY <3>2, GrantIs DEF IInv, Typed, Equipped, Notes
  <2>2. mark \in {run.grant.mark, run.found} /\ run.grant.mark <= mark /\ run.found <= mark
    BY <2>1, MaxOfTwo, Bounds
  <2>3. seen \subseteq Type
    <3>1. 1..run.found \subseteq 1..MaxNotes
      BY <2>1, Bounds
    <3>2. \A n \in 1..MaxNotes : KindOf[n] \in Type
      BY AlertsPollerAssumptions
    <3> QED BY <3>1, <3>2, <2>1, GrantIs
  <2>4. patch(g) = [g EXCEPT !.mark = mark, !.etag = run.found, !.seen = seen, !.idle = FALSE]
    BY <1>2 DEF patch
  <2>5. mark \in Notes
    BY <2>1, <2>2
  <2> HIDE DEF mark, seen
  <2>6. /\ patch(g) \in Grants /\ patch(g).token = g.token /\ patch(g).status = g.status
        /\ patch(g).enabledAt = g.enabledAt /\ MailKept(g, patch(g)) /\ patch(g).mark = mark
    <3> DEFINE h == [g EXCEPT !.mark = mark, !.etag = run.found, !.seen = seen, !.idle = FALSE]
    <3>1. h \in Grants
      BY <2>1, <2>3, <2>5 DEF Grants
    <3>2. /\ h.token = g.token /\ h.status = g.status /\ h.enabledAt = g.enabledAt
          /\ h.mailMark = g.mailMark /\ h.mailPushed = g.mailPushed /\ h.mark = mark
      BY DEF Grants
    <3>3. patch(g) = h
      BY <2>4
    <3> HIDE DEF h
    <3> QED BY <3>1, <3>2, <3>3 DEF MailKept
  <2> QED BY <1>2, <2>2, <2>6
<1> QED BY <1>1, <1>2

LEMMA PatchedKeeps == IInv /\ Patched => IInv'
<1> SUFFICES ASSUME IInv, Patched PROVE IInv'
  OBVIOUS
<1>0. /\ run.pc = "sending" /\ run.todo = {} /\ run.pushed = {}
      /\ UNCHANGED <<feed, reg, fcm, sso, save, turn, spent, ghost>>
      /\ run \in Runs /\ run.grant \in Grants /\ ghost \in Ghosts
      /\ feed.notes \in Nat /\ run.found \in Nat /\ run.listedAt \in Nat
  BY RunIs, Bounds DEF Patched, IInv, Typed, Equipped
<1>r. /\ run' \in Runs /\ run'.pc = "mail" /\ run'.grant = run.grant /\ run'.devs = run.devs
      /\ run'.listedAt = run.listedAt /\ run'.todo = {} /\ run'.pushed = {}
  <2>1. run' = [run EXCEPT !.pc = "mail", !.failed = FALSE, !.found = 0]
    BY DEF Patched
  <2>2. "mail" \in Phase /\ 0 \in Nums
    BY Bounds DEF Phase
  <2> QED BY <2>1, <2>2, <1>0 DEF Runs
<1>g. \/ UNCHANGED grant
      \/ /\ grant \in Grants /\ grant # None /\ grant.token = run.grant.token /\ ~run.failed
         /\ grant' \in Grants /\ grant' # None /\ grant'.token = grant.token
         /\ grant'.status = grant.status
         /\ grant'.enabledAt = grant.enabledAt /\ MailKept(grant, grant')
         /\ grant'.mark \in {run.grant.mark, run.found}
         /\ run.grant.mark <= grant'.mark /\ run.found <= grant'.mark
  <2>1. CASE Guarded(grant) /\ ~run.failed
    <3>1. grant' = patch(grant) /\ grant \in Grants
      BY <2>1 DEF Patched, Guarded, IInv, Typed
    <3> QED BY <2>1, <3>1, <1>0, patchIs, GrantIs DEF Guarded
  <2>2. CASE ~(Guarded(grant) /\ ~run.failed)
    BY <2>2 DEF Patched, patch
  <2> QED BY <2>1, <2>2
<1>1. Typed'
  <2>1. Equipped(run')
    BY <1>0, <1>r DEF IInv, Typed, Equipped
  <2> QED BY <2>1, <1>0, <1>r, <1>g DEF IInv, Typed
<1>2. Tokens'
  <2>1. Held(grant', run') \subseteq Held(grant, run)
    BY <1>0, <1>r, <1>g DEF Held
  <2> QED BY <2>1, <1>0 DEF IInv, Tokens, TokensOf
<1>3. Past'
  <2>1. /\ run.found <= feed.notes /\ run.grant.mark <= feed.notes
        /\ GrantPast(grant, feed.notes) /\ RunPast(run, feed.notes)
    BY <1>0, GrantIs DEF IInv, Past, RunPast, GrantPast
  <2>2. GrantPast(grant', feed.notes)
    BY <2>1, <1>g DEF GrantPast
  <2>3. RunPast(run', feed.notes)
    BY <2>1, <1>0, <1>r DEF RunPast
  <2> QED BY <2>2, <2>3, <1>0 DEF IInv, Past
<1>4. OwedInv'
  <2>1. GrantOwed(grant', ghost.owed)
    <3>1. CASE UNCHANGED grant
      BY <3>1 DEF IInv, OwedInv
    <3>2. CASE ~UNCHANGED grant /\ Active(grant)
      <4>1. Above(grant', ghost.owed)
        <5> SUFFICES ASSUME NEW p \in ghost.owed PROVE p[2] > grant'.mark /\ p[2] > grant'.enabledAt
          BY DEF Above
        <5>1. p[2] \in Nat
          BY <1>0, GhostIs
        <5>2. ~(p[2] <= run.found)
          BY <3>2, <1>0, <1>g DEF IInv, OwedInv, RunOwed, Sent
        <5>3. p[2] > run.grant.mark /\ p[2] > grant.enabledAt
          BY <3>2, <1>0 DEF IInv, OwedInv, RunOwed, GrantOwed, Above
        <5> QED BY <5>1, <5>2, <5>3, <3>2, <1>0, <1>g
      <4> QED BY <4>1, <3>2, <1>g DEF Active, GrantOwed
    <3>3. CASE ~UNCHANGED grant /\ ~Active(grant)
      BY <3>3, <1>g DEF IInv, OwedInv, GrantOwed, Active
    <3> QED BY <3>1, <3>2, <3>3
  <2>2. SaveOwed(save, grant', ghost.owed)
    BY <1>g DEF IInv, OwedInv, SaveOwed, Active
  <2>3. RunOwed(run', ghost.owed)
    BY <1>r DEF RunOwed
  <2> QED BY <2>1, <2>2, <2>3, <1>0 DEF IInv, OwedInv
<1>5. ReplayInv'
  <2>1. ghost.passed <= run.listedAt /\ run.listedAt <= run.found /\ ghost.passed \in Nat
    BY <1>0, GhostIs, Bounds DEF IInv, ReplayInv, RunCovered, Past, RunPast
  <2>2. grant' # None => Covered(grant', reg, ghost.passed)
    <3>1. CASE UNCHANGED grant
      BY <3>1 DEF IInv, ReplayInv
    <3>2. CASE ~UNCHANGED grant
      <4>1. grant'.mark \in Nat
        BY <3>2, <1>g, GrantIs, Bounds
      <4>2. ghost.passed <= grant'.mark
        BY <4>1, <3>2, <2>1, <1>0, <1>g
      <4> QED BY <4>2 DEF Covered
    <3> QED BY <3>1, <3>2
  <2>3. RunCovered(run', reg, ghost.passed) /\ WishesKnown(run', reg)
    BY <2>1, <1>0, <1>r DEF IInv, ReplayInv, RunCovered, WishesKnown
  <2> QED BY <2>2, <2>3, <1>0 DEF IInv, ReplayInv
<1>6. MailInv'
  <2>1. grant' # None => Logged(grant', ghost.sure \ {})
    BY <1>0, <1>g DEF IInv, MailInv, Logged, MailKept
  <2>2. Copied(grant', run') /\ Mailing(run', ghost.sure)
    BY <1>0, <1>r, <1>g DEF IInv, MailInv, Copied, Mailing, MailKept
  <2> QED BY <2>1, <2>2, <1>0, <1>r DEF IInv, MailInv
<1> QED BY <1>1, <1>2, <1>3, <1>4, <1>5, <1>6 DEF IInv

-----------------------------------------------------------------------------
(***************************************************************************)
(* The mail.                                                                *)
(***************************************************************************)

(* The run ends and forgets the mail, or leaves the grant as it is.         *)
LEMMA MailEnded ==
  ASSUME IInv, run.pc = "mail", run' = Off,
         UNCHANGED <<feed, reg, fcm, sso, save, turn, ghost>>,
         spent' \in [acts : Nat, faults : Nat],
         UNCHANGED grant \/
           (Guarded(grant) /\ grant' \in {ForgetMail(grant), [ForgetMail(grant) EXCEPT !.mailScope = FALSE]})
  PROVE  IInv'
<1>0. /\ UNCHANGED <<feed, reg, fcm, sso, save, turn>> /\ ghost' = ghost
      /\ ghost.sure \ run.pushed = ghost.sure /\ ghost \in Ghosts
  BY GhostKept
<1>1. CASE UNCHANGED grant
  <2>1. grant' # None => Logged(grant', ghost'.sure)
    BY <1>0, <1>1 DEF IInv, MailInv
  <2>2. (Active(grant') => Active(grant)) /\ (Active(grant) => Active(grant') \/ ghost'.owed = {})
    BY <1>1
  <2> QED BY <1>0, <1>1, <2>1, <2>2, RunEnded
<1>2. CASE /\ Guarded(grant)
           /\ grant' \in {ForgetMail(grant), [ForgetMail(grant) EXCEPT !.mailScope = FALSE]}
  <2>1. grant \in Grants /\ grant # None
    BY <1>2 DEF Guarded, IInv, Typed
  <2>2. /\ grant' \in Grants /\ grant'.token = grant.token /\ grant'.idle = grant.idle
        /\ NotesKept(grant, grant') /\ grant'.mailMark = None
    BY <1>2, <2>1, ForgetMailIs, UnscopedIs
  <2>3. Logged(grant', ghost'.sure)
    BY <2>2 DEF Logged
  <2>4. (Active(grant') => Active(grant)) /\ (Active(grant) => Active(grant') \/ ghost'.owed = {})
    BY <2>1, <2>2, GrantIs DEF Active, NotesKept
  <2>5. grant'.mark = grant.mark /\ grant'.enabledAt = grant.enabledAt
    BY <2>2 DEF NotesKept
  <2> QED BY <1>0, <2>1, <2>2, <2>3, <2>4, <2>5, RunEnded
<1> QED BY <1>1, <1>2

LEMMA SkipMailKeeps == IInv /\ SkipMail => IInv'
<1> SUFFICES ASSUME IInv, SkipMail PROVE IInv'
  OBVIOUS
<1>1. /\ run.pc = "mail" /\ run' = Off
      /\ UNCHANGED <<feed, reg, fcm, sso, save, turn, ghost>>
      /\ spent' \in [acts : Nat, faults : Nat]
  BY GhostKept DEF SkipMail
<1>2. UNCHANGED grant \/ (Guarded(grant) /\ grant' = ForgetMail(grant))
  BY DEF SkipMail
<1> QED BY <1>1, <1>2, MailEnded

LEMMA MailForbiddenKeeps == IInv /\ MailForbidden => IInv'
<1> SUFFICES ASSUME IInv, MailForbidden PROVE IInv'
  OBVIOUS
<1>1. /\ run.pc = "mail" /\ run' = Off
      /\ UNCHANGED <<feed, reg, fcm, sso, save, turn, ghost>>
      /\ spent' \in [acts : Nat, faults : Nat]
  BY Spending DEF MailForbidden
<1>2. \/ UNCHANGED grant
      \/ Guarded(grant) /\ grant' = [ForgetMail(grant) EXCEPT !.mailScope = FALSE]
  BY DEF MailForbidden
<1> QED BY <1>1, <1>2, MailEnded

LEMMA ReadMailKeeps == IInv /\ ReadMail => IInv'
<1> SUFFICES ASSUME IInv, ReadMail PROVE IInv'
  OBVIOUS
<1>0. /\ run.pc = "mail" /\ UNCHANGED <<feed, reg, fcm, grant, sso, save, turn, spent, ghost>>
      /\ run \in Runs /\ run.grant \in Grants /\ run.devs \in RegMap /\ ghost \in Ghosts
      /\ ghost.sure \ run.pushed = ghost.sure
      /\ feed.mails \in Mails /\ feed.mails \in Nat /\ feed.mails \in Nums
  BY GhostKept, Bounds DEF ReadMail, IInv, Typed, Equipped
<1>1. PICK quiet \in SUBSET (Quiet \cap WantingMail) :
        run' = [run EXCEPT !.pc = "mailing", !.found = feed.mails, !.pushed = quiet \X Fires,
                  !.todo = {<<p[1], {p[2]}>> :
                            p \in ((WantingMail \ quiet) \X Fires) \ AlreadyPushed}]
  BY DEF ReadMail
<1> DEFINE new == ((WantingMail \ quiet) \X Fires) \ AlreadyPushed
           todo == {<<p[1], {p[2]}>> : p \in new}
<1>2. /\ WantingMail \subseteq Device /\ \A d \in WantingMail : run.devs[d] # None
      /\ Fires \subseteq Ids /\ \A n \in Fires : n <= feed.mails
  <2>1. WantingMail \subseteq Device /\ \A d \in WantingMail : run.devs[d] # None
    BY DEF WantingMail, Live
  <2>2. Fires \subseteq 1..feed.mails
    BY DEF Fires
  <2>3. \A n \in 1..feed.mails : n \in Ids /\ n <= feed.mails
    BY <1>0, Bounds DEF Mails, Ids
  <2> QED BY <2>1, <2>2, <2>3
<1>3. \A p \in new : /\ p = <<p[1], p[2]>> /\ p[1] \in WantingMail /\ p[2] \in Fires
                     /\ p \notin run.grant.mailPushed
  BY DEF AlreadyPushed
<1>4. \A p \in new : p \notin ghost.sure
  <2> SUFFICES ASSUME NEW p \in new, p \in ghost.sure PROVE FALSE
    OBVIOUS
  <2>1. /\ run.grant.mailMark # None /\ p[2] > run.grant.mailMark /\ p[2] \in Nat
        /\ p \notin run.grant.mailPushed
    <3>1. p[2] \in Fires /\ p \notin run.grant.mailPushed
      BY <1>3
    <3> HIDE DEF new
    <3>2. run.grant.mailMark # None
      BY <3>1 DEF Fires
    <3>3. \A n \in Fires : n \in 1..feed.mails /\ n > run.grant.mailMark
      BY <3>2 DEF Fires
    <3> QED BY <3>1, <3>2, <3>3, <1>0
  <2>2. run.grant.mailMark \in Nat
    BY <2>1, <1>0, GrantIs, Bounds
  <2>3. p[2] <= run.grant.mailMark
    BY <2>1, <1>0 DEF IInv, MailInv, Logged
  <2> QED BY <2>1, <2>2, <2>3
<1>5. \A m \in todo : /\ m \in Device \X SUBSET Ids /\ run.devs[m[1]] # None
                      /\ \E n \in Ids : m[2] = {n} /\ n <= feed.mails /\ <<m[1], n>> \notin ghost.sure
  <2> SUFFICES ASSUME NEW m \in todo
               PROVE  /\ m \in Device \X SUBSET Ids /\ run.devs[m[1]] # None
                      /\ \E n \in Ids : m[2] = {n} /\ n <= feed.mails /\ <<m[1], n>> \notin ghost.sure
    OBVIOUS
  <2>1. PICK p \in new : m = <<p[1], {p[2]}>>
    OBVIOUS
  <2> HIDE DEF new
  <2> QED BY <2>1, <1>2, <1>3, <1>4
<1>6. quiet \X Fires \in SUBSET (Device \X Ids)
  BY <1>2
<1>r. /\ run' \in Runs /\ run'.pc = "mailing" /\ run'.grant = run.grant /\ run'.devs = run.devs
      /\ run'.listedAt = run.listedAt /\ run'.found = feed.mails /\ run'.todo = todo
      /\ run'.failed = run.failed
  <2>1. run' = [run EXCEPT !.pc = "mailing", !.found = feed.mails, !.pushed = quiet \X Fires,
                  !.todo = todo]
    BY <1>1
  <2>2. todo \in SUBSET (Device \X SUBSET Ids) /\ "mailing" \in Phase
    BY <1>5 DEF Phase
  <2> HIDE DEF todo
  <2> QED BY <2>1, <2>2, <1>0, <1>6 DEF Runs
<1> HIDE DEF todo, new
<1>7. Typed'
  <2>1. Equipped(run')
    BY <1>0, <1>5, <1>r DEF IInv, Typed, Equipped
  <2> QED BY <2>1, <1>0, <1>r DEF IInv, Typed
<1>8. Tokens'
  <2>1. Held(grant', run') \subseteq Held(grant, run)
    BY <1>0, <1>r DEF Held
  <2> QED BY <2>1, <1>0 DEF IInv, Tokens, TokensOf
<1>9. Past'
  BY <1>0, <1>r DEF IInv, Past, RunPast
<1>10. OwedInv'
  BY <1>0, <1>r DEF IInv, OwedInv, RunOwed
<1>11. ReplayInv'
  BY <1>0, <1>r DEF IInv, ReplayInv, RunCovered, WishesKnown
<1>12. MailInv'
  <2>1. \A g : Logged(g, ghost.sure) => Logged(g, ghost.sure \ run'.pushed)
    BY DEF Logged
  <2>2. Mailing(run', ghost.sure)
    BY <1>0, <1>5, <1>r DEF IInv, MailInv, Mailing
  <2>3. Copied(grant, run')
    BY <1>0, <1>r DEF IInv, MailInv, Copied
  <2>4. run'.found <= feed.mails
    BY <1>0, <1>r
  <2>5. /\ grant # None => Logged(grant, ghost.sure \ run'.pushed)
        /\ Logged(run.grant, ghost.sure \ run'.pushed)
    BY <2>1, <1>0 DEF IInv, MailInv
  <2>6. ~ghost.twice /\ \A p \in ghost.sure : p[2] <= feed.mails
    BY DEF IInv, MailInv
  <2> QED BY <2>2, <2>3, <2>4, <2>5, <2>6, <1>0, <1>r DEF MailInv
<1> QED BY <1>7, <1>8, <1>9, <1>10, <1>11, <1>12 DEF IInv

LEMMA MailPatchedKeeps == IInv /\ MailPatched => IInv'
<1> SUFFICES ASSUME IInv, MailPatched PROVE IInv'
  OBVIOUS
<1>0. /\ run.pc = "mailing" /\ run.grant \in Grants /\ run \in Runs /\ ghost \in Ghosts
      /\ UNCHANGED <<feed, reg, fcm, sso, save, turn>> /\ spent' = spent /\ run' = Off
      /\ run.found \in Mails /\ run.grant # None
  BY GrantIs DEF MailPatched, IInv, Typed, Equipped, MailInv, Mailing
<1>1. CASE ~Guarded(grant)
  <2>1. /\ ghost' \in Ghosts /\ ghost'.owed = ghost.owed /\ ghost'.sure = {}
        /\ ghost'.passed = ghost.passed /\ ghost'.twice = ghost.twice
        /\ ghost'.replayed = ghost.replayed
    BY <1>0, <1>1 DEF MailPatched, Ghosts
  <2>2. grant' = grant
    BY <1>1 DEF MailPatched
  <2>3. Logged(grant', ghost'.sure)
    BY <2>1 DEF Logged
  <2>4. (Active(grant') => Active(grant)) /\ (Active(grant) => Active(grant') \/ ghost'.owed = {})
    BY <2>2
  <2> QED BY <1>0, <2>1, <2>2, <2>3, <2>4, GhostKept, RunEnded
<1>2. CASE Guarded(grant)
  <2>0. grant \in Grants /\ grant # None /\ grant' = patchMail(grant) /\ ghost' = ghost
    BY <1>2 DEF MailPatched, Guarded, IInv, Typed
  <2>1. /\ grant' \in Grants /\ grant'.token = grant.token /\ grant'.idle = grant.idle
        /\ NotesKept(grant, grant')
        /\ run.failed => /\ grant'.mailMark = grant.mailMark
                         /\ grant'.mailPushed = run.grant.mailPushed \cup run.pushed
        /\ ~run.failed => grant'.mailMark = run.found
    <3>1. CASE run.failed
      <4>1. run.grant.mailPushed \cup run.pushed \subseteq Device \X Ids
        BY <1>0, GrantIs, RunIs
      <4>2. grant' = [grant EXCEPT !.mailPushed = run.grant.mailPushed \cup run.pushed]
        BY <3>1, <2>0 DEF patchMail
      <4> QED BY <3>1, <4>1, <4>2, <2>0 DEF Grants, NotesKept
    <3>2. CASE ~run.failed
      <4>1. grant' = [grant EXCEPT !.mailMark = run.found, !.mailEtag = run.found, !.mailPushed = {}]
        BY <3>2, <2>0 DEF patchMail
      <4> QED BY <3>2, <4>1, <2>0, <1>0 DEF Grants, NotesKept
    <3> QED BY <3>1, <3>2
  <2>2. Logged(grant', ghost.sure)
    <3>1. CASE run.failed
      <4>1. grant.mailMark = run.grant.mailMark
        BY <1>0, <1>2, <2>0 DEF IInv, MailInv, Copied, Guarded
      <4>2. Logged(run.grant, ghost.sure \ run.pushed)
        BY <1>0 DEF IInv, MailInv
      <4> QED BY <3>1, <4>1, <4>2, <2>1 DEF Logged
    <3>2. CASE ~run.failed
      <4>1. \A p \in ghost.sure : p[2] <= run.found
        BY <1>0 DEF IInv, MailInv, Mailing
      <4> QED BY <3>2, <4>1, <2>1 DEF Logged
    <3> QED BY <3>1, <3>2
  <2>3. (Active(grant') => Active(grant)) /\ (Active(grant) => Active(grant') \/ ghost'.owed = {})
    BY <2>0, <2>1, GrantIs DEF Active, NotesKept
  <2>4. grant'.mark = grant.mark /\ grant'.enabledAt = grant.enabledAt
    BY <2>1 DEF NotesKept
  <2> QED BY <1>0, <2>0, <2>1, <2>2, <2>3, <2>4, GhostKept, RunEnded
<1> QED BY <1>1, <1>2

LEMMA CutOffKeeps == IInv /\ CutOff => IInv'
<1> SUFFICES ASSUME IInv, CutOff PROVE IInv'
  OBVIOUS
<1>0. /\ run.pc # "off" /\ run' = Off /\ UNCHANGED <<feed, reg, fcm, sso, save, turn>>
      /\ UNCHANGED grant /\ spent' \in [acts : Nat, faults : Nat] /\ ghost \in Ghosts
  BY Spending DEF CutOff, IInv, Typed
<1> DEFINE owed == IF run.pc = "rotated" THEN {} ELSE ghost.owed
           sure == IF run.pc = "mailing" THEN ghost.sure \ run.pushed ELSE ghost.sure
<1>1. owed \subseteq ghost.owed /\ sure \subseteq ghost.sure /\ sure = ghost.sure \ run.pushed
  BY GhostKept
<1>2. /\ ghost' \in Ghosts /\ ghost'.owed = owed /\ ghost'.sure = sure
      /\ ghost'.passed = ghost.passed /\ ghost'.twice = ghost.twice
      /\ ghost'.replayed = ghost.replayed
  <2>1. ghost' = [ghost EXCEPT !.owed = owed, !.sure = sure]
    BY DEF CutOff
  <2> HIDE DEF owed, sure
  <2> QED BY <2>1, <1>0, <1>1 DEF Ghosts
<1> HIDE DEF owed, sure
<1>3. grant' # None => Logged(grant', ghost'.sure)
  BY <1>0, <1>1, <1>2 DEF IInv, MailInv
<1>4. (Active(grant') => Active(grant)) /\ (Active(grant) => Active(grant') \/ ghost'.owed = {})
  BY <1>0
<1> QED BY <1>0, <1>1, <1>2, <1>3, <1>4, RunEnded

-----------------------------------------------------------------------------
(***************************************************************************)
(* What happens around the run.                                             *)
(***************************************************************************)

(* Marks and stamps stay behind a feed that grows.                          *)
LEMMA LaterPast ==
  ASSUME NEW n \in Nat
  PROVE  /\ \A g \in Grants \cup {None} : GrantPast(g, n) => GrantPast(g, n + 1)
         /\ \A R \in RegMap : StampsPast(R, n) => StampsPast(R, n + 1)
<1>1. ASSUME NEW g \in Grants \cup {None}, GrantPast(g, n) PROVE GrantPast(g, n + 1)
  <2>1. g # None => g.mark \in Nat /\ g.enabledAt \in Nat
    BY GrantIs, Bounds
  <2> QED BY <1>1, <2>1 DEF GrantPast
<1>2. ASSUME NEW R \in RegMap, StampsPast(R, n) PROVE StampsPast(R, n + 1)
  <2> SUFFICES ASSUME NEW d \in Device, R[d] # None PROVE R[d].stamp <= n + 1
    BY DEF StampsPast
  <2>1. R[d].stamp \in Nat
    BY RegIs, Bounds
  <2> QED BY <1>2, <2>1 DEF StampsPast
<1> QED BY <1>1, <1>2

LEMMA NoteArrivesKeeps == IInv /\ NoteArrives => IInv'
<1> SUFFICES ASSUME IInv, NoteArrives PROVE IInv'
  OBVIOUS
<1> DEFINE n == feed.notes + 1
           new == {<<d, n>> : d \in {x \in Device : /\ Active(grant) /\ grant.token \in sso.good
                                                    /\ Wanting(reg, x, n) /\ reg[x].tok = fcm[x]
                                                    /\ ~Overlooked(x, n)}}
<1>0. /\ feed' = [feed EXCEPT !.notes = n] /\ feed.notes < MaxNotes
      /\ ghost' = [ghost EXCEPT !.owed = ghost.owed \cup new]
      /\ UNCHANGED <<reg, fcm, grant, sso, save, run, turn, spent>>
  BY DEF NoteArrives
<1>1. /\ feed.notes \in Nat /\ n \in 1..MaxNotes /\ n \in Notes /\ n \in Nat /\ n > feed.notes
      /\ feed' \in [notes : Notes, mails : Mails] /\ feed'.notes = n /\ feed'.mails = feed.mails
  <2>1. feed.notes \in Nat /\ feed.notes < MaxNotes /\ feed \in [notes : Notes, mails : Mails]
    BY <1>0, Bounds DEF IInv, Typed
  <2>2. n \in 1..MaxNotes
    BY <2>1, Bounds
  <2>3. n \in Notes
    BY <2>2, Bounds
  <2> HIDE DEF n
  <2>4. feed' \in [notes : Notes, mails : Mails] /\ feed'.notes = n /\ feed'.mails = feed.mails
    BY <1>0, <2>1, <2>3
  <2> USE DEF n
  <2> QED BY <2>1, <2>2, <2>3, <2>4
<1>2. \A p \in new : /\ p = <<p[1], n>> /\ p[1] \in Device /\ p[2] = n /\ Active(grant)
                     /\ Wanting(reg, p[1], n) /\ ~Overlooked(p[1], n)
  OBVIOUS
<1> HIDE DEF new
<1>3. new \subseteq Device \X (1..MaxNotes)
  BY <1>1, <1>2
<1>g. /\ ghost' \in Ghosts /\ ghost'.owed = ghost.owed \cup new
      /\ ghost'.passed = ghost.passed /\ ghost'.sure = ghost.sure
      /\ ghost'.twice = ghost.twice /\ ghost'.replayed = ghost.replayed
  <2>1. ghost \in Ghosts
    BY DEF IInv, Typed
  <2>2. ghost.owed \cup new \in SUBSET (Device \X (1..MaxNotes))
    BY <1>3, <2>1, GhostIs
  <2> QED BY <1>0, <2>1, <2>2 DEF Ghosts
<1>4. \A g \in Grants : GrantPast(g, feed.notes) => n > g.mark /\ n > g.enabledAt
  <2> SUFFICES ASSUME NEW g \in Grants, GrantPast(g, feed.notes)
               PROVE  n > g.mark /\ n > g.enabledAt
    OBVIOUS
  <2>1. g.mark \in Nat /\ g.enabledAt \in Nat /\ g.mark <= feed.notes /\ g.enabledAt <= feed.notes
    BY GrantIs, Bounds DEF GrantPast
  <2> QED BY <2>1, <1>1
<1>5. \A g \in Grants : GrantPast(g, feed.notes) => Above(g, new)
  BY <1>2, <1>4 DEF Above
<1>6. \A O, g : Above(g, O) /\ Above(g, new) => Above(g, O \cup new)
  BY DEF Above
<1>7. \A R \in RegMap, d \in Device : StampsPast(R, feed.notes) /\ R[d] # None => n > R[d].stamp
  <2> SUFFICES ASSUME NEW R \in RegMap, NEW d \in Device, StampsPast(R, feed.notes), R[d] # None
               PROVE  n > R[d].stamp
    OBVIOUS
  <2>1. R[d].stamp \in Nat /\ R[d].stamp <= feed.notes
    BY RegIs, Bounds DEF StampsPast
  <2> QED BY <2>1, <1>1
<1>8. Typed'
  BY <1>0, <1>1, <1>g DEF IInv, Typed
<1>9. Tokens'
  BY <1>0 DEF IInv, Tokens
<1>10. Past'
  <2>1. GrantPast(grant, n) /\ SavePast(save, n) /\ StampsPast(reg, n)
    BY <1>1, LaterPast DEF IInv, Typed, Past, SavePast, Saves
  <2>2. RunPast(run, n)
    <3>1. run.pc # "off" => GrantPast(run.grant, n) /\ run.listedAt <= n
      <4> SUFFICES ASSUME run.pc # "off" PROVE GrantPast(run.grant, n) /\ run.listedAt <= n
        OBVIOUS
      <4>1. run.grant \in Grants /\ run.listedAt \in Nat /\ GrantPast(run.grant, feed.notes)
            /\ run.listedAt <= feed.notes
        BY RunIs, Bounds DEF IInv, Typed, Equipped, Past, RunPast
      <4> QED BY <4>1, <1>1, LaterPast
    <3>2. run.pc \notin {"off", "listed"} => StampsPast(run.devs, n)
      BY <1>1, LaterPast DEF IInv, Typed, Equipped, Past, RunPast
    <3>3. run.pc = "sending" => run.found <= n /\ run.listedAt <= run.found
      <4>1. run.found \in Nat
        BY RunIs, Bounds DEF IInv, Typed
      <4> QED BY <4>1, <1>1 DEF IInv, Past, RunPast
    <3> QED BY <3>1, <3>2, <3>3 DEF RunPast
  <2> QED BY <2>1, <2>2, <1>0, <1>1 DEF Past
<1>11. OwedInv'
  <2> DEFINE O == ghost.owed
  <2>1. \A p \in O \cup new : p[2] <= n
    <3>1. \A p \in O : p[2] \in Nat /\ p[2] <= feed.notes
      BY GhostIs DEF IInv, Typed, OwedInv
    <3> QED BY <3>1, <1>1, <1>2
  <2>2. GrantOwed(grant, O \cup new)
    <3>1. CASE Active(grant)
      BY <3>1, <1>5, <1>6, GrantIs DEF IInv, Typed, Past, OwedInv, GrantOwed, Active
    <3>2. CASE ~Active(grant)
      BY <3>2, <1>2 DEF IInv, OwedInv, GrantOwed
    <3> QED BY <3>1, <3>2
  <2>3. SaveOwed(save, grant, O \cup new)
    <3> SUFFICES ASSUME save # None, Active(save.grant) PROVE Above(save.grant, O \cup new)
      BY DEF IInv, OwedInv, SaveOwed
    <3>1. save.grant \in Grants /\ GrantPast(save.grant, feed.notes) /\ Above(save.grant, O)
      BY DEF IInv, Typed, Saves, Active, Past, SavePast, OwedInv, SaveOwed
    <3> QED BY <3>1, <1>5, <1>6
  <2>4. Expected(reg, O \cup new)
    <3>1. Expected(reg, new)
      BY <1>2, <1>7 DEF IInv, Typed, Past, Expected, Wanting
    <3> QED BY <3>1 DEF IInv, OwedInv, Expected
  <2>5. RunOwed(run, O \cup new)
    <3>1. run.pc \in {"listed", "poll", "rotated", "read", "sending"} => Above(run.grant, O \cup new)
      BY <1>5, <1>6 DEF IInv, Typed, Equipped, Past, RunPast, OwedInv, RunOwed
    <3>2. run.pc \in {"poll", "rotated", "read"} => Expected(run.devs, O \cup new)
      <4> SUFFICES ASSUME run.pc \in {"poll", "rotated", "read"} PROVE Expected(run.devs, O \cup new)
        OBVIOUS
      <4>1. \A p \in new : Wanting(run.devs, p[1], n)
        BY <1>2 DEF Overlooked
      <4>2. Expected(run.devs, new)
        BY <4>1, <1>2, <1>7 DEF IInv, Typed, Equipped, Past, RunPast, Expected, Wanting
      <4> QED BY <4>2 DEF IInv, OwedInv, RunOwed, Expected
    <3>3. run.pc = "sending" /\ ~run.failed => Sent(run, O \cup new)
      <4> SUFFICES ASSUME run.pc = "sending", ~run.failed PROVE Sent(run, O \cup new)
        OBVIOUS
      <4>1. run.found <= feed.notes /\ run.found \in Nat
        BY RunIs, Bounds DEF IInv, Typed, Past, RunPast
      <4>2. \A p \in new : ~(p[2] <= run.found)
        BY <4>1, <1>1, <1>2
      <4> QED BY <4>2 DEF IInv, OwedInv, RunOwed, Sent
    <3> QED BY <3>1, <3>2, <3>3 DEF RunOwed
  <2> QED BY <2>1, <2>2, <2>3, <2>4, <2>5, <1>0, <1>1, <1>g DEF OwedInv
<1>12. ReplayInv'
  <2>1. ghost.passed <= n
    <3>1. ghost.passed \in Nat /\ ghost.passed <= feed.notes
      BY GhostIs, Bounds DEF IInv, Typed, ReplayInv
    <3> QED BY <3>1, <1>1
  <2> QED BY <2>1, <1>0, <1>1, <1>g DEF IInv, ReplayInv
<1>13. MailInv'
  BY <1>0, <1>1, <1>g DEF IInv, MailInv
<1> QED BY <1>8, <1>9, <1>10, <1>11, <1>12, <1>13 DEF IInv

LEMMA MailArrivesKeeps == IInv /\ MailArrives => IInv'
<1> SUFFICES ASSUME IInv, MailArrives PROVE IInv'
  OBVIOUS
<1>0. /\ feed' = [feed EXCEPT !.mails = feed.mails + 1] /\ feed.mails < MaxMails
      /\ UNCHANGED <<reg, fcm, grant, sso, save, run, turn, spent, ghost>>
  BY DEF MailArrives
<1>1. /\ feed.mails \in Nat /\ feed' \in [notes : Notes, mails : Mails]
      /\ feed'.notes = feed.notes /\ feed'.mails = feed.mails + 1
  <2>1. feed.mails \in Nat /\ feed.mails + 1 \in Mails /\ feed \in [notes : Notes, mails : Mails]
    BY <1>0, Bounds DEF IInv, Typed, Mails
  <2> QED BY <2>1, <1>0
<1>2. Typed'
  BY <1>0, <1>1 DEF IInv, Typed
<1>3. Tokens' /\ Past' /\ OwedInv' /\ ReplayInv'
  BY <1>0, <1>1 DEF IInv, Tokens, Past, OwedInv, ReplayInv
<1>4. MailInv'
  <2>1. \A p \in ghost.sure : p[2] <= feed.mails + 1
    <3>1. \A p \in ghost.sure : p[2] \in Nat /\ p[2] <= feed.mails
      BY GhostIs DEF IInv, Typed, MailInv
    <3> QED BY <3>1, <1>1
  <2>2. run.pc = "mailing" => run.found <= feed.mails + 1
    <3>1. run.found \in Nat
      BY RunIs, Bounds DEF IInv, Typed
    <3> QED BY <3>1, <1>1 DEF IInv, MailInv
  <2> QED BY <2>1, <2>2, <1>0, <1>1 DEF IInv, MailInv
<1> QED BY <1>2, <1>3, <1>4 DEF IInv

(* A device changes on the user's side: its registration is as new as the   *)
(* feed, or wants no more than before.                                      *)
LEMMA RegChanged ==
  ASSUME IInv, reg' \in RegMap, fcm' \in [Device -> 1..2],
         UNCHANGED <<feed, grant, sso, save, run, turn>>,
         spent' \in [acts : Nat, faults : Nat], ghost' \in Ghosts,
         \A d \in Device : reg'[d] # None =>
            \/ reg'[d].stamp = feed.notes
            \/ /\ reg[d] # None /\ reg'[d].stamp = reg[d].stamp
               /\ d \in Wishing(reg') => d \in Wishing(reg),
         ghost'.owed \subseteq ghost.owed, Expected(reg', ghost'.owed),
         ghost'.passed = ghost.passed, ghost'.sure = ghost.sure,
         ghost'.twice = ghost.twice, ghost'.replayed = ghost.replayed
  PROVE  IInv'
<1>0. feed.notes \in Nat /\ ghost.passed \in Nat /\ ghost.passed <= feed.notes
  BY GhostIs, Bounds DEF IInv, Typed, ReplayInv
<1>1. Typed'
  BY DEF IInv, Typed
<1>2. Tokens'
  BY DEF IInv, Tokens
<1>3. Past'
  <2>1. StampsPast(reg', feed.notes)
    BY <1>0 DEF IInv, Past, StampsPast
  <2> QED BY <2>1 DEF IInv, Past
<1>4. OwedInv'
  <2>1. GrantOwed(grant, ghost'.owed) /\ SaveOwed(save, grant, ghost'.owed)
    BY OwedLess DEF IInv, OwedInv, GrantOwed, SaveOwed
  <2>2. RunOwed(run, ghost'.owed) /\ \A p \in ghost'.owed : p[2] <= feed.notes
    BY OwedLess DEF IInv, OwedInv
  <2> QED BY <2>1, <2>2 DEF OwedInv
<1>5. ReplayInv'
  <2>1. \A d \in Wishing(reg') : \/ reg'[d].stamp = feed.notes
                                 \/ d \in Wishing(reg) /\ reg'[d].stamp = reg[d].stamp
    BY DEF Wishing, Live
  <2>2. Since(reg, ghost.passed) => Since(reg', ghost.passed)
    BY <1>0, <2>1 DEF Since
  <2>3. grant # None => Covered(grant, reg', ghost.passed)
    BY <2>2 DEF IInv, ReplayInv, Covered
  <2>4. RunCovered(run, reg', ghost.passed)
    BY <2>2 DEF IInv, ReplayInv, RunCovered, Covered
  <2>5. WishesKnown(run, reg')
    <3>1. run.pc # "off" => run.listedAt <= feed.notes
      BY DEF IInv, Past, RunPast
    <3> QED BY <2>1, <3>1 DEF IInv, ReplayInv, WishesKnown
  <2> QED BY <2>3, <2>4, <2>5 DEF IInv, ReplayInv
<1>6. MailInv'
  BY DEF IInv, MailInv
<1> QED BY <1>1, <1>2, <1>3, <1>4, <1>5, <1>6 DEF IInv

(* The open app shows the device what came so far.                          *)
LEMMA CaughtUp ==
  ASSUME IInv, NEW d \in Device, ghost' = [ghost EXCEPT !.owed = Without(ghost.owed, d)]
  PROVE  /\ ghost' \in Ghosts /\ ghost'.owed = Without(ghost.owed, d)
         /\ ghost'.owed \subseteq ghost.owed /\ \A p \in ghost'.owed : p[1] \in Device \ {d}
         /\ ghost'.passed = ghost.passed /\ ghost'.sure = ghost.sure
         /\ ghost'.twice = ghost.twice /\ ghost'.replayed = ghost.replayed
<1>1. ghost \in Ghosts
  BY DEF IInv, Typed
<1>2. /\ Without(ghost.owed, d) \in SUBSET (Device \X (1..MaxNotes))
      /\ Without(ghost.owed, d) \subseteq ghost.owed
      /\ \A p \in Without(ghost.owed, d) : p[1] \in Device \ {d}
  BY <1>1, GhostIs DEF Without
<1>3. /\ ghost' \in Ghosts /\ ghost'.owed = Without(ghost.owed, d)
      /\ ghost'.passed = ghost.passed /\ ghost'.sure = ghost.sure
      /\ ghost'.twice = ghost.twice /\ ghost'.replayed = ghost.replayed
  BY <1>1, <1>2 DEF Ghosts
<1> QED BY <1>2, <1>3

LEMMA OthersExpected ==
  ASSUME IInv, NEW d \in Device, NEW R, NEW O, O \subseteq ghost.owed,
         \A p \in O : p[1] \in Device \ {d}, \A x \in Device \ {d} : R[x] = reg[x]
  PROVE  Expected(R, O)
BY DEF IInv, OwedInv, Expected, Wanting

LEMMA registerDeviceKeeps == ASSUME NEW d \in Device, IInv, registerDevice(d) PROVE IInv'
<1> DEFINE had == IF reg[d] = None THEN {} ELSE reg[d].types
           offered == IF grant = None THEN {} ELSE grant.seen
<1>0. /\ UNCHANGED <<feed, fcm, grant, sso, save, run, turn>>
      /\ spent' \in [acts : Nat, faults : Nat] /\ reg \in RegMap /\ fcm \in [Device -> 1..2]
      /\ ghost' = [ghost EXCEPT !.owed = Without(ghost.owed, d)]
  BY Spending DEF registerDevice, IInv, Typed
<1>1. PICK types \in SUBSET (had \cup offered), mail \in BOOLEAN :
        reg' = [reg EXCEPT ![d] = [types |-> types, mail |-> mail, stamp |-> feed.notes,
                                   age |-> "fresh", tok |-> fcm[d]]]
  BY DEF registerDevice
<1> DEFINE new == [types |-> types, mail |-> mail, stamp |-> feed.notes, age |-> "fresh",
                   tok |-> fcm[d]]
<1>2. new \in Registrations /\ new.stamp = feed.notes
  <2>1. had \subseteq Type /\ offered \subseteq Type
    BY <1>0, RegIs, GrantIs DEF IInv, Typed
  <2>2. feed.notes \in Notes /\ fcm[d] \in 1..2 /\ types \subseteq Type
    BY <1>0, <2>1 DEF IInv, Typed
  <2> QED BY <2>2 DEF Registrations
<1>3. /\ reg' \in RegMap /\ reg'[d] = new /\ \A x \in Device \ {d} : reg'[x] = reg[x]
  <2>1. reg' = [reg EXCEPT ![d] = new]
    BY <1>1
  <2> HIDE DEF new
  <2> QED BY <2>1, <1>0, <1>2 DEF RegMap
<1> HIDE DEF new
<1>4. \A x \in Device : reg'[x] # None =>
            \/ reg'[x].stamp = feed.notes
            \/ /\ reg[x] # None /\ reg'[x].stamp = reg[x].stamp
               /\ x \in Wishing(reg') => x \in Wishing(reg)
  BY <1>2, <1>3 DEF Wishing, Live
<1>5. Expected(reg', ghost'.owed)
  BY <1>0, <1>3, CaughtUp, OthersExpected
<1> QED BY <1>0, <1>3, <1>4, <1>5, CaughtUp, RegChanged

LEMMA AgesKeeps == ASSUME NEW d \in Device, IInv, Ages(d) PROVE IInv'
<1> DEFINE age == IF reg[d].age = "fresh" THEN "stale" ELSE "dormant"
           new == [reg[d] EXCEPT !.age = age]
<1>0. /\ UNCHANGED <<feed, fcm, grant, sso, save, run, turn>>
      /\ spent' \in [acts : Nat, faults : Nat] /\ reg \in RegMap /\ fcm \in [Device -> 1..2]
      /\ reg[d] # None /\ reg[d] \in Registrations /\ reg[d].age \in {"fresh", "stale"}
  BY Spending, RegIs DEF Ages, IInv, Typed
<1>1. /\ new \in Registrations /\ new # None /\ new.stamp = reg[d].stamp
      /\ new.types = reg[d].types /\ new.age = age
  <2>1. age \in {"fresh", "stale", "dormant"}
    OBVIOUS
  <2>2. new \in Registrations /\ new.stamp = reg[d].stamp
        /\ new.types = reg[d].types /\ new.age = age
    <3> HIDE DEF age
    <3> QED BY <2>1, <1>0 DEF Registrations
  <2> HIDE DEF new
  <2> QED BY <2>2, GrantIs
<1>2. reg' \in RegMap /\ reg'[d] = new /\ \A x \in Device \ {d} : reg'[x] = reg[x]
  <2>1. reg' = [reg EXCEPT ![d] = new]
    BY <1>0 DEF Ages, RegMap
  <2> HIDE DEF new
  <2> QED BY <2>1, <1>0, <1>1 DEF RegMap
<1> HIDE DEF new
<1>3. \A x \in Device : reg'[x] # None =>
            \/ reg'[x].stamp = feed.notes
            \/ /\ reg[x] # None /\ reg'[x].stamp = reg[x].stamp
               /\ x \in Wishing(reg') => x \in Wishing(reg)
  BY <1>0, <1>1, <1>2 DEF Wishing, Live
<1>4. CASE reg[d].age = "stale"
  <2>1. ghost' = [ghost EXCEPT !.owed = Without(ghost.owed, d)]
    BY <1>4 DEF Ages
  <2>2. Expected(reg', ghost'.owed)
    BY <2>1, <1>2, CaughtUp, OthersExpected
  <2> QED BY <1>0, <1>2, <1>3, <2>1, <2>2, CaughtUp, RegChanged
<1>5. CASE reg[d].age = "fresh"
  <2>1. ghost' = ghost /\ ghost \in Ghosts
    BY <1>5, GhostKept DEF Ages
  <2>2. Expected(reg', ghost.owed)
    <3> SUFFICES ASSUME NEW p \in ghost.owed
                 PROVE  Wanting(reg', p[1], p[2]) /\ p[2] > reg'[p[1]].stamp
      BY DEF Expected
    <3>1. p[1] \in Device /\ Wanting(reg, p[1], p[2]) /\ p[2] > reg[p[1]].stamp
      BY <2>1, GhostIs DEF IInv, OwedInv, Expected
    <3>2. CASE p[1] = d
      <4>1. reg'[d].age # "dormant" /\ reg'[d] # None
        BY <1>1, <1>2, <1>5
      <4> QED BY <3>1, <3>2, <4>1, <1>1, <1>2 DEF Wanting
    <3>3. CASE p[1] # d
      BY <3>1, <3>3, <1>2 DEF Wanting
    <3> QED BY <3>2, <3>3
  <2> QED BY <1>0, <1>2, <1>3, <2>1, <2>2, RegChanged
<1> QED BY <1>0, <1>4, <1>5

LEMMA FcmRollsKeeps == ASSUME NEW d \in Device, IInv, FcmRolls(d) PROVE IInv'
<1>0. /\ UNCHANGED <<feed, reg, grant, sso, save, run, turn>>
      /\ spent' \in [acts : Nat, faults : Nat] /\ reg \in RegMap
      /\ fcm' = [fcm EXCEPT ![d] = 3 - fcm[d]] /\ fcm \in [Device -> 1..2]
      /\ ghost' = [ghost EXCEPT !.owed = Without(ghost.owed, d)]
  BY Spending DEF FcmRolls, IInv, Typed
<1>1. fcm' \in [Device -> 1..2]
  <2>1. 3 - fcm[d] \in 1..2
    BY <1>0
  <2> QED BY <2>1, <1>0
<1>2. \A x \in Device : reg'[x] # None =>
            \/ reg'[x].stamp = feed.notes
            \/ /\ reg[x] # None /\ reg'[x].stamp = reg[x].stamp
               /\ x \in Wishing(reg') => x \in Wishing(reg)
  BY <1>0
<1>3. Expected(reg', ghost'.owed)
  BY <1>0, CaughtUp, OthersExpected
<1> QED BY <1>0, <1>1, <1>2, <1>3, CaughtUp, RegChanged

LEMMA SaveReadKeeps == IInv /\ SaveRead => IInv'
<1> SUFFICES ASSUME IInv, SaveRead PROVE IInv'
  OBVIOUS
<1> DEFINE t == sso.minted + 1
<1>0. /\ sso.minted < MaxTokens /\ spent' \in [acts : Nat, faults : Nat]
      /\ sso' = [minted |-> t, good |-> sso.good \cup {t}]
      /\ UNCHANGED <<feed, reg, fcm, grant, run, turn, ghost>>
  BY Spending DEF SaveRead
<1>1. PICK scope \in BOOLEAN : save' = [grant |-> grant, token |-> t, mailScope |-> scope]
  BY DEF SaveRead
<1>2. /\ t \in 1..MaxTokens /\ t \in 1..t /\ sso.minted \in Nat /\ t > sso.minted
      /\ 1..sso.minted \subseteq 1..t /\ 1..t \subseteq 1..MaxTokens
      /\ sso.good \subseteq 1..sso.minted
  BY <1>0, Bounds DEF IInv, Typed
<1> HIDE DEF t
<1>3. /\ save' \in Saves /\ save'.grant = grant /\ save'.token = t
      /\ sso'.minted = t /\ sso'.good = sso.good \cup {t}
  BY <1>0, <1>1, <1>2 DEF Saves, IInv, Typed
<1>4. Typed'
  <2>1. sso'.good \subseteq 1..t
    BY <1>2, <1>3
  <2>2. sso' \in [minted : 1..MaxTokens, good : SUBSET (1..MaxTokens)]
    BY <2>1, <1>0, <1>2, <1>3
  <2> QED BY <2>1, <2>2, <1>0, <1>3 DEF IInv, Typed
<1>5. Tokens'
  <2>1. Held(grant, run) \subseteq 1..sso.minted
    BY DEF IInv, Tokens, TokensOf
  <2>2. t \notin Held(grant, run) /\ Held(grant, run) \subseteq 1..t
    BY <2>1, <1>2
  <2>3. TokensOf(sso', save', Held(grant, run))
    BY <2>2, <1>3 DEF TokensOf
  <2> QED BY <2>3, <1>0 DEF Tokens
<1>6. Past'
  BY <1>0, <1>3 DEF IInv, Past, SavePast
<1>7. OwedInv'
  BY <1>0, <1>3 DEF IInv, OwedInv, SaveOwed, GrantOwed
<1>8. ReplayInv' /\ MailInv'
  BY <1>0 DEF IInv, ReplayInv, MailInv
<1> QED BY <1>4, <1>5, <1>6, <1>7, <1>8 DEF IInv

LEMMA SavedIs ==
  ASSUME IInv, save # None
  PROVE  /\ Saved \in Grants /\ Saved # None /\ Saved.token = save.token
         /\ Active(save.grant) => NotesKept(save.grant, Saved) /\ Saved.idle = save.grant.idle
         /\ ~Active(save.grant) => /\ Saved.status = "active" /\ Saved.mark = 0
                                   /\ Saved.enabledAt = feed.notes
<1>0. /\ save \in Saves /\ save.token \in 1..MaxTokens /\ save.mailScope \in BOOLEAN
      /\ save.grant \in Grants \cup {None} /\ feed.notes \in Notes
  BY DEF IInv, Typed, Saves
<1>1. CASE ~Active(save.grant)
  <2>1. Saved = NewGrant(save.token, feed.notes, save.mailScope)
    BY <1>1 DEF Saved
  <2> QED BY <1>0, <1>1, <2>1, NewGrantIs, GrantIs
<1>2. CASE Active(save.grant)
  <2> DEFINE kept == [save.grant EXCEPT !.token = save.token, !.wait = 0,
                                        !.mailScope = save.mailScope]
  <2>1. save.grant \in Grants /\ 0 \in 0..(IdleRecheck + SleepingEvery)
    BY <1>0, <1>2, Bounds DEF Active
  <2>2. /\ kept \in Grants /\ kept.token = save.token /\ kept.idle = save.grant.idle
        /\ NotesKept(save.grant, kept)
    BY <1>0, <2>1 DEF Grants, NotesKept
  <2>3. Saved \in {kept, ForgetMail(kept)}
    BY <1>2 DEF Saved
  <2> HIDE DEF kept
  <2>4. LET h == ForgetMail(kept) IN
        h \in Grants /\ h.token = kept.token /\ h.idle = kept.idle /\ NotesKept(kept, h)
    BY <2>2, ForgetMailIs
  <2>5. /\ Saved \in Grants /\ Saved.token = save.token /\ Saved.idle = save.grant.idle
        /\ NotesKept(save.grant, Saved)
    BY <2>2, <2>3, <2>4 DEF NotesKept
  <2> QED BY <2>5, <1>2, GrantIs
<1> QED BY <1>1, <1>2

LEMMA SaveSetKeeps == IInv /\ SaveSet => IInv'
<1> SUFFICES ASSUME IInv, SaveSet PROVE IInv'
  OBVIOUS
<1> DEFINE passed == IF grant = save.grant THEN ghost.passed ELSE 0
<1>0. /\ save # None /\ save \in Saves /\ save' = None /\ grant' = Saved
      /\ UNCHANGED <<feed, reg, fcm, run, turn, spent>>
      /\ feed.notes \in Notes /\ feed.notes \in Nat
      /\ ghost \in Ghosts /\ ghost.passed \in Nat /\ ghost.passed \in Notes
      /\ ghost.passed <= feed.notes
  BY GhostIs, Bounds DEF SaveSet, IInv, Typed, ReplayInv
<1>s. PICK revoked : sso' = [sso EXCEPT !.good = sso.good \ revoked]
  BY DEF SaveSet
<1>1. /\ sso' \in [minted : 1..MaxTokens, good : SUBSET (1..MaxTokens)]
      /\ sso'.minted = sso.minted /\ sso'.good \subseteq sso.good
  BY <1>s DEF IInv, Typed
<1>g. /\ ghost' \in Ghosts /\ ghost'.owed = ghost.owed
      /\ ghost'.passed = passed /\ ghost'.sure = {}
      /\ ghost'.twice = ghost.twice /\ ghost'.replayed = ghost.replayed
  <2>1. ghost' = [ghost EXCEPT !.sure = {}, !.passed = passed]
    BY DEF SaveSet
  <2>2. passed \in Notes
    BY <1>0, Bounds
  <2> HIDE DEF passed
  <2> QED BY <2>1, <2>2, <1>0 DEF Ghosts
<1>2. /\ grant' \in Grants /\ grant' # None /\ grant'.token = save.token
      /\ Active(save.grant) => NotesKept(save.grant, grant') /\ grant'.idle = save.grant.idle
      /\ ~Active(save.grant) => /\ grant'.status = "active" /\ grant'.mark = 0
                                /\ grant'.enabledAt = feed.notes
      /\ grant'.mark \in Nat
  BY <1>0, SavedIs, GrantIs, Bounds
<1>3. Typed'
  BY <1>0, <1>1, <1>2, <1>g DEF IInv, Typed
<1>4. Tokens'
  <2>1. Held(grant', run) \subseteq Held(grant, run) \cup {save.token}
    BY <1>2 DEF Held
  <2>2. save.token \in 1..sso.minted /\ Held(grant, run) \subseteq 1..sso.minted
    BY <1>0 DEF IInv, Tokens, TokensOf, Typed
  <2> QED BY <2>1, <2>2, <1>0, <1>1 DEF Tokens, TokensOf
<1>5. Past'
  <2>1. GrantPast(grant', feed.notes)
    <3>1. CASE Active(save.grant)
      BY <3>1, <1>0, <1>2 DEF IInv, Past, SavePast, GrantPast, NotesKept, Active
    <3>2. CASE ~Active(save.grant)
      BY <3>2, <1>0, <1>2 DEF GrantPast
    <3> QED BY <3>1, <3>2
  <2>2. SavePast(save', feed.notes)
    BY <1>0 DEF SavePast
  <2> QED BY <2>1, <2>2, <1>0 DEF IInv, Past
<1>6. OwedInv'
  <2>1. GrantOwed(grant', ghost.owed)
    <3>1. CASE Active(save.grant)
      <4>1. Above(save.grant, ghost.owed)
        BY <3>1, <1>0 DEF IInv, OwedInv, SaveOwed
      <4>2. Active(grant')
        BY <3>1, <1>2 DEF Active, NotesKept
      <4> QED BY <3>1, <4>1, <4>2, <1>2, AboveKept DEF GrantOwed, NotesKept
    <3>2. CASE ~Active(save.grant)
      <4>1. ghost.owed = {}
        BY <3>2, <1>0 DEF IInv, OwedInv, SaveOwed, GrantOwed
      <4> QED BY <4>1 DEF GrantOwed, Above
    <3> QED BY <3>1, <3>2
  <2>2. SaveOwed(save', grant', ghost.owed)
    BY <1>0 DEF SaveOwed
  <2> QED BY <2>1, <2>2, <1>0, <1>g DEF IInv, OwedInv
<1>7. ReplayInv'
  <2>1. CASE grant = save.grant
    <3>1. passed = ghost.passed
      BY <2>1
    <3>2. Covered(grant', reg, ghost.passed)
      <4>1. CASE Active(save.grant)
        BY <2>1, <4>1, <1>2 DEF IInv, ReplayInv, Covered, NotesKept, Active
      <4>2. CASE ~Active(save.grant)
        BY <4>2, <1>0, <1>2 DEF Covered
      <4> QED BY <4>1, <4>2
    <3> QED BY <3>1, <3>2, <1>0, <1>g DEF IInv, ReplayInv
  <2>2. CASE grant # save.grant
    <3>1. passed = 0
      BY <2>2
    <3>2. \A g \in Grants : \A R : Covered(g, R, 0)
      <4> SUFFICES ASSUME NEW g \in Grants, NEW R PROVE Covered(g, R, 0)
        OBVIOUS
      <4>1. g.mark \in Nat
        BY GrantIs, Bounds
      <4> QED BY <4>1 DEF Covered
    <3>3. RunCovered(run, reg, 0)
      <4>1. run.listedAt \in Nat
        BY RunIs, Bounds DEF IInv, Typed
      <4>2. run.pc # "off" => run.grant \in Grants
        BY DEF IInv, Typed, Equipped
      <4>3. \A m \in run.todo : \A i \in m[2] : i > 0
        BY RunIs, Bounds DEF IInv, Typed
      <4> QED BY <4>1, <4>2, <4>3, <3>2 DEF IInv, ReplayInv, RunCovered
    <3> QED BY <3>1, <3>2, <3>3, <1>0, <1>2, <1>g DEF IInv, ReplayInv
  <2> QED BY <2>1, <2>2
<1>8. MailInv'
  <2>1. \A g, P : Logged(g, {} \ P)
    BY DEF Logged
  <2>2. Copied(grant', run)
    <3>1. save.token \notin Held(grant, run) /\ save.token \in 1..MaxTokens
      BY <1>0 DEF IInv, Tokens, TokensOf, Saves
    <3>2. run.pc # "off" => save.token # run.grant.token
      BY <3>1 DEF Held
    <3> QED BY <3>2, <1>2 DEF Copied
  <2>3. Mailing(run, {})
    BY DEF IInv, MailInv, Mailing
  <2> QED BY <2>1, <2>2, <2>3, <1>0, <1>g DEF IInv, MailInv
<1> QED BY <1>3, <1>4, <1>5, <1>6, <1>7, <1>8 DEF IInv

LEMMA deleteAlertGrantKeeps == IInv /\ deleteAlertGrant => IInv'
<1> SUFFICES ASSUME IInv, deleteAlertGrant PROVE IInv'
  OBVIOUS
<1>0. /\ UNCHANGED <<feed, reg, fcm, save, run, turn>> /\ grant # None /\ grant' = None
      /\ spent' \in [acts : Nat, faults : Nat] /\ ghost \in Ghosts
  BY Spending DEF deleteAlertGrant, IInv, Typed
<1>1. PICK revoked \in {{}, {grant.token}} : sso' = [sso EXCEPT !.good = sso.good \ revoked]
  BY DEF deleteAlertGrant
<1>2. /\ sso' \in [minted : 1..MaxTokens, good : SUBSET (1..MaxTokens)]
      /\ sso'.minted = sso.minted /\ sso'.good = sso.good \ revoked
  BY <1>1 DEF IInv, Typed
<1>g. /\ ghost' \in Ghosts /\ ghost'.owed = {} /\ ghost'.passed = ghost.passed
      /\ ghost'.sure = {} /\ ghost'.twice = ghost.twice /\ ghost'.replayed = ghost.replayed
  <2>1. ghost' = [ghost EXCEPT !.owed = {}, !.sure = {}]
    BY DEF deleteAlertGrant
  <2> QED BY <2>1, <1>0 DEF Ghosts
<1>3. Typed'
  BY <1>0, <1>2, <1>g DEF IInv, Typed
<1>4. Tokens'
  <2>1. Held(grant', run) \subseteq Held(grant, run)
    BY <1>0 DEF Held
  <2>2. grant.token \in Held(grant, run)
    BY <1>0, GrantIs DEF Held, IInv, Typed
  <2> QED BY <2>1, <2>2, <1>0, <1>1, <1>2 DEF IInv, Tokens, TokensOf
<1>5. Past'
  BY <1>0 DEF IInv, Past, GrantPast
<1>6. OwedInv'
  <2>1. \A g, R, r : Above(g, {}) /\ Expected(R, {}) /\ Sent(r, {})
    BY DEF Above, Expected, Sent
  <2> QED BY <2>1, <1>0, <1>g DEF OwedInv, GrantOwed, SaveOwed, RunOwed, Active
<1>7. ReplayInv'
  BY <1>0, <1>g DEF IInv, ReplayInv
<1>8. MailInv'
  <2>1. \A g, P : Logged(g, {} \ P)
    BY DEF Logged
  <2>2. Copied(grant', run) /\ Mailing(run, {})
    BY <1>0 DEF IInv, MailInv, Copied, Mailing
  <2> QED BY <2>1, <2>2, <1>0, <1>g DEF IInv, MailInv
<1> QED BY <1>3, <1>4, <1>5, <1>6, <1>7, <1>8 DEF IInv

LEMMA SsoEndsKeeps == IInv /\ SsoEnds => IInv'
<1> SUFFICES ASSUME IInv, SsoEnds PROVE IInv'
  OBVIOUS
<1>0. /\ UNCHANGED <<feed, reg, fcm, grant, save, run, turn>> /\ grant # None
      /\ spent' \in [acts : Nat, faults : Nat] /\ ghost \in Ghosts
      /\ sso' = [sso EXCEPT !.good = sso.good \ {grant.token}]
      /\ ghost' = [ghost EXCEPT !.owed = {}]
  BY Spending DEF SsoEnds, IInv, Typed
<1>1. /\ sso' \in [minted : 1..MaxTokens, good : SUBSET (1..MaxTokens)]
      /\ sso'.minted = sso.minted /\ sso'.good = sso.good \ {grant.token}
  BY <1>0 DEF IInv, Typed
<1>g. /\ ghost' \in Ghosts /\ ghost'.owed = {} /\ ghost'.passed = ghost.passed
      /\ ghost'.sure = ghost.sure /\ ghost'.twice = ghost.twice
      /\ ghost'.replayed = ghost.replayed
  BY <1>0 DEF Ghosts
<1>2. Typed'
  BY <1>0, <1>1, <1>g DEF IInv, Typed
<1>3. Tokens'
  <2>1. grant.token \in Held(grant, run)
    BY <1>0, GrantIs DEF Held, IInv, Typed
  <2> QED BY <2>1, <1>0, <1>1 DEF IInv, Tokens, TokensOf
<1>4. Past' /\ ReplayInv' /\ MailInv'
  BY <1>0, <1>g DEF IInv, Past, ReplayInv, MailInv
<1>5. OwedInv'
  <2>1. \A g, R, r : Above(g, {}) /\ Expected(R, {}) /\ Sent(r, {})
    BY DEF Above, Expected, Sent
  <2> QED BY <2>1, <1>0, <1>g DEF IInv, OwedInv, GrantOwed, SaveOwed, RunOwed
<1> QED BY <1>2, <1>3, <1>4, <1>5 DEF IInv

-----------------------------------------------------------------------------
(***************************************************************************)
(* The theorems.                                                            *)
(***************************************************************************)

LEMMA InvStep == IInv /\ [Next]_vars => IInv'
<1> SUFFICES ASSUME IInv, [Next]_vars PROVE IInv'
  OBVIOUS
<1>1. CASE listDue
  BY <1>1, listDueKeeps
<1>2. CASE RunStep
  <2>1. ASSUME NEW m \in run.todo, Delivered(m) \/ TokenGone(m) \/ MailDelivered(m) PROVE IInv'
    BY <2>1, DeliveredKeeps, TokenGoneKeeps, MailDeliveredKeeps
  <2>2. CASE Sends
    BY <2>1, <2>2 DEF Sends
  <2>3. CASE devicesForMany \/ markIdle \/ deferNextPoll \/ RefreshAtSso \/ InvalidGrant
    BY <2>3, devicesForManyKeeps, markIdleKeeps, deferNextPollKeeps, RefreshAtSsoKeeps,
       InvalidGrantKeeps
  <2>4. CASE WriteRotated \/ markRevoked \/ ReadFeed \/ SkipFeed \/ Patched
    BY <2>4, WriteRotatedKeeps, markRevokedKeeps, ReadFeedKeeps, SkipFeedKeeps, PatchedKeeps
  <2>5. CASE SkipMail \/ ReadMail \/ MailPatched
    BY <2>5, SkipMailKeeps, ReadMailKeeps, MailPatchedKeeps
  <2> QED BY <1>2, <2>2, <2>3, <2>4, <2>5 DEF RunStep
<1>3. CASE Fails
  <2>1. CASE FeedFails \/ MailForbidden \/ CutOff
    BY <2>1, FeedFailsKeeps, MailForbiddenKeeps, CutOffKeeps
  <2>2. CASE \E m \in run.todo : SendFails(m)
    BY <2>2, SendFailsKeeps
  <2> QED BY <1>3, <2>1, <2>2 DEF Fails
<1>4. CASE Around
  <2>1. CASE NoteArrives \/ MailArrives \/ SaveRead \/ SaveSet \/ deleteAlertGrant \/ SsoEnds
    BY <2>1, NoteArrivesKeeps, MailArrivesKeeps, SaveReadKeeps, SaveSetKeeps,
       deleteAlertGrantKeeps, SsoEndsKeeps
  <2>2. ASSUME NEW d \in Device, registerDevice(d) \/ Ages(d) \/ FcmRolls(d) PROVE IInv'
    BY <2>2, registerDeviceKeeps, AgesKeeps, FcmRollsKeeps
  <2> QED BY <1>4, <2>1, <2>2 DEF Around
<1>5. CASE UNCHANGED vars
  BY <1>5 DEF vars, IInv, Typed, Tokens, Past, OwedInv, ReplayInv, MailInv
<1> QED BY <1>1, <1>2, <1>3, <1>4, <1>5 DEF Next

LEMMA Invariant == Spec => []IInv
<1> QED BY InitHolds, InvStep, PTL DEF Spec

(* What a registered device is still to be told of lies above the grant's   *)
(* mark, however many devices, notifications, tokens and failures there     *)
(* are; with it, the types.                                                 *)
THEOREM NotesCorrect == Spec => []NotesNotLost
<1>1. IInv => NotesNotLost
  <2> SUFFICES ASSUME IInv PROVE NotesNotLost
    OBVIOUS
  <2>1. TypeOK
    <3>1. save = None \/ (save.grant \in Grants \cup {None} /\ save.token \in sso.good)
      BY DEF IInv, Typed, Saves, Tokens, TokensOf
    <3>2. run.pc \in Phase
      BY RunIs DEF IInv, Typed
    <3> QED BY <3>1, <3>2 DEF IInv, Typed, RegMap, Equipped, TypeOK
  <2>2. \A p \in ghost.owed : Active(grant) => p[2] > grant.mark
    BY DEF IInv, OwedInv, GrantOwed, Above
  <2> QED BY <2>1, <2>2 DEF NotesNotLost
<1> QED BY <1>1, Invariant, PTL

(* A mail that went out and was logged goes to that device once, through    *)
(* failed sends, runs cut off and re-grants.                                *)
THEOREM MailsCorrect == Spec => []NoMailTwice
<1>1. IInv => NoMailTwice
  BY DEF IInv, MailInv, NoMailTwice
<1> QED BY <1>1, Invariant, PTL

(* Nothing that passed while nobody wanted it is pushed later, whoever      *)
(* registers or falls silent between the steps of a run.                    *)
THEOREM ReplaysCorrect == Spec => []NoReplay
<1>1. IInv => NoReplay
  BY DEF IInv, ReplayInv, NoReplay
<1> QED BY <1>1, Invariant, PTL

=============================================================================
