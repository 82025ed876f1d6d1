---------------------------- MODULE AlertsPoller ----------------------------
(***************************************************************************)
(* The Alerts poller (functions/src/pollEveNotifications.ts) over one        *)
(* Character's grant: every run plans from the devices it read, refreshes    *)
(* the stored token, pushes what the feed and the mailbox have above the     *)
(* high-water marks and then moves the marks.  The user grants again or      *)
(* takes the grant back, devices register and fall silent, EVE and FCM       *)
(* refuse, and a run may be cut off, all between two of its steps.  The      *)
(* other Characters of a run and the nearby phase are left out.              *)
(***************************************************************************)
EXTENDS Naturals, FiniteSets, FiniteSetsExt

CONSTANTS
    Device,
    Type,
    KindOf,             \* KindOf[n]: the type of notification n
    Quiet,              \* the devices that keep quiet hours
    MaxNotes,           \* bound: notifications EVE sends (their ids)
    MaxMails,           \* bound: mails the Character receives (their ids)
    SummaryThreshold,   \* SUMMARY_THRESHOLD
    MaxMailPushes,      \* MAX_MAIL_PUSHES
    SleepingEvery,      \* SLEEPING_POLL_EVERY_RUNS
    IdleRecheck,        \* IDLE_RECHECK_RUNS
    MaxTokens,          \* bound: token blobs ever stored
    MaxFaults,          \* bound: what goes wrong
    MaxActs,            \* bound: what the user and time do
    None

ASSUME AlertsPollerAssumptions ==
    /\ MaxNotes \in Nat /\ MaxMails \in Nat /\ KindOf \in [1..MaxNotes -> Type]
    /\ Quiet \subseteq Device
    /\ SummaryThreshold \in Nat /\ MaxMailPushes \in Nat \ {0}
    /\ SleepingEvery \in Nat \ {0} /\ IdleRecheck \in Nat
    /\ MaxTokens \in Nat \ {0} /\ MaxFaults \in Nat /\ MaxActs \in Nat

VARIABLES
    feed,       \* how many notifications and mails EVE has
    reg,        \* reg[d]: the registration of device d, or None
    fcm,        \* fcm[d]: the FCM token d's browser holds now
    grant,      \* alertGrants/{characterId}, or None
    sso,        \* EVE's side: tokens minted and still good
    save,       \* saveAlertGrant between its read and its set, or None
    run,        \* the run's work on this Character
    turn,       \* the number of the run, modulo SleepingEvery
    spent,      \* acts and faults so far
    ghost       \* what the properties remember

vars == <<feed, reg, fcm, grant, sso, save, run, turn, spent, ghost>>

(* "idle" and "poll" are the plan; "rotated": EVE gave a new token that is    *)
(* not stored yet; "refused": EVE will not have this one; "read": the feed    *)
(* is next, then "sending" its pushes; "mail" and "mailing" likewise.         *)
Phase == {"off", "listed", "idle", "defer", "poll", "rotated", "refused", "read",
          "sending", "mail", "mailing"}

Off == [pc |-> "off", grant |-> None, devs |-> None, listedAt |-> 0, next |-> None,
        todo |-> {}, failed |-> FALSE, found |-> 0, pushed |-> {}]

(* A grant saved with no active one before it (saveAlertGrant).  No mark at   *)
(* all is 0 for the notifications, None for the mail: it seeds silently.      *)
NewGrant(token, now, mailScope) ==
    [token |-> token, status |-> "active", enabledAt |-> now, mark |-> 0, etag |-> None,
     seen |-> {}, idle |-> FALSE, mailScope |-> mailScope, mailMark |-> None,
     mailEtag |-> None, mailPushed |-> {}, wait |-> 0]

Init ==
    /\ feed = [notes |-> 0, mails |-> 0]
    /\ reg = [d \in Device |-> None]
    /\ fcm = [d \in Device |-> 1]
    /\ grant = [NewGrant(1, 0, TRUE) EXCEPT !.seen = Type]
    /\ sso = [minted |-> 1, good |-> {1}]
    /\ save = None
    /\ run = Off
    /\ turn = 0
    /\ spent = [acts |-> 0, faults |-> 0]
    /\ ghost = [owed |-> {}, passed |-> 0, sure |-> {}, twice |-> FALSE, replayed |-> FALSE]

Act == spent.acts < MaxActs /\ spent' = [spent EXCEPT !.acts = @ + 1]
Fault == spent.faults < MaxFaults /\ spent' = [spent EXCEPT !.faults = @ + 1]

Active(g) == g # None /\ g.status = "active"

Without(owed, d) == {p \in owed : p[1] # d}

-----------------------------------------------------------------------------
(***************************************************************************)
(* planGrant: who wants what, and whose turn it is.                          *)
(***************************************************************************)

Live(devs) == {d \in Device : devs[d] # None /\ devs[d].age # "dormant"}
Due(devs) == {d \in Live(devs) : devs[d].age = "fresh" \/ turn = 0}

WantsNotes(g, devs, who) ==
    who # {} /\ (g.seen = {} \/ \E d \in who : devs[d].types # {})
WantsMail(g, devs, who) == g.mailScope /\ \E d \in who : devs[d].mail

IdleNotes(g, devs) == ~WantsNotes(g, devs, Live(devs))
IdleMail(g, devs) == g.mailScope /\ ~WantsMail(g, devs, Live(devs))

AnyWanted(g, devs, who) == WantsNotes(g, devs, who) \/ WantsMail(g, devs, who)

planGrant(g, devs) ==
    IF ~AnyWanted(g, devs, Live(devs)) THEN "idle"
    ELSE IF ~AnyWanted(g, devs, Due(devs)) THEN "off"
    ELSE "poll"

(* idleRecheckAtMs: IdleRecheck runs on, rounded up to an hourly slot.       *)
idleRecheckAt ==
    ((turn + IdleRecheck + SleepingEvery - 1) \div SleepingEvery) * SleepingEvery - turn

-----------------------------------------------------------------------------
(***************************************************************************)
(* The run's steps up to its first read of EVE.                              *)
(***************************************************************************)

(* Every write of a run is dropped when the grant was replaced since.        *)
Guarded(g) == g # None /\ g.token = run.grant.token

(* Every 15 minutes: listDue reads the grant when its time has come.         *)
listDue ==
    /\ run.pc = "off"
    /\ turn' = (turn + 1) % SleepingEvery
    /\ IF ~Active(grant) THEN UNCHANGED <<run, grant>>
       ELSE IF grant.wait > 1
       THEN grant' = [grant EXCEPT !.wait = @ - 1] /\ UNCHANGED run
       ELSE /\ grant' = [grant EXCEPT !.wait = 0]
            /\ run' = [Off EXCEPT !.pc = "listed", !.grant = grant', !.listedAt = feed.notes]
    /\ UNCHANGED <<feed, reg, fcm, sso, save, spent, ghost>>

devicesForMany ==
    /\ run.pc = "listed"
    /\ LET plan == planGrant(run.grant, reg) IN
        run' = IF plan = "off" THEN Off ELSE [run EXCEPT !.pc = plan, !.devs = reg]
    /\ UNCHANGED <<feed, reg, fcm, grant, sso, save, turn, spent, ghost>>

(* notificationsIdle: nothing up to the listing will be pushed any more.     *)
MarkNotesIdle(g) == [g EXCEPT !.idle = TRUE]
ForgetMail(g) == [g EXCEPT !.mailMark = None, !.mailEtag = None, !.mailPushed = {}]

markIdle ==
    /\ run.pc = "idle"
    /\ run' = [run EXCEPT !.pc = "defer"]
    /\ IF Guarded(grant)
       THEN /\ grant' = IF IdleMail(run.grant, run.devs) THEN MarkNotesIdle(ForgetMail(grant))
                        ELSE MarkNotesIdle(grant)
            /\ ghost' = [ghost EXCEPT !.passed = Max({@, run.listedAt})]
       ELSE UNCHANGED <<grant, ghost>>
    /\ UNCHANGED <<feed, reg, fcm, sso, save, turn, spent>>

deferNextPoll ==
    /\ run.pc = "defer"
    /\ grant' = IF Guarded(grant) THEN [grant EXCEPT !.wait = idleRecheckAt] ELSE grant
    /\ run' = Off
    /\ UNCHANGED <<feed, reg, fcm, sso, save, turn, spent, ghost>>

(* EVE redeems the token of the listed copy, and may hand out a new one.     *)
RefreshAtSso ==
    /\ run.pc = "poll" /\ run.grant.token \in sso.good
    /\ \/ run' = [run EXCEPT !.pc = "read"] /\ UNCHANGED sso
       \/ /\ sso.minted < MaxTokens
          /\ LET t == sso.minted + 1 IN
             /\ sso' = [minted |-> t, good |-> (sso.good \ {run.grant.token}) \cup {t}]
             /\ run' = [run EXCEPT !.pc = "rotated", !.next = t]
    /\ UNCHANGED <<feed, reg, fcm, grant, save, turn, spent, ghost>>

InvalidGrant ==
    /\ run.pc = "poll" /\ run.grant.token \notin sso.good
    /\ run' = [run EXCEPT !.pc = "refused"]
    /\ UNCHANGED <<feed, reg, fcm, grant, sso, save, turn, spent, ghost>>

(* The rotated token is stored, unless a re-grant replaced the old one.      *)
WriteRotated ==
    /\ run.pc = "rotated"
    /\ IF Guarded(grant)
       THEN /\ grant' = [grant EXCEPT !.token = run.next]
            /\ run' = [run EXCEPT !.pc = "read", !.grant.token = run.next]
       ELSE run' = Off /\ UNCHANGED grant
    /\ UNCHANGED <<feed, reg, fcm, sso, save, turn, spent, ghost>>

markRevoked ==
    /\ run.pc = "refused"
    /\ IF Guarded(grant)
       THEN grant' = [grant EXCEPT !.status = "revoked"] /\ ghost' = [ghost EXCEPT !.owed = {}]
       ELSE UNCHANGED <<grant, ghost>>
    /\ run' = Off
    /\ UNCHANGED <<feed, reg, fcm, sso, save, turn, spent>>

-----------------------------------------------------------------------------
(***************************************************************************)
(* pollNotifications.                                                        *)
(***************************************************************************)

(* Enabling never replays: after an idle spell the feed resumes at the       *)
(* earliest registration that wants a type.                                  *)
wakeCutoff ==
    Min({run.listedAt} \cup {run.devs[d].stamp : d \in {x \in Live(run.devs) : run.devs[x].types # {}}})

enabledAt == IF run.grant.idle THEN Max({run.grant.enabledAt, wakeCutoff}) ELSE run.grant.enabledAt

(* A type's first notification is recorded, not pushed.                      *)
FirstSighting(n) == KindOf[n] \notin run.grant.seen /\ \A m \in 1..(n - 1) : KindOf[m] # KindOf[n]

(* A bug: an idle spell is not remembered.                                   *)
Pushable_Replay(d) ==
    {n \in 1..feed.notes : /\ n > run.grant.mark /\ ~FirstSighting(n)
                           /\ n > run.grant.enabledAt /\ KindOf[n] \in run.devs[d].types}

Pushable(d) ==
    {n \in 1..feed.notes : /\ n > run.grant.mark /\ ~FirstSighting(n)
                           /\ n > enabledAt /\ KindOf[n] \in run.devs[d].types}

(* More than the threshold collapse into one summary.                        *)
buildPushes(ids) == IF Cardinality(ids) > SummaryThreshold THEN {ids} ELSE {{n} : n \in ids}

NotModified == ~run.grant.idle /\ run.grant.etag = feed.notes

(* What quiet time and first sightings keep back is not owed any more.       *)
ReadFeed ==
    /\ run.pc = "read" /\ WantsNotes(run.grant, run.devs, Due(run.devs))
    /\ IF NotModified THEN run' = [run EXCEPT !.pc = "mail"] /\ UNCHANGED ghost
       ELSE \E quiet \in SUBSET (Quiet \cap Live(run.devs)) :
            /\ run' = [run EXCEPT !.pc = "sending", !.found = feed.notes,
                          !.todo = UNION {{<<d, ids>> : ids \in buildPushes(Pushable(d))}
                                          : d \in Live(run.devs) \ quiet}]
            /\ ghost' = [ghost EXCEPT !.owed = {q \in @ : q[1] \notin quiet /\ ~FirstSighting(q[2])}]
    /\ UNCHANGED <<feed, reg, fcm, grant, sso, save, turn, spent>>

(* Nobody wants the feed, but someone wants mail.                            *)
SkipFeed ==
    /\ run.pc = "read" /\ ~WantsNotes(run.grant, run.devs, Due(run.devs))
    /\ run' = [run EXCEPT !.pc = "mail"]
    /\ IF IdleNotes(run.grant, run.devs) /\ Guarded(grant)
       THEN /\ grant' = MarkNotesIdle(grant)
            /\ ghost' = [ghost EXCEPT !.passed = Max({@, run.listedAt})]
       ELSE UNCHANGED <<grant, ghost>>
    /\ UNCHANGED <<feed, reg, fcm, sso, save, turn, spent>>

(* ESI answers 403: the grant is dead; or another error: only the mail is    *)
(* read.                                                                     *)
FeedFails ==
    /\ run.pc = "read" /\ WantsNotes(run.grant, run.devs, Due(run.devs))
    /\ Fault
    /\ \E then \in {"refused", "mail"} : run' = [run EXCEPT !.pc = then]
    /\ UNCHANGED <<feed, reg, fcm, grant, sso, save, turn, ghost>>

(* The pushes of a device go out oldest first.                               *)
Oldest(m) == \A o \in run.todo : o[1] = m[1] => Min(m[2]) <= Min(o[2])

Reaches(d) == run.devs[d].tok = fcm[d]

Delivered(m) ==
    /\ run.pc = "sending" /\ m \in run.todo /\ Oldest(m)
    /\ Reaches(m[1])
    /\ run' = [run EXCEPT !.todo = @ \ {m}]
    /\ ghost' = [ghost EXCEPT !.owed = @ \ ({m[1]} \X m[2]),
                              !.replayed = @ \/ \E n \in m[2] : n <= ghost.passed]
    /\ UNCHANGED <<feed, reg, fcm, grant, sso, save, turn, spent>>

(* FCM knows the token no more: the device is deleted, and the rest of its   *)
(* pushes dropped, whatever it registered meanwhile.                         *)
deleteDevice(d) ==
    /\ reg' = [reg EXCEPT ![d] = None]
    /\ ghost' = [ghost EXCEPT !.owed = Without(@, d)]
    /\ run' = [run EXCEPT !.todo = {m \in @ : m[1] # d}]

TokenGone(m) ==
    /\ run.pc \in {"sending", "mailing"} /\ m \in run.todo
    /\ ~Reaches(m[1])
    /\ deleteDevice(m[1])
    /\ UNCHANGED <<feed, fcm, grant, sso, save, turn, spent>>

SendFails(m) ==
    /\ run.pc \in {"sending", "mailing"} /\ m \in run.todo /\ Oldest(m)
    /\ Fault
    /\ run' = [run EXCEPT !.todo = @ \ {m}, !.failed = TRUE]
    /\ UNCHANGED <<feed, reg, fcm, grant, sso, save, turn, ghost>>

(* Two bugs: the failure is forgotten; the ETag is stored in spite of it.    *)
patch_Always(g) ==
    [g EXCEPT !.mark = Max({run.grant.mark, run.found}), !.etag = run.found,
              !.seen = run.grant.seen \cup {KindOf[n] : n \in 1..run.found}, !.idle = FALSE]
patch_Etag(g) == IF run.failed THEN [g EXCEPT !.etag = run.found] ELSE patch_Always(g)

(* After a transient failure the state stays, and the next run sends again.  *)
patch(g) ==
    IF run.failed THEN g
    ELSE [g EXCEPT !.mark = Max({run.grant.mark, run.found}), !.etag = run.found,
                   !.seen = run.grant.seen \cup {KindOf[n] : n \in 1..run.found}, !.idle = FALSE]

Patched ==
    /\ run.pc = "sending" /\ run.todo = {}
    /\ grant' = IF Guarded(grant) THEN patch(grant) ELSE grant
    /\ run' = [run EXCEPT !.pc = "mail", !.failed = FALSE, !.found = 0]
    /\ UNCHANGED <<feed, reg, fcm, sso, save, turn, spent, ghost>>

-----------------------------------------------------------------------------
(***************************************************************************)
(* pollMail.                                                                 *)
(***************************************************************************)

WantingMail == {d \in Live(run.devs) : run.devs[d].mail}

(* Nobody wants it: the mark goes, so that it seeds afresh; or it is not the *)
(* turn of those who do; or nothing is new.                                  *)
SkipMail ==
    /\ run.pc = "mail"
    /\ \/ /\ run.grant.mailScope /\ WantingMail = {}
          /\ grant' = IF Guarded(grant) THEN ForgetMail(grant) ELSE grant
       \/ /\ \/ ~run.grant.mailScope
             \/ WantingMail # {} /\ ~WantsMail(run.grant, run.devs, Due(run.devs))
             \/ /\ WantsMail(run.grant, run.devs, Due(run.devs))
                /\ run.grant.mailMark # None /\ run.grant.mailEtag = feed.mails
          /\ UNCHANGED grant
    /\ run' = Off
    /\ UNCHANGED <<feed, reg, fcm, sso, save, turn, spent, ghost>>

(* selectNewMail, and of a burst only the newest.                            *)
Fires ==
    IF run.grant.mailMark = None THEN {}
    ELSE {n \in 1..feed.mails : n > run.grant.mailMark /\ n > feed.mails - MaxMailPushes}

(* A bug: the log of what already went out is not looked at.                 *)
AlreadyPushed_Ignored == {}

AlreadyPushed == run.grant.mailPushed

ReadMail ==
    /\ run.pc = "mail" /\ WantsMail(run.grant, run.devs, Due(run.devs))
    /\ run.grant.mailMark = None \/ run.grant.mailEtag # feed.mails
    /\ \E quiet \in SUBSET (Quiet \cap WantingMail) :
        run' = [run EXCEPT !.pc = "mailing", !.found = feed.mails,
                  !.pushed = quiet \X Fires,
                  !.todo = {<<p[1], {p[2]}>> :
                            p \in ((WantingMail \ quiet) \X Fires) \ AlreadyPushed}]
    /\ UNCHANGED <<feed, reg, fcm, grant, sso, save, turn, spent, ghost>>

(* ESI refuses the mail scope: it is dropped, and the mark with it.          *)
MailForbidden ==
    /\ run.pc = "mail" /\ WantsMail(run.grant, run.devs, Due(run.devs))
    /\ Fault
    /\ grant' = IF Guarded(grant) THEN [ForgetMail(grant) EXCEPT !.mailScope = FALSE] ELSE grant
    /\ run' = Off
    /\ UNCHANGED <<feed, reg, fcm, sso, save, turn, ghost>>

MailDelivered(m) ==
    /\ run.pc = "mailing" /\ m \in run.todo /\ Oldest(m)
    /\ Reaches(m[1])
    /\ LET pushed == {m[1]} \X m[2] IN
        /\ run' = [run EXCEPT !.todo = @ \ {m}, !.pushed = @ \cup pushed]
        /\ ghost' = [ghost EXCEPT !.twice = @ \/ pushed \subseteq ghost.sure,
                                  !.sure = @ \cup pushed]
    /\ UNCHANGED <<feed, reg, fcm, grant, sso, save, turn, spent>>

(* The mark moves past everything, or after a failure stays with a log.      *)
patchMail(g) ==
    IF run.failed THEN [g EXCEPT !.mailPushed = run.grant.mailPushed \cup run.pushed]
    ELSE [g EXCEPT !.mailMark = run.found, !.mailEtag = run.found, !.mailPushed = {}]

MailPatched ==
    /\ run.pc = "mailing" /\ run.todo = {}
    /\ grant' = IF Guarded(grant) THEN patchMail(grant) ELSE grant
    /\ ghost' = IF Guarded(grant) THEN ghost ELSE [ghost EXCEPT !.sure = {}]
    /\ run' = Off
    /\ UNCHANGED <<feed, reg, fcm, sso, save, turn, spent>>

(* The run is cut off: a read or a write failed, another Character used up   *)
(* the error budget, or the instance was killed.  A token EVE rotated and    *)
(* the run did not store is lost, and the grant with it.                     *)
CutOff ==
    /\ run.pc # "off"
    /\ Fault
    /\ run' = Off
    /\ ghost' = [ghost EXCEPT !.owed = IF run.pc = "rotated" THEN {} ELSE @,
                              !.sure = IF run.pc = "mailing" THEN @ \ run.pushed ELSE @]
    /\ UNCHANGED <<feed, reg, fcm, grant, sso, save, turn>>

-----------------------------------------------------------------------------
(***************************************************************************)
(* What happens around the run: EVE, the user, the devices.                  *)
(***************************************************************************)

Wanting(devs, d, n) ==
    devs[d] # None /\ devs[d].age # "dormant" /\ KindOf[n] \in devs[d].types

(* The run at work will mark n handled without having heard of d's wish.     *)
Overlooked(d, n) == run.pc \in {"poll", "rotated", "read"} /\ ~Wanting(run.devs, d, n)

NoteArrives ==
    /\ feed.notes < MaxNotes
    /\ feed' = [feed EXCEPT !.notes = @ + 1]
    /\ LET n == feed.notes + 1 IN
       ghost' = [ghost EXCEPT !.owed = @ \cup
           {<<d, n>> : d \in {x \in Device : /\ Active(grant) /\ grant.token \in sso.good
                                             /\ Wanting(reg, x, n) /\ reg[x].tok = fcm[x]
                                             /\ ~Overlooked(x, n)}}]
    /\ UNCHANGED <<reg, fcm, grant, sso, save, run, turn, spent>>

MailArrives ==
    /\ feed.mails < MaxMails
    /\ feed' = [feed EXCEPT !.mails = @ + 1]
    /\ UNCHANGED <<reg, fcm, grant, sso, save, run, turn, spent, ghost>>

(* A type is offered once the grant has seen it.  The open app shows what    *)
(* came so far itself.                                                       *)
registerDevice(d) ==
    /\ Act
    /\ LET had == IF reg[d] = None THEN {} ELSE reg[d].types
           offered == IF grant = None THEN {} ELSE grant.seen IN
       \E types \in SUBSET (had \cup offered), mail \in BOOLEAN :
           reg' = [reg EXCEPT ![d] = [types |-> types, mail |-> mail, stamp |-> feed.notes,
                                      age |-> "fresh", tok |-> fcm[d]]]
    /\ ghost' = [ghost EXCEPT !.owed = Without(@, d)]
    /\ UNCHANGED <<feed, fcm, grant, sso, save, run, turn>>

(* Its registration passes FRESH_DEVICE_DAYS, then the inactivity window.    *)
Ages(d) ==
    /\ Act /\ reg[d] # None /\ reg[d].age # "dormant"
    /\ reg' = [reg EXCEPT ![d].age = IF @ = "fresh" THEN "stale" ELSE "dormant"]
    /\ ghost' = IF reg[d].age = "stale" THEN [ghost EXCEPT !.owed = Without(@, d)] ELSE ghost
    /\ UNCHANGED <<feed, fcm, grant, sso, save, run, turn>>

(* The browser drops the device's token for a new one.                       *)
FcmRolls(d) ==
    /\ Act /\ reg[d] # None /\ reg[d].tok = fcm[d]
    /\ fcm' = [fcm EXCEPT ![d] = 3 - @]
    /\ ghost' = [ghost EXCEPT !.owed = Without(@, d)]
    /\ UNCHANGED <<feed, reg, grant, sso, save, run, turn>>

(* saveAlertGrant: SSO redeems the supplied token, then the grant is read,   *)
SaveRead ==
    /\ save = None /\ sso.minted < MaxTokens /\ Act
    /\ \E mailScope \in BOOLEAN :
        save' = [grant |-> grant, token |-> sso.minted + 1, mailScope |-> mailScope]
    /\ sso' = [minted |-> sso.minted + 1, good |-> sso.good \cup {sso.minted + 1}]
    /\ UNCHANGED <<feed, reg, fcm, grant, run, turn, ghost>>

(* A re-grant keeps everything but the token, and the mail state if both     *)
(* cover mail.                                                               *)
Saved ==
    LET kept == [save.grant EXCEPT !.token = save.token, !.wait = 0,
                                   !.mailScope = save.mailScope] IN
    IF ~Active(save.grant) THEN NewGrant(save.token, feed.notes, save.mailScope)
    ELSE IF save.mailScope /\ save.grant.mailScope THEN kept ELSE ForgetMail(kept)

(* ... and written whole, whatever became of it meanwhile (then even an idle  *)
(* mark may be undone); the replaced token is revoked, best effort.          *)
SaveSet ==
    /\ save # None
    /\ grant' = Saved
    /\ LET old == IF save.grant = None THEN {} ELSE {save.grant.token} IN
       \E revoked \in {{}, old} : sso' = [sso EXCEPT !.good = @ \ revoked]
    /\ save' = None
    /\ ghost' = [ghost EXCEPT !.sure = {},
                              !.passed = IF grant = save.grant THEN @ ELSE 0]
    /\ UNCHANGED <<feed, reg, fcm, run, turn, spent>>

deleteAlertGrant ==
    /\ Act /\ grant # None
    /\ grant' = None
    /\ \E revoked \in {{}, {grant.token}} : sso' = [sso EXCEPT !.good = @ \ revoked]
    /\ ghost' = [ghost EXCEPT !.owed = {}, !.sure = {}]
    /\ UNCHANGED <<feed, reg, fcm, save, run, turn>>

(* The user withdraws the app's access at EVE.                               *)
SsoEnds ==
    /\ Act /\ grant # None /\ grant.token \in sso.good
    /\ sso' = [sso EXCEPT !.good = @ \ {grant.token}]
    /\ ghost' = [ghost EXCEPT !.owed = {}]
    /\ UNCHANGED <<feed, reg, fcm, grant, save, run, turn>>

-----------------------------------------------------------------------------
(***************************************************************************)
(* The whole, with its fairness: the schedule goes on, and every run ends    *)
(* (its calls have timeouts, and so has the function).                       *)
(***************************************************************************)

Sends == \E m \in run.todo : Delivered(m) \/ TokenGone(m) \/ MailDelivered(m)

RunStep ==
    \/ devicesForMany \/ markIdle \/ deferNextPoll
    \/ RefreshAtSso \/ InvalidGrant \/ WriteRotated \/ markRevoked
    \/ ReadFeed \/ SkipFeed \/ Sends \/ Patched
    \/ SkipMail \/ ReadMail \/ MailPatched

Fails ==
    \/ FeedFails \/ MailForbidden \/ CutOff
    \/ \E m \in run.todo : SendFails(m)

Around ==
    \/ NoteArrives \/ MailArrives
    \/ \E d \in Device : registerDevice(d) \/ Ages(d) \/ FcmRolls(d)
    \/ SaveRead \/ SaveSet \/ deleteAlertGrant \/ SsoEnds

Next == listDue \/ RunStep \/ Fails \/ Around

Spec == Init /\ [][Next]_vars

FairSpec == Spec /\ WF_vars(listDue) /\ []<>(run.pc = "off")

-----------------------------------------------------------------------------
(* The values the state may take.                                            *)
Notes == 0..MaxNotes
Mails == 0..MaxMails
Ids == 1..(MaxNotes + MaxMails)
Grants ==
    [token : 1..MaxTokens, status : {"active", "revoked"}, enabledAt : Notes, mark : Notes,
     etag : Notes \cup {None}, seen : SUBSET Type, idle : BOOLEAN, mailScope : BOOLEAN,
     mailMark : Mails \cup {None}, mailEtag : Mails \cup {None},
     mailPushed : SUBSET (Device \X Ids), wait : 0..(IdleRecheck + SleepingEvery)]
Registrations ==
    [types : SUBSET Type, mail : BOOLEAN, stamp : Notes, age : {"fresh", "stale", "dormant"},
     tok : 1..2]

(* No grant and no registration at all is neither of them.                   *)
ASSUME NoneIsNothing == None \notin Grants \cup Registrations

(* Every part of the state is of its kind; a run works on a grant that was   *)
(* active when listed, and sends only to devices it read.                    *)
TypeOK ==
    /\ feed \in [notes : Notes, mails : Mails]
    /\ reg \in [Device -> Registrations \cup {None}]
    /\ fcm \in [Device -> 1..2]
    /\ grant \in Grants \cup {None}
    /\ sso.minted \in 1..MaxTokens /\ sso.good \subseteq 1..sso.minted
    /\ save = None \/ (save.grant \in Grants \cup {None} /\ save.token \in sso.good)
    /\ run.pc \in Phase /\ turn \in 0..(SleepingEvery - 1)
    /\ run.pc # "off" => run.grant \in Grants /\ run.grant.status = "active"
    /\ run.todo # {} => run.pc \in {"sending", "mailing"} /\ \A m \in run.todo : run.devs[m[1]] # None

(* What a registered device is still to be told of lies above the grant's    *)
(* mark: the mark passes a notification only once every device that wanted   *)
(* it took it (pollEveNotifications.ts:487-488, 515-517), through failed     *)
(* sends, runs cut off, idle spells and re-grants.  Types included.          *)
NotesNotLost ==
    /\ TypeOK
    /\ \A p \in ghost.owed : Active(grant) => p[2] > grant.mark

(* A mail that went out and was logged is not pushed to that device again,   *)
(* unless the run was cut off before its log (pollEveNotifications.ts:       *)
(* 655-658).                                                                 *)
NoMailTwice == ~ghost.twice

(* What passed while nobody wanted notifications is never pushed afterwards  *)
(* (pollerEfficiency.ts, wakeCutoffMs: "enabling never replays history").    *)
NoReplay == ~ghost.replayed

(* What the devices are owed they get in the end, or they come back to the   *)
(* app, or the grant or the registration ends: nobody is owed for ever.      *)
OwedEnds == []<>(ghost.owed = {})
=============================================================================
