------------------------------ MODULE Admission ------------------------------
(***************************************************************************)
(* Account admission: invitations, public registration and password         *)
(* recovery all hand a person a link that works once, and an outbox mails   *)
(* it. The requests run in transactions of two isolation levels, the mail   *)
(* senders poll the outbox without one.                                     *)
(*                                                                          *)
(* A link is its token; the database keeps the hash, which identifies it as *)
(* well. Links are numbered as they are issued, so that their number orders *)
(* the outbox by createdAt. Time is which links have lapsed and which claims *)
(* are overdue. Passwords, sessions, audit rows and wording are left out.   *)
(***************************************************************************)
EXTENDS Integers, FiniteSets, FiniteSetsExt

CONSTANTS
    Email, Caller, Sender,
    Casts,          \* the callers and senders that take part in a behaviour
    MaxLinks,       \* bound: the links ever issued
    MaxInvitations, \* bound: the invitations ever created
    ClaimLimit,     \* CLAIM_LIMIT
    MaxDeaths,      \* bound: the senders that die with mail in hand
    MailOn          \* whether the account mail workflow is configured

ASSUME AdmissionAssumption ==
    /\ MaxLinks \in Nat \ {0} /\ MaxInvitations \in Nat \ {0}
    /\ ClaimLimit \in Nat \ {0} /\ MaxDeaths \in Nat /\ MailOn \in BOOLEAN
    /\ Casts \subseteq [callers : SUBSET Caller, senders : SUBSET Sender]

Link == 1 .. MaxLinks
Invitation == 1 .. MaxInvitations

VARIABLES
    cast,       \* fixed in a behaviour
    mode,       \* ACCOUNT_ADMISSION_MODE, which does not change while it runs
    account,    \* the User of each address: "none", without or with a credential
    invitation, \* AccountInvitation rows
    pending,    \* the link of each address's PendingRegistration, 0 without
    reset,      \* the link in each credential's resetTokenHash, 0 without
    issued,     \* the number of links issued
    lapsed,     \* the links whose expiresAt has passed
    mail,       \* AccountEmailOutbox.status of each link's message, "none" without
                \* one; the terminal statuses are "ended", their rows kept or not
    overdue,    \* the messages claimed more than CLAIM_TIMEOUT_MS ago
    call,       \* what each caller is doing
    sender,     \* what each sender is doing
    deaths,     \* bound: the senders that have died
    mailed,     \* history: how often each link was handed to SMTP
    used        \* history: how often each link took effect

rows == <<account, invitation, pending, reset>>
outbox == <<mail, overdue>>
history == <<mailed, used>>
vars == <<cast, mode, rows, issued, lapsed, outbox, call, sender, deaths, history>>

-----------------------------------------------------------------------------
(* Links.                                                                   *)

NoInvitation == [status |-> "none", email |-> "none", link |-> 0]

Open(i) == invitation[i].status = "PENDING"

\* A row holds the link: whoever follows it finds that row.
Held(t) == \/ \E i \in Invitation : Open(i) /\ invitation[i].link = t
           \/ \E e \in Email : t \in {pending[e], reset[e]}

\* Mutant: the check looks for the row and forgets its expiry.
Live_Lapsed(t) == Held(t)

\* messageIsActive
Live(t) == Held(t) /\ t \notin lapsed

\* A new link, and its message when mail is configured.
Issue(t) == /\ issued < MaxLinks /\ t = issued + 1
            /\ issued' = t
            /\ mail' = [mail EXCEPT ![t] = IF MailOn THEN "pending" ELSE @]

\* Whoever gets the mail knows the link; an administrator copies an invitation's.
Known(t) == t <= issued /\ (mailed[t] > 0 \/ \E i \in Invitation : invitation[i].link = t)

-----------------------------------------------------------------------------
(* Requests. Each reads and decides, then writes. A serializable            *)
(* transaction commits only if what it read still stands; otherwise it is   *)
(* tried again or given up. The others have the guards of their writes.     *)

Idle == [op |-> "idle", email |-> "none", invitation |-> 0, link |-> 0, seen |-> <<>>]

InvitationOps == {"invite", "rotate", "accept", "expire-accepting"}
RegistrationOps == {"register", "confirm", "drop"}
ResetOps == {"request", "reset", "clear"}
Serializable == InvitationOps \cup RegistrationOps \cup ResetOps \cup {"remove"}

\* The rows a transaction reads, whole tables of an address at a time.
Reads(op) == CASE op \in InvitationOps   -> <<account, invitation>>
               [] op \in RegistrationOps -> <<account, pending>>
               [] op \in ResetOps        -> <<account, reset>>
               [] OTHER                  -> <<account>>

Begin(c, op, e, i, t) ==
    /\ call[c] = Idle
    /\ call' = [call EXCEPT ![c] = [op |-> op, email |-> e, invitation |-> i, link |-> t,
                                    seen |-> IF op \in Serializable THEN Reads(op) ELSE <<>>]]
    /\ UNCHANGED <<cast, mode, rows, issued, lapsed, outbox, sender, deaths, history>>

\* Mutant: the transactions run at the database's default isolation level.
Conflicts_Never(c) == FALSE

\* Another transaction changed what this one read.
Conflicts(c) == call[c].op \in Serializable /\ call[c].seen # Reads(call[c].op)

\* What every write step has in common.
Writes(c, op) == /\ call[c].op = op /\ ~Conflicts(c)
                 /\ call' = [call EXCEPT ![c] = Idle]
                 /\ UNCHANGED <<cast, mode, lapsed, overdue, sender, deaths, mailed>>

\* P2034, or a guard or unique index that refuses the write.
Fail(c) ==
    /\ call[c] # Idle
    /\ call' = [call EXCEPT ![c] = Idle]
    /\ UNCHANGED <<cast, mode, rows, issued, lapsed, outbox, sender, deaths, history>>

\* createAccountInvitation
BeginInvite(c, e) ==
    /\ account[e] = "none"
    /\ ~\E i \in Invitation : invitation[i].email = e /\ Open(i) /\ invitation[i].link \notin lapsed
    /\ Begin(c, "invite", e, 0, 0)

Invite(c) ==
    LET e == call[c].email
    IN  /\ Writes(c, "invite")
        /\ \E i \in Invitation, t \in Link :
             /\ invitation[i] = NoInvitation
             /\ \A j \in Invitation : j < i => invitation[j] # NoInvitation
             /\ Issue(t)
             /\ invitation' = [j \in Invitation |->
                    IF j = i THEN [status |-> "PENDING", email |-> e, link |-> t]
                    ELSE IF Open(j) /\ invitation[j].email = e
                    THEN [invitation[j] EXCEPT !.status = "EXPIRED", !.link = 0]
                    ELSE invitation[j]]
        /\ UNCHANGED <<account, pending, reset, used>>

\* rotateAccountInvitation
BeginRotate(c, i) ==
    /\ Open(i) /\ invitation[i].link \notin lapsed
    /\ Begin(c, "rotate", invitation[i].email, i, 0)

Rotate(c) ==
    LET i == call[c].invitation
    IN  /\ Writes(c, "rotate")
        /\ Open(i)
        /\ \E t \in Link : Issue(t) /\ invitation' = [invitation EXCEPT ![i].link = t]
        /\ UNCHANGED <<account, pending, reset, used>>

\* revokeAccountInvitation: a read, then a guarded update.
BeginRevoke(c, i) == /\ Open(i) /\ invitation[i].link \notin lapsed
                     /\ Begin(c, "revoke", "none", i, 0)

\* Mutant: the update trusts the status that was read.
Revoke_Unguarded(c) ==
    LET i == call[c].invitation
    IN  /\ Writes(c, "revoke")
        /\ invitation' = [invitation EXCEPT ![i].status = "REVOKED", ![i].link = 0]
        /\ UNCHANGED <<account, pending, reset, issued, mail, used>>

Revoke(c) ==
    LET i == call[c].invitation
    IN  /\ Writes(c, "revoke")
        /\ Open(i)
        /\ invitation' = [invitation EXCEPT ![i].status = "REVOKED", ![i].link = 0]
        /\ UNCHANGED <<account, pending, reset, issued, mail, used>>

\* Every statement that expires invitations by their expiry time.
Expire(i) ==
    /\ Open(i) /\ invitation[i].link \in lapsed
    /\ invitation' = [invitation EXCEPT ![i].status = "EXPIRED", ![i].link = 0]
    /\ UNCHANGED <<cast, mode, account, pending, reset, issued, lapsed, outbox, call, sender, deaths, history>>

\* inspectAccountInvitation: the link was read and has lapsed, then the row is
\* expired if it is still that link's.
BeginInspect(c, i) == /\ Open(i) /\ invitation[i].link \in lapsed
                      /\ Begin(c, "inspect", "none", i, invitation[i].link)

\* Mutant: the update is guarded on the status alone.
Inspect_AnyLink(c) ==
    LET i == call[c].invitation
    IN  /\ Writes(c, "inspect")
        /\ Open(i)
        /\ invitation' = [invitation EXCEPT ![i].status = "EXPIRED", ![i].link = 0]
        /\ UNCHANGED <<account, pending, reset, issued, mail, used>>

Inspect(c) ==
    LET i == call[c].invitation
    IN  /\ Writes(c, "inspect")
        /\ Open(i) /\ invitation[i].link = call[c].link
        /\ invitation' = [invitation EXCEPT ![i].status = "EXPIRED", ![i].link = 0]
        /\ UNCHANGED <<account, pending, reset, issued, mail, used>>

\* registerWithInvitation, by someone with the invitation's address. With
\* another address the request changes nothing that this one does not.
BeginAccept(c, i) ==
    LET t == invitation[i].link
        e == invitation[i].email
    IN  /\ mode = "invitation-only" /\ Open(i) /\ Known(t)
        /\ \/ t \in lapsed /\ Begin(c, "expire-accepting", e, i, t)
           \/ t \notin lapsed /\ account[e] = "none" /\ Begin(c, "accept", e, i, t)

Accept(c) ==
    LET r == call[c]
    IN  /\ Writes(c, "accept")
        /\ account[r.email] = "none"
        /\ Open(r.invitation) /\ invitation[r.invitation].link = r.link
        /\ account' = [account EXCEPT ![r.email] = "password"]
        /\ invitation' = [invitation EXCEPT ![r.invitation].status = "ACCEPTED",
                                            ![r.invitation].link = 0]
        /\ used' = [used EXCEPT ![r.link] = @ + 1]
        /\ UNCHANGED <<pending, reset, issued, mail>>

ExpireAccepting(c) ==
    /\ Writes(c, "expire-accepting")
    /\ invitation' = [invitation EXCEPT ![call[c].invitation].status = "EXPIRED",
                                        ![call[c].invitation].link = 0]
    /\ UNCHANGED <<account, pending, reset, issued, mail, used>>

\* beginPublicRegistration: a second one replaces the first.
BeginRegister(c, e) ==
    /\ mode = "public" /\ account[e] = "none" /\ MailOn
    /\ Begin(c, "register", e, 0, 0)

Register(c) ==
    /\ Writes(c, "register")
    /\ \E t \in Link : Issue(t) /\ pending' = [pending EXCEPT ![call[c].email] = t]
    /\ UNCHANGED <<account, invitation, reset, used>>

\* completePublicRegistration; a link that has lapsed, or whose address has an
\* account by now, only drops the registration.
BeginConfirm(c, e) ==
    /\ mode = "public" /\ pending[e] # 0 /\ Known(pending[e])
    /\ IF pending[e] \in lapsed \/ account[e] # "none"
       THEN Begin(c, "drop", e, 0, pending[e])
       ELSE Begin(c, "confirm", e, 0, pending[e])

Confirm(c) ==
    LET r == call[c]
    IN  /\ Writes(c, "confirm")
        /\ account[r.email] = "none" /\ pending[r.email] # 0
        /\ account' = [account EXCEPT ![r.email] = "password"]
        /\ pending' = [pending EXCEPT ![r.email] = 0]
        /\ used' = [used EXCEPT ![r.link] = @ + 1]
        /\ UNCHANGED <<invitation, reset, issued, mail>>

Drop(c) ==
    /\ Writes(c, "drop")
    /\ pending' = [pending EXCEPT ![call[c].email] = 0]
    /\ UNCHANGED <<account, invitation, reset, issued, mail, used>>

\* requestPasswordReset
BeginRequest(c, e) == account[e] = "password" /\ MailOn /\ Begin(c, "request", e, 0, 0)

Request(c) ==
    /\ Writes(c, "request")
    /\ account[call[c].email] = "password"
    /\ \E t \in Link : Issue(t) /\ reset' = [reset EXCEPT ![call[c].email] = t]
    /\ UNCHANGED <<account, invitation, pending, used>>

\* resetPassword
BeginReset(c, e) ==
    /\ reset[e] # 0 /\ Known(reset[e])
    /\ Begin(c, IF reset[e] \in lapsed THEN "clear" ELSE "reset", e, 0, reset[e])

Reset(c) ==
    LET r == call[c]
    IN  /\ Writes(c, "reset")
        /\ account[r.email] = "password"
        /\ reset' = [reset EXCEPT ![r.email] = 0]
        /\ used' = [used EXCEPT ![r.link] = @ + 1]
        /\ UNCHANGED <<account, invitation, pending, issued, mail>>

Clear(c) ==
    /\ Writes(c, "clear")
    /\ reset' = [reset EXCEPT ![call[c].email] = 0]
    /\ UNCHANGED <<account, invitation, pending, issued, mail, used>>

\* setPasswordForUser, in no serializable transaction: the credential that was
\* read is updated, or one is created where there was none.
BeginSetPassword(c, e) ==
    \/ account[e] = "password" /\ Begin(c, "change", e, 0, 0)
    \/ account[e] = "social" /\ Begin(c, "add", e, 0, 0)

SetPassword(c) ==
    LET e == call[c].email
    IN  /\ \/ /\ Writes(c, "change") /\ account[e] = "password"
              /\ reset' = [reset EXCEPT ![e] = 0]
              /\ UNCHANGED account
           \/ /\ Writes(c, "add") /\ account[e] = "social"
              /\ account' = [account EXCEPT ![e] = "password"]
              /\ UNCHANGED reset
        /\ UNCHANGED <<invitation, pending, issued, mail, used>>

\* removeAccount: the credential goes with the account.
BeginRemove(c, e) == account[e] # "none" /\ Begin(c, "remove", e, 0, 0)

\* Mutant: the credential, with its link, survives the account.
Remove_KeepsCredential(c) ==
    /\ Writes(c, "remove")
    /\ account' = [account EXCEPT ![call[c].email] = "none"]
    /\ UNCHANGED <<invitation, pending, reset, issued, mail, used>>

Remove(c) ==
    /\ Writes(c, "remove")
    /\ account' = [account EXCEPT ![call[c].email] = "none"]
    /\ reset' = [reset EXCEPT ![call[c].email] = 0]
    /\ UNCHANGED <<invitation, pending, issued, mail, used>>

-----------------------------------------------------------------------------
(* The outbox. A sender claims messages, mails them and acknowledges each.  *)

Waiting == [pc |-> "idle", todo |-> {}, hand |-> {}, done |-> {}]

\* Mutant: a claim that timed out is pending again.
Swept_Retries(t) ==
    CASE mail[t] = "sending" /\ t \in overdue -> "pending"
      [] mail[t] = "pending" /\ t \in lapsed  -> "ended"
      [] OTHER -> mail[t]

\* Mutant: a claim that timed out is left as it is.
Swept_NoTimeout(t) == IF mail[t] = "pending" /\ t \in lapsed THEN "ended" ELSE mail[t]

\* The three statements that precede a claim: abandoned claims end unconfirmed
\* and are never tried again, pending messages of lapsed links expire.
Swept(t) ==
    CASE mail[t] = "sending" /\ t \in overdue -> "ended"
      [] mail[t] = "pending" /\ t \in lapsed  -> "ended"
      [] OTHER -> mail[t]

\* claimAccountMail, up to its candidates: the oldest that wait.
Sweep(w) ==
    LET waiting == {t \in Link : Swept(t) = "pending"}
        first == {t \in waiting : Cardinality({u \in waiting : u < t}) < ClaimLimit}
    IN  /\ sender[w].pc = "idle"
        /\ mail' = [t \in Link |-> Swept(t)]
        /\ overdue' = {t \in overdue : mail'[t] = "sending"}
        /\ first # {}
        /\ sender' = [sender EXCEPT ![w] = [Waiting EXCEPT !.pc = "claim", !.todo = first]]
        /\ UNCHANGED <<cast, mode, rows, issued, lapsed, call, deaths, history>>

\* The sweep finds nothing to claim; it has swept all the same.
SweepOnly(w) ==
    /\ sender[w].pc = "idle"
    /\ {t \in Link : Swept(t) = "pending"} = {}
    /\ mail' = [t \in Link |-> Swept(t)]
    /\ overdue' = {t \in overdue : mail'[t] = "sending"}
    /\ UNCHANGED <<cast, mode, rows, issued, lapsed, call, sender, deaths, history>>

\* The guarded update of the next candidate: another sender may have it.
ClaimRow(w) ==
    LET t == Min(sender[w].todo)
    IN  /\ sender[w].pc = "claim" /\ sender[w].todo # {}
        /\ IF mail[t] = "pending"
           THEN /\ mail' = [mail EXCEPT ![t] = "sending"]
                /\ sender' = [sender EXCEPT ![w].pc = "check"]
           ELSE /\ sender' = [sender EXCEPT ![w].todo = @ \ {t}]
                /\ UNCHANGED mail
        /\ UNCHANGED <<cast, mode, rows, issued, lapsed, overdue, call, deaths, history>>

\* The claimed row is read again and its link looked up. A dead link fails the
\* message, unless a sweep has taken the claim away meanwhile.
Check(w) ==
    LET t == Min(sender[w].todo)
    IN  /\ sender[w].pc = "check"
        /\ IF mail[t] = "sending" /\ Live(t)
           THEN sender' = [sender EXCEPT ![w].pc = "claim", ![w].todo = @ \ {t},
                                         ![w].hand = @ \cup {t}]
                /\ UNCHANGED mail
           ELSE /\ sender' = [sender EXCEPT ![w].pc = "claim", ![w].todo = @ \ {t}]
                /\ mail' = [mail EXCEPT ![t] = IF @ = "sending" THEN "ended" ELSE @]
        /\ overdue' = IF mail'[t] = "sending" THEN overdue ELSE overdue \ {t}
        /\ UNCHANGED <<cast, mode, rows, issued, lapsed, call, deaths, history>>

\* The sender gets the answer and hands its messages to SMTP, one by one.
Deliver(w) ==
    /\ sender[w].pc = "claim" /\ sender[w].todo = {} /\ sender[w].hand # {}
    /\ \E t \in sender[w].hand :
         /\ sender' = [sender EXCEPT ![w].hand = @ \ {t}, ![w].done = @ \cup {t}]
         /\ mailed' = [mailed EXCEPT ![t] = @ + 1]
    /\ UNCHANGED <<cast, mode, rows, issued, lapsed, outbox, call, deaths, used>>

\* acknowledgeAccountMail: a claim that was taken away is not acknowledged.
Acknowledge(w) ==
    /\ \E t \in sender[w].done :
         /\ sender' = [sender EXCEPT ![w].done = @ \ {t}]
         /\ mail' = [mail EXCEPT ![t] = IF @ = "sending" THEN "ended" ELSE @]
         /\ overdue' = overdue \ {t}
    /\ UNCHANGED <<cast, mode, rows, issued, lapsed, call, deaths, history>>

Finish(w) ==
    /\ sender[w] = [Waiting EXCEPT !.pc = "claim"]
    /\ sender' = [sender EXCEPT ![w] = Waiting]
    /\ UNCHANGED <<cast, mode, rows, issued, lapsed, outbox, call, deaths, history>>

\* The request, its answer or the sender is lost, with all it had in hand.
Die(w) ==
    /\ sender[w].pc # "idle"
    /\ deaths < MaxDeaths /\ deaths' = deaths + 1
    /\ sender' = [sender EXCEPT ![w] = Waiting]
    /\ UNCHANGED <<cast, mode, rows, issued, lapsed, outbox, call, history>>

-----------------------------------------------------------------------------
(* Time and retention.                                                      *)

Lapse(t) ==
    /\ t <= issued /\ t \notin lapsed
    /\ lapsed' = lapsed \cup {t}
    /\ UNCHANGED <<cast, mode, rows, issued, outbox, call, sender, deaths, history>>

TimeOut(t) ==
    /\ mail[t] = "sending" /\ t \notin overdue
    /\ overdue' = overdue \cup {t}
    /\ UNCHANGED <<cast, mode, rows, issued, lapsed, mail, call, sender, deaths, history>>

\* pruneExpiredAccountAdmissionData: four statements in no transaction, each a
\* guarded write of its own table.
Prune ==
    /\ \/ \E t \in Link : /\ mail[t] = "pending" /\ t \in lapsed
                          /\ mail' = [mail EXCEPT ![t] = "ended"]
                          /\ UNCHANGED rows
       \/ \E i \in Invitation : /\ invitation[i].status \in {"ACCEPTED", "REVOKED", "EXPIRED"}
                                /\ invitation' = [invitation EXCEPT ![i] = NoInvitation]
                                /\ UNCHANGED <<account, pending, reset, mail>>
       \/ \E e \in Email : /\ pending[e] \in lapsed
                           /\ pending' = [pending EXCEPT ![e] = 0]
                           /\ UNCHANGED <<account, invitation, reset, mail>>
       \/ \E e \in Email : /\ reset[e] \in lapsed
                           /\ reset' = [reset EXCEPT ![e] = 0]
                           /\ UNCHANGED <<account, invitation, pending, mail>>
    /\ UNCHANGED <<cast, mode, issued, lapsed, overdue, call, sender, deaths, history>>

-----------------------------------------------------------------------------

Init ==
    /\ cast \in Casts
    /\ mode \in {"invitation-only", "public"}
    /\ account \in [Email -> {"none", "social", "password"}]
    /\ invitation = [i \in Invitation |-> NoInvitation]
    /\ pending = [e \in Email |-> 0] /\ reset = [e \in Email |-> 0]
    /\ issued = 0 /\ lapsed = {} /\ overdue = {}
    /\ mail = [t \in Link |-> "none"]
    /\ call = [c \in Caller |-> Idle]
    /\ sender = [w \in Sender |-> Waiting]
    /\ deaths = 0 /\ mailed = [t \in Link |-> 0] /\ used = [t \in Link |-> 0]

BeginStep(c) ==
    \/ \E e \in Email : \/ BeginInvite(c, e) \/ BeginRegister(c, e) \/ BeginConfirm(c, e)
                        \/ BeginRequest(c, e) \/ BeginReset(c, e) \/ BeginSetPassword(c, e)
                        \/ BeginRemove(c, e)
    \/ \E i \in Invitation : \/ BeginRotate(c, i) \/ BeginRevoke(c, i) \/ BeginInspect(c, i)
                             \/ BeginAccept(c, i)

CommitStep(c) ==
    \/ Invite(c) \/ Rotate(c) \/ Revoke(c) \/ Inspect(c) \/ Accept(c) \/ ExpireAccepting(c)
    \/ Register(c) \/ Confirm(c) \/ Drop(c) \/ Request(c) \/ Reset(c) \/ Clear(c)
    \/ SetPassword(c) \/ Remove(c) \/ Fail(c)

SenderProgress(w) == \/ Sweep(w) \/ SweepOnly(w) \/ ClaimRow(w) \/ Check(w)
                     \/ Deliver(w) \/ Acknowledge(w) \/ Finish(w)

Next == \/ \E c \in cast.callers : BeginStep(c) \/ CommitStep(c)
        \/ \E w \in cast.senders : SenderProgress(w) \/ Die(w)
        \/ \E i \in Invitation : Expire(i)
        \/ \E t \in Link : Lapse(t) \/ TimeOut(t)
        \/ Prune

Spec == Init /\ [][Next]_vars

\* A living sender polls again and again and goes on with what it has claimed;
\* claims grow old.
Fairness == /\ \A w \in Sender : WF_vars(w \in cast.senders /\ SenderProgress(w))
            /\ \A t \in Link : WF_vars(TimeOut(t))

FairSpec == Spec /\ Fairness

-----------------------------------------------------------------------------
(* Correctness.                                                             *)

\* Everything keeps its type; at most one invitation of an address is open (the
\* unique index on activeForEmail), and no link is held by two rows.
TypeOK ==
    /\ cast \in Casts /\ mode \in {"invitation-only", "public"}
    /\ account \in [Email -> {"none", "social", "password"}]
    /\ invitation \in [Invitation -> [status : {"none", "PENDING", "ACCEPTED", "REVOKED", "EXPIRED"},
                                      email : Email \cup {"none"}, link : 0 .. MaxLinks]]
    /\ pending \in [Email -> 0 .. MaxLinks] /\ reset \in [Email -> 0 .. MaxLinks]
    /\ issued \in 0 .. MaxLinks /\ lapsed \subseteq 1 .. issued
    /\ mail \in [Link -> {"none", "pending", "sending", "ended"}]
    /\ overdue \subseteq {t \in Link : mail[t] = "sending"}
    /\ \A e \in Email : account[e] # "password" => reset[e] = 0
    /\ \A i, j \in Invitation :
         Open(i) /\ Open(j) /\ invitation[i].email = invitation[j].email => i = j
    /\ \A e \in Email : pending[e] # 0 => pending[e] # reset[e]

\* Two requests follow one link at once, or follow it while it is replaced,
\* revoked or consumed: it takes effect once, and only while a row holds it.
LinkWorksOnce ==
    [][\A t \in Link : used'[t] # used[t] => used[t] = 0 /\ Held(t)]_vars

\* Revocation, rotation, acceptance and expiry race: the first to settle an
\* invitation settles it for good.
SettledInvitationIsFinal ==
    [][\A i \in Invitation :
         invitation[i].status \in {"ACCEPTED", "REVOKED", "EXPIRED"}
             => invitation'[i] \in {invitation[i], NoInvitation}]_vars

\* Looking at an old link never expires the invitation that was rotated to a
\* new one: an invitation expires only when the link it holds has lapsed.
ExpiredIsLapsed ==
    [][\A i \in Invitation :
         Open(i) /\ invitation'[i].status = "EXPIRED" => invitation[i].link \in lapsed]_vars

\* However senders overlap, die, or answer late, no link is mailed twice.
MailedAtMostOnce == \A t \in Link : mailed[t] <= 1

\* A link that dies while its message waits is never mailed: the claim that is
\* already under way finds out.
StaleMailIsNotSent ==
    \A t \in Link :
        [](mail[t] = "pending" /\ (~Held(t) \/ t \in lapsed) => [](mailed[t] = 0))

\* Every queued message comes to an end, although senders die with it.
EveryMailSettles ==
    \A t \in Link : mail[t] \in {"pending", "sending"} ~> mail[t] \notin {"pending", "sending"}
=============================================================================
