--------------------------- MODULE Admission_proofs ---------------------------
(***************************************************************************)
(* Links work once, invitations settle once and mail goes out once, for any  *)
(* number of addresses, requests and senders, however they overlap.          *)
(*                                                                           *)
(* A transaction of two steps is proved from what it saw: a serializable one  *)
(* writes only while the tables it read are as they were, so that what held   *)
(* of them when it decided holds when it writes.                              *)
(***************************************************************************)
EXTENDS Admission, LeastElement

-----------------------------------------------------------------------------
(* The invariant *)

InvitationRow == [status : {"none", "PENDING", "ACCEPTED", "REVOKED", "EXPIRED"},
                  email : Email \cup {"none"}, link : 0 .. MaxLinks]

\* The tables; a reset link belongs to a credential.
Tables ==
    /\ account \in [Email -> {"none", "social", "password"}]
    /\ invitation \in [Invitation -> InvitationRow]
    /\ pending \in [Email -> 0 .. MaxLinks] /\ reset \in [Email -> 0 .. MaxLinks]
    /\ issued \in 0 .. MaxLinks
    /\ \A e \in Email : account[e] # "password" => reset[e] = 0
    /\ \A i, j \in Invitation :
         Open(i) /\ Open(j) /\ invitation[i].email = invitation[j].email => i = j

\* An open invitation has an address and a link, and a link is held by one row.
HeldOnce ==
    /\ \A i \in Invitation : Open(i) => /\ invitation[i].link \in 1 .. issued
                                        /\ invitation[i].email \in Email
    /\ \A e \in Email : pending[e] <= issued /\ reset[e] <= issued
    /\ \A i, j \in Invitation :
         Open(i) /\ Open(j) /\ invitation[i].link = invitation[j].link => i = j
    /\ \A i \in Invitation, e \in Email :
         Open(i) => invitation[i].link # pending[e] /\ invitation[i].link # reset[e]
    /\ \A d, e \in Email : /\ pending[d] # 0 => pending[d] # reset[e]
                           /\ pending[d] # 0 /\ pending[d] = pending[e] => d = e
                           /\ reset[d] # 0 /\ reset[d] = reset[e] => d = e

\* A link that a row holds, or that is yet to be issued, has not been used.
Unused ==
    /\ used \in [Link -> Nat]
    /\ \A t \in Link : Held(t) \/ t > issued => used[t] = 0

Times == lapsed \subseteq 1 .. issued

\* What a request decided on. Where it wrote down the tables it read, the second
\* one is that of the link.
Emailed == {"invite", "accept", "expire-accepting", "register", "confirm", "drop",
            "request", "reset", "clear", "change", "add", "remove"}
Invited == {"rotate", "revoke", "inspect", "accept", "expire-accepting"}

CallIs(r) ==
    /\ r.op \in Emailed => r.email \in Email
    /\ r.op \in Invited => r.invitation \in Invitation
    /\ r.op = "inspect" => r.link \in lapsed
    /\ r.op = "invite" =>
         \A j \in Invitation : r.seen[2][j].status = "PENDING" /\ r.seen[2][j].email = r.email
                               => r.seen[2][j].link \in lapsed
    /\ r.op = "expire-accepting" => /\ r.seen[2][r.invitation].status = "PENDING"
                                    /\ r.seen[2][r.invitation].link \in lapsed
    /\ r.op \in {"confirm", "reset"} => r.seen[2][r.email] = r.link /\ r.link \in Link

Calls == call = [c \in Caller |-> call[c]] /\ \A c \in Caller : CallIs(call[c])

\* A message is with a sender from its claim until it is mailed.
Has(w, t) == \/ t \in sender[w].hand
             \/ sender[w].pc = "check" /\ t = Min(sender[w].todo)

SenderState == [pc : {"idle", "claim", "check"},
                todo : SUBSET Link, hand : SUBSET Link, done : SUBSET Link]

\* Only one sender has it, it is not mailed yet then, and before its claim nobody
\* has it.
Posted ==
    /\ mail \in [Link -> {"none", "pending", "sending", "ended"}]
    /\ overdue \subseteq {t \in Link : mail[t] = "sending"}
    /\ mailed \in [Link -> 0 .. 1]
    /\ sender \in [Sender -> SenderState]
    /\ \A w \in Sender : sender[w].pc = "check" => sender[w].todo # {}
    /\ \A t \in Link : t > issued => mail[t] = "none"
    /\ \A t \in Link : mail[t] \in {"none", "pending"} =>
         mailed[t] = 0 /\ \A w \in Sender : ~Has(w, t)
    /\ \A w \in Sender, t \in Link : Has(w, t) => mailed[t] = 0
    /\ \A v, w \in Sender, t \in Link : Has(v, t) /\ Has(w, t) => v = w
    /\ \A w \in Sender : sender[w].pc = "check" => Min(sender[w].todo) \notin sender[w].hand

Fixed == cast \in Casts /\ mode \in {"invitation-only", "public"}

IInv == Fixed /\ Tables /\ HeldOnce /\ Unused /\ Times /\ Calls /\ Posted

LEMMA IInvSuffices == IInv => TypeOK /\ MailedAtMostOnce
<1> SUFFICES ASSUME IInv PROVE TypeOK /\ MailedAtMostOnce
  OBVIOUS
<1>1. TypeOK
  BY DEF IInv, TypeOK, Fixed, Tables, InvitationRow, HeldOnce, Times, Posted
<1>2. MailedAtMostOnce
  BY DEF IInv, Posted, MailedAtMostOnce
<1> QED BY <1>1, <1>2

-----------------------------------------------------------------------------
(* What steps have in common *)

\* No row gets a link that was issued before, unless it had it.
Kept == \A t \in Link : t <= issued /\ Held(t)' => Held(t)

LEMMA Assembled ==
    ASSUME IInv, UNCHANGED <<cast, mode>>,
           Tables', HeldOnce', Unused', Times', Calls', Posted'
    PROVE  IInv'
BY DEF IInv, Fixed

LEMMA SameRows ==
    ASSUME IInv, UNCHANGED <<rows, issued>>
    PROVE  Tables' /\ HeldOnce' /\ (UNCHANGED used => Unused') /\ Kept
BY DEF IInv, rows, Tables, HeldOnce, Unused, Open, Held, Kept

LEMMA SameMail ==
    ASSUME IInv, UNCHANGED <<issued, outbox, sender, mailed>>
    PROVE  Posted'
BY DEF IInv, outbox, Posted, Has

\* A request's facts stay true: links only lapse.
LEMMA SameCalls ==
    ASSUME IInv, UNCHANGED call, lapsed \subseteq lapsed'
    PROVE  Calls'
BY DEF IInv, Calls, CallIs

\* A row may lose its link; an invitation that is open was open with that link.
LEMMA LinksTaken ==
    ASSUME IInv, Tables', issued' = issued,
           \A i \in Invitation : Open(i)' => Open(i) /\ invitation'[i] = invitation[i],
           \A e \in Email : pending'[e] \in {pending[e], 0} /\ reset'[e] \in {reset[e], 0}
    PROVE  HeldOnce' /\ (UNCHANGED used => Unused') /\ Kept
<1>1. HeldOnce'
  BY DEF IInv, HeldOnce, Tables
<1>2. ASSUME NEW t \in Link, Held(t)' PROVE Held(t)
  BY <1>2 DEF Held, IInv, HeldOnce, Link, Open
<1> QED BY <1>1, <1>2 DEF IInv, Unused, Kept

\* Nobody holds a link that is yet to be issued.
LEMMA IssuedIsNew ==
    ASSUME IInv, NEW t \in Link, Issue(t)
    PROVE  /\ \A i \in Invitation : Open(i) => invitation[i].link # t
           /\ \A e \in Email : pending[e] # t /\ reset[e] # t
<1>1. issued \in Nat /\ t = issued + 1
  BY DEF Issue, IInv, Tables
<1>2. /\ \A j \in Invitation : Open(j) => invitation[j].link \in 1 .. issued
      /\ \A f \in Email : /\ pending[f] <= issued /\ reset[f] <= issued
                          /\ pending[f] \in Nat /\ reset[f] \in Nat
  BY DEF IInv, HeldOnce, Tables
<1> QED BY <1>1, <1>2

\* A new link goes to one row, an invitation or a registration or a credential;
\* the others keep theirs or lose it.
LEMMA LinkIssued ==
    ASSUME IInv, Tables', UNCHANGED used, NEW t \in Link, Issue(t),
           \A i \in Invitation : Open(i)' =>
               \/ invitation'[i].link = t /\ invitation'[i].email \in Email
               \/ Open(i) /\ invitation'[i] = invitation[i],
           \A e \in Email : pending'[e] \in {pending[e], t} /\ reset'[e] \in {reset[e], t},
           \A i, j \in Invitation :
               Open(i)' /\ invitation'[i].link = t /\ Open(j)' /\ invitation'[j].link = t
                   => i = j,
           \A i \in Invitation, e \in Email :
               Open(i)' /\ invitation'[i].link = t => pending'[e] # t /\ reset'[e] # t,
           \A d, e \in Email : /\ pending'[d] = t => reset'[e] # t
                               /\ pending'[d] = t /\ pending'[e] = t => d = e
                               /\ reset'[d] = t /\ reset'[e] = t => d = e
    PROVE  HeldOnce' /\ Unused' /\ Kept
<1>1. issued \in Nat /\ t = issued + 1 /\ issued' = t
  BY DEF Issue, IInv, Tables
<1>2. /\ \A j \in Invitation : Open(j) => invitation[j].link \in 1 .. issued
      /\ \A f \in Email : pending[f] <= issued /\ reset[f] <= issued
  BY DEF IInv, HeldOnce
<1>3. /\ \A j \in Invitation : invitation'[j].link \in Nat /\ invitation[j].link \in Nat
      /\ \A f \in Email : /\ pending[f] \in Nat /\ reset[f] \in Nat
                          /\ pending[f] # t /\ reset[f] # t
      /\ \A j \in Invitation : Open(j) => invitation[j].link # t
  <2>1. /\ \A j \in Invitation : invitation'[j].link \in Nat /\ invitation[j].link \in Nat
        /\ \A f \in Email : pending[f] \in Nat /\ reset[f] \in Nat
    BY DEF IInv, Tables, InvitationRow
  <2> QED BY <1>1, <1>2, <2>1
<1>4. HeldOnce'
  <2>1. (\A j \in Invitation : Open(j) => /\ invitation[j].link \in 1 .. issued
                                          /\ invitation[j].email \in Email)'
    BY <1>1, <1>2, <1>3 DEF IInv, HeldOnce
  <2>2. (\A f \in Email : pending[f] <= issued /\ reset[f] <= issued)'
    BY <1>1, <1>2, <1>3
  <2>3. (\A j, k \in Invitation :
           Open(j) /\ Open(k) /\ invitation[j].link = invitation[k].link => j = k)'
    BY <1>3 DEF IInv, HeldOnce
  <2>4. (\A j \in Invitation, f \in Email :
           Open(j) => invitation[j].link # pending[f] /\ invitation[j].link # reset[f])'
    BY <1>3 DEF IInv, HeldOnce
  <2>5. (\A f, g \in Email : /\ pending[f] # 0 => pending[f] # reset[g]
                             /\ pending[f] # 0 /\ pending[f] = pending[g] => f = g
                             /\ reset[f] # 0 /\ reset[f] = reset[g] => f = g)'
    BY <1>3 DEF IInv, HeldOnce
  <2> QED BY <2>1, <2>2, <2>3, <2>4, <2>5 DEF HeldOnce
<1>5. ASSUME NEW u \in Link, Held(u)' \/ u > issued' PROVE used'[u] = 0
  <2>1. u = t \/ u > issued \/ Held(u)
    BY <1>1, <1>5 DEF Held, Link
  <2>2. t > issued
    BY <1>1
  <2> QED BY <2>1, <2>2 DEF IInv, Unused
<1>6. Kept
  <2>1. \A u \in Link : u <= issued => u # t
    BY <1>1 DEF Link
  <2> QED BY <2>1 DEF Held, Kept
<1> QED BY <1>4, <1>5, <1>6 DEF IInv, Unused

\* Its message is new as well.
LEMMA MessageQueued ==
    ASSUME IInv, NEW t \in Link, Issue(t), UNCHANGED <<overdue, sender, mailed>>
    PROVE  Posted'
<1>1. issued \in Nat /\ t = issued + 1 /\ issued' = t /\ mail[t] = "none"
  BY DEF Issue, IInv, Tables, Posted, Link
<1>2. /\ mail' \in [Link -> {"none", "pending", "sending", "ended"}]
      /\ mail'[t] \in {"none", "pending"}
      /\ \A u \in Link : u # t => mail'[u] = mail[u]
  BY <1>1 DEF Issue, IInv, Posted
<1>3. /\ (overdue \subseteq {u \in Link : mail[u] = "sending"})'
      /\ (\A u \in Link : u > issued => mail[u] = "none")'
  BY <1>1, <1>2 DEF IInv, Posted, Link
<1>4. \A w \in Sender, u \in Link : Has(w, u)' <=> Has(w, u)
  BY DEF Has
<1>5. (\A u \in Link : mail[u] \in {"none", "pending"} =>
         mailed[u] = 0 /\ \A w \in Sender : ~Has(w, u))'
  BY <1>1, <1>2, <1>4 DEF IInv, Posted
<1> QED BY <1>2, <1>3, <1>4, <1>5 DEF IInv, Posted

\* A request that has ended, or failed, has nothing in hand.
LEMMA CallEnded ==
    ASSUME IInv, NEW c \in Caller, call' = [call EXCEPT ![c] = Idle], UNCHANGED lapsed
    PROVE  Calls'
<1>1. CallIs(Idle)'
  BY DEF CallIs, Idle, Emailed, Invited
<1>2. \A d \in Caller : d # c => call'[d] = call[d]
  BY DEF IInv, Calls
<1>3. call' = [d \in Caller |-> call'[d]] /\ call'[c] = Idle
  BY DEF IInv, Calls
<1> QED BY <1>1, <1>2, <1>3 DEF IInv, Calls, CallIs

-----------------------------------------------------------------------------
(* Requests begin *)

\* What a request writes down when it begins.
LEMMA Begun ==
    ASSUME IInv, NEW c \in Caller, NEW op, NEW e, NEW i, NEW t, Begin(c, op, e, i, t),
           op \in Emailed => e \in Email,
           op \in Invited => i \in Invitation,
           op = "inspect" => t \in lapsed,
           op = "invite" => \A j \in Invitation :
                Open(j) /\ invitation[j].email = e => invitation[j].link \in lapsed,
           op = "expire-accepting" => Open(i) /\ invitation[i].link \in lapsed,
           op = "confirm" => pending[e] = t /\ t \in Link,
           op = "reset" => reset[e] = t /\ t \in Link
    PROVE  IInv'
<1> DEFINE seen == IF op \in Serializable THEN Reads(op) ELSE <<>>
           r == [op |-> op, email |-> e, invitation |-> i, link |-> t, seen |-> seen]
<1>1. /\ call' = [call EXCEPT ![c] = r]
      /\ UNCHANGED <<cast, mode, rows, issued, lapsed, outbox, sender, deaths, history>>
  BY DEF Begin
<1>2. /\ op \in {"invite", "expire-accepting"} => seen = <<account, invitation>>
      /\ op = "confirm" => seen = <<account, pending>>
      /\ op = "reset" => seen = <<account, reset>>
  BY DEF Serializable, Reads, InvitationOps, RegistrationOps, ResetOps
<1>3. r.op = op /\ r.email = e /\ r.invitation = i /\ r.link = t /\ r.seen = seen
  OBVIOUS
<1> HIDE DEF seen, r
<1>4. CallIs(r)
  BY <1>2, <1>3 DEF CallIs, Open
<1>5. \A d \in Caller : call'[d] = IF d = c THEN r ELSE call[d]
  BY <1>1 DEF IInv, Calls
<1>6. call' = [d \in Caller |-> call'[d]]
  BY <1>1 DEF IInv, Calls
<1>7. lapsed' = lapsed
  BY <1>1
<1>8. Calls'
  BY <1>4, <1>5, <1>6, <1>7 DEF IInv, Calls, CallIs
<1>9. Times'
  BY <1>1 DEF IInv, Times
<1> QED BY <1>1, <1>8, <1>9, SameRows, SameMail, Assembled DEF history

\* What an open invitation, and a link that is known, look like.
LEMMA OpenOne ==
    ASSUME IInv, NEW i \in Invitation, Open(i)
    PROVE  invitation[i].email \in Email
BY DEF IInv, HeldOnce

LEMMA LinkHeld ==
    ASSUME IInv, NEW e \in Email
    PROVE  /\ pending[e] # 0 => pending[e] \in Link
           /\ reset[e] # 0 => reset[e] \in Link
BY DEF IInv, Tables, Link

LEMMA OnlyBegins ==
    ASSUME NEW c \in Caller, BeginStep(c)
    PROVE  \E op, e, i, t : Begin(c, op, e, i, t)
<1>1. ASSUME NEW e \in Email,
             \/ BeginInvite(c, e) \/ BeginRegister(c, e) \/ BeginRequest(c, e)
             \/ BeginSetPassword(c, e) \/ BeginRemove(c, e) \/ BeginConfirm(c, e)
             \/ BeginReset(c, e)
      PROVE  \E op, d, i, t : Begin(c, op, d, i, t)
  BY <1>1 DEF BeginInvite, BeginRegister, BeginRequest, BeginSetPassword, BeginRemove,
              BeginConfirm, BeginReset
<1>2. ASSUME NEW i \in Invitation,
             \/ BeginRotate(c, i) \/ BeginRevoke(c, i) \/ BeginInspect(c, i)
             \/ BeginAccept(c, i)
      PROVE  \E op, e, j, t : Begin(c, op, e, j, t)
  BY <1>2 DEF BeginRotate, BeginRevoke, BeginInspect, BeginAccept
<1> QED BY <1>1, <1>2 DEF BeginStep

LEMMA Beginning ==
    ASSUME IInv, NEW c \in Caller, BeginStep(c)
    PROVE  IInv'
<1>1. ASSUME NEW e \in Email, BeginInvite(c, e) PROVE IInv'
  BY <1>1, Begun DEF BeginInvite, Invited
<1>2. ASSUME NEW e \in Email,
             \/ BeginRegister(c, e) \/ BeginRequest(c, e) \/ BeginSetPassword(c, e)
             \/ BeginRemove(c, e)
      PROVE  IInv'
  BY <1>2, Begun DEF BeginRegister, BeginRequest, BeginSetPassword, BeginRemove, Invited
<1>3. ASSUME NEW e \in Email, BeginConfirm(c, e) PROVE IInv'
  BY <1>3, LinkHeld, Begun DEF BeginConfirm, Invited
<1>4. ASSUME NEW e \in Email, BeginReset(c, e) PROVE IInv'
  BY <1>4, LinkHeld, Begun DEF BeginReset, Invited
<1>5. ASSUME NEW i \in Invitation, BeginRotate(c, i) \/ BeginRevoke(c, i) \/ BeginInspect(c, i)
      PROVE  IInv'
  BY <1>5, Begun DEF BeginRotate, BeginRevoke, BeginInspect, Emailed
<1>6. ASSUME NEW i \in Invitation, BeginAccept(c, i) PROVE IInv'
  BY <1>6, OpenOne, Begun DEF BeginAccept
<1> QED BY <1>1, <1>2, <1>3, <1>4, <1>5, <1>6 DEF BeginStep

-----------------------------------------------------------------------------
(* Requests commit *)

\* What a step may do to a link and to an invitation: the action properties.
Sound ==
    /\ \A t \in Link : used'[t] # used[t] => used[t] = 0 /\ Held(t)
    /\ \A i \in Invitation :
         /\ invitation[i].status \in {"ACCEPTED", "REVOKED", "EXPIRED"}
              => invitation'[i] \in {invitation[i], NoInvitation}
         /\ Open(i) /\ invitation'[i].status = "EXPIRED" => invitation[i].link \in lapsed

\* A write finds what its request decided on, and, in a serializable transaction,
\* the tables it read.
LEMMA Written ==
    ASSUME IInv, NEW c \in Caller, NEW op, Writes(c, op), issued' \in {issued, issued + 1}
    PROVE  /\ CallIs(call[c]) /\ call[c].op = op /\ Calls' /\ Times'
           /\ op \in InvitationOps => call[c].seen = <<account, invitation>>
           /\ op \in RegistrationOps => call[c].seen = <<account, pending>>
           /\ op \in ResetOps => call[c].seen = <<account, reset>>
           /\ UNCHANGED <<cast, mode, overdue, sender, mailed>>
<1>1. /\ call[c].op = op /\ call' = [call EXCEPT ![c] = Idle]
      /\ UNCHANGED <<cast, mode, lapsed, overdue, sender, mailed>>
      /\ op \in Serializable => call[c].seen = Reads(op)
  BY DEF Writes, Conflicts
<1>2. CallIs(call[c]) /\ Calls'
  BY <1>1, CallEnded DEF IInv, Calls
<1>3. Times'
  BY <1>1 DEF IInv, Times, Tables
<1> QED BY <1>1, <1>2, <1>3
        DEF Serializable, Reads, InvitationOps, RegistrationOps, ResetOps

\* An invitation is closed, with its link taken from it.
LEMMA Closed ==
    ASSUME IInv, NEW i \in Invitation, NEW s \in {"ACCEPTED", "REVOKED", "EXPIRED"},
           invitation' = [invitation EXCEPT ![i].status = s, ![i].link = 0]
    PROVE  /\ invitation' \in [Invitation -> InvitationRow]
           /\ invitation'[i].status = s /\ ~Open(i)'
           /\ \A j \in Invitation : j # i => invitation'[j] = invitation[j]
<1> DEFINE row == [invitation[i] EXCEPT !.status = s, !.link = 0]
<1>1. invitation \in [Invitation -> InvitationRow] /\ 0 \in 0 .. MaxLinks
  BY AdmissionAssumption DEF IInv, Tables
<1>2. row \in InvitationRow /\ row.status = s
  BY <1>1 DEF InvitationRow
<1>3. invitation' = [invitation EXCEPT ![i] = row]
  BY <1>1 DEF InvitationRow
<1> HIDE DEF row
<1> QED BY <1>1, <1>2, <1>3 DEF Open

\* An open invitation is closed: expired only when its link has lapsed.
LEMMA Closing ==
    ASSUME IInv, NEW i \in Invitation, NEW s \in {"REVOKED", "EXPIRED"}, Open(i),
           invitation' = [invitation EXCEPT ![i].status = s, ![i].link = 0],
           s = "EXPIRED" => invitation[i].link \in lapsed,
           UNCHANGED <<account, pending, reset, issued, used>>
    PROVE  Tables' /\ HeldOnce' /\ Unused' /\ Sound /\ Kept
<1>1. /\ invitation' \in [Invitation -> InvitationRow]
      /\ invitation'[i].status = s /\ ~Open(i)'
      /\ \A j \in Invitation : j # i => invitation'[j] = invitation[j]
  BY Closed
<1>2. \A j \in Invitation : Open(j)' => Open(j) /\ invitation'[j] = invitation[j]
  BY <1>1 DEF Open
<1>3. Tables'
  BY <1>1, <1>2 DEF IInv, Tables
<1>4. HeldOnce' /\ Unused' /\ Kept
  BY <1>2, <1>3, LinksTaken
<1>5. Sound
  BY <1>1 DEF Sound, Open
<1> QED BY <1>3, <1>4, <1>5

LEMMA Shutting ==
    ASSUME IInv, NEW c \in Caller, Revoke(c) \/ Inspect(c) \/ ExpireAccepting(c)
    PROVE  IInv' /\ Sound /\ Kept
<1> DEFINE i == call[c].invitation
<1>1. UNCHANGED <<account, pending, reset, issued, mail, used>>
  BY DEF Revoke, Inspect, ExpireAccepting
<1>2. /\ \/ Writes(c, "revoke") \/ Writes(c, "inspect") \/ Writes(c, "expire-accepting")
  BY DEF Revoke, Inspect, ExpireAccepting
<1> issued' \in {issued, issued + 1}
  BY <1>1
<1>3. /\ Calls' /\ Times' /\ i \in Invitation
      /\ UNCHANGED <<cast, mode, overdue, sender, mailed>>
  <2>1. PICK op \in {"revoke", "inspect", "expire-accepting"} : Writes(c, op)
    BY <1>2
  <2>2. /\ CallIs(call[c]) /\ call[c].op = op /\ Calls' /\ Times'
        /\ UNCHANGED <<cast, mode, overdue, sender, mailed>>
    BY <2>1, Written
  <2> QED BY <2>2 DEF CallIs, Invited
<1> HIDE DEF i
<1>4. Posted'
  BY <1>1, <1>3, SameMail DEF outbox
<1>5. CASE Revoke(c)
  <2>1. Open(i) /\ invitation' = [invitation EXCEPT ![i].status = "REVOKED", ![i].link = 0]
    BY <1>5 DEF Revoke, i
  <2>2. Tables' /\ HeldOnce' /\ Unused' /\ Sound /\ Kept
    BY <1>1, <1>3, <2>1, Closing
  <2> QED BY <1>3, <1>4, <2>2, Assembled
<1>6. CASE Inspect(c)
  <2>1. /\ Open(i) /\ invitation[i].link = call[c].link /\ Writes(c, "inspect")
        /\ invitation' = [invitation EXCEPT ![i].status = "EXPIRED", ![i].link = 0]
    BY <1>6 DEF Inspect, i
  <2>2. CallIs(call[c]) /\ call[c].op = "inspect"
    BY <2>1, Written
  <2> invitation[i].link \in lapsed
    BY <2>1, <2>2 DEF CallIs
  <2>3. Tables' /\ HeldOnce' /\ Unused' /\ Sound /\ Kept
    BY <1>1, <1>3, <2>1, Closing
  <2> QED BY <1>3, <1>4, <2>3, Assembled
<1>7. CASE ExpireAccepting(c)
  <2>1. /\ Writes(c, "expire-accepting")
        /\ invitation' = [invitation EXCEPT ![i].status = "EXPIRED", ![i].link = 0]
    BY <1>7 DEF ExpireAccepting, i
  <2>2. /\ CallIs(call[c]) /\ call[c].op = "expire-accepting"
        /\ call[c].seen = <<account, invitation>>
    BY <2>1, Written DEF InvitationOps
  <2>3. Open(i) /\ invitation[i].link \in lapsed
    BY <2>2 DEF CallIs, Open, i
  <2>4. Tables' /\ HeldOnce' /\ Unused' /\ Sound /\ Kept
    BY <1>1, <1>3, <2>1, <2>3, Closing
  <2> QED BY <1>3, <1>4, <2>4, Assembled
<1> QED BY <1>5, <1>6, <1>7

\* A new invitation takes the place of an earlier one whose link has lapsed.
LEMMA Inviting ==
    ASSUME IInv, NEW c \in Caller, Invite(c)
    PROVE  IInv' /\ Sound /\ Kept
<1> DEFINE e == call[c].email
<1>1. PICK i \in Invitation, t \in Link :
        /\ invitation[i] = NoInvitation /\ Issue(t)
        /\ invitation' = [j \in Invitation |->
               IF j = i THEN [status |-> "PENDING", email |-> e, link |-> t]
               ELSE IF Open(j) /\ invitation[j].email = e
               THEN [invitation[j] EXCEPT !.status = "EXPIRED", !.link = 0]
               ELSE invitation[j]]
  BY DEF Invite
<1>2. Writes(c, "invite") /\ UNCHANGED <<account, pending, reset, used>>
  BY DEF Invite
<1>3. /\ issued' = issued + 1 /\ issued' \in 0 .. MaxLinks /\ t \in 0 .. MaxLinks
      /\ t = issued' /\ 0 \in 0 .. MaxLinks
  <2>1. Issue(t)
    BY <1>1
  <2> QED BY <2>1, AdmissionAssumption DEF Issue, Link, IInv, Tables
<1> issued' \in {issued, issued + 1}
  BY <1>3
<1>4. /\ CallIs(call[c]) /\ call[c].op = "invite" /\ Calls' /\ Times' /\ e \in Email
      /\ call[c].seen = <<account, invitation>>
      /\ UNCHANGED <<cast, mode, overdue, sender, mailed>>
  BY <1>2, <1>3, Written DEF CallIs, Emailed, InvitationOps
<1>5. Posted'
  BY <1>1, <1>4, MessageQueued
<1>6. invitation \in [Invitation -> InvitationRow] /\ ~Open(i)
  <2>1. invitation[i] = NoInvitation
    BY <1>1
  <2>2. invitation[i].status = "none"
    BY <2>1 DEF NoInvitation
  <2> QED BY <2>2 DEF IInv, Tables, Open
<1>7. ASSUME NEW j \in Invitation
      PROVE  /\ invitation'[j] \in InvitationRow
             /\ j = i => /\ invitation'[j].status = "PENDING" /\ invitation'[j].email = e
                         /\ invitation'[j].link = t
             /\ j # i /\ Open(j) /\ invitation[j].email = e => invitation'[j].status = "EXPIRED"
             /\ j # i /\ ~(Open(j) /\ invitation[j].email = e) => invitation'[j] = invitation[j]
  <2> DEFINE new == [status |-> "PENDING", email |-> e, link |-> t]
             old == [invitation[j] EXCEPT !.status = "EXPIRED", !.link = 0]
  <2>1. new \in InvitationRow /\ new.status = "PENDING" /\ new.email = e /\ new.link = t
    BY <1>3, <1>4 DEF InvitationRow
  <2>2. invitation[j] \in InvitationRow
    BY <1>6
  <2>3. old \in InvitationRow /\ old.status = "EXPIRED"
    BY <1>3, <2>2 DEF InvitationRow
  <2>4. invitation'[j] = IF j = i THEN new
                         ELSE IF Open(j) /\ invitation[j].email = e THEN old ELSE invitation[j]
    BY <1>1
  <2> HIDE DEF new, old
  <2> QED BY <2>1, <2>2, <2>3, <2>4
<1> HIDE DEF e
<1>8. \A j \in Invitation : j # i /\ Open(j)' =>
        Open(j) /\ invitation'[j] = invitation[j] /\ invitation[j].email # e
  BY <1>7 DEF Open
<1>9. Tables'
  <2>1. (invitation \in [Invitation -> InvitationRow])'
    <3>1. invitation' = [j \in Invitation |-> invitation'[j]]
      BY <1>1
    <3> QED BY <1>7, <3>1
  <2>2. (\A j, k \in Invitation :
           Open(j) /\ Open(k) /\ invitation[j].email = invitation[k].email => j = k)'
    BY <1>7, <1>8 DEF IInv, Tables
  <2> QED BY <1>2, <1>3, <2>1, <2>2 DEF IInv, Tables
<1>10. HeldOnce' /\ Unused' /\ Kept
  <2>1. /\ \A f \in Email : pending'[f] = pending[f] /\ reset'[f] = reset[f]
        /\ \A f \in Email : pending[f] # t /\ reset[f] # t
        /\ \A j \in Invitation : Open(j) => invitation[j].link # t
    BY <1>1, <1>2, IssuedIsNew
  <2>2. Open(i)' /\ invitation'[i].link = t /\ invitation'[i].email \in Email
    BY <1>4, <1>7 DEF Open, e
  <2>3. Issue(t) /\ UNCHANGED used
    BY <1>1, <1>2
  <2>4. \A j \in Invitation : Open(j)' =>
               \/ invitation'[j].link = t /\ invitation'[j].email \in Email
               \/ Open(j) /\ invitation'[j] = invitation[j]
    BY <1>8, <2>1, <2>2
  <2>5. \A f \in Email : pending'[f] \in {pending[f], t} /\ reset'[f] \in {reset[f], t}
    BY <1>8, <2>1, <2>2
  <2>6. \A j, k \in Invitation :
          Open(j)' /\ invitation'[j].link = t /\ Open(k)' /\ invitation'[k].link = t
              => j = k
    BY <1>8, <2>1, <2>2
  <2>7. \A j \in Invitation, f \in Email :
          Open(j)' /\ invitation'[j].link = t => pending'[f] # t /\ reset'[f] # t
    BY <1>8, <2>1, <2>2
  <2>8. \A f, g \in Email : /\ pending'[f] = t => reset'[g] # t
                            /\ pending'[f] = t /\ pending'[g] = t => f = g
                            /\ reset'[f] = t /\ reset'[g] = t => f = g
    BY <1>8, <2>1, <2>2
  <2> QED BY <1>9, <2>3, <2>4, <2>5, <2>6, <2>7, <2>8, LinkIssued
<1>11. Sound
  <2>1. \A j \in Invitation : Open(j) /\ invitation[j].email = e => invitation[j].link \in lapsed
    BY <1>4 DEF CallIs, Open, e
  <2>2. ASSUME NEW j \in Invitation
        PROVE  /\ invitation[j].status \in {"ACCEPTED", "REVOKED", "EXPIRED"}
                    => invitation'[j] \in {invitation[j], NoInvitation}
               /\ Open(j) /\ invitation'[j].status = "EXPIRED" => invitation[j].link \in lapsed
    <3>1. invitation[i] = NoInvitation
      BY <1>1
    <3>2. j = i => invitation[j].status = "none" /\ invitation'[j].status = "PENDING"
      BY <1>7, <3>1 DEF NoInvitation
    <3> QED BY <1>7, <2>1, <3>2 DEF Open
  <2>3. UNCHANGED used
    BY <1>2
  <2> QED BY <2>2, <2>3 DEF Sound
<1> QED BY <1>4, <1>5, <1>9, <1>10, <1>11, Assembled

\* A link takes effect while a row holds it, and that row lets go of it.
LEMMA LinkUsed ==
    ASSUME IInv, Tables', issued' = issued, NEW t \in Link, Held(t), ~Held(t)',
           used' = [used EXCEPT ![t] = @ + 1],
           \A i \in Invitation : Open(i)' => Open(i) /\ invitation'[i] = invitation[i],
           \A e \in Email : pending'[e] \in {pending[e], 0} /\ reset'[e] \in {reset[e], 0}
    PROVE  /\ HeldOnce' /\ Unused' /\ Kept
           /\ \A u \in Link : used'[u] # used[u] => used[u] = 0 /\ Held(u)
<1>1. HeldOnce'
  BY LinksTaken
<1>2. /\ used' \in [Link -> Nat] /\ used[t] = 0
      /\ \A u \in Link : u # t => used'[u] = used[u]
  BY DEF IInv, Unused
<1>3. ASSUME NEW u \in Link, Held(u)' PROVE Held(u)
  BY <1>3 DEF Held, IInv, HeldOnce, Link, Open
<1>4. t <= issued
  BY DEF Held, IInv, HeldOnce, Tables
<1>5. Unused'
  <2>1. ASSUME NEW u \in Link, Held(u)' \/ u > issued PROVE used'[u] = 0
    <3>1. u # t
      BY <1>4, <2>1 DEF IInv, Tables, Link
    <3> QED BY <1>2, <1>3, <2>1, <3>1 DEF IInv, Unused
  <2> QED BY <1>2, <2>1 DEF Unused
<1> QED BY <1>1, <1>2, <1>3, <1>5 DEF Kept

\* A step that touches no invitation and uses no link is sound.
LEMMA Quiet ==
    ASSUME UNCHANGED <<invitation, used>>
    PROVE  Sound
BY DEF Sound, Open

LEMMA Rotating ==
    ASSUME IInv, NEW c \in Caller, Rotate(c)
    PROVE  IInv' /\ Sound /\ Kept
<1> PICK i : i = call[c].invitation
  OBVIOUS
<1>1. PICK t \in Link : Issue(t) /\ invitation' = [invitation EXCEPT ![i].link = t]
  BY DEF Rotate
<1>2. Writes(c, "rotate") /\ Open(i) /\ UNCHANGED <<account, pending, reset, used>>
  BY DEF Rotate
<1>3. /\ issued' = issued + 1 /\ issued' \in 0 .. MaxLinks /\ t \in 0 .. MaxLinks
  BY <1>1, AdmissionAssumption DEF Issue, Link, IInv, Tables
<1> issued' \in {issued, issued + 1}
  BY <1>3
<1>4. /\ CallIs(call[c]) /\ call[c].op = "rotate" /\ Calls' /\ Times'
      /\ UNCHANGED <<cast, mode, overdue, sender, mailed>>
  BY <1>2, Written
<1>5. i \in Invitation
  BY <1>4 DEF CallIs, Invited
<1>6. Posted'
  BY <1>1, <1>4, MessageQueued
<1>7. /\ invitation' \in [Invitation -> InvitationRow]
      /\ \A j \in Invitation : j # i => invitation'[j] = invitation[j]
      /\ invitation'[i].link = t /\ invitation'[i].email = invitation[i].email
      /\ invitation'[i].status = "PENDING"
  <2> DEFINE row == [invitation[i] EXCEPT !.link = t]
  <2>1. invitation \in [Invitation -> InvitationRow] /\ invitation[i].status = "PENDING"
    BY <1>2 DEF IInv, Tables, Open
  <2>2. /\ row \in InvitationRow /\ row.link = t /\ row.email = invitation[i].email
        /\ row.status = "PENDING"
    BY <1>3, <1>5, <2>1 DEF InvitationRow
  <2>3. invitation' = [invitation EXCEPT ![i] = row]
    BY <1>1, <1>5, <2>1 DEF InvitationRow
  <2> HIDE DEF row
  <2> QED BY <1>5, <2>1, <2>2, <2>3
<1>8. Tables'
  <2>1. \A j \in Invitation : Open(j)' => Open(j) /\ invitation'[j].email = invitation[j].email
    BY <1>2, <1>7 DEF Open
  <2> QED BY <1>2, <1>3, <1>7, <2>1 DEF IInv, Tables
<1>9. HeldOnce' /\ Unused' /\ Kept
  <2>1. /\ \A f \in Email : pending'[f] = pending[f] /\ reset'[f] = reset[f]
        /\ \A f \in Email : pending[f] # t /\ reset[f] # t
        /\ \A j \in Invitation : Open(j) => invitation[j].link # t
    BY <1>1, <1>2, IssuedIsNew
  <2>2. Open(i)' /\ invitation'[i].link = t /\ invitation'[i].email \in Email
    BY <1>2, <1>5, <1>7, OpenOne DEF Open
  <2>3. \A j \in Invitation : j # i /\ Open(j)' => Open(j) /\ invitation'[j] = invitation[j]
    BY <1>7 DEF Open
  <2>4. Issue(t) /\ UNCHANGED used
    BY <1>1, <1>2
  <2>5. \A j \in Invitation : Open(j)' =>
               \/ invitation'[j].link = t /\ invitation'[j].email \in Email
               \/ Open(j) /\ invitation'[j] = invitation[j]
    BY <2>1, <2>2, <2>3
  <2>6. \A f \in Email : pending'[f] \in {pending[f], t} /\ reset'[f] \in {reset[f], t}
    BY <2>1, <2>2, <2>3
  <2>7. \A j, k \in Invitation :
          Open(j)' /\ invitation'[j].link = t /\ Open(k)' /\ invitation'[k].link = t
              => j = k
    BY <2>1, <2>2, <2>3
  <2>8. \A j \in Invitation, f \in Email :
          Open(j)' /\ invitation'[j].link = t => pending'[f] # t /\ reset'[f] # t
    BY <2>1, <2>2, <2>3
  <2>9. \A f, g \in Email : /\ pending'[f] = t => reset'[g] # t
                            /\ pending'[f] = t /\ pending'[g] = t => f = g
                            /\ reset'[f] = t /\ reset'[g] = t => f = g
    BY <2>1, <2>2, <2>3
  <2> QED BY <1>8, <2>4, <2>5, <2>6, <2>7, <2>8, <2>9, LinkIssued
<1>10. Sound
  <2>1. UNCHANGED used
    BY <1>2
  <2> QED BY <1>2, <1>7, <2>1 DEF Sound, Open
<1> QED BY <1>4, <1>6, <1>8, <1>9, <1>10, Assembled

\* Nobody else holds the link of the invitation that is accepted.
LEMMA Accepting ==
    ASSUME IInv, NEW c \in Caller, Accept(c)
    PROVE  IInv' /\ Sound /\ Kept
<1> PICK i, e, t : i = call[c].invitation /\ e = call[c].email /\ t = call[c].link
  OBVIOUS
<1>1. /\ Writes(c, "accept") /\ account[e] = "none" /\ Open(i) /\ invitation[i].link = t
      /\ account' = [account EXCEPT ![e] = "password"]
      /\ invitation' = [invitation EXCEPT ![i].status = "ACCEPTED", ![i].link = 0]
      /\ used' = [used EXCEPT ![t] = @ + 1]
      /\ UNCHANGED <<pending, reset, issued, mail>>
  BY DEF Accept
<1> issued' \in {issued, issued + 1}
  BY <1>1
<1>2. /\ CallIs(call[c]) /\ call[c].op = "accept" /\ Calls' /\ Times'
      /\ UNCHANGED <<cast, mode, overdue, sender, mailed>>
  BY <1>1, Written
<1>3. i \in Invitation /\ e \in Email
  BY <1>2 DEF CallIs, Invited, Emailed
<1>4. t \in Link
  <2>1. Open(i) /\ invitation[i].link = t
    BY <1>1
  <2>2. t \in 1 .. issued /\ issued \in 0 .. MaxLinks
    BY <1>3, <2>1 DEF IInv, HeldOnce, Tables
  <2> QED BY <2>2, AdmissionAssumption DEF Link
<1>5. Posted'
  BY <1>1, <1>2, SameMail DEF outbox
<1>6. /\ invitation' \in [Invitation -> InvitationRow]
      /\ invitation'[i].status = "ACCEPTED" /\ ~Open(i)'
      /\ \A j \in Invitation : j # i => invitation'[j] = invitation[j]
  BY <1>1, <1>3, Closed
<1>7. \A j \in Invitation : Open(j)' => Open(j) /\ invitation'[j] = invitation[j] /\ j # i
  BY <1>6 DEF Open
<1>8. Tables'
  BY <1>1, <1>3, <1>6, <1>7 DEF IInv, Tables
<1>9. Held(t) /\ ~Held(t)'
  <2>1. Held(t)
    BY <1>1, <1>3 DEF Held
  <2>2. ~Held(t)'
    <3>1. Open(i) /\ invitation[i].link = t /\ UNCHANGED <<pending, reset>>
      BY <1>1
    <3>2. \A f \in Email : pending[f] # t /\ reset[f] # t
      BY <1>3, <3>1 DEF IInv, HeldOnce
    <3>3. \A j \in Invitation : Open(j)' => invitation'[j].link # t
      BY <1>3, <1>7, <3>1 DEF IInv, HeldOnce
    <3> QED BY <3>1, <3>2, <3>3 DEF Held
  <2> QED BY <2>1, <2>2
<1>10. /\ HeldOnce' /\ Unused' /\ Kept
       /\ \A u \in Link : used'[u] # used[u] => used[u] = 0 /\ Held(u)
  <2>1. \A j \in Invitation : Open(j)' => Open(j) /\ invitation'[j] = invitation[j]
    BY <1>7
  <2>2. \A f \in Email : pending'[f] \in {pending[f], 0} /\ reset'[f] \in {reset[f], 0}
    BY <1>1
  <2> QED BY <1>1, <1>4, <1>8, <1>9, <2>1, <2>2, LinkUsed
<1>11. Sound
  BY <1>1, <1>6, <1>10 DEF Sound, Open
<1> QED BY <1>2, <1>5, <1>8, <1>10, <1>11, Assembled

LEMMA Registering ==
    ASSUME IInv, NEW c \in Caller, Register(c) \/ Request(c)
    PROVE  IInv' /\ Sound /\ Kept
<1> PICK e : e = call[c].email
  OBVIOUS
<1>1. PICK t \in Link :
        /\ Issue(t)
        /\ \/ /\ Writes(c, "register") /\ pending' = [pending EXCEPT ![e] = t]
              /\ UNCHANGED reset
           \/ /\ Writes(c, "request") /\ reset' = [reset EXCEPT ![e] = t]
              /\ account[e] = "password" /\ UNCHANGED pending
  BY DEF Register, Request
<1>2. UNCHANGED <<account, invitation, used>>
  BY DEF Register, Request
<1>3. /\ issued' = issued + 1 /\ issued' \in 0 .. MaxLinks /\ t \in 0 .. MaxLinks
  BY <1>1, AdmissionAssumption DEF Issue, Link, IInv, Tables
<1> issued' \in {issued, issued + 1}
  BY <1>3
<1>4. /\ Calls' /\ Times' /\ e \in Email /\ UNCHANGED <<cast, mode, overdue, sender, mailed>>
  <2>1. PICK op \in {"register", "request"} : Writes(c, op)
    BY <1>1
  <2>2. /\ CallIs(call[c]) /\ call[c].op = op /\ Calls' /\ Times'
        /\ UNCHANGED <<cast, mode, overdue, sender, mailed>>
    BY <2>1, Written
  <2> QED BY <2>2 DEF CallIs, Emailed
<1>5. Posted'
  BY <1>1, <1>4, MessageQueued
<1>6. Tables'
  <2>1. /\ (pending \in [Email -> 0 .. MaxLinks])' /\ (reset \in [Email -> 0 .. MaxLinks])'
        /\ (\A f \in Email : account[f] # "password" => reset[f] = 0)'
    BY <1>1, <1>2, <1>3, <1>4 DEF IInv, Tables
  <2> QED BY <1>2, <1>3, <2>1 DEF IInv, Tables, Open
<1>7. HeldOnce' /\ Unused' /\ Kept
  <2>1. /\ \A f \in Email : pending[f] # t /\ reset[f] # t
        /\ \A j \in Invitation : Open(j) => invitation[j].link # t
    BY <1>1, IssuedIsNew
  <2>2. \A j \in Invitation : Open(j)' => Open(j) /\ invitation'[j] = invitation[j]
    BY <1>2 DEF Open
  <2>3. Issue(t) /\ UNCHANGED used
    BY <1>1, <1>2 DEF Issue
  <2>4. pending \in [Email -> 0 .. MaxLinks] /\ reset \in [Email -> 0 .. MaxLinks]
    BY DEF IInv, Tables
  <2>5. \/ \A f \in Email : /\ pending'[f] = IF f = e THEN t ELSE pending[f]
                            /\ reset'[f] = reset[f]
        \/ \A f \in Email : /\ pending'[f] = pending[f]
                            /\ reset'[f] = IF f = e THEN t ELSE reset[f]
    BY <1>1, <1>4, <2>4
  <2>6. \A j \in Invitation : Open(j)' =>
               \/ invitation'[j].link = t /\ invitation'[j].email \in Email
               \/ Open(j) /\ invitation'[j] = invitation[j]
    BY <2>1, <2>2, <2>5
  <2>7. \A f \in Email : pending'[f] \in {pending[f], t} /\ reset'[f] \in {reset[f], t}
    BY <2>1, <2>2, <2>5
  <2>8. \A j, k \in Invitation :
          Open(j)' /\ invitation'[j].link = t /\ Open(k)' /\ invitation'[k].link = t
              => j = k
    BY <2>1, <2>2, <2>5
  <2>9. \A j \in Invitation, f \in Email :
          Open(j)' /\ invitation'[j].link = t => pending'[f] # t /\ reset'[f] # t
    BY <2>1, <2>2, <2>5
  <2>10. \A f, g \in Email : /\ pending'[f] = t => reset'[g] # t
                             /\ pending'[f] = t /\ pending'[g] = t => f = g
                             /\ reset'[f] = t /\ reset'[g] = t => f = g
    BY <2>1, <2>2, <2>5
  <2> QED BY <1>6, <2>3, <2>6, <2>7, <2>8, <2>9, <2>10, LinkIssued
<1> QED BY <1>2, <1>4, <1>5, <1>6, <1>7, Quiet, Assembled

\* Confirming a registration and resetting a password: the link is the one the
\* transaction read, and nobody else holds it.
LEMMA Confirming ==
    ASSUME IInv, NEW c \in Caller, Confirm(c) \/ Reset(c)
    PROVE  IInv' /\ Sound /\ Kept
<1> PICK e, t : e = call[c].email /\ t = call[c].link
  OBVIOUS
<1>1. /\ \/ /\ Writes(c, "confirm") /\ pending' = [pending EXCEPT ![e] = 0]
            /\ account' = [account EXCEPT ![e] = "password"]
            /\ account[e] = "none" /\ UNCHANGED reset
         \/ /\ Writes(c, "reset") /\ reset' = [reset EXCEPT ![e] = 0]
            /\ UNCHANGED <<account, pending>>
      /\ used' = [used EXCEPT ![t] = @ + 1] /\ UNCHANGED <<invitation, issued, mail>>
  BY DEF Confirm, Reset
<1> issued' \in {issued, issued + 1}
  BY <1>1
<1>2. /\ Calls' /\ Times' /\ e \in Email /\ t \in Link
      /\ UNCHANGED <<cast, mode, overdue, sender, mailed>>
      /\ \/ /\ pending' = [pending EXCEPT ![e] = 0] /\ pending[e] = t
            /\ account' = [account EXCEPT ![e] = "password"]
            /\ account[e] = "none" /\ UNCHANGED reset
         \/ /\ reset' = [reset EXCEPT ![e] = 0] /\ reset[e] = t
            /\ UNCHANGED <<account, pending>>
  <2>1. CASE /\ Writes(c, "confirm") /\ pending' = [pending EXCEPT ![e] = 0]
             /\ account' = [account EXCEPT ![e] = "password"]
             /\ account[e] = "none" /\ UNCHANGED reset
    <3>1. /\ CallIs(call[c]) /\ call[c].op = "confirm" /\ Calls' /\ Times'
          /\ call[c].seen = <<account, pending>>
          /\ UNCHANGED <<cast, mode, overdue, sender, mailed>>
      BY <2>1, Written DEF RegistrationOps
    <3>2. call[c].seen[2] = pending
      BY <3>1
    <3>3. e \in Email /\ pending[e] = t /\ t \in Link
      BY <3>1, <3>2 DEF CallIs, Emailed
    <3> QED BY <2>1, <3>1, <3>3
  <2>2. CASE /\ Writes(c, "reset") /\ reset' = [reset EXCEPT ![e] = 0]
             /\ UNCHANGED <<account, pending>>
    <3>1. /\ CallIs(call[c]) /\ call[c].op = "reset" /\ Calls' /\ Times'
          /\ call[c].seen = <<account, reset>>
          /\ UNCHANGED <<cast, mode, overdue, sender, mailed>>
      BY <2>2, Written DEF ResetOps
    <3>2. call[c].seen[2] = reset
      BY <3>1
    <3>3. e \in Email /\ reset[e] = t /\ t \in Link
      BY <3>1, <3>2 DEF CallIs, Emailed
    <3> QED BY <2>2, <3>1, <3>3
  <2> QED BY <1>1, <2>1, <2>2
<1>3. Posted'
  BY <1>1, <1>2, SameMail DEF outbox
<1>4. \A f \in Email : /\ pending'[f] \in {pending[f], 0} /\ reset'[f] \in {reset[f], 0}
                       /\ account'[f] # "password" => reset'[f] = 0
  BY <1>2 DEF IInv, Tables
<1>5. Tables'
  <2>1. /\ (account \in [Email -> {"none", "social", "password"}])'
        /\ (pending \in [Email -> 0 .. MaxLinks])' /\ (reset \in [Email -> 0 .. MaxLinks])'
    BY <1>2, AdmissionAssumption DEF IInv, Tables
  <2> QED BY <1>1, <1>4, <2>1 DEF IInv, Tables, Open
<1>6. Held(t) /\ ~Held(t)'
  <2>1. Held(t)
    BY <1>2 DEF Held
  <2>2. \A i \in Invitation : Open(i)' => invitation'[i].link # t
    BY <1>1, <1>2 DEF IInv, HeldOnce, Open
  <2>3. \A f \in Email : pending'[f] # t /\ reset'[f] # t
    <3>1. t # 0 /\ 0 \in 0 .. MaxLinks
      BY <1>2, AdmissionAssumption DEF Link
    <3> QED BY <1>2, <3>1 DEF IInv, HeldOnce, Tables
  <2> QED BY <2>1, <2>2, <2>3 DEF Held
<1>7. /\ HeldOnce' /\ Unused' /\ Kept
      /\ \A u \in Link : used'[u] # used[u] => used[u] = 0 /\ Held(u)
  <2>1. \A j \in Invitation : Open(j)' => Open(j) /\ invitation'[j] = invitation[j]
    BY <1>1 DEF Open
  <2>2. \A f \in Email : pending'[f] \in {pending[f], 0} /\ reset'[f] \in {reset[f], 0}
    BY <1>4
  <2> QED BY <1>1, <1>2, <1>5, <1>6, <2>1, <2>2, LinkUsed
<1>8. Sound
  BY <1>1, <1>7 DEF Sound, Open
<1> QED BY <1>2, <1>3, <1>5, <1>7, <1>8, Assembled

\* The requests that only take links away.
LEMMA Dropping ==
    ASSUME IInv, NEW c \in Caller,
           Drop(c) \/ Clear(c) \/ SetPassword(c) \/ Remove(c)
    PROVE  IInv' /\ Sound /\ Kept
<1> DEFINE e == call[c].email
<1>1. UNCHANGED <<invitation, issued, mail, used>>
  BY DEF Drop, Clear, SetPassword, Remove
<1> issued' \in {issued, issued + 1}
  BY <1>1
<1>2. /\ Calls' /\ Times' /\ e \in Email /\ UNCHANGED <<cast, mode, overdue, sender, mailed>>
  <2>1. PICK op \in {"drop", "clear", "change", "add", "remove"} : Writes(c, op)
    BY DEF Drop, Clear, SetPassword, Remove
  <2>2. /\ CallIs(call[c]) /\ call[c].op = op /\ Calls' /\ Times'
        /\ UNCHANGED <<cast, mode, overdue, sender, mailed>>
    BY <2>1, Written
  <2> QED BY <2>2 DEF CallIs, Emailed
<1>3. /\ account' \in [Email -> {"none", "social", "password"}]
      /\ pending' \in [Email -> 0 .. MaxLinks] /\ reset' \in [Email -> 0 .. MaxLinks]
      /\ \A f \in Email : /\ pending'[f] \in {pending[f], 0} /\ reset'[f] \in {reset[f], 0}
                          /\ account'[f] # "password" => reset'[f] = 0
  <2>1. CASE Drop(c)
    BY <1>2, <2>1, AdmissionAssumption DEF Drop, IInv, Tables
  <2>2. CASE Clear(c)
    BY <1>2, <2>2, AdmissionAssumption DEF Clear, IInv, Tables
  <2>3. CASE SetPassword(c)
    BY <1>2, <2>3, AdmissionAssumption DEF SetPassword, IInv, Tables
  <2>4. CASE Remove(c)
    BY <1>2, <2>4, AdmissionAssumption DEF Remove, IInv, Tables
  <2> QED BY <2>1, <2>2, <2>3, <2>4
<1>4. Tables'
  BY <1>1, <1>3 DEF IInv, Tables, Open
<1>5. HeldOnce' /\ Unused' /\ Kept
  <2>1. \A j \in Invitation : Open(j)' => Open(j) /\ invitation'[j] = invitation[j]
    BY <1>1 DEF Open
  <2>2. \A f \in Email : pending'[f] \in {pending[f], 0} /\ reset'[f] \in {reset[f], 0}
    BY <1>3
  <2> QED BY <1>1, <1>4, <2>1, <2>2, LinksTaken
<1>6. Posted'
  BY <1>1, <1>2, SameMail DEF outbox
<1>7. Sound
  BY <1>1, Quiet
<1> QED BY <1>2, <1>4, <1>5, <1>6, <1>7, Assembled

LEMMA Committing ==
    ASSUME IInv, NEW c \in Caller, CommitStep(c)
    PROVE  IInv' /\ Sound /\ Kept
<1>1. CASE Fail(c)
  <2>1. /\ call' = [call EXCEPT ![c] = Idle]
        /\ UNCHANGED <<cast, mode, rows, issued, lapsed, outbox, sender, deaths, history>>
    BY <1>1 DEF Fail
  <2>2. Times' /\ Calls'
    BY <2>1, CallEnded DEF IInv, Times
  <2> QED BY <2>1, <2>2, SameRows, SameMail, Quiet, Assembled DEF history, rows
<1> QED BY <1>1, Shutting, Inviting, Rotating, Accepting, Registering, Confirming, Dropping
        DEF CommitStep

-----------------------------------------------------------------------------
(* Mail *)

\* The first of some links is one of them.
LEMMA FirstIsOne ==
    ASSUME NEW S \in SUBSET Link, S # {}
    PROVE  Min(S) \in S
<1>1. S \in SUBSET Nat
  BY DEF Link
<1> QED BY <1>1, LeastExists DEF Min

\* A step by which nobody gets a message, and none becomes pending.
LEMMA NothingGained ==
    ASSUME IInv, UNCHANGED <<issued, mailed>>,
           mail' \in [Link -> {"none", "pending", "sending", "ended"}],
           overdue' \subseteq {t \in Link : mail'[t] = "sending"},
           \A t \in Link : /\ mail'[t] \in {"none", "pending"} => mail[t] = mail'[t]
                           /\ mail[t] = "none" => mail'[t] = "none",
           sender' \in [Sender -> SenderState],
           \A w \in Sender : sender'[w].pc = "check" =>
               sender'[w].todo # {} /\ Min(sender'[w].todo) \notin sender'[w].hand,
           \A w \in Sender, t \in Link : Has(w, t)' => Has(w, t)
    PROVE  Posted'
<1>1. (\A t \in Link : t > issued => mail[t] = "none")'
  BY DEF IInv, Posted
<1>2. (\A t \in Link : mail[t] \in {"none", "pending"} =>
         mailed[t] = 0 /\ \A w \in Sender : ~Has(w, t))'
  BY DEF IInv, Posted
<1>3. (\A w \in Sender, t \in Link : Has(w, t) => mailed[t] = 0)'
  BY DEF IInv, Posted
<1>4. (\A v, w \in Sender, t \in Link : Has(v, t) /\ Has(w, t) => v = w)'
  BY DEF IInv, Posted
<1>5. (mailed \in [Link -> 0 .. 1])'
  BY DEF IInv, Posted
<1> QED BY <1>1, <1>2, <1>3, <1>4, <1>5 DEF Posted

\* The same, when one sender moves on.
LEMMA MovedOn ==
    ASSUME IInv, NEW w \in Sender, NEW r \in SenderState, sender' = [sender EXCEPT ![w] = r],
           UNCHANGED <<issued, mailed>>,
           mail' \in [Link -> {"none", "pending", "sending", "ended"}],
           overdue' \subseteq {t \in Link : mail'[t] = "sending"},
           \A t \in Link : /\ mail'[t] \in {"none", "pending"} => mail[t] = mail'[t]
                           /\ mail[t] = "none" => mail'[t] = "none",
           r.pc = "check" => r.todo # {} /\ Min(r.todo) \notin r.hand,
           \A t \in Link : t \in r.hand \/ (r.pc = "check" /\ t = Min(r.todo)) => Has(w, t)
    PROVE  Posted'
<1>1. /\ sender' \in [Sender -> SenderState] /\ sender'[w] = r
      /\ \A v \in Sender : v # w => sender'[v] = sender[v]
  BY DEF IInv, Posted
<1>2. \A v \in Sender : sender'[v].pc = "check" =>
        sender'[v].todo # {} /\ Min(sender'[v].todo) \notin sender'[v].hand
  <2>1. ASSUME NEW v \in Sender, v # w PROVE sender'[v] = sender[v]
    BY <1>1, <2>1
  <2> QED BY <1>1, <2>1 DEF IInv, Posted
<1>3. ASSUME NEW v \in Sender, NEW t \in Link, Has(v, t)' PROVE Has(v, t)
  <2>1. CASE v = w
    BY <1>1, <1>3, <2>1 DEF Has
  <2>2. CASE v # w
    BY <1>1, <1>3, <2>2 DEF Has
  <2> QED BY <2>1, <2>2
<1> QED BY <1>1, <1>2, <1>3, NothingGained

\* A sender's step leaves the requests alone.
LEMMA SenderAlone ==
    ASSUME IInv, Posted',
           UNCHANGED <<cast, mode, account, invitation, pending, reset, issued, lapsed, call, used>>
    PROVE  IInv' /\ Sound /\ Kept
<1>1. Times' /\ Calls'
  BY SameCalls DEF IInv, Times
<1>2. Tables' /\ HeldOnce' /\ Unused' /\ Kept
  BY SameRows DEF rows
<1> QED BY <1>1, <1>2, Quiet, Assembled

LEMMA Sweeping ==
    ASSUME IInv, NEW w \in Sender, Sweep(w) \/ SweepOnly(w)
    PROVE  IInv' /\ Sound /\ Kept
<1>1. /\ mail' = [t \in Link |-> Swept(t)]
      /\ overdue' = {t \in overdue : mail'[t] = "sending"}
      /\ UNCHANGED <<cast, mode, rows, issued, lapsed, call, deaths, history>>
  BY DEF Sweep, SweepOnly
<1>2. \A t \in Link : mail[t] \in {"none", "pending", "sending", "ended"}
  BY DEF IInv, Posted
<1>3. \A t \in Link : mail'[t] = mail[t] \/ (mail'[t] = "ended" /\ mail[t] # "none")
  BY <1>1, <1>2 DEF Swept
<1>4. mail' \in [Link -> {"none", "pending", "sending", "ended"}]
  <2>1. mail' = [t \in Link |-> mail'[t]]
    BY <1>1
  <2> QED BY <1>2, <1>3, <2>1
<1>5. \A t \in Link : /\ mail'[t] \in {"none", "pending"} => mail[t] = mail'[t]
                      /\ mail[t] = "none" => mail'[t] = "none"
  BY <1>3
<1>6. overdue' \subseteq {t \in Link : mail'[t] = "sending"}
  BY <1>1 DEF IInv, Posted
<1>7. CASE Sweep(w)
  <2>1. PICK first \in SUBSET Link :
          sender' = [sender EXCEPT ![w] = [Waiting EXCEPT !.pc = "claim", !.todo = first]]
    BY <1>7 DEF Sweep
  <2> DEFINE r == [Waiting EXCEPT !.pc = "claim", !.todo = first]
  <2>2. r \in SenderState /\ r.pc = "claim" /\ r.hand = {}
    BY DEF Waiting, SenderState
  <2>3. sender' = [sender EXCEPT ![w] = r]
    BY <2>1
  <2> HIDE DEF r
  <2>4. Posted'
    BY <1>1, <1>4, <1>5, <1>6, <2>2, <2>3, MovedOn DEF history
  <2> QED BY <1>1, <2>4, SenderAlone DEF rows, history
<1>8. CASE SweepOnly(w)
  <2>1. UNCHANGED sender
    BY <1>8 DEF SweepOnly
  <2>2. /\ sender' \in [Sender -> SenderState]
        /\ \A v \in Sender : sender'[v].pc = "check" =>
               sender'[v].todo # {} /\ Min(sender'[v].todo) \notin sender'[v].hand
        /\ \A v \in Sender, t \in Link : Has(v, t)' => Has(v, t)
    BY <2>1 DEF IInv, Posted, Has
  <2>3. Posted'
    BY <1>1, <1>4, <1>5, <1>6, <2>2, NothingGained DEF history
  <2> QED BY <1>1, <2>3, SenderAlone DEF rows, history
<1> QED BY <1>7, <1>8

\* The guarded claim is what gives a message to one sender alone.
LEMMA Claiming ==
    ASSUME IInv, NEW w \in Sender, ClaimRow(w)
    PROVE  IInv' /\ Sound /\ Kept
<1> PICK t : t = Min(sender[w].todo)
  OBVIOUS
<1>1. /\ sender[w].pc = "claim" /\ sender[w].todo # {}
      /\ IF mail[t] = "pending"
         THEN /\ mail' = [mail EXCEPT ![t] = "sending"]
              /\ sender' = [sender EXCEPT ![w].pc = "check"]
         ELSE /\ sender' = [sender EXCEPT ![w].todo = @ \ {t}]
              /\ UNCHANGED mail
      /\ UNCHANGED <<cast, mode, rows, issued, lapsed, overdue, call, deaths, history>>
  BY DEF ClaimRow
<1>2. sender \in [Sender -> SenderState] /\ sender[w] \in SenderState /\ sender[w].todo \in SUBSET Link
  BY DEF IInv, Posted, SenderState
<1>3. t \in Link
  BY <1>1, <1>2, FirstIsOne
<1>4. Posted'
  <2>1. CASE mail[t] = "pending"
    <3> DEFINE r == [sender[w] EXCEPT !.pc = "check"]
    <3>1. r \in SenderState /\ r.pc = "check" /\ r.todo = sender[w].todo /\ r.hand = sender[w].hand
      BY <1>2 DEF SenderState
    <3>2. sender' = [sender EXCEPT ![w] = r]
      BY <1>1, <1>2, <2>1 DEF SenderState
    <3> HIDE DEF r
    <3>3. /\ mail' \in [Link -> {"none", "pending", "sending", "ended"}] /\ mail'[t] = "sending"
          /\ \A u \in Link : u # t => mail'[u] = mail[u]
      BY <1>1, <1>3, <2>1 DEF IInv, Posted
    <3>4. /\ sender' \in [Sender -> SenderState] /\ sender'[w] = r
          /\ \A v \in Sender : v # w => sender'[v] = sender[v]
      BY <1>2, <3>1, <3>2
    <3>5. mailed[t] = 0 /\ \A v \in Sender : ~Has(v, t)
      BY <1>3, <2>1 DEF IInv, Posted
    <3>6. ASSUME NEW v \in Sender, NEW u \in Link
          PROVE  Has(v, u)' <=> Has(v, u) \/ (v = w /\ u = t)
      BY <1>1, <3>1, <3>4 DEF Has
    <3>7. t \notin sender[w].hand
      BY <3>5 DEF Has
    <3>8. /\ (overdue \subseteq {u \in Link : mail[u] = "sending"})'
          /\ (mailed \in [Link -> 0 .. 1])'
          /\ (\A u \in Link : u > issued => mail[u] = "none")'
      BY <1>1, <1>3, <2>1, <3>3 DEF IInv, Posted, history
    <3>9. \A v \in Sender : sender'[v].pc = "check" =>
            sender'[v].todo # {} /\ Min(sender'[v].todo) \notin sender'[v].hand
      <4>1. ASSUME NEW v \in Sender, v # w PROVE sender'[v] = sender[v]
        BY <3>4, <4>1
      <4> QED BY <1>1, <3>1, <3>4, <3>7, <4>1 DEF IInv, Posted
    <3>10. /\ (\A u \in Link : mail[u] \in {"none", "pending"} =>
                 mailed[u] = 0 /\ \A v \in Sender : ~Has(v, u))'
           /\ (\A v \in Sender, u \in Link : Has(v, u) => mailed[u] = 0)'
           /\ (\A v, x \in Sender, u \in Link : Has(v, u) /\ Has(x, u) => v = x)'
      <4>1. UNCHANGED mailed
        BY <1>1 DEF history
      <4> QED BY <3>3, <3>5, <3>6, <4>1 DEF IInv, Posted
    <3> QED BY <3>3, <3>4, <3>8, <3>9, <3>10 DEF Posted
  <2>2. CASE mail[t] # "pending"
    <3> DEFINE r == [sender[w] EXCEPT !.todo = @ \ {t}]
    <3>1. r \in SenderState /\ r.pc = "claim" /\ r.hand = sender[w].hand
      BY <1>1, <1>2 DEF SenderState
    <3>2. sender' = [sender EXCEPT ![w] = r] /\ UNCHANGED mail
      BY <1>1, <1>2, <2>2 DEF SenderState
    <3> HIDE DEF r
    <3>3. \A u \in Link : u \in r.hand \/ (r.pc = "check" /\ u = Min(r.todo)) => Has(w, u)
      BY <3>1 DEF Has
    <3>4. /\ mail' \in [Link -> {"none", "pending", "sending", "ended"}]
          /\ overdue' \subseteq {u \in Link : mail'[u] = "sending"}
      BY <1>1, <3>2 DEF IInv, Posted
    <3> QED BY <1>1, <3>1, <3>2, <3>3, <3>4, MovedOn DEF history
  <2> QED BY <2>1, <2>2
<1> QED BY <1>1, <1>4, SenderAlone DEF rows, history

LEMMA Checking ==
    ASSUME IInv, NEW w \in Sender, Check(w)
    PROVE  IInv' /\ Sound /\ Kept
<1> PICK t : t = Min(sender[w].todo)
  OBVIOUS
<1>1. /\ sender[w].pc = "check"
      /\ IF mail[t] = "sending" /\ Live(t)
         THEN sender' = [sender EXCEPT ![w].pc = "claim", ![w].todo = @ \ {t},
                                       ![w].hand = @ \cup {t}]
              /\ UNCHANGED mail
         ELSE /\ sender' = [sender EXCEPT ![w].pc = "claim", ![w].todo = @ \ {t}]
              /\ mail' = [mail EXCEPT ![t] = IF @ = "sending" THEN "ended" ELSE @]
      /\ overdue' = IF mail'[t] = "sending" THEN overdue ELSE overdue \ {t}
      /\ UNCHANGED <<cast, mode, rows, issued, lapsed, call, deaths, history>>
  BY DEF Check
<1>2. sender \in [Sender -> SenderState] /\ sender[w] \in SenderState /\ sender[w].todo \in SUBSET Link
  BY DEF IInv, Posted, SenderState
<1>3. t \in Link
  BY <1>1, <1>2, FirstIsOne DEF IInv, Posted
<1>4. PICK r \in SenderState :
        /\ r.pc = "claim" /\ r.hand \subseteq sender[w].hand \cup {t}
        /\ sender' = [sender EXCEPT ![w] = r]
  <2>1. CASE mail[t] = "sending" /\ Live(t)
    <3> DEFINE r == [sender[w] EXCEPT !.pc = "claim", !.todo = @ \ {t}, !.hand = @ \cup {t}]
    <3>1. r \in SenderState /\ r.pc = "claim" /\ r.hand = sender[w].hand \cup {t}
      BY <1>2, <1>3 DEF SenderState
    <3>2. sender' = [sender EXCEPT ![w] = r]
      BY <1>1, <1>2, <2>1 DEF SenderState
    <3> HIDE DEF r
    <3> QED BY <3>1, <3>2
  <2>2. CASE ~(mail[t] = "sending" /\ Live(t))
    <3> DEFINE r == [sender[w] EXCEPT !.pc = "claim", !.todo = @ \ {t}]
    <3>1. r \in SenderState /\ r.pc = "claim" /\ r.hand = sender[w].hand
      BY <1>2 DEF SenderState
    <3>2. sender' = [sender EXCEPT ![w] = r]
      BY <1>1, <1>2, <2>2 DEF SenderState
    <3> HIDE DEF r
    <3> QED BY <3>1, <3>2
  <2> QED BY <2>1, <2>2
<1>5. /\ mail' \in [Link -> {"none", "pending", "sending", "ended"}]
      /\ \A u \in Link : mail'[u] = mail[u] \/ (mail'[u] = "ended" /\ mail[u] = "sending" /\ u = t)
  BY <1>1, <1>3 DEF IInv, Posted
<1>6. overdue' \subseteq {u \in Link : mail'[u] = "sending"}
  BY <1>1, <1>5 DEF IInv, Posted
<1>7. \A u \in Link : u \in r.hand \/ (r.pc = "check" /\ u = Min(r.todo)) => Has(w, u)
  BY <1>1, <1>4 DEF Has
<1>8. \A u \in Link : /\ mail'[u] \in {"none", "pending"} => mail[u] = mail'[u]
                      /\ mail[u] = "none" => mail'[u] = "none"
  BY <1>5
<1>9. Posted'
  BY <1>1, <1>4, <1>5, <1>6, <1>7, <1>8, MovedOn DEF history
<1> QED BY <1>1, <1>9, SenderAlone DEF rows, history

\* Only the sender that has a message mails it, and it has it no more.
LEMMA Delivering ==
    ASSUME IInv, NEW w \in Sender, Deliver(w)
    PROVE  IInv' /\ Sound /\ Kept
<1>1. PICK t \in sender[w].hand :
        /\ sender' = [sender EXCEPT ![w].hand = @ \ {t}, ![w].done = @ \cup {t}]
        /\ mailed' = [mailed EXCEPT ![t] = @ + 1]
  BY DEF Deliver
<1>2. /\ sender[w].pc = "claim"
      /\ UNCHANGED <<cast, mode, rows, issued, lapsed, outbox, call, deaths, used>>
  BY DEF Deliver
<1>3. sender \in [Sender -> SenderState] /\ sender[w] \in SenderState /\ t \in Link
  BY <1>1 DEF IInv, Posted, SenderState
<1>4. Posted'
  <2> DEFINE r == [sender[w] EXCEPT !.hand = @ \ {t}, !.done = @ \cup {t}]
  <2>1. r \in SenderState /\ r.pc = "claim" /\ r.hand = sender[w].hand \ {t}
    BY <1>2, <1>3 DEF SenderState
  <2>2. sender' = [sender EXCEPT ![w] = r]
    BY <1>1, <1>3 DEF SenderState
  <2> HIDE DEF r
  <2>3. /\ sender' \in [Sender -> SenderState] /\ sender'[w] = r
        /\ \A v \in Sender : v # w => sender'[v] = sender[v]
    BY <1>3, <2>1, <2>2
  <2>4. Has(w, t) /\ mailed[t] = 0
    BY <1>1, <1>3 DEF Has, IInv, Posted
  <2>5. /\ mailed' \in [Link -> 0 .. 1]
        /\ \A u \in Link : u # t => mailed'[u] = mailed[u]
    BY <1>1, <1>3, <2>4 DEF IInv, Posted
  <2>6. ASSUME NEW v \in Sender, NEW u \in Link, Has(v, u)' PROVE Has(v, u) /\ u # t
    <3>1. CASE v = w
      BY <2>1, <2>3, <2>6, <3>1 DEF Has
    <3>2. CASE v # w
      <4>1. Has(v, u)
        BY <2>3, <2>6, <3>2 DEF Has
      <4> QED BY <1>3, <2>4, <3>2, <4>1 DEF IInv, Posted
    <3> QED BY <3>1, <3>2
  <2>7. UNCHANGED <<mail, overdue, issued>>
    BY <1>2 DEF outbox
  <2>8. mail[t] \notin {"none", "pending"}
    BY <1>3, <2>4 DEF IInv, Posted
  <2>9. \A v \in Sender : sender'[v].pc = "check" =>
          sender'[v].todo # {} /\ Min(sender'[v].todo) \notin sender'[v].hand
    <3>1. ASSUME NEW v \in Sender, v # w PROVE sender'[v] = sender[v]
      BY <2>3, <3>1
    <3> QED BY <2>1, <2>3, <3>1 DEF IInv, Posted
  <2>10. (\A u \in Link : mail[u] \in {"none", "pending"} =>
           mailed[u] = 0 /\ \A v \in Sender : ~Has(v, u))'
    BY <2>5, <2>6, <2>7, <2>8 DEF IInv, Posted
  <2>11. /\ (\A v \in Sender, u \in Link : Has(v, u) => mailed[u] = 0)'
         /\ (\A v, x \in Sender, u \in Link : Has(v, u) /\ Has(x, u) => v = x)'
    BY <2>5, <2>6 DEF IInv, Posted
  <2>12. /\ (mail \in [Link -> {"none", "pending", "sending", "ended"}])'
         /\ (overdue \subseteq {u \in Link : mail[u] = "sending"})'
         /\ (\A u \in Link : u > issued => mail[u] = "none")'
    BY <2>7 DEF IInv, Posted
  <2> QED BY <2>3, <2>5, <2>9, <2>10, <2>11, <2>12 DEF Posted
<1> QED BY <1>2, <1>4, SenderAlone DEF rows

LEMMA Acknowledging ==
    ASSUME IInv, NEW w \in Sender, Acknowledge(w)
    PROVE  IInv' /\ Sound /\ Kept
<1>1. PICK t \in sender[w].done :
        /\ sender' = [sender EXCEPT ![w].done = @ \ {t}]
        /\ mail' = [mail EXCEPT ![t] = IF @ = "sending" THEN "ended" ELSE @]
        /\ overdue' = overdue \ {t}
  BY DEF Acknowledge
<1>2. UNCHANGED <<cast, mode, rows, issued, lapsed, call, deaths, history>>
  BY DEF Acknowledge
<1>3. sender \in [Sender -> SenderState] /\ sender[w] \in SenderState /\ t \in Link
  BY <1>1 DEF IInv, Posted, SenderState
<1> DEFINE r == [sender[w] EXCEPT !.done = @ \ {t}]
<1>4. /\ r \in SenderState /\ r.pc = sender[w].pc /\ r.todo = sender[w].todo
      /\ r.hand = sender[w].hand
  BY <1>3 DEF SenderState
<1>5. sender' = [sender EXCEPT ![w] = r]
  BY <1>1, <1>3 DEF SenderState
<1> HIDE DEF r
<1>6. /\ mail' \in [Link -> {"none", "pending", "sending", "ended"}]
      /\ \A u \in Link : mail'[u] = mail[u] \/ (mail'[u] = "ended" /\ mail[u] = "sending" /\ u = t)
  BY <1>1, <1>3 DEF IInv, Posted
<1>7. overdue' \subseteq {u \in Link : mail'[u] = "sending"}
  BY <1>1, <1>6 DEF IInv, Posted
<1>8. /\ r.pc = "check" => r.todo # {} /\ Min(r.todo) \notin r.hand
      /\ \A u \in Link : u \in r.hand \/ (r.pc = "check" /\ u = Min(r.todo)) => Has(w, u)
  BY <1>4 DEF Has, IInv, Posted
<1>9. \A u \in Link : /\ mail'[u] \in {"none", "pending"} => mail[u] = mail'[u]
                      /\ mail[u] = "none" => mail'[u] = "none"
  BY <1>6
<1>10. Posted'
  BY <1>2, <1>4, <1>5, <1>6, <1>7, <1>8, <1>9, MovedOn DEF history
<1> QED BY <1>2, <1>10, SenderAlone DEF rows, history

\* A sender that is done, or dies, has nothing any more.
LEMMA Leaving ==
    ASSUME IInv, NEW w \in Sender, Finish(w) \/ Die(w)
    PROVE  IInv' /\ Sound /\ Kept
<1>1. /\ sender' = [sender EXCEPT ![w] = Waiting]
      /\ UNCHANGED <<cast, mode, rows, issued, lapsed, outbox, call, history>>
  BY DEF Finish, Die
<1>2. Waiting \in SenderState /\ Waiting.pc = "idle" /\ Waiting.hand = {}
  BY DEF Waiting, SenderState
<1>3. /\ UNCHANGED <<issued, mailed>>
      /\ mail' \in [Link -> {"none", "pending", "sending", "ended"}]
      /\ overdue' \subseteq {t \in Link : mail'[t] = "sending"}
      /\ \A t \in Link : /\ mail'[t] \in {"none", "pending"} => mail[t] = mail'[t]
                         /\ mail[t] = "none" => mail'[t] = "none"
  BY <1>1 DEF outbox, history, IInv, Posted
<1>4. Posted'
  BY <1>1, <1>2, <1>3, MovedOn
<1> QED BY <1>1, <1>4, SenderAlone DEF rows, history

LEMMA Sending ==
    ASSUME IInv, NEW w \in Sender, SenderProgress(w) \/ Die(w)
    PROVE  IInv' /\ Sound /\ Kept
BY Sweeping, Claiming, Checking, Delivering, Acknowledging, Leaving DEF SenderProgress

-----------------------------------------------------------------------------
(* Time and retention *)

LEMMA Lapsing ==
    ASSUME IInv, NEW t \in Link, Lapse(t)
    PROVE  IInv' /\ Sound /\ Kept
<1>1. /\ t <= issued /\ lapsed' = lapsed \cup {t}
      /\ UNCHANGED <<cast, mode, rows, issued, outbox, call, sender, deaths, history>>
  BY DEF Lapse
<1>2. Times'
  BY <1>1 DEF IInv, Times, Tables, Link
<1>3. Calls'
  BY <1>1, SameCalls
<1>4. UNCHANGED <<invitation, used>>
  BY <1>1 DEF rows, history
<1> QED BY <1>1, <1>2, <1>3, <1>4, SameRows, SameMail, Quiet, Assembled DEF history

LEMMA TimingOut ==
    ASSUME IInv, NEW t \in Link, TimeOut(t)
    PROVE  IInv' /\ Sound /\ Kept
<1>1. /\ mail[t] = "sending" /\ overdue' = overdue \cup {t}
      /\ UNCHANGED <<cast, mode, rows, issued, lapsed, mail, call, sender, deaths, history>>
  BY DEF TimeOut
<1>2. Posted'
  BY <1>1 DEF IInv, Posted, Has, history
<1> QED BY <1>1, <1>2, SenderAlone DEF rows, history

LEMMA Expiring ==
    ASSUME IInv, NEW i \in Invitation, Expire(i)
    PROVE  IInv' /\ Sound /\ Kept
<1>1. /\ Open(i) /\ invitation[i].link \in lapsed
      /\ invitation' = [invitation EXCEPT ![i].status = "EXPIRED", ![i].link = 0]
      /\ UNCHANGED <<cast, mode, account, pending, reset, issued, lapsed, outbox, call, sender,
                     deaths, history>>
  BY DEF Expire
<1>2. UNCHANGED <<account, pending, reset, issued, used>>
  BY <1>1 DEF history
<1>3. Tables' /\ HeldOnce' /\ Unused' /\ Sound /\ Kept
  BY <1>1, <1>2, Closing
<1>4. Times' /\ Calls'
  BY <1>1, SameCalls DEF IInv, Times
<1> QED BY <1>1, <1>3, <1>4, SameMail, Assembled DEF history

\* What is pruned is settled or has lapsed.
LEMMA Pruning ==
    ASSUME IInv, Prune
    PROVE  IInv' /\ Sound /\ Kept
<1>1. UNCHANGED <<cast, mode, issued, lapsed, overdue, call, sender, deaths, mailed, used>>
  BY DEF Prune, history
<1>2. Times' /\ Calls'
  BY <1>1, SameCalls DEF IInv, Times
<1>3. ASSUME NEW t \in Link, mail[t] = "pending", mail' = [mail EXCEPT ![t] = "ended"],
             UNCHANGED rows
      PROVE  IInv' /\ Sound /\ Kept
  <2>1. /\ mail' \in [Link -> {"none", "pending", "sending", "ended"}]
        /\ \A u \in Link : mail'[u] = mail[u] \/ (mail'[u] = "ended" /\ mail[u] = "pending")
    BY <1>3 DEF IInv, Posted
  <2>2. overdue' \subseteq {u \in Link : mail'[u] = "sending"}
    BY <1>1, <2>1 DEF IInv, Posted
  <2>3. \A u \in Link : /\ mail'[u] \in {"none", "pending"} => mail[u] = mail'[u]
                        /\ mail[u] = "none" => mail'[u] = "none"
    BY <2>1
  <2>4. /\ sender' \in [Sender -> SenderState]
        /\ \A v \in Sender : sender'[v].pc = "check" =>
               sender'[v].todo # {} /\ Min(sender'[v].todo) \notin sender'[v].hand
        /\ \A v \in Sender, u \in Link : Has(v, u)' => Has(v, u)
    BY <1>1 DEF IInv, Posted, Has
  <2>5. Posted'
    BY <1>1, <2>1, <2>2, <2>3, <2>4, NothingGained
  <2> QED BY <1>1, <1>3, <2>5, SenderAlone DEF rows
<1>4. ASSUME UNCHANGED <<account, mail>>,
             \/ /\ \E i \in Invitation :
                     /\ invitation[i].status \in {"ACCEPTED", "REVOKED", "EXPIRED"}
                     /\ invitation' = [invitation EXCEPT ![i] = NoInvitation]
                /\ UNCHANGED <<pending, reset>>
             \/ /\ \E e \in Email : pending' = [pending EXCEPT ![e] = 0]
                /\ UNCHANGED <<invitation, reset>>
             \/ /\ \E e \in Email : reset' = [reset EXCEPT ![e] = 0]
                /\ UNCHANGED <<invitation, pending>>
      PROVE  IInv' /\ Sound /\ Kept
  <2>1. /\ invitation' \in [Invitation -> InvitationRow]
        /\ \A j \in Invitation :
             \/ invitation'[j] = invitation[j]
             \/ /\ invitation'[j] = NoInvitation
                /\ invitation[j].status \in {"ACCEPTED", "REVOKED", "EXPIRED"}
    <3>1. NoInvitation \in InvitationRow
      BY AdmissionAssumption DEF NoInvitation, InvitationRow
    <3>2. invitation \in [Invitation -> InvitationRow]
      BY DEF IInv, Tables
    <3> QED BY <1>4, <3>1, <3>2
  <2>2. NoInvitation.status = "none"
    BY DEF NoInvitation
  <2>3. \A j \in Invitation : Open(j)' => Open(j) /\ invitation'[j] = invitation[j]
    BY <2>1, <2>2 DEF Open
  <2>4. /\ (pending \in [Email -> 0 .. MaxLinks])' /\ (reset \in [Email -> 0 .. MaxLinks])'
        /\ \A e \in Email : pending'[e] \in {pending[e], 0} /\ reset'[e] \in {reset[e], 0}
    BY <1>4, AdmissionAssumption DEF IInv, Tables
  <2>5. Tables'
    <3>1. (\A i, j \in Invitation :
             Open(i) /\ Open(j) /\ invitation[i].email = invitation[j].email => i = j)'
      BY <2>3 DEF IInv, Tables
    <3>2. (\A e \in Email : account[e] # "password" => reset[e] = 0)'
      BY <1>4, <2>4 DEF IInv, Tables
    <3> QED BY <1>1, <1>4, <2>1, <2>4, <3>1, <3>2 DEF IInv, Tables
  <2>6. HeldOnce' /\ Unused' /\ Kept
    BY <1>1, <2>3, <2>4, <2>5, LinksTaken
  <2>7. Sound
    BY <1>1, <2>1, <2>2 DEF Sound, Open
  <2>8. Posted'
    BY <1>1, <1>4, SameMail DEF outbox
  <2> QED BY <1>1, <1>2, <2>5, <2>6, <2>7, <2>8, Assembled
<1> QED BY <1>3, <1>4 DEF Prune, rows

-----------------------------------------------------------------------------
(* The invariant is inductive *)

LEMMA Starting == Init => IInv
<1> SUFFICES ASSUME Init PROVE IInv
  OBVIOUS
<1> USE AdmissionAssumption
<1>1. NoInvitation \in InvitationRow /\ NoInvitation.status = "none"
  BY DEF NoInvitation, InvitationRow
<1>2. \A i \in Invitation : invitation[i] = NoInvitation /\ ~Open(i)
  BY <1>1 DEF Init, Open
<1>3. Tables
  BY <1>1, <1>2 DEF Init, Tables
<1>4. HeldOnce
  BY <1>2 DEF Init, HeldOnce
<1>5. Unused
  BY DEF Init, Unused
<1>6. CallIs(Idle)
  BY DEF CallIs, Idle, Emailed, Invited
<1>7. Calls
  BY <1>6 DEF Init, Calls
<1>8. Waiting \in SenderState /\ Waiting.pc = "idle" /\ Waiting.hand = {}
  BY DEF Waiting, SenderState
<1>9. \A w \in Sender : sender[w] = Waiting /\ sender[w].pc = "idle" /\ sender[w].hand = {}
  BY <1>8 DEF Init
<1>10. Posted
  BY <1>8, <1>9 DEF Init, Posted, Has
<1> QED BY <1>3, <1>4, <1>5, <1>7, <1>10 DEF Init, IInv, Fixed, Times

LEMMA Inductive == IInv /\ [Next]_vars => IInv' /\ Sound /\ Kept
<1> SUFFICES ASSUME IInv, [Next]_vars PROVE IInv' /\ Sound /\ Kept
  OBVIOUS
<1>1. cast.callers \subseteq Caller /\ cast.senders \subseteq Sender
  BY AdmissionAssumption DEF IInv, Fixed
<1>2. ASSUME NEW c \in cast.callers, BeginStep(c) PROVE IInv' /\ Sound /\ Kept
  <2>1. UNCHANGED <<rows, issued, history>>
    BY <1>1, <1>2, OnlyBegins DEF Begin
  <2>2. Sound /\ Kept
    BY <2>1, SameRows, Quiet DEF rows, history
  <2> QED BY <1>1, <1>2, <2>2, Beginning
<1>3. ASSUME NEW c \in cast.callers, CommitStep(c) PROVE IInv' /\ Sound /\ Kept
  BY <1>1, <1>3, Committing
<1>4. ASSUME NEW w \in cast.senders, SenderProgress(w) \/ Die(w) PROVE IInv' /\ Sound /\ Kept
  BY <1>1, <1>4, Sending
<1>5. CASE UNCHANGED vars
  <2>1. Times' /\ Calls'
    BY <1>5, SameCalls DEF IInv, Times, vars
  <2>2. Posted'
    BY <1>5, SameMail DEF vars, history
  <2>3. Tables' /\ HeldOnce' /\ Unused' /\ Kept
    BY <1>5, SameRows DEF vars, history
  <2>4. Sound
    BY <1>5, Quiet DEF vars, rows, history
  <2> QED BY <1>5, <2>1, <2>2, <2>3, <2>4, Assembled DEF vars
<1> QED BY <1>2, <1>3, <1>4, <1>5, Expiring, Lapsing, TimingOut, Pruning DEF Next

\* The invariant holds throughout.
THEOREM Invariance == Spec => []IInv
BY Starting, Inductive, PTL DEF Spec

\* The tables, the outbox and the links keep their types; an address has one open
\* invitation, and only an account with a password has a reset link.
THEOREM TypeCorrect == Spec => []TypeOK
BY Invariance, IInvSuffices, PTL

\* However many senders sweep, claim, time out, die and answer late, SMTP is handed
\* each link at most once: the claim is guarded, and what was claimed is never
\* pending again.
THEOREM MailGoesOutOnce == Spec => []MailedAtMostOnce
BY Invariance, IInvSuffices, PTL

\* A link takes effect once, while a row holds it: whatever requests follow it,
\* replace it or revoke it meanwhile. Serializable transactions carry this for
\* confirmations and resets, the unique open row for acceptances.
THEOREM LinksWorkOnce == Spec => LinkWorksOnce
<1>1. IInv /\ [Next]_vars =>
        [\A t \in Link : used'[t] # used[t] => used[t] = 0 /\ Held(t)]_vars
  BY Inductive DEF Sound
<1> QED BY <1>1, Invariance, PTL DEF Spec, LinkWorksOnce

\* The first request to settle an invitation settles it for good.
THEOREM SettledIsFinal == Spec => SettledInvitationIsFinal
<1>1. IInv /\ [Next]_vars =>
        [\A i \in Invitation :
           invitation[i].status \in {"ACCEPTED", "REVOKED", "EXPIRED"}
               => invitation'[i] \in {invitation[i], NoInvitation}]_vars
  BY Inductive DEF Sound
<1> QED BY <1>1, Invariance, PTL DEF Spec, SettledInvitationIsFinal

\* No request that looks at an old link, nor any other, expires an invitation whose
\* present link has not lapsed.
THEOREM ExpiryNeedsLapse == Spec => ExpiredIsLapsed
<1>1. IInv /\ [Next]_vars =>
        [\A i \in Invitation :
           Open(i) /\ invitation'[i].status = "EXPIRED" => invitation[i].link \in lapsed]_vars
  BY Inductive DEF Sound
<1> QED BY <1>1, Invariance, PTL DEF Spec, ExpiredIsLapsed

-----------------------------------------------------------------------------
(* Dead links *)

\* A dead link that nobody has been handed stays so.
Dead(t) == ~Held(t) \/ t \in lapsed

DeadEnd(t) == /\ Dead(t) /\ t <= issued /\ mailed[t] = 0
              /\ \A w \in Sender : t \notin sender[w].hand

LEMMA StaysDead ==
    ASSUME NEW t \in Link, Kept, Dead(t), t <= issued, lapsed \subseteq lapsed'
    PROVE  Dead(t)'
BY DEF Kept, Dead

\* Links are numbered upwards and lapse for good; a request hands nobody a message.
LEMMA Onwards ==
    ASSUME IInv, [Next]_vars
    PROVE  /\ issued <= issued' /\ lapsed \subseteq lapsed'
           /\ \/ UNCHANGED <<sender, mailed>>
              \/ \E w \in Sender : SenderProgress(w) \/ Die(w)
<1>1. cast.callers \subseteq Caller /\ cast.senders \subseteq Sender /\ issued \in Nat
  BY AdmissionAssumption DEF IInv, Fixed, Tables
<1>2. ASSUME NEW c \in cast.callers, BeginStep(c)
      PROVE  issued <= issued' /\ lapsed \subseteq lapsed' /\ UNCHANGED <<sender, mailed>>
  BY <1>1, <1>2, OnlyBegins DEF Begin, history
<1>3. ASSUME NEW c \in cast.callers, CommitStep(c)
      PROVE  issued <= issued' /\ lapsed \subseteq lapsed' /\ UNCHANGED <<sender, mailed>>
  <2>1. CASE Fail(c)
    BY <1>1, <2>1 DEF Fail, history
  <2>2. CASE Invite(c) \/ Rotate(c) \/ Register(c) \/ Request(c)
    <3>1. issued' = issued \/ issued' = issued + 1
      BY <2>2 DEF Invite, Rotate, Register, Request, Issue
    <3>2. UNCHANGED <<lapsed, sender, mailed>>
      BY <2>2 DEF Invite, Rotate, Register, Request, Writes
    <3> QED BY <1>1, <3>1, <3>2
  <2>3. CASE \/ Revoke(c) \/ Inspect(c) \/ Accept(c) \/ ExpireAccepting(c) \/ Confirm(c)
             \/ Drop(c) \/ Reset(c) \/ Clear(c) \/ SetPassword(c) \/ Remove(c)
    <3>1. UNCHANGED <<issued, lapsed, sender, mailed>>
      BY <2>3 DEF Revoke, Inspect, Accept, ExpireAccepting, Confirm, Drop, Reset, Clear,
                  SetPassword, Remove, Writes
    <3> QED BY <1>1, <3>1
  <2> QED BY <1>3, <2>1, <2>2, <2>3 DEF CommitStep
<1>4. ASSUME NEW w \in cast.senders, SenderProgress(w) \/ Die(w)
      PROVE  UNCHANGED <<issued, lapsed>> /\ w \in Sender
  BY <1>1, <1>4 DEF SenderProgress, Sweep, SweepOnly, ClaimRow, Check, Deliver, Acknowledge,
                    Finish, Die
<1>5. ASSUME \/ Prune \/ UNCHANGED vars
             \/ \E i \in Invitation : Expire(i)
             \/ \E t \in Link : Lapse(t) \/ TimeOut(t)
      PROVE  UNCHANGED <<issued, sender, mailed>> /\ lapsed \subseteq lapsed'
  BY <1>5 DEF Prune, Expire, Lapse, TimeOut, vars, history
<1> QED BY <1>1, <1>2, <1>3, <1>4, <1>5 DEF Next

\* A sender is only handed a link it found alive.
LEMMA HandedAlive ==
    ASSUME IInv, NEW t \in Link, DeadEnd(t), NEW w \in Sender, SenderProgress(w) \/ Die(w)
    PROVE  mailed'[t] = 0 /\ \A v \in Sender : t \notin sender'[v].hand
<1>1. /\ sender \in [Sender -> SenderState] /\ mailed \in [Link -> 0 .. 1]
      /\ sender[w] \in SenderState /\ mailed[t] = 0 /\ Dead(t)
      /\ \A v \in Sender : t \notin sender[v].hand
  BY DEF IInv, Posted, DeadEnd
<1>2. CASE Deliver(w)
  <2>1. PICK u \in sender[w].hand :
          /\ sender' = [sender EXCEPT ![w].hand = @ \ {u}, ![w].done = @ \cup {u}]
          /\ mailed' = [mailed EXCEPT ![u] = @ + 1]
    BY <1>2 DEF Deliver
  <2>2. u # t
    BY <1>1
  <2> DEFINE r == [sender[w] EXCEPT !.hand = @ \ {u}, !.done = @ \cup {u}]
  <2>3. r.hand = sender[w].hand \ {u}
    BY <1>1 DEF SenderState
  <2>4. sender' = [sender EXCEPT ![w] = r]
    BY <1>1, <2>1 DEF SenderState
  <2> HIDE DEF r
  <2> QED BY <1>1, <2>1, <2>2, <2>3, <2>4
<1>3. CASE Check(w)
  <2>1. UNCHANGED mailed
    BY <1>3 DEF Check, history
  <2>2. PICK u : u = Min(sender[w].todo)
    OBVIOUS
  <2>3. \/ /\ Live(u)
           /\ sender' = [sender EXCEPT ![w].pc = "claim", ![w].todo = @ \ {u},
                                       ![w].hand = @ \cup {u}]
        \/ sender' = [sender EXCEPT ![w].pc = "claim", ![w].todo = @ \ {u}]
    BY <1>3, <2>2 DEF Check
  <2>4. CASE /\ Live(u)
             /\ sender' = [sender EXCEPT ![w].pc = "claim", ![w].todo = @ \ {u},
                                         ![w].hand = @ \cup {u}]
    <3> DEFINE r == [sender[w] EXCEPT !.pc = "claim", !.todo = @ \ {u}, !.hand = @ \cup {u}]
    <3>1. r.hand = sender[w].hand \cup {u}
      BY <1>1 DEF SenderState
    <3>2. sender' = [sender EXCEPT ![w] = r]
      BY <1>1, <2>4 DEF SenderState
    <3>3. u # t
      BY <1>1, <2>4 DEF Live, Dead
    <3> HIDE DEF r
    <3> QED BY <1>1, <2>1, <3>1, <3>2, <3>3
  <2>5. CASE sender' = [sender EXCEPT ![w].pc = "claim", ![w].todo = @ \ {u}]
    <3> DEFINE r == [sender[w] EXCEPT !.pc = "claim", !.todo = @ \ {u}]
    <3>1. r.hand = sender[w].hand
      BY <1>1 DEF SenderState
    <3>2. sender' = [sender EXCEPT ![w] = r]
      BY <1>1, <2>5 DEF SenderState
    <3> HIDE DEF r
    <3> QED BY <1>1, <2>1, <3>1, <3>2
  <2> QED BY <2>3, <2>4, <2>5
<1>4. ASSUME UNCHANGED mailed, NEW r, sender' = [sender EXCEPT ![w] = r], t \notin r.hand
      PROVE  mailed'[t] = 0 /\ \A v \in Sender : t \notin sender'[v].hand
  BY <1>1, <1>4
<1>5. CASE Sweep(w)
  <2>1. PICK first :
          sender' = [sender EXCEPT ![w] = [Waiting EXCEPT !.pc = "claim", !.todo = first]]
    BY <1>5 DEF Sweep
  <2>2. t \notin [Waiting EXCEPT !.pc = "claim", !.todo = first].hand
    BY DEF Waiting
  <2>3. UNCHANGED mailed
    BY <1>5 DEF Sweep, history
  <2> QED BY <1>4, <2>1, <2>2, <2>3
<1>6. CASE SweepOnly(w)
  BY <1>1, <1>6 DEF SweepOnly, history
<1>7. CASE ClaimRow(w)
  <2>1. PICK u : \/ sender' = [sender EXCEPT ![w].pc = "check"]
                 \/ sender' = [sender EXCEPT ![w].todo = @ \ {u}]
    BY <1>7 DEF ClaimRow
  <2> DEFINE p == [sender[w] EXCEPT !.pc = "check"]
             q == [sender[w] EXCEPT !.todo = @ \ {u}]
  <2>2. p.hand = sender[w].hand /\ q.hand = sender[w].hand
    BY <1>1 DEF SenderState
  <2>3. sender' = [sender EXCEPT ![w] = p] \/ sender' = [sender EXCEPT ![w] = q]
    BY <1>1, <2>1 DEF SenderState
  <2>4. UNCHANGED mailed
    BY <1>7 DEF ClaimRow, history
  <2> HIDE DEF p, q
  <2> QED BY <1>1, <1>4, <2>2, <2>3, <2>4
<1>8. CASE Acknowledge(w)
  <2>1. PICK u : sender' = [sender EXCEPT ![w].done = @ \ {u}]
    BY <1>8 DEF Acknowledge
  <2> DEFINE r == [sender[w] EXCEPT !.done = @ \ {u}]
  <2>2. r.hand = sender[w].hand
    BY <1>1 DEF SenderState
  <2>3. sender' = [sender EXCEPT ![w] = r]
    BY <1>1, <2>1 DEF SenderState
  <2>4. UNCHANGED mailed
    BY <1>8 DEF Acknowledge, history
  <2> HIDE DEF r
  <2> QED BY <1>1, <1>4, <2>2, <2>3, <2>4
<1>9. CASE Finish(w) \/ Die(w)
  <2>1. sender' = [sender EXCEPT ![w] = Waiting] /\ UNCHANGED mailed
    BY <1>9 DEF Finish, Die, history
  <2>2. t \notin Waiting.hand
    BY DEF Waiting
  <2> QED BY <1>4, <2>1, <2>2
<1> QED BY <1>2, <1>3, <1>5, <1>6, <1>7, <1>8, <1>9 DEF SenderProgress

LEMMA DeadForGood ==
    ASSUME NEW t \in Link
    PROVE  IInv /\ [Next]_vars /\ DeadEnd(t) => DeadEnd(t)'
<1> SUFFICES ASSUME IInv, [Next]_vars, DeadEnd(t) PROVE DeadEnd(t)'
  OBVIOUS
<1>1. /\ Dead(t)' /\ t <= issued'
  <2>1. Dead(t) /\ t <= issued /\ issued <= issued' /\ lapsed \subseteq lapsed' /\ Kept
    BY Onwards, Inductive DEF DeadEnd
  <2>2. issued \in Nat /\ issued' \in Nat /\ t \in Nat
    BY Inductive DEF IInv, Tables, Link
  <2> QED BY <2>1, <2>2, StaysDead
<1>2. mailed'[t] = 0 /\ \A v \in Sender : t \notin sender'[v].hand
  <2>1. CASE UNCHANGED <<sender, mailed>>
    BY <2>1 DEF DeadEnd
  <2>2. CASE \E w \in Sender : SenderProgress(w) \/ Die(w)
    BY <2>2, HandedAlive
  <2> QED BY <2>1, <2>2, Onwards
<1> QED BY <1>1, <1>2 DEF DeadEnd

\* A link that is revoked, replaced, used up or lapsed while its message waits is
\* never mailed, whatever claim is already under way: the sender that claims it
\* looks the link up again, and no row ever gets a link back.
THEOREM NoStaleMail == Spec => StaleMailIsNotSent
<1>1. ASSUME NEW t \in Link
      PROVE  Spec => [](mail[t] = "pending" /\ (~Held(t) \/ t \in lapsed) => [](mailed[t] = 0))
  <2>1. IInv /\ mail[t] = "pending" /\ (~Held(t) \/ t \in lapsed) => DeadEnd(t)
    <3> SUFFICES ASSUME IInv, mail[t] = "pending", ~Held(t) \/ t \in lapsed PROVE DeadEnd(t)
      OBVIOUS
    <3>1. t <= issued
      BY DEF IInv, Posted, Tables, Link
    <3>2. mailed[t] = 0 /\ \A w \in Sender : t \notin sender[w].hand
      BY DEF IInv, Posted, Has
    <3> QED BY <3>1, <3>2 DEF DeadEnd, Dead
  <2>2. IInv /\ [Next]_vars /\ DeadEnd(t) => DeadEnd(t)'
    BY DeadForGood
  <2>3. DeadEnd(t) => mailed[t] = 0
    BY DEF DeadEnd
  <2> QED BY <2>1, <2>2, <2>3, Invariance, PTL DEF Spec
<1> QED BY <1>1 DEF StaleMailIsNotSent

=============================================================================
