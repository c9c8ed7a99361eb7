-------------------------- MODULE OfflineSync_proofs --------------------------
(***************************************************************************)
(* The offline queue, for any number of tabs, accounts, edits and account    *)
(* transitions: what the server applies it applies for whom it was made, an  *)
(* edit that was acknowledged is kept, and what a purge overtook is not sent. *)
(*                                                                           *)
(* The argument: the generation never goes back, and no edit or row carries  *)
(* one that is still to come. So what is not of the present generation never  *)
(* will be, and each request was checked against the present one when it was  *)
(* sent. A row, in the store or in the snapshot of a replay, is of the account *)
(* its edit was made for, and what it depends on is delivered, gone or known  *)
(* to the same replay.                                                       *)
(***************************************************************************)
EXTENDS OfflineSync, LeastElement

-----------------------------------------------------------------------------
(* The invariant *)

Shift == [actor : Account, live : BOOLEAN, wipe : BOOLEAN, adopt : BOOLEAN, seen : Nat,
          step : {"begin", "look", "clear", "again", "finish"}]

Message == [edit : Edit, actor : Account, to : Tab \cup {None}, replay : BOOLEAN]

Owners ==
    /\ cast \in Casts /\ acts \in 0 .. cast.acts
    /\ session \in Account \cup {None} /\ owner \in Account \cup {None}
    /\ blocked \in BOOLEAN /\ gen \in Nat
    /\ view \in [Tab -> Account \cup {None, "loading"}]
    /\ actor \in [Tab -> Account \cup {None}] /\ ready \in [Tab -> BOOLEAN]
    /\ shift \in [Tab -> Seq(Shift)]
    /\ leaving \in [Tab -> {None, "wait", "clear", "again", "out"}]

\* An edit that was put is in the store or gone, or of an older generation.
Kept(e) == e \in Rows \cup gone \/ made[e].gen # gen

\* d does not hold up e.
Passed(d, e) == d \in gone \/ made[d].gen # made[e].gen

Made ==
    /\ made \in [Edit -> Origin \cup {None}]
    /\ acked \subseteq Edit /\ gone \subseteq Edit /\ purged \subseteq Edit
    /\ \A e \in Edit : made[e] # None => made[e].gen <= gen /\ After[e] \subseteq acked
    /\ \A e \in acked : made[e] # None /\ Kept(e)
    /\ \A e \in purged : made[e] # None /\ made[e].gen < gen

\* A row is of the generation and the account of its edit.
IsRow(r) ==
    /\ r \in RowType
    /\ made[r.edit] # None /\ made[r.edit].gen = r.gen /\ made[r.edit].actor = r.actor
    /\ r.status = "pending" => r.tries < MaxTries

Queued ==
    /\ puts \in Nat
    /\ \A r \in queue : IsRow(r)
    /\ \A r, q \in queue : KeyOf[r.edit] = KeyOf[q.edit] => r = q

IsSubmission(s) ==
    /\ made[s.edit] # None
    /\ s.step # "made" => made[s.edit].actor \in Account
    /\ s.step = "placed" => Kept(s.edit)

Edits ==
    /\ edit \in [Tab -> Submission \cup {None}]
    /\ \A t \in Tab : edit[t] # None => IsSubmission(edit[t])

\* A row a replay holds was listed for it, and so was what it depends on.
Listing(f) ==
    \A r \in f.todo :
        /\ IsRow(r) /\ r.gen = f.own.gen
        /\ \A d \in After[r.edit] : d \in f.known \/ Passed(d, r.edit)

\* The oldest of some rows, as Row has it.
Front(rows) == CHOOSE r \in rows : \A q \in rows : r.at <= q.at

IsReplay(f) ==
    /\ Listing(f) /\ f.done \subseteq gone
    /\ f.step # "next" => f.todo # {} /\ ~Terminal(Front(f.todo))

Replays ==
    /\ flush \in [Tab -> Replay \cup {None}]
    /\ \A t, u \in Tab : flush[t] # None /\ flush[u] # None => t = u
    /\ \A t \in Tab : flush[t] # None => IsReplay(flush[t])

\* A request is for the account of its edit, and nothing holds it up.
IsMessage(m) ==
    /\ m \in Message
    /\ made[m.edit] # None /\ made[m.edit].actor = m.actor
    /\ \A d \in After[m.edit] : Passed(d, m.edit)

\* Who waits for a request.
AwaitedBySubmission(m) ==
    edit[m.to] # None /\ edit[m.to].step = "sent" /\ edit[m.to].edit = m.edit

AwaitedByReplay(m) ==
    flush[m.to] # None /\ flush[m.to].step = "sent" /\ Front(flush[m.to].todo).edit = m.edit

Requests ==
    /\ \A m \in wire : IsMessage(m)
    /\ \A m \in wire : m.to # None =>
        IF m.replay THEN AwaitedByReplay(m) ELSE AwaitedBySubmission(m)

Served ==
    /\ applied \subseteq [edit : Edit, account : Account]
    /\ \A x \in applied : made[x.edit] # None
    /\ AppliedAsMade

IInv == Owners /\ Made /\ Queued /\ Edits /\ Replays /\ Requests /\ Served

LEMMA IInvSuffices == IInv => TypeOK /\ AcknowledgedIsKept
<1> SUFFICES ASSUME IInv PROVE TypeOK /\ AcknowledgedIsKept
  OBVIOUS
<1>1. queue \subseteq RowType /\ wire \subseteq Message
  BY DEF IInv, Queued, IsRow, Requests, IsMessage
<1>2. TypeOK
  BY <1>1 DEF IInv, Owners, Made, Queued, Edits, Replays, Served, Shift, Message, TypeOK
<1>3. AcknowledgedIsKept
  BY DEF IInv, Made, Kept, AcknowledgedIsKept
<1> QED BY <1>2, <1>3

-----------------------------------------------------------------------------
(* What steps have in common *)

\* What a step may do: the action property, without the brackets.
Sound == \A m \in wire' \ wire : m.to # None => m.edit \notin purged

\* Edits stay made, for the same account and in the same generation, and the
\* generation does not go back.
Onward ==
    /\ gen \in Nat /\ gen' \in Nat /\ gen' >= gen
    /\ \A e \in Edit : made[e] # None =>
        made'[e] # None /\ made'[e].gen = made[e].gen /\ made'[e].actor = made[e].actor
    /\ gone \subseteq gone'

\* No row disappears without a trace.
NoLoss == \A e \in Edit : e \in Rows => e \in Rows' \cup gone' \/ made[e].gen # gen

LEMMA NoneApart ==
    /\ None \notin Account /\ None \notin Tab /\ None \notin Origin
    /\ None \notin Submission /\ None \notin Replay
BY OfflineAssumption

LEMMA KeptStays ==
    ASSUME IInv, Onward, NoLoss, NEW e \in Edit, made[e] # None, Kept(e)
    PROVE  Kept(e)'
<1>1. made[e].gen \in Nat /\ made[e].gen <= gen
  BY DEF IInv, Made, Origin
<1> QED BY <1>1 DEF Onward, NoLoss, Kept

LEMMA PassedStays ==
    ASSUME IInv, Onward, NEW e \in Edit, made[e] # None, NEW d \in After[e], Passed(d, e)
    PROVE  Passed(d, e)'
<1>1. d \in Edit /\ made[d] # None
  BY OfflineAssumption DEF IInv, Made
<1> QED BY <1>1 DEF Onward, Passed

LEMMA RowStays ==
    ASSUME IInv, Onward, NEW r, IsRow(r)
    PROVE  IsRow(r)'
<1>1. r.edit \in Edit
  BY DEF IsRow, RowType
<1> QED BY <1>1 DEF Onward, IsRow

LEMMA MadeStays ==
    ASSUME IInv, Onward, NoLoss, acked \subseteq acked', gone' \subseteq Edit,
           purged' \subseteq Edit, made' \in [Edit -> Origin \cup {None}],
           \A e \in Edit : made[e] = None /\ made'[e] # None =>
                made'[e].gen <= gen' /\ After[e] \subseteq acked,
           \A e \in acked' \ acked : e \in Edit /\ made[e] # None /\ Kept(e),
           \A e \in purged' \ purged : made[e] # None /\ gen' > gen
    PROVE  Made'
<1>1. \A e \in Edit : made[e] # None => made[e].gen \in Nat
  BY DEF IInv, Made, Origin
<1>2. \A e \in Edit : made'[e] # None => made'[e].gen <= gen' /\ After[e] \subseteq acked'
  BY <1>1 DEF IInv, Made, Onward
<1>3. \A e \in acked' : e \in Edit /\ made'[e] # None /\ Kept(e)'
  BY KeptStays DEF IInv, Made, Onward
<1>4. \A e \in purged' : made'[e] # None /\ made'[e].gen < gen'
  BY <1>1 DEF IInv, Made, Onward
<1> QED BY <1>2, <1>3, <1>4 DEF IInv, Made

LEMMA QueueStays ==
    ASSUME IInv, Onward, queue' \subseteq queue, puts' \in Nat
    PROVE  Queued'
BY RowStays DEF IInv, Queued

LEMMA SubmissionStays ==
    ASSUME IInv, Onward, NoLoss, NEW s \in Submission, IsSubmission(s)
    PROVE  IsSubmission(s)'
<1>1. s.edit \in Edit
  BY DEF Submission
<1> QED BY <1>1, KeptStays DEF IsSubmission, Onward

\* Each tab goes on with its submission, ends it, or takes one that is sound.
LEMMA EditsStay ==
    ASSUME IInv, Onward, NoLoss, edit' \in [Tab -> Submission \cup {None}],
           \A t \in Tab : edit'[t] \in {edit[t], None} \/ IsSubmission(edit[t])'
    PROVE  Edits'
<1> SUFFICES ASSUME NEW t \in Tab, edit'[t] # None PROVE IsSubmission(edit[t])'
  BY DEF Edits
<1>1. CASE edit'[t] = edit[t]
  <2>1. PICK s \in Submission : s = edit[t]
    BY <1>1 DEF IInv, Edits
  <2>2. IsSubmission(s)
    BY <1>1, <2>1 DEF IInv, Edits
  <2>3. IsSubmission(s)'
    BY <2>2, SubmissionStays
  <2>4. s = edit'[t]
    BY <1>1, <2>1
  <2> QED BY <2>3, <2>4 DEF IsSubmission
<1> QED BY <1>1

LEMMA ListingStays ==
    ASSUME IInv, Onward, NEW f, Listing(f)
    PROVE  Listing(f)'
<1> SUFFICES ASSUME NEW r \in f.todo
             PROVE  /\ IsRow(r)' /\ r.gen = f.own.gen
                    /\ \A d \in After[r.edit] : d \in f.known \/ Passed(d, r.edit)'
  BY DEF Listing
<1>1. IsRow(r) /\ r.edit \in Edit /\ made[r.edit] # None
  BY DEF Listing, IsRow, RowType
<1> QED BY <1>1, RowStays, PassedStays DEF Listing

LEMMA ReplayStays ==
    ASSUME IInv, Onward, NEW f, IsReplay(f)
    PROVE  IsReplay(f)'
<1>1. Listing(f)'
  BY ListingStays DEF IsReplay
<1> QED BY <1>1 DEF IsReplay, Onward, Front, Terminal

\* Each tab goes on with its replay, ends it, or takes one that is sound, if no
\* other tab has one.
LEMMA ReplaysStay ==
    ASSUME IInv, Onward, flush' \in [Tab -> Replay \cup {None}],
           \A t \in Tab : \/ flush'[t] \in {flush[t], None}
                          \/ IsReplay(flush[t])' /\ \A u \in Tab : u # t => flush'[u] = None
    PROVE  Replays'
<1>1. \A t, u \in Tab : flush'[t] # None /\ flush'[u] # None => t = u
  BY DEF IInv, Replays
<1>2. ASSUME NEW t \in Tab, flush'[t] # None, flush'[t] = flush[t] PROVE IsReplay(flush[t])'
  <2>1. IsReplay(flush[t])
    BY <1>2 DEF IInv, Replays
  <2>2. PICK f : f = flush[t]
    OBVIOUS
  <2>3. IsReplay(f)
    BY <2>1, <2>2
  <2>4. IsReplay(f)'
    BY <2>3, ReplayStays
  <2>5. f = flush'[t]
    BY <1>2, <2>2
  <2> QED BY <2>4, <2>5 DEF IsReplay, Listing
<1> QED BY <1>1, <1>2 DEF Replays

LEMMA MessageStays ==
    ASSUME IInv, Onward, NEW m, IsMessage(m)
    PROVE  IsMessage(m)'
<1>1. m.edit \in Edit /\ made[m.edit] # None
  BY DEF IsMessage, Message
<1> QED BY <1>1, PassedStays DEF IsMessage, Onward

LEMMA ServedStays ==
    ASSUME IInv, Onward, UNCHANGED applied
    PROVE  Served'
<1> SUFFICES ASSUME NEW x \in applied
             PROVE  /\ made'[x.edit] # None /\ x.account = made'[x.edit].actor
                    /\ \A d \in After[x.edit] : Passed(d, x.edit)'
  BY DEF IInv, Served, AppliedAsMade, Passed
<1>1. x.edit \in Edit /\ made[x.edit] # None
  BY DEF IInv, Served
<1>2. x.account = made[x.edit].actor /\ \A d \in After[x.edit] : Passed(d, x.edit)
  BY DEF IInv, Served, AppliedAsMade, Passed
<1> QED BY <1>1, <1>2, PassedStays DEF Onward

\* A tab that waits goes on waiting, and what is sent is awaited and not purged.
LEMMA RequestsStay ==
    ASSUME IInv, Onward,
           \A t \in Tab : edit'[t] = edit[t] \/ edit[t] = None \/ edit[t].step # "sent",
           \A t \in Tab : flush'[t] = flush[t] \/ flush[t] = None \/ flush[t].step # "sent",
           \A m \in wire' \ wire :
                /\ IsMessage(m)' /\ m.to \in Tab /\ m.edit \notin purged
                /\ IF m.replay THEN AwaitedByReplay(m)' ELSE AwaitedBySubmission(m)'
    PROVE  Requests' /\ Sound
<1>1. ASSUME NEW m \in wire, m.to # None
      PROVE  IF m.replay THEN AwaitedByReplay(m)' ELSE AwaitedBySubmission(m)'
  <2>1. m.to \in Tab /\ IF m.replay THEN AwaitedByReplay(m) ELSE AwaitedBySubmission(m)
    BY <1>1 DEF IInv, Requests, IsMessage, Message
  <2> QED BY <2>1 DEF AwaitedByReplay, AwaitedBySubmission
<1>2. \A m \in wire : IsMessage(m)'
  BY MessageStays DEF IInv, Requests
<1> QED BY <1>1, <1>2 DEF Requests, Sound

LEMMA TabsStay ==
    ASSUME IInv, Onward, NoLoss, UNCHANGED <<edit, flush, wire, applied>>
    PROVE  Edits' /\ Replays' /\ Requests' /\ Served' /\ Sound
<1>1. Edits'
  BY EditsStay DEF IInv, Edits
<1>2. Replays'
  BY ReplaysStay DEF IInv, Replays
<1>3. Requests' /\ Sound
  BY RequestsStay
<1> QED BY <1>1, <1>2, <1>3, ServedStays

-----------------------------------------------------------------------------
(* The session and the transitions of the owner *)

\* A step that moves who owns the data, and the generation onward.
LEMMA OnlyOwners ==
    ASSUME IInv, Owners', gen' >= gen,
           UNCHANGED <<queue, puts, made, edit, flush, wire, applied, acked, gone, purged>>
    PROVE  IInv' /\ Sound
<1>1. Onward
  BY DEF Onward, IInv, Owners
<1>2. NoLoss
  BY DEF NoLoss, Rows
<1>3. Made'
  BY <1>1, <1>2, MadeStays DEF IInv, Made
<1>4. Queued'
  BY <1>1, QueueStays DEF IInv, Queued
<1> QED BY <1>1, <1>2, <1>3, <1>4, TabsStay DEF IInv

\* The store is cleared: what was in it is gone.
LEMMA Clearing ==
    ASSUME IInv, Owners', Clears,
           UNCHANGED <<gen, puts, made, edit, flush, wire, applied, acked, purged>>
    PROVE  IInv' /\ Sound
<1>1. queue' = {} /\ gone' = gone \cup Rows
  BY DEF Clears
<1>2. Onward
  BY <1>1 DEF Onward, IInv, Owners
<1>3. NoLoss
  BY <1>1 DEF NoLoss
<1>4. Rows \subseteq Edit
  BY DEF Rows, IInv, Queued, IsRow, RowType
<1>5. Made'
  BY <1>1, <1>2, <1>3, <1>4, MadeStays DEF IInv, Made
<1>6. Queued'
  BY <1>1, <1>2, QueueStays DEF IInv, Queued
<1> QED BY <1>2, <1>3, <1>5, <1>6, TabsStay DEF IInv

\* The purge is over: every edit made before it is of an older generation now.
LEMMA Purging ==
    ASSUME IInv, Owners', Cleared,
           UNCHANGED <<queue, puts, made, edit, flush, wire, applied, acked, gone>>
    PROVE  IInv' /\ Sound
<1>1. gen' = gen + 1 /\ purged' = purged \cup {e \in Edit : made[e] # None}
  BY DEF Cleared, Invalidate
<1>2. Onward /\ gen' > gen
  BY <1>1 DEF Onward, IInv, Owners
<1>3. NoLoss
  BY DEF NoLoss, Rows
<1>4. Made'
  BY <1>1, <1>2, <1>3, MadeStays DEF IInv, Made
<1>5. Queued'
  BY <1>2, QueueStays DEF IInv, Queued
<1> QED BY <1>2, <1>3, <1>4, <1>5, TabsStay DEF IInv

LEMMA Acting ==
    ASSUME IInv, Acts, UNCHANGED cast
    PROVE  cast' \in Casts /\ acts' \in 0 .. cast'.acts
<1>1. acts \in 0 .. cast.acts /\ cast.acts \in Nat
  BY OfflineAssumption DEF IInv, Owners
<1> QED BY <1>1 DEF Acts, IInv, Owners

LEMMA TransitionTyped ==
    ASSUME IInv, NEW t \in Tab, shift[t] # <<>>,
           \/ ShiftEnds(t)
           \/ ShiftTo(t, "clear") \/ ShiftTo(t, "again") \/ ShiftTo(t, "finish")
           \/ shift' = [shift EXCEPT ![t][1].step = "look", ![t][1].seen = gen]
    PROVE  shift' \in [Tab -> Seq(Shift)] /\ Head(shift[t]).actor \in Account
<1>1. shift \in [Tab -> Seq(Shift)] /\ shift[t] \in Seq(Shift) /\ gen \in Nat
  BY DEF IInv, Owners
<1>2. Tail(shift[t]) \in Seq(Shift) /\ Head(shift[t]) \in Shift /\ 1 \in DOMAIN shift[t]
  BY <1>1
<1>3. \A x \in Shift : [shift EXCEPT ![t] = [shift[t] EXCEPT ![1] = x]] \in [Tab -> Seq(Shift)]
  BY <1>1, <1>2
<1>4. shift[t][1] \in Shift
  BY <1>1, <1>2
<1>5. ASSUME NEW step \in {"begin", "look", "clear", "again", "finish"}, NEW n \in Nat
      PROVE  /\ [shift EXCEPT ![t][1].step = step] \in [Tab -> Seq(Shift)]
             /\ [shift EXCEPT ![t][1].step = step, ![t][1].seen = n] \in [Tab -> Seq(Shift)]
  <2>1. PICK x, y : /\ x = [shift[t][1] EXCEPT !.step = step]
                    /\ y = [shift[t][1] EXCEPT !.step = step, !.seen = n]
    OBVIOUS
  <2>2. x \in Shift /\ y \in Shift
    BY <1>4, <2>1 DEF Shift
  <2>3. /\ [shift EXCEPT ![t][1].step = step] = [shift EXCEPT ![t] = [shift[t] EXCEPT ![1] = x]]
        /\ [shift EXCEPT ![t][1].step = step, ![t][1].seen = n]
              = [shift EXCEPT ![t] = [shift[t] EXCEPT ![1] = y]]
    <3>1. [shift EXCEPT ![t][1].step = step] = [shift EXCEPT ![t] = [shift[t] EXCEPT ![1] = x]]
      BY <1>1, <1>2, <2>1
    <3>2. [shift EXCEPT ![t][1].step = step, ![t][1].seen = n]
            = [shift EXCEPT ![t] = [shift[t] EXCEPT ![1] = y]]
      BY <1>1, <1>2, <1>4, <2>1
    <3> QED BY <3>1, <3>2
  <2> QED BY <1>3, <2>2, <2>3
<1>6. Head(shift[t]).actor \in Account
  BY <1>2 DEF Shift
<1>7. CASE ShiftEnds(t)
  BY <1>1, <1>2, <1>6, <1>7 DEF ShiftEnds
<1>8. CASE ShiftTo(t, "clear") \/ ShiftTo(t, "again") \/ ShiftTo(t, "finish")
  <2>1. /\ [shift EXCEPT ![t][1].step = "clear"] \in [Tab -> Seq(Shift)]
        /\ [shift EXCEPT ![t][1].step = "again"] \in [Tab -> Seq(Shift)]
        /\ [shift EXCEPT ![t][1].step = "finish"] \in [Tab -> Seq(Shift)]
    BY <1>1, <1>5
  <2> QED BY <1>6, <1>8, <2>1, Zenon DEF ShiftTo
<1>9. CASE shift' = [shift EXCEPT ![t][1].step = "look", ![t][1].seen = gen]
  <2>1. [shift EXCEPT ![t][1].step = "look", ![t][1].seen = gen] \in [Tab -> Seq(Shift)]
    BY <1>1, <1>5
  <2> QED BY <1>6, <1>9, <2>1, Zenon
<1> QED BY <1>7, <1>8, <1>9

LEMMA SupersededTyped ==
    ASSUME IInv, NEW t \in Tab
    PROVE  Superseded(t) \in Seq(Shift)
<1>1. shift[t] \in Seq(Shift)
  BY DEF IInv, Owners
<1>2. \A i \in DOMAIN shift[t] : [shift[t][i] EXCEPT !.live = FALSE] \in Shift
  <2>1. \A x \in Shift : [x EXCEPT !.live = FALSE] \in Shift
    BY DEF Shift
  <2>2. \A i \in DOMAIN shift[t] : shift[t][i] \in Shift
    BY <1>1
  <2> QED BY <2>1, <2>2
<1>3. DOMAIN shift[t] = 1 .. Len(shift[t]) /\ Len(shift[t]) \in Nat
  BY <1>1
<1> QED BY <1>2, <1>3 DEF Superseded

LEMMA SessionChanging ==
    ASSUME IInv, SessionChanges
    PROVE  IInv' /\ Sound
<1>1. cast' \in Casts /\ acts' \in 0 .. cast'.acts
  BY Acting DEF SessionChanges
<1>2. Owners'
  BY <1>1 DEF SessionChanges, IInv, Owners, store, tabVars
<1>3. gen' >= gen
  BY DEF SessionChanges, store, IInv, Owners
<1>4. UNCHANGED <<queue, puts, made, edit, flush, wire, applied, acked, gone, purged>>
  BY DEF SessionChanges, history
<1> QED BY <1>3, <1>4, <1>2, OnlyOwners

LEMMA SettingActor ==
    ASSUME IInv, NEW t \in Tab,
           SetActorUnknown(t) \/ SetActorAdopts(t) \/ SetActorAgain(t) \/ SetActorBegins(t)
    PROVE  IInv' /\ Sound
<1>1. UNCHANGED <<gen, queue, puts, made, edit, flush, wire, applied, acked, gone, purged>>
  BY DEF SetActorUnknown, SetActorAdopts, SetActorAgain, SetActorBegins, store, history
<1>2. gen' >= gen
  BY <1>1 DEF IInv, Owners
<1>3. CASE SetActorUnknown(t) \/ SetActorAdopts(t) \/ SetActorAgain(t)
  <2>1. /\ UNCHANGED <<cast, session, owner, blocked, gen, shift, leaving, acts>>
        /\ view' \in [Tab -> Account \cup {None, "loading"}]
    BY <1>3 DEF SetActorUnknown, SetActorAdopts, SetActorAgain, store, IInv, Owners
  <2>2. actor' \in [Tab -> Account \cup {None}] /\ ready' \in [Tab -> BOOLEAN]
    <3>1. actor \in [Tab -> Account \cup {None}] /\ ready \in [Tab -> BOOLEAN]
      BY DEF IInv, Owners
    <3>2. owner \in Account \cup {None} /\ session \in Account \cup {None}
      BY DEF IInv, Owners
    <3>3. PICK known \in BOOLEAN : known = (owner # None /\ ~blocked)
      OBVIOUS
    <3>4. \/ UNCHANGED ready
          \/ ready' = [ready EXCEPT ![t] = known]
          \/ ready' = [ready EXCEPT ![t] = TRUE]
      BY <1>3, <3>3, Zenon DEF SetActorUnknown, SetActorAdopts, SetActorAgain
    <3>5. actor' \in [Tab -> Account \cup {None}]
      BY <1>3, <3>1, <3>2 DEF SetActorUnknown, SetActorAdopts, SetActorAgain
    <3> QED BY <3>1, <3>4, <3>5
  <2>3. Owners'
    BY <2>1, <2>2 DEF IInv, Owners
  <2> QED BY <1>1, <1>2, <2>3, OnlyOwners
<1>4. CASE SetActorBegins(t)
  <2>1. PICK x : x = [actor |-> session, live |-> TRUE, step |-> "begin",
                      wipe |-> owner # session \/ blocked, adopt |-> owner = None, seen |-> 0]
    OBVIOUS
  <2>2. x \in Shift
    BY <1>4, <2>1 DEF SetActorBegins, Shift, IInv, Owners
  <2>3. shift' = [shift EXCEPT ![t] = Append(Superseded(t), x)]
    BY <1>4, <2>1 DEF SetActorBegins
  <2>4. shift' \in [Tab -> Seq(Shift)]
    <3>1. Append(Superseded(t), x) \in Seq(Shift)
      BY <2>2, SupersededTyped
    <3> QED BY <2>3, <3>1 DEF IInv, Owners
  <2>5. cast' \in Casts /\ acts' \in 0 .. cast'.acts
    BY <1>4, Acting DEF SetActorBegins
  <2>6. Owners'
    BY <1>4, <2>4, <2>5 DEF SetActorBegins, IInv, Owners
  <2> QED BY <1>1, <1>2, <2>6, OnlyOwners
<1> QED BY <1>3, <1>4

LEMMA TransitionMoves ==
    ASSUME IInv, NEW t \in Tab, ShiftBegins(t) \/ ShiftLooks(t) \/ ShiftFinishes(t)
    PROVE  IInv' /\ Sound
<1>1. /\ shift[t] # <<>>
      /\ UNCHANGED <<cast, session, queue, puts, view, actor, leaving, made, edit, flush, wire,
                     applied, acts, acked, gone, purged>>
  BY DEF ShiftBegins, ShiftLooks, ShiftFinishes, Shifting, history
<1>2. gen \in Nat
  BY DEF IInv, Owners
<1>3. shift' \in [Tab -> Seq(Shift)] /\ Head(shift[t]).actor \in Account
  <2>1. \/ ShiftEnds(t) \/ ShiftTo(t, "clear") \/ ShiftTo(t, "finish")
        \/ shift' = [shift EXCEPT ![t][1].step = "look", ![t][1].seen = gen]
    BY Zenon DEF ShiftBegins, ShiftLooks, ShiftFinishes
  <2> QED BY <1>1, <2>1, TransitionTyped
<1>4. /\ owner' \in Account \cup {None} /\ blocked' \in BOOLEAN /\ ready' \in [Tab -> BOOLEAN]
      /\ gen' \in Nat /\ gen' >= gen
  <2>1. /\ owner \in Account \cup {None} /\ blocked \in BOOLEAN
        /\ ready \in [Tab -> BOOLEAN]
    BY DEF IInv, Owners
  <2>2. \/ Establish(t) \/ UNCHANGED <<store, ready>>
        \/ Invalidate /\ UNCHANGED <<owner, blocked, ready>>
        \/ UNCHANGED <<owner, blocked, gen, ready>>
    BY Zenon DEF ShiftBegins, ShiftLooks, ShiftFinishes
  <2>3. CASE Establish(t)
    <3>1. ready' \in [Tab -> BOOLEAN] /\ blocked' \in BOOLEAN
      BY <2>1, <2>3 DEF Establish
    <3>2. owner' \in Account \cup {None} /\ gen' \in Nat /\ gen' >= gen
      BY <1>2, <1>3, <2>3 DEF Establish
    <3> QED BY <3>1, <3>2
  <2>4. CASE ~Establish(t)
    BY <1>2, <2>1, <2>2, <2>4 DEF Invalidate, store
  <2> QED BY <2>3, <2>4
<1>5. Owners'
  BY <1>1, <1>3, <1>4 DEF IInv, Owners
<1> QED BY <1>1, <1>4, <1>5, OnlyOwners

LEMMA TransitionClears ==
    ASSUME IInv, NEW t \in Tab, ShiftClears(t) \/ ShiftCleared(t)
    PROVE  IInv' /\ Sound
<1>1. shift[t] # <<>>
  BY DEF ShiftClears, ShiftCleared, Shifting
<1>2. shift' \in [Tab -> Seq(Shift)]
  BY <1>1, TransitionTyped DEF ShiftClears, ShiftCleared
<1>3. CASE ShiftClears(t)
  <2>1. Owners'
    BY <1>2, <1>3 DEF ShiftClears, store, IInv, Owners
  <2> QED BY <1>3, <2>1, Clearing DEF ShiftClears, store
<1>4. CASE ShiftCleared(t)
  <2>1. Owners'
    BY <1>2, <1>4 DEF ShiftCleared, Cleared, Invalidate, IInv, Owners
  <2> QED BY <1>4, <2>1, Purging DEF ShiftCleared
<1> QED BY <1>3, <1>4

LEMMA Leaving ==
    ASSUME IInv, NEW t \in Tab,
           Leave(t) \/ LeaveBegins(t) \/ LeaveClears(t) \/ LeaveCleared(t)
    PROVE  IInv' /\ Sound
<1>1. CASE Leave(t)
  <2>1. /\ gen' \in Nat /\ gen' >= gen
        /\ UNCHANGED <<queue, puts, made, edit, flush, wire, applied, acked, gone, purged>>
    BY <1>1 DEF Leave, Invalidate, history, IInv, Owners
  <2>2. cast' \in Casts /\ acts' \in 0 .. cast'.acts
    BY <1>1, Acting DEF Leave
  <2>3. shift' \in [Tab -> Seq(Shift)]
    BY <1>1, SupersededTyped DEF Leave, IInv, Owners
  <2>4. Owners'
    BY <1>1, <2>1, <2>2, <2>3 DEF Leave, IInv, Owners
  <2> QED BY <2>1, <2>4, OnlyOwners
<1>2. CASE LeaveBegins(t)
  <2>1. gen' >= gen /\ Owners'
    BY <1>2 DEF LeaveBegins, Invalidate, IInv, Owners
  <2> QED BY <1>2, <2>1, OnlyOwners DEF LeaveBegins, history
<1>3. CASE LeaveClears(t)
  <2>1. Owners'
    BY <1>3 DEF LeaveClears, store, IInv, Owners
  <2> QED BY <1>3, <2>1, Clearing DEF LeaveClears, store
<1>4. CASE LeaveCleared(t)
  <2>1. Owners'
    BY <1>4 DEF LeaveCleared, Cleared, Invalidate, IInv, Owners
  <2> QED BY <1>4, <2>1, Purging DEF LeaveCleared
<1> QED BY <1>1, <1>2, <1>3, <1>4

\* A tab is closed: its submission and its replay end, its requests are nobody's.
LEMMA Forgetting ==
    ASSUME IInv, NEW t \in Tab, Forget(t), Owners',
           UNCHANGED <<gen, queue, puts, applied, acked, gone, purged>>
    PROVE  IInv' /\ Sound
<1>1. \A e \in Edit : made[e] # None => made[e] \in Origin
  BY DEF IInv, Made
<1>2. ASSUME NEW e \in Edit
      PROVE  /\ made'[e] \in Origin \cup {None} /\ (made'[e] # None <=> made[e] # None)
             /\ made[e] # None => made'[e].gen = made[e].gen /\ made'[e].actor = made[e].actor
  <2>1. made'[e] = IF made[e] # None /\ made[e].tab = t
                   THEN [made[e] EXCEPT !.tab = None] ELSE made[e]
    BY DEF Forget
  <2>2. CASE made[e] # None /\ made[e].tab = t
    <3>1. made[e] \in Origin /\ made'[e] = [made[e] EXCEPT !.tab = None]
      BY <1>1, <2>1, <2>2
    <3>2. made'[e] \in Origin /\ made'[e].gen = made[e].gen /\ made'[e].actor = made[e].actor
      BY <3>1 DEF Origin
    <3> QED BY <2>2, <3>2, NoneApart
  <2>3. CASE ~(made[e] # None /\ made[e].tab = t)
    BY <1>1, <2>1, <2>3
  <2> QED BY <2>2, <2>3
<1>3. Onward
  BY <1>2 DEF Onward, IInv, Owners
<1>4. NoLoss
  BY DEF NoLoss, Rows
<1>5. Made'
  <2>1. made' \in [Edit -> Origin \cup {None}]
    BY <1>2 DEF Forget
  <2> QED BY <1>2, <1>3, <1>4, <2>1, MadeStays DEF IInv, Made
<1>6. Queued'
  BY <1>3, QueueStays DEF IInv, Queued
<1>7. Edits'
  BY <1>3, <1>4, EditsStay DEF Forget, IInv, Edits
<1>8. Replays'
  BY <1>3, ReplaysStay DEF Forget, IInv, Replays
<1>9. ASSUME NEW n \in wire'
      PROVE  IsMessage(n)' /\ (n.to # None => n.to # t /\ n \in wire)
  <2>1. PICK m \in wire : n = [m EXCEPT !.to = IF m.to = t THEN None ELSE m.to]
    BY DEF Forget
  <2>2. IsMessage(m) /\ m \in Message
    BY DEF IInv, Requests, IsMessage
  <2>3. n \in Message /\ n.edit = m.edit /\ n.actor = m.actor
    BY <2>1, <2>2 DEF Message
  <2>4. IsMessage(n)
    BY <2>2, <2>3 DEF IsMessage
  <2>5. n.to # None => n.to # t /\ n = m
    BY <2>1, <2>2, NoneApart DEF Message
  <2> QED BY <1>3, <2>4, <2>5, MessageStays
<1>10. Requests' /\ Sound
  <2>1. ASSUME NEW n \in wire', n.to # None
        PROVE  IF n.replay THEN AwaitedByReplay(n)' ELSE AwaitedBySubmission(n)'
    <3>1. n \in wire /\ n.to # t /\ n.to \in Tab
      BY <1>9, <2>1 DEF IInv, Requests, IsMessage, Message
    <3>2. edit'[n.to] = edit[n.to] /\ flush'[n.to] = flush[n.to]
      BY <3>1 DEF Forget, IInv, Edits, Replays
    <3> QED BY <2>1, <3>1, <3>2 DEF IInv, Requests, AwaitedByReplay, AwaitedBySubmission
  <2> QED BY <1>9, <2>1 DEF Requests, Sound
<1> QED BY <1>3, <1>5, <1>6, <1>7, <1>8, <1>10, ServedStays DEF IInv

LEMMA Closing ==
    ASSUME IInv, NEW t \in Tab, Reload(t) \/ SignedOut(t)
    PROVE  IInv' /\ Sound
<1>1. Forget(t) /\ UNCHANGED <<gen, queue, puts, applied, acked, gone, purged>>
  BY DEF Reload, SignedOut, store, history
<1>2. /\ view' \in [Tab -> Account \cup {None, "loading"}]
      /\ actor' \in [Tab -> Account \cup {None}] /\ ready' \in [Tab -> BOOLEAN]
      /\ leaving' \in [Tab -> {None, "wait", "clear", "again", "out"}]
  BY <1>1 DEF Forget, IInv, Owners
<1>3. shift' \in [Tab -> Seq(Shift)]
  BY <1>1 DEF Forget, IInv, Owners
<1>4. cast' \in Casts /\ acts' \in 0 .. cast'.acts
  <2>1. CASE Reload(t)
    BY <2>1, Acting DEF Reload
  <2>2. CASE SignedOut(t)
    BY <2>2 DEF SignedOut, IInv, Owners
  <2> QED BY <2>1, <2>2
<1>5. /\ session' \in Account \cup {None} /\ owner' \in Account \cup {None}
      /\ blocked' \in BOOLEAN /\ gen' \in Nat
  BY DEF Reload, SignedOut, store, IInv, Owners
<1>6. Owners'
  BY <1>2, <1>3, <1>4, <1>5 DEF Owners
<1> QED BY <1>1, <1>6, Forgetting

LEMMA OwnerMoving ==
    ASSUME IInv, NEW t \in Tab, OwnerStep(t)
    PROVE  IInv' /\ Sound
BY SettingActor, TransitionMoves, TransitionClears, Leaving, Closing DEF OwnerStep

-----------------------------------------------------------------------------
(* Submitting *)

\* What is current is of the present generation, for an account.
LEMMA CurrentIsPresent ==
    ASSUME IInv, NEW t \in Tab, NEW c, Current(t, c)
    PROVE  c.gen = gen /\ c.actor \in Account
BY DEF Current, IInv, Owners

LEMMA OwnersStay ==
    ASSUME IInv, UNCHANGED <<cast, session, store, tabVars, acts>>
    PROVE  Owners'
BY DEF IInv, Owners, store, tabVars

LEMMA Making ==
    ASSUME IInv, NEW t \in Tab, NEW e \in Edit, Make(t, e)
    PROVE  IInv' /\ Sound
<1>1. /\ edit[t] = None /\ made[e] = None /\ gen \in Nat
      /\ edit' = [edit EXCEPT ![t] = [edit |-> e, step |-> "made"]]
      /\ gen' = IF After[e] = {} /\ gen = 0 THEN 1 ELSE gen
      /\ UNCHANGED <<cast, session, owner, blocked, queue, puts, tabVars, flush, wire, applied,
                     acts, history>>
  BY DEF Make, IInv, Owners
<1>2. Owners'
  BY <1>1 DEF IInv, Owners, tabVars
<1>3. After[e] \subseteq acked /\ \A d \in After[e] : made[d] \in Origin /\ made[d].gen <= gen
  BY DEF Make, IInv, Made
<1>4. PICK o \in Origin : made' = [made EXCEPT ![e] = o] /\ o.gen <= gen'
  <2>1. CASE After[e] = {}
    <3>1. PICK o : o = [tab |-> t, gen |-> IF gen = 0 THEN 1 ELSE gen, actor |-> actor[t]]
      OBVIOUS
    <3>2. o \in Origin /\ o.gen <= gen'
      BY <1>1, <2>1, <3>1 DEF Origin, IInv, Owners
    <3> QED BY <2>1, <3>1, <3>2 DEF Make
  <2>2. CASE After[e] # {}
    <3>1. PICK d \in After[e] : d = CHOOSE c \in After[e] : TRUE
      BY <2>2
    <3>2. made' = [made EXCEPT ![e] = made[d]]
      BY <2>2, <3>1 DEF Make
    <3> QED BY <1>1, <1>3, <2>2, <3>2
  <2> QED BY <2>1, <2>2
<1>5. /\ made \in [Edit -> Origin \cup {None}] /\ made' \in [Edit -> Origin \cup {None}]
      /\ \A d \in Edit : d # e => made'[d] = made[d]
      /\ made'[e] = o /\ o # None
  BY <1>4, NoneApart DEF IInv, Made
<1>6. Onward
  BY <1>1, <1>5 DEF Onward, history
<1>7. NoLoss
  BY <1>1 DEF NoLoss, Rows
<1>8. Made'
  <2>1. \A d \in Edit : made[d] = None /\ made'[d] # None =>
            made'[d].gen <= gen' /\ After[d] \subseteq acked
    BY <1>3, <1>4, <1>5
  <2> QED BY <1>1, <1>5, <1>6, <1>7, <2>1, MadeStays DEF IInv, Made, history
<1>9. Queued'
  BY <1>1, <1>6, QueueStays DEF IInv, Queued
<1>10. Edits'
  <2>1. PICK s : s = [edit |-> e, step |-> "made"]
    OBVIOUS
  <2>2. s \in Submission /\ s.edit = e /\ s.step = "made"
    BY <2>1 DEF Submission
  <2>3. edit' = [edit EXCEPT ![t] = s] /\ edit \in [Tab -> Submission \cup {None}]
    BY <1>1, <2>1 DEF IInv, Edits
  <2>4. IsSubmission(edit[t])'
    BY <1>5, <2>2, <2>3 DEF IsSubmission
  <2> QED BY <1>6, <1>7, <2>2, <2>3, <2>4, EditsStay
<1>11. Replays'
  BY <1>1, <1>6, ReplaysStay DEF IInv, Replays
<1>12. Requests' /\ Sound
  BY <1>1, <1>6, RequestsStay DEF IInv, Edits
<1>13. Served'
  BY <1>1, <1>6, ServedStays
<1> QED BY <1>2, <1>8, <1>9, <1>10, <1>11, <1>12, <1>13 DEF IInv

\* A tab goes on with its submission: what has to be shown of the step it takes.
LEMMA EditGoesOn ==
    ASSUME IInv, Onward, NoLoss, NEW t \in Tab, edit[t] # None, NEW e, e = edit[t].edit,
           NEW step,
           step \in {"made", "sent", "ok", "conflict", "refused", "again", "putting", "placed"},
           EditTo(t, step), made[e].actor \in Account,
           step = "placed" => Kept(e)'
    PROVE  /\ Edits' /\ edit'[t] # None /\ edit'[t].edit = e /\ edit'[t].step = step
           /\ \A u \in Tab : u # t => edit'[u] = edit[u]
<1>1. edit \in [Tab -> Submission \cup {None}] /\ edit[t] \in Submission
  BY DEF IInv, Edits
<1>2. PICK s : s = [edit[t] EXCEPT !.step = step]
  OBVIOUS
<1>3. s \in Submission /\ s.edit = e /\ s.step = step /\ s # None
  BY <1>1, <1>2, NoneApart DEF Submission
<1>4. edit' = [edit EXCEPT ![t] = s]
  BY <1>2 DEF EditTo
<1>5. e \in Edit /\ made[e] # None
  BY <1>1 DEF IInv, Edits, IsSubmission, Submission
<1>6. edit'[t] = s /\ \A u \in Tab : u # t => edit'[u] = edit[u]
  BY <1>1, <1>4
<1>7. IsSubmission(s)'
  BY <1>3, <1>5 DEF IsSubmission, Onward
<1>8. IsSubmission(edit[t])'
  BY <1>6, <1>7 DEF IsSubmission
<1>9. Edits'
  BY <1>1, <1>3, <1>4, <1>6, <1>8, EditsStay
<1> QED BY <1>3, <1>6, <1>9

LEMMA EditEnding ==
    ASSUME IInv, Onward, NoLoss, NEW t \in Tab, EditEnds(t)
    PROVE  /\ Edits'
           /\ \A u \in Tab : u # t => edit'[u] = edit[u]
<1>1. edit \in [Tab -> Submission \cup {None}] /\ edit' = [edit EXCEPT ![t] = None]
  BY DEF EditEnds, IInv, Edits
<1>2. edit' \in [Tab -> Submission \cup {None}]
  BY <1>1
<1>3. \A u \in Tab : edit'[u] = IF u = t THEN None ELSE edit[u]
  BY <1>1
<1> QED BY <1>2, <1>3, EditsStay

LEMMA Submitted ==
    ASSUME IInv, NEW t \in Tab, Submit(t) \/ Answered(t)
    PROVE  IInv' /\ Sound
<1>1. /\ UNCHANGED <<cast, session, store, queue, puts, tabVars, made, flush, applied, acts, history>>
      /\ edit[t] # None /\ edit[t].step \notin {"sent", "putting", "placed"}
  BY DEF Submit, Answered, Submitting
<1>2. PICK e : e = edit[t].edit
  OBVIOUS
<1>3. e \in Edit /\ made[e] # None
  BY <1>1, <1>2 DEF IInv, Edits, Submission, IsSubmission
<1>4. Onward /\ NoLoss
  BY <1>1 DEF Onward, NoLoss, Rows, store, history, IInv, Owners
<1>5. Owners' /\ Made' /\ Queued' /\ Replays' /\ Served'
  <2>1. Made'
    BY <1>1, <1>4, MadeStays DEF IInv, Made, history
  <2>2. Queued'
    BY <1>1, <1>4, QueueStays DEF IInv, Queued
  <2>3. Replays'
    BY <1>1, <1>4, ReplaysStay DEF IInv, Replays
  <2> QED BY <1>1, <1>4, <2>1, <2>2, <2>3, OwnersStay, ServedStays
<1>6. Current(t, made[e]) => made[e].gen = gen /\ made[e].actor \in Account
  BY CurrentIsPresent
<1>7. CASE EditEnds(t) /\ UNCHANGED wire
  BY <1>1, <1>4, <1>5, <1>7, EditEnding, RequestsStay DEF IInv
<1>8. CASE Current(t, made[e]) /\ EditTo(t, "putting") /\ UNCHANGED wire
  <2>1. Edits' /\ \A u \in Tab : u # t => edit'[u] = edit[u]
    BY <1>1, <1>2, <1>4, <1>6, <1>8, EditGoesOn
  <2> QED BY <1>1, <1>4, <1>5, <1>8, <2>1, RequestsStay DEF IInv
<1>9. CASE /\ Current(t, made[e]) /\ EditTo(t, "sent") /\ After[e] = {}
           /\ wire' = wire \cup {Request(t, e, made[e].actor, FALSE)}
  <2>1. /\ Edits' /\ edit'[t] # None /\ edit'[t].edit = e /\ edit'[t].step = "sent"
        /\ \A u \in Tab : u # t => edit'[u] = edit[u]
    BY <1>1, <1>2, <1>4, <1>6, <1>9, EditGoesOn
  <2>2. PICK m : m = Request(t, e, made[e].actor, FALSE)
    OBVIOUS
  <2>3. /\ m \in Message /\ m.edit = e /\ m.actor = made[e].actor
        /\ m.to = t /\ m.replay = FALSE
    BY <1>3, <1>6, <1>9, <2>2 DEF Request, Message
  <2>4. IsMessage(m)' /\ m.edit \notin purged
    <3>1. IsMessage(m)
      BY <1>3, <1>9, <2>3 DEF IsMessage
    <3>2. e \notin purged
      BY <1>3, <1>6, <1>9 DEF IInv, Made, Owners
    <3> QED BY <1>4, <2>3, <3>1, <3>2, MessageStays
  <2>5. AwaitedBySubmission(m)'
    BY <2>1, <2>3 DEF AwaitedBySubmission
  <2>6. \A n \in wire' \ wire : n = m
    BY <1>9, <2>2
  <2>7. Requests' /\ Sound
    BY <1>1, <1>4, <2>1, <2>3, <2>4, <2>5, <2>6, RequestsStay
  <2> QED BY <1>5, <2>1, <2>7 DEF IInv
<1>10. \/ EditEnds(t) /\ UNCHANGED wire
       \/ Current(t, made[e]) /\ EditTo(t, "putting") /\ UNCHANGED wire
       \/ /\ Current(t, made[e]) /\ EditTo(t, "sent") /\ After[e] = {}
          /\ wire' = wire \cup {Request(t, e, made[e].actor, FALSE)}
  BY <1>2 DEF Submit, Answered
<1> QED BY <1>7, <1>8, <1>9, <1>10

\* The rows of a step that puts, updates or removes some.
LEMMA RowsAre ==
    ASSUME IInv
    PROVE  /\ Rows \subseteq Edit
           /\ \A r \in queue : r.edit \in Rows /\ IsRow(r) /\ r.edit \in Edit
           /\ \A e \in Rows : \E r \in queue : r.edit = e
BY DEF Rows, IInv, Queued, IsRow, RowType

LEMMA Putting ==
    ASSUME IInv, NEW t \in Tab, Put(t)
    PROVE  IInv' /\ Sound
<1>1. /\ UNCHANGED <<cast, session, store, tabVars, made, flush, wire, applied, acts, acked, purged>>
      /\ edit[t] # None /\ edit[t].step = "putting" /\ puts' = puts + 1
  BY DEF Put, Submitting
<1>2. PICK e : e = edit[t].edit
  OBVIOUS
<1>3. e \in Edit /\ made[e] \in Origin /\ made[e] # None /\ made[e].actor \in Account
  BY <1>1, <1>2 DEF IInv, Made, Edits, Submission, IsSubmission
<1>4. PICK r : r = NewRow(e)
  OBVIOUS
<1>5. IsRow(r) /\ r.edit = e
  <2>1. 0 \in 0 .. MaxTries /\ 0 < MaxTries
    BY OfflineAssumption
  <2>2. /\ r \in RowType /\ r.edit = e /\ r.gen = made[e].gen /\ r.actor = made[e].actor
        /\ r.tries = 0
    BY <1>3, <1>4, <2>1 DEF NewRow, RowType, Origin, IInv, Queued
  <2> QED BY <1>3, <2>1, <2>2 DEF IsRow
<1>6. /\ queue' = {q \in queue : KeyOf[q.edit] # KeyOf[e]} \cup {r}
      /\ gone' = gone \cup {d \in Rows : KeyOf[d] = KeyOf[e]}
      /\ EditTo(t, "placed")
  BY <1>2, <1>4 DEF Put
<1>7. Onward
  BY <1>1, <1>6 DEF Onward, store, IInv, Owners
<1>8. NoLoss /\ Kept(e)'
  <2>1. \A q \in queue' : q.edit \in Rows'
    BY DEF Rows
  <2> QED BY <1>5, <1>6, <2>1, RowsAre DEF NoLoss, Kept
<1>9. Queued'
  <2>1. \A q \in queue' : IsRow(q)'
    BY <1>5, <1>6, <1>7, RowStays, RowsAre
  <2>2. \A q, p \in queue' : KeyOf[q.edit] = KeyOf[p.edit] => q = p
    BY <1>5, <1>6 DEF IInv, Queued
  <2> QED BY <1>1, <2>1, <2>2 DEF IInv, Queued
<1>10. Made'
  BY <1>1, <1>6, <1>7, <1>8, RowsAre, MadeStays DEF IInv, Made
<1>11. Edits' /\ \A u \in Tab : u # t => edit'[u] = edit[u]
  BY <1>1, <1>2, <1>3, <1>6, <1>7, <1>8, EditGoesOn
<1>12. Replays'
  BY <1>1, <1>7, ReplaysStay DEF IInv, Replays
<1>13. Requests' /\ Sound
  BY <1>1, <1>7, <1>11, RequestsStay
<1> QED BY <1>1, <1>7, <1>9, <1>10, <1>11, <1>12, <1>13, OwnersStay, ServedStays DEF IInv

LEMMA Confirming ==
    ASSUME IInv, NEW t \in Tab, Confirm(t)
    PROVE  IInv' /\ Sound
<1>1. /\ UNCHANGED <<cast, session, store, puts, tabVars, made, flush, wire, applied, acts, purged>>
      /\ edit[t] # None /\ edit[t].step = "placed" /\ EditEnds(t)
  BY DEF Confirm, Submitting
<1>2. PICK e : e = edit[t].edit
  OBVIOUS
<1>3. e \in Edit /\ made[e] # None /\ Kept(e)
  BY <1>1, <1>2 DEF IInv, Edits, Submission, IsSubmission
<1>4. \/ acked' = acked \cup {e} /\ UNCHANGED <<queue, gone>>
      \/ /\ queue' = {r \in queue : ~SameId(r.edit, e)}
         /\ gone' = gone \cup {d \in Rows : SameId(d, e)}
         /\ UNCHANGED acked
  BY <1>2 DEF Confirm
<1>5. Onward
  BY <1>1, <1>4 DEF Onward, store, IInv, Owners
<1>6. NoLoss /\ queue' \subseteq queue
  <2>1. \A q \in queue' : q.edit \in Rows'
    BY DEF Rows
  <2> QED BY <1>4, <2>1, RowsAre DEF NoLoss
<1>7. Made'
  BY <1>1, <1>3, <1>4, <1>5, <1>6, RowsAre, MadeStays DEF IInv, Made
<1>8. Queued'
  BY <1>1, <1>5, <1>6, QueueStays DEF IInv, Queued
<1>9. Edits' /\ \A u \in Tab : u # t => edit'[u] = edit[u]
  BY <1>1, <1>5, <1>6, EditEnding
<1>10. Replays'
  BY <1>1, <1>5, ReplaysStay DEF IInv, Replays
<1>11. Requests' /\ Sound
  BY <1>1, <1>5, <1>9, RequestsStay
<1> QED BY <1>1, <1>5, <1>7, <1>8, <1>9, <1>10, <1>11, OwnersStay, ServedStays DEF IInv

LEMMA EditMoving ==
    ASSUME IInv, NEW t \in Tab, EditStep(t)
    PROVE  IInv' /\ Sound
<1>1. cast.edits \subseteq Edit
  BY OfflineAssumption DEF IInv, Owners
<1> QED BY <1>1, Making, Submitted, Putting, Confirming DEF EditStep

-----------------------------------------------------------------------------
(* Replaying *)

LEMMA FrontIsARow ==
    ASSUME NEW rows \in SUBSET RowType, rows # {}
    PROVE  Front(rows) \in rows
<1>1. PICK ats : ats = {r.at : r \in rows}
  OBVIOUS
<1>2. ats \in SUBSET Nat /\ ats # {}
  BY <1>1 DEF RowType
<1>3. PICK least \in ats : \A at \in ats : least <= at
  BY <1>2, LeastExists
<1>4. PICK r \in rows : r.at = least
  BY <1>1, <1>3
<1>5. \A q \in rows : r.at <= q.at
  BY <1>1, <1>3, <1>4
<1> QED BY <1>5 DEF Front

\* The row a replay is at.
LEMMA AtRow ==
    ASSUME IInv, NEW t \in Tab, flush[t] # None, flush[t].todo # {}
    PROVE  /\ flush[t] \in Replay /\ IsReplay(flush[t])
           /\ Row(t) = Front(flush[t].todo) /\ Row(t) \in flush[t].todo
           /\ IsRow(Row(t)) /\ Row(t).edit \in Edit /\ Row(t).gen = flush[t].own.gen
           /\ \A u \in Tab : u # t => flush[u] = None
<1>1. flush[t] \in Replay /\ IsReplay(flush[t])
  BY DEF IInv, Replays
<1>2. flush[t].todo \in SUBSET RowType
  BY <1>1 DEF Replay
<1>3. Row(t) = Front(flush[t].todo) /\ Row(t) \in flush[t].todo
  BY <1>2, FrontIsARow DEF Row, Front
<1>4. Row(t).edit \in Edit
  BY <1>2, <1>3 DEF RowType
<1>5. \A u \in Tab : u # t => flush[u] = None
  BY DEF IInv, Replays
<1>6. IsRow(Row(t)) /\ Row(t).gen = flush[t].own.gen
  BY <1>1, <1>3 DEF IsReplay, Listing
<1> QED BY <1>1, <1>3, <1>4, <1>5, <1>6

\* A pass starts with the rows of the present generation and its account; what
\* they depend on is among them, gone, or of another generation.
LEMMA Starting ==
    ASSUME IInv, NEW t \in Tab, NEW c \in Capture, c.gen = gen, c.actor \in Account,
           NEW today \in BOOLEAN, Starts(t, c, today),
           flush[t] = None \/ flush[t].step # "sent", \A u \in Tab : u # t => flush[u] = None,
           UNCHANGED <<cast, session, store, puts, tabVars, made, edit, wire, applied, acts,
                       acked, purged>>
    PROVE  IInv' /\ Sound
<1>1. PICK f : f = Pass(c, today)
  OBVIOUS
<1>2. /\ flush' = [flush EXCEPT ![t] = f] /\ queue' = Listed(c)
      /\ gone' = gone \cup {r.edit : r \in {q \in queue : q.gen = c.gen /\ q.actor # c.actor}}
  BY <1>1 DEF Starts
<1>3. queue' \subseteq queue /\ gone \subseteq gone' /\ gone' \subseteq Edit
  BY <1>2, RowsAre DEF Listed, IInv, Made
<1>4. \A r \in queue : r \in queue' \/ r.edit \in gone' \/ r.gen # gen
  BY <1>2 DEF Listed
<1>5. Onward
  BY <1>3 DEF Onward, store, IInv, Owners
<1>6. NoLoss
  <2>1. \A q \in queue' : q.edit \in Rows'
    BY DEF Rows
  <2> QED BY <1>4, <2>1, RowsAre DEF NoLoss, IsRow
<1>7. /\ f.own = c /\ f.step = "next" /\ f.bad = {} /\ f.done = {}
      /\ f.todo = {r \in queue' : (r.edit \in Today) = today}
      /\ f.known = {r.edit : r \in f.todo}
  BY <1>1, <1>2 DEF Pass
<1>8. f \in Replay
  <2>1. queue \subseteq RowType
    BY RowsAre DEF IsRow
  <2>2. f.todo \subseteq RowType /\ f.known \subseteq Edit
    BY <1>3, <1>7, <2>1 DEF RowType
  <2>3. f = [own |-> c, today |-> today, todo |-> f.todo, step |-> "next", known |-> f.known,
             bad |-> {}, done |-> {}]
    BY <1>1 DEF Pass
  <2> QED BY <2>2, <2>3 DEF Replay
<1>9. ASSUME NEW r \in f.todo
      PROVE  /\ IsRow(r)' /\ r.gen = f.own.gen
             /\ \A d \in After[r.edit] : d \in f.known \/ Passed(d, r.edit)'
  <2>1. r \in queue /\ r \in Listed(c) /\ (r.edit \in Today) = today /\ IsRow(r) /\ r.edit \in Edit
    BY <1>2, <1>3, <1>7, RowsAre
  <2>2. IsRow(r)' /\ r.gen = gen /\ made[r.edit] # None /\ made[r.edit].gen = gen
    BY <1>5, <2>1, RowStays DEF Listed, IsRow
  <2>3. ASSUME NEW d \in After[r.edit] PROVE d \in f.known \/ Passed(d, r.edit)'
    <3>1. r.edit \notin Today /\ today = FALSE
      BY <2>1, OfflineAssumption
    <3>2. d \in Edit /\ d \notin Today /\ d \in acked
      BY <2>1, <2>2, OfflineAssumption DEF IInv, Made
    <3>3. Kept(d)
      BY <3>2 DEF IInv, Made
    <3>4. CASE d \in gone \/ made[d].gen # gen
      BY <1>3, <2>2, <3>4 DEF Passed
    <3>5. CASE d \in Rows
      <4>1. PICK q \in queue : q.edit = d
        BY <3>5, RowsAre
      <4>2. q \in queue' \/ d \in gone' \/ made[d].gen # gen
        BY <1>4, <4>1, RowsAre DEF IsRow
      <4>3. q \in queue' => q \in f.todo
        BY <1>7, <3>1, <3>2, <4>1
      <4>4. q \in f.todo => d \in f.known
        BY <1>7, <4>1
      <4> QED BY <2>2, <4>2, <4>3, <4>4 DEF Passed
    <3> QED BY <3>3, <3>4, <3>5 DEF Kept
  <2> QED BY <1>7, <2>2, <2>3
<1>10. IsReplay(f)'
  BY <1>7, <1>9 DEF IsReplay, Listing
<1>11. Replays'
  <2>1. /\ flush \in [Tab -> Replay \cup {None}]
        /\ \A u \in Tab : flush'[u] = IF u = t THEN f ELSE flush[u]
        /\ flush' \in [Tab -> Replay \cup {None}]
    BY <1>2, <1>8 DEF IInv, Replays
  <2>2. IsReplay(flush[t])'
    BY <1>10, <2>1 DEF IsReplay, Listing
  <2> QED BY <1>5, <2>1, <2>2, ReplaysStay
<1>12. Made' /\ Queued' /\ Edits'
  <2>1. Made'
    BY <1>3, <1>5, <1>6, MadeStays DEF IInv, Made
  <2>2. Queued'
    BY <1>3, <1>5, QueueStays DEF IInv, Queued
  <2>3. Edits'
    BY <1>5, <1>6, EditsStay DEF IInv, Edits
  <2> QED BY <2>1, <2>2, <2>3
<1>13. Requests' /\ Sound
  <2>1. \A u \in Tab : flush'[u] = flush[u] \/ flush[u] = None \/ flush[u].step # "sent"
    BY <1>2 DEF IInv, Replays
  <2> QED BY <1>5, <2>1, RequestsStay
<1> QED BY <1>5, <1>11, <1>12, <1>13, OwnersStay, ServedStays DEF IInv

LEMMA FlushBeginning ==
    ASSUME IInv, NEW t \in Tab, FlushBegins(t)
    PROVE  IInv' /\ Sound
<1>1. PICK c : c = Captured(t)
  OBVIOUS
<1>2. c \in Capture
  BY <1>1 DEF Captured, Capture, IInv, Owners
<1>3. c.gen = gen /\ c.actor \in Account
  BY <1>1, CurrentIsPresent DEF FlushBegins
<1> QED BY <1>1, <1>2, <1>3, Starting DEF FlushBegins

LEMMA FlushTurning ==
    ASSUME IInv, NEW t \in Tab, FlushTurns(t)
    PROVE  IInv' /\ Sound
<1>1. /\ flush[t] # None /\ flush[t].step = "next" /\ flush[t] \in Replay
      /\ \A u \in Tab : u # t => flush[u] = None
      /\ UNCHANGED <<cast, session, store, puts, tabVars, made, edit, wire, applied, acts, acked,
                     purged>>
  BY DEF FlushTurns, Replaying, IInv, Replays
<1>2. CASE flush[t].today /\ Current(t, flush[t].own)
  <2>1. PICK c : c = flush[t].own
    OBVIOUS
  <2>2. c \in Capture
    BY <1>1, <2>1 DEF Replay
  <2>3. c.gen = gen /\ c.actor \in Account
    BY <1>2, <2>1, CurrentIsPresent
  <2> QED BY <1>1, <1>2, <2>1, <2>2, <2>3, Starting DEF FlushTurns
<1>3. CASE ~(flush[t].today /\ Current(t, flush[t].own))
  <2>1. flush' = [flush EXCEPT ![t] = None] /\ UNCHANGED <<queue, gone>>
    BY <1>3 DEF FlushTurns
  <2>2. Onward /\ NoLoss
    BY <1>1, <2>1 DEF Onward, NoLoss, Rows, store, IInv, Owners
  <2>3. Made' /\ Queued' /\ Edits'
    <3>1. Made'
      BY <1>1, <2>1, <2>2, MadeStays DEF IInv, Made
    <3>2. Queued'
      BY <1>1, <2>1, <2>2, QueueStays DEF IInv, Queued
    <3>3. Edits'
      BY <1>1, <2>2, EditsStay DEF IInv, Edits
    <3> QED BY <3>1, <3>2, <3>3
  <2>4. Replays'
    BY <2>1, <2>2, ReplaysStay DEF IInv, Replays
  <2>5. Requests' /\ Sound
    BY <1>1, <2>1, <2>2, RequestsStay DEF IInv, Replays
  <2> QED BY <1>1, <2>2, <2>3, <2>4, <2>5, OwnersStay, ServedStays DEF IInv
<1> QED BY <1>2, <1>3

\* A row is marked, if it still is the row that was read.
LEMMA Updating ==
    ASSUME IInv, NEW r, IsRow(r), NEW tries \in 0 .. MaxTries,
           NEW status \in {"pending", "failed", "conflict"}, status = "pending" => tries < MaxTries,
           Update(r, tries, status), UNCHANGED <<gen, puts, made>>, gone \subseteq gone'
    PROVE  Queued' /\ NoLoss
<1>1. PICK x : x = [r EXCEPT !.tries = tries, !.status = status]
  OBVIOUS
<1>2. r \in RowType
  BY DEF IsRow
<1>3. /\ x \in RowType /\ x.edit = r.edit /\ x.gen = r.gen /\ x.actor = r.actor
      /\ x.tries = tries /\ x.status = status
  BY <1>1, <1>2 DEF RowType
<1>4. IsRow(x)
  BY <1>3 DEF IsRow
<1>5. Onward
  BY DEF Onward, IInv, Owners
<1>6. queue' = IF r \in queue THEN (queue \ {r}) \cup {x} ELSE queue
  BY <1>1 DEF Update
<1>7. \A q \in queue' : IsRow(q)'
  BY <1>4, <1>5, <1>6, RowStays DEF IInv, Queued
<1>8. \A q, p \in queue' : KeyOf[q.edit] = KeyOf[p.edit] => q = p
  BY <1>3, <1>6 DEF IInv, Queued
<1>9. NoLoss
  <2>1. \A q \in queue' : q.edit \in Rows'
    BY DEF Rows
  <2> QED BY <1>3, <1>6, <2>1, RowsAre DEF NoLoss
<1> QED BY <1>7, <1>8, <1>9 DEF IInv, Queued

\* The replay goes on to the next row.
LEMMA Going ==
    ASSUME IInv, Onward, NEW t \in Tab, flush[t] # None, flush[t].todo # {},
           NEW outcome, Goes(t, outcome), outcome = "done" => Row(t).edit \in gone'
    PROVE  Replays' /\ \A u \in Tab : u # t => flush'[u] = flush[u]
<1>1. PICK old, r : old = flush[t] /\ r = Row(t)
  OBVIOUS
<1>2. /\ old \in Replay /\ IsReplay(old) /\ r \in old.todo /\ r.edit \in Edit
      /\ \A u \in Tab : u # t => flush[u] = None
  <2>1. IsReplay(flush[t])
    BY AtRow
  <2> QED BY <1>1, <2>1, AtRow
<1>3. PICK bad, done :
        /\ bad = IF outcome = "bad" THEN old.bad \cup {r.edit} ELSE old.bad
        /\ done = IF outcome = "done" THEN old.done \cup {r.edit} ELSE old.done
  OBVIOUS
<1>4. PICK f : f = [old EXCEPT !.todo = old.todo \ {r}, !.step = "next", !.bad = bad,
                               !.done = done]
  OBVIOUS
<1>5. bad \in SUBSET Edit /\ done \in SUBSET Edit
  BY <1>2, <1>3 DEF Replay
<1>6. /\ f \in Replay /\ f.own = old.own /\ f.known = old.known /\ f.todo = old.todo \ {r}
      /\ f.step = "next" /\ f.done = done
  BY <1>2, <1>4, <1>5 DEF Replay
<1>7. flush \in [Tab -> Replay \cup {None}]
  BY DEF IInv, Replays
<1>8. flush' = [flush EXCEPT ![t] = f]
  BY <1>1, <1>3, <1>4, <1>7 DEF Goes
<1>9. IsReplay(f)'
  <2>1. Listing(f)
    BY <1>2, <1>6 DEF Listing, IsReplay
  <2>2. done \subseteq gone'
    BY <1>1, <1>2, <1>3 DEF IsReplay, Onward
  <2> QED BY <1>6, <2>1, <2>2, ListingStays DEF IsReplay
<1>10. Replays'
  <2>1. \A u \in Tab : flush'[u] = IF u = t THEN f ELSE flush[u]
    BY <1>7, <1>8
  <2>2. flush' \in [Tab -> Replay \cup {None}]
    BY <1>6, <1>7, <1>8
  <2>3. IsReplay(flush[t])'
    BY <1>9, <2>1 DEF IsReplay, Listing
  <2> QED BY <1>2, <2>1, <2>2, <2>3, ReplaysStay
<1> QED BY <1>7, <1>8, <1>10

\* The effects of a step of the replay that stays with its pass.
LEMMA FlushGoesOn ==
    ASSUME IInv, NEW t \in Tab, flush[t] # None, flush[t].todo # {}, flush[t].step # "sent",
           NEW outcome, Goes(t, outcome), gone \subseteq gone', gone' \subseteq Edit,
           outcome = "done" => Row(t).edit \in gone', NoLoss, Queued',
           UNCHANGED <<cast, session, store, tabVars, made, edit, wire, applied, acts, acked,
                       purged>>
    PROVE  IInv' /\ Sound
<1>1. Onward
  BY DEF Onward, store, IInv, Owners
<1>2. Replays' /\ \A u \in Tab : u # t => flush'[u] = flush[u]
  BY <1>1, Going
<1>3. Requests' /\ Sound
  BY <1>1, <1>2, RequestsStay
<1>4. Made' /\ Edits'
  <2>1. Made'
    BY <1>1, MadeStays DEF IInv, Made
  <2>2. Edits'
    BY <1>1, EditsStay DEF IInv, Edits
  <2> QED BY <2>1, <2>2
<1> QED BY <1>1, <1>2, <1>3, <1>4, OwnersStay, ServedStays DEF IInv

\* What may be tried once more has not been tried too often.
LEMMA Retrying ==
    ASSUME IInv, NEW r, IsRow(r), ~Terminal(r), Retried(r), UNCHANGED <<gen, puts, made>>,
           gone \subseteq gone'
    PROVE  Queued' /\ NoLoss
<1>1. r.tries \in 0 .. MaxTries /\ r.status \in {"pending", "failed", "conflict"}
  BY DEF IsRow, RowType
<1>2. r.tries < MaxTries /\ MaxTries \in Nat
  BY <1>1, OfflineAssumption DEF Terminal, IsRow
<1>3. PICK tries, status : /\ tries = r.tries + 1
                           /\ status = IF r.tries + 1 >= MaxTries THEN "failed" ELSE "pending"
  OBVIOUS
<1>4. /\ tries \in 0 .. MaxTries /\ status \in {"pending", "failed", "conflict"}
      /\ status = "pending" => tries < MaxTries
  BY <1>1, <1>2, <1>3
<1>5. Update(r, tries, status)
  BY <1>3 DEF Retried
<1> QED BY <1>4, <1>5, Updating

LEMMA FlushGoing ==
    ASSUME IInv, NEW t \in Tab, FlushNext(t)
    PROVE  IInv' /\ Sound
<1>1. /\ flush[t] # None /\ flush[t].todo # {} /\ flush[t].step = "next"
      /\ UNCHANGED <<cast, session, store, puts, tabVars, made, edit, applied, acts, history>>
  BY DEF FlushNext, Replaying
<1>2. PICK r, f : r = Row(t) /\ f = flush[t]
  OBVIOUS
<1>3. /\ f \in Replay /\ IsReplay(f) /\ r = Front(f.todo) /\ r \in f.todo
      /\ IsRow(r) /\ r.edit \in Edit /\ r.gen = f.own.gen
      /\ \A u \in Tab : u # t => flush[u] = None
  <2>1. IsReplay(flush[t]) /\ IsRow(Row(t))
    BY <1>1, AtRow
  <2> QED BY <1>1, <1>2, <2>1, AtRow
<1>4. UNCHANGED <<gen, made, gone>> /\ gone \subseteq Edit
  BY <1>1 DEF store, history, IInv, Made
<1>5. MaxTries \in 0 .. MaxTries
  BY OfflineAssumption
<1>6. ASSUME NEW outcome, outcome # "done", Goes(t, outcome), UNCHANGED wire, NoLoss, Queued'
      PROVE  IInv' /\ Sound
  BY <1>1, <1>4, <1>6, FlushGoesOn DEF history
<1>7. CASE UNCHANGED <<queue, wire>> /\ (Goes(t, "bad") \/ Goes(t, "waits"))
  <2>1. NoLoss
    BY <1>7 DEF NoLoss, Rows
  <2>2. Onward
    BY <1>1, <1>4 DEF Onward, IInv, Owners
  <2>3. Queued'
    BY <1>1, <1>7, <2>2, QueueStays DEF IInv, Queued
  <2> QED BY <1>6, <1>7, <2>1, <2>3
<1>8. CASE Update(r, MaxTries, "failed") /\ Goes(t, "bad") /\ UNCHANGED wire
  <2>1. Queued' /\ NoLoss
    BY <1>1, <1>3, <1>4, <1>5, <1>8, Updating
  <2> QED BY <1>6, <1>8, <2>1
<1>9. CASE /\ ~Terminal(r) /\ Retried(r) /\ UNCHANGED wire
           /\ Goes(t, "bad") \/ Goes(t, "tried")
  <2>1. Queued' /\ NoLoss
    BY <1>1, <1>3, <1>4, <1>9, Retrying
  <2> QED BY <1>6, <1>9, <2>1
<1>10. CASE /\ ~Terminal(r) /\ Awaited(t) = {} /\ Current(t, f.own)
            /\ wire' = wire \cup {Request(t, r.edit, r.actor, TRUE)}
            /\ flush' = [flush EXCEPT ![t].step = "sent"] /\ UNCHANGED queue
  <2>1. Onward /\ NoLoss
    BY <1>1, <1>4, <1>10 DEF Onward, NoLoss, Rows, IInv, Owners
  <2>2. Made' /\ Queued' /\ Edits'
    <3>1. Made'
      BY <1>1, <1>4, <2>1, MadeStays DEF IInv, Made, history
    <3>2. Queued'
      BY <1>1, <1>10, <2>1, QueueStays DEF IInv, Queued
    <3>3. Edits'
      BY <1>1, <2>1, EditsStay DEF IInv, Edits
    <3> QED BY <3>1, <3>2, <3>3
  <2>3. PICK g : g = [f EXCEPT !.step = "sent"]
    OBVIOUS
  <2>4. /\ g \in Replay /\ g.own = f.own /\ g.known = f.known /\ g.todo = f.todo
        /\ g.step = "sent" /\ g.done = f.done
    BY <1>3, <2>3 DEF Replay
  <2>5. IsReplay(g)'
    <3>1. Listing(g)
      BY <1>3, <2>4 DEF Listing, IsReplay
    <3>2. g.todo # {} /\ ~Terminal(Front(g.todo)) /\ g.done \subseteq gone
      BY <1>1, <1>2, <1>3, <1>10, <2>4 DEF IsReplay
    <3> QED BY <2>1, <3>1, <3>2, ReplayStays DEF IsReplay
  <2>6. /\ flush \in [Tab -> Replay \cup {None}]
        /\ \A u \in Tab : flush'[u] = IF u = t THEN g ELSE flush[u]
        /\ flush' \in [Tab -> Replay \cup {None}]
    BY <1>2, <1>10, <2>3, <2>4 DEF IInv, Replays
  <2>7. Replays'
    <3>1. IsReplay(flush[t])'
      BY <2>5, <2>6 DEF IsReplay, Listing
    <3> QED BY <1>3, <2>1, <2>6, <3>1, ReplaysStay
  <2>8. PICK m : m = Request(t, r.edit, r.actor, TRUE)
    OBVIOUS
  <2>9. /\ m \in Message /\ m.edit = r.edit /\ m.actor = r.actor
        /\ m.to = t /\ m.replay = TRUE
    BY <1>3, <2>8 DEF Request, Message, IsRow, RowType
  <2>10. \A d \in After[r.edit] : Passed(d, r.edit)
    <3>1. \A d \in After[r.edit] : d \in f.known => d \in f.done
      BY <1>2, <1>10 DEF Awaited
    <3>2. \A d \in After[r.edit] : d \in f.known \/ Passed(d, r.edit)
      BY <1>3 DEF IsReplay, Listing
    <3>3. f.done \subseteq gone
      BY <1>3 DEF IsReplay
    <3> QED BY <3>1, <3>2, <3>3 DEF Passed
  <2>11. IsMessage(m)' /\ m.edit \notin purged
    <3>1. IsMessage(m)
      BY <1>3, <2>9, <2>10 DEF IsMessage, IsRow
    <3>2. made[r.edit].gen = gen
      BY <1>3, <1>10, CurrentIsPresent DEF IsRow
    <3>3. m.edit \notin purged
      BY <2>9, <3>2 DEF IInv, Made, Owners
    <3> QED BY <2>1, <3>1, <3>3, MessageStays
  <2>12. AwaitedByReplay(m)'
    BY <1>3, <2>4, <2>6, <2>9, NoneApart DEF AwaitedByReplay
  <2>13. Requests' /\ Sound
    <3>1. \A n \in wire' \ wire : n = m
      BY <1>10, <2>8
    <3> QED BY <1>1, <2>1, <2>6, <2>9, <2>11, <2>12, <3>1, RequestsStay
  <2> QED BY <1>1, <2>1, <2>2, <2>7, <2>13, OwnersStay, ServedStays DEF IInv
<1>11. \/ UNCHANGED <<queue, wire>> /\ (Goes(t, "bad") \/ Goes(t, "waits"))
       \/ Update(r, MaxTries, "failed") /\ Goes(t, "bad") /\ UNCHANGED wire
       \/ /\ ~Terminal(r) /\ Retried(r) /\ UNCHANGED wire
          /\ Goes(t, "bad") \/ Goes(t, "tried")
       \/ /\ ~Terminal(r) /\ Awaited(t) = {} /\ Current(t, f.own)
          /\ wire' = wire \cup {Request(t, r.edit, r.actor, TRUE)}
          /\ flush' = [flush EXCEPT ![t].step = "sent"] /\ UNCHANGED queue
  BY <1>2 DEF FlushNext
<1> QED BY <1>7, <1>8, <1>9, <1>10, <1>11

LEMMA FlushSettling ==
    ASSUME IInv, NEW t \in Tab, FlushSettles(t)
    PROVE  IInv' /\ Sound
<1>1. /\ flush[t] # None /\ flush[t].step \in {"ok", "conflict", "refused", "again"}
      /\ UNCHANGED <<cast, session, store, puts, tabVars, made, edit, wire, applied, acts, acked,
                     purged>>
  BY DEF FlushSettles
<1>2. flush[t].todo # {} /\ ~Terminal(Front(flush[t].todo))
  BY <1>1 DEF IInv, Replays, IsReplay
<1>3. PICK r : r = Row(t)
  OBVIOUS
<1>4. IsRow(r) /\ ~Terminal(r) /\ r.edit \in Edit
  <2>1. IsRow(Row(t)) /\ Row(t) = Front(flush[t].todo) /\ Row(t).edit \in Edit
    BY <1>1, <1>2, AtRow
  <2> QED BY <1>2, <1>3, <2>1
<1>5. UNCHANGED <<gen, made>> /\ gone \subseteq Edit
  BY <1>1 DEF store, IInv, Made
<1>6. CASE Dropped(r) /\ Goes(t, "done") /\ gone' = gone \cup {r.edit}
  <2>1. NoLoss
    <3>1. \A q \in queue' : q.edit \in Rows'
      BY DEF Rows
    <3> QED BY <1>6, <3>1, RowsAre DEF NoLoss, Dropped
  <2>2. Onward
    BY <1>5, <1>6 DEF Onward, IInv, Owners
  <2>3. Queued'
    BY <1>1, <1>6, <2>2, QueueStays DEF Dropped, IInv, Queued
  <2> QED BY <1>1, <1>2, <1>3, <1>4, <1>5, <1>6, <2>1, <2>3, FlushGoesOn
<1>7. r.tries \in 0 .. MaxTries /\ r.tries + 1 \in 0 .. MaxTries /\ MaxTries \in 0 .. MaxTries
  <2>1. r.tries \in 0 .. MaxTries /\ r.status \in {"pending", "failed", "conflict"}
    BY <1>4 DEF IsRow, RowType
  <2> QED BY <1>4, <2>1, OfflineAssumption DEF Terminal, IsRow
<1>8. ASSUME NEW tries \in 0 .. MaxTries, NEW status \in {"failed", "conflict"},
             Update(r, tries, status), Goes(t, "bad"), UNCHANGED gone
      PROVE  IInv' /\ Sound
  <2>1. Queued' /\ NoLoss
    BY <1>1, <1>4, <1>5, <1>8, Updating
  <2> QED BY <1>1, <1>2, <1>5, <1>8, <2>1, FlushGoesOn
<1>9. CASE Retried(r) /\ (Goes(t, "bad") \/ Goes(t, "tried")) /\ UNCHANGED gone
  <2>1. Queued' /\ NoLoss
    BY <1>1, <1>4, <1>5, <1>9, Retrying
  <2> QED BY <1>1, <1>2, <1>5, <1>9, <2>1, FlushGoesOn
<1>10. \/ Dropped(r) /\ Goes(t, "done") /\ gone' = gone \cup {r.edit}
       \/ Update(r, r.tries, "conflict") /\ Goes(t, "bad") /\ UNCHANGED gone
       \/ Update(r, r.tries + 1, "failed") /\ Goes(t, "bad") /\ UNCHANGED gone
       \/ Update(r, MaxTries, "failed") /\ Goes(t, "bad") /\ UNCHANGED gone
       \/ Retried(r) /\ (Goes(t, "bad") \/ Goes(t, "tried")) /\ UNCHANGED gone
  BY <1>3 DEF FlushSettles
<1> QED BY <1>6, <1>7, <1>8, <1>9, <1>10

LEMMA FlushMoving ==
    ASSUME IInv, NEW t \in Tab, FlushStep(t)
    PROVE  IInv' /\ Sound
BY FlushBeginning, FlushTurning, FlushGoing, FlushSettling DEF FlushStep

-----------------------------------------------------------------------------
(* The server *)

\* A tab waits for one request at most.
LEMMA OneIsAwaited ==
    ASSUME IInv, NEW m \in wire, NEW n \in wire, m.to # None, n.to = m.to, n.replay = m.replay
    PROVE  n = m
<1>1. m \in Message /\ n \in Message
  BY DEF IInv, Requests, IsMessage
<1>2. n.edit = m.edit
  <2>1. CASE m.replay
    BY <2>1 DEF IInv, Requests, AwaitedByReplay
  <2>2. CASE ~m.replay
    BY <2>2 DEF IInv, Requests, AwaitedBySubmission
  <2> QED BY <2>1, <2>2
<1>3. n.actor = m.actor
  BY <1>2 DEF IInv, Requests, IsMessage
<1> QED BY <1>1, <1>2, <1>3 DEF Message

\* A submission that gets its answer.
LEMMA SubmissionAnswered ==
    ASSUME IInv, NEW m \in wire, NEW answer \in Answers, Answer(m, answer), Onward, NoLoss
    PROVE  /\ Edits'
           /\ \A t \in Tab : edit'[t] # edit[t] => t = m.to /\ ~m.replay
<1>1. ASSUME NEW t \in Tab, t = m.to, ~m.replay
      PROVE  edit'[t] \in Submission /\ IsSubmission(edit[t])'
  <2>1. edit[t] \in Submission /\ edit[t].step = "sent" /\ IsSubmission(edit[t])
    BY <1>1, NoneApart DEF IInv, Requests, AwaitedBySubmission, Edits
  <2>2. PICK s, old : old = edit[t] /\ s = [old EXCEPT !.step = answer]
    OBVIOUS
  <2>3. /\ s \in Submission /\ s.edit = old.edit /\ s.step = answer
        /\ answer \notin {"made", "sent", "placed"}
    BY <2>1, <2>2 DEF Answers, Submission
  <2>4. edit'[t] = s
    BY <1>1, <2>2 DEF Answer
  <2>5. old.edit \in Edit /\ made[old.edit] # None /\ made[old.edit].actor \in Account
    BY <2>1, <2>2 DEF IsSubmission, Submission
  <2> QED BY <2>3, <2>4, <2>5 DEF IsSubmission, Onward
<1>2. \A t \in Tab : ~(t = m.to /\ ~m.replay) => edit'[t] = edit[t]
  BY DEF Answer
<1>3. edit' \in [Tab -> Submission \cup {None}]
  <2>1. \A t \in Tab : edit'[t] \in Submission \cup {None}
    BY <1>1, <1>2 DEF IInv, Edits
  <2> QED BY <2>1 DEF Answer
<1> QED BY <1>1, <1>2, <1>3, EditsStay

LEMMA ReplayAnswered ==
    ASSUME IInv, NEW m \in wire, NEW answer \in Answers, Answer(m, answer), Onward
    PROVE  /\ Replays'
           /\ \A t \in Tab : flush'[t] # flush[t] => t = m.to /\ m.replay
<1>1. ASSUME NEW t \in Tab, t = m.to, m.replay
      PROVE  flush'[t] \in Replay /\ IsReplay(flush[t])' /\ \A u \in Tab : u # t => flush[u] = None
  <2>1. /\ flush[t] \in Replay /\ flush[t].step = "sent" /\ IsReplay(flush[t])
        /\ \A u \in Tab : u # t => flush[u] = None
    BY <1>1, NoneApart DEF IInv, Requests, AwaitedByReplay, Replays
  <2>2. PICK f, old : old = flush[t] /\ f = [old EXCEPT !.step = answer]
    OBVIOUS
  <2>3. /\ f \in Replay /\ f.own = old.own /\ f.known = old.known /\ f.todo = old.todo
        /\ f.done = old.done /\ f.step = answer
    BY <2>1, <2>2 DEF Answers, Replay
  <2>4. flush'[t] = f
    BY <1>1, <2>2 DEF Answer
  <2>5. IsReplay(f)
    <3>1. Listing(old) /\ old.done \subseteq gone /\ old.todo # {} /\ ~Terminal(Front(old.todo))
      BY <2>1, <2>2 DEF IsReplay
    <3> QED BY <2>3, <3>1 DEF IsReplay, Listing
  <2>6. IsReplay(f)'
    BY <2>5, ReplayStays
  <2> QED BY <2>1, <2>3, <2>4, <2>6 DEF IsReplay, Listing
<1>2. \A t \in Tab : ~(t = m.to /\ m.replay) => flush'[t] = flush[t]
  BY DEF Answer
<1>3. flush' \in [Tab -> Replay \cup {None}]
  <2>1. \A t \in Tab : flush'[t] \in Replay \cup {None}
    BY <1>1, <1>2 DEF IInv, Replays
  <2> QED BY <2>1 DEF Answer
<1> QED BY <1>1, <1>2, <1>3, ReplaysStay

LEMMA Serving ==
    ASSUME IInv, NEW m \in wire, Serve(m)
    PROVE  IInv' /\ Sound
<1>1. /\ wire' = wire \ {m}
      /\ UNCHANGED <<cast, session, store, queue, puts, tabVars, made, acts, history>>
  BY DEF Serve
<1>2. PICK answer \in Answers, effect \in BOOLEAN :
        /\ effect => session = m.actor
        /\ Apply(m, effect) /\ Answer(m, answer)
  BY DEF Serve
<1>3. IsMessage(m) /\ m \in Message /\ m.edit \in Edit
  BY DEF IInv, Requests, IsMessage, Message
<1>4. Onward /\ NoLoss
  BY <1>1 DEF Onward, NoLoss, Rows, store, history, IInv, Owners
<1>5. Edits' /\ \A t \in Tab : edit'[t] # edit[t] => t = m.to /\ ~m.replay
  BY <1>2, <1>4, SubmissionAnswered
<1>6. Replays' /\ \A t \in Tab : flush'[t] # flush[t] => t = m.to /\ m.replay
  BY <1>2, <1>4, ReplayAnswered
<1>7. Requests' /\ Sound
  <2>1. ASSUME NEW n \in wire', n.to # None
        PROVE  IF n.replay THEN AwaitedByReplay(n)' ELSE AwaitedBySubmission(n)'
    <3>1. n \in wire /\ n # m /\ n.to \in Tab /\ n \in Message
      BY <1>1, <2>1 DEF IInv, Requests, IsMessage, Message
    <3>2. CASE n.replay
      <4>1. flush'[n.to] = flush[n.to]
        BY <1>3, <1>6, <2>1, <3>1, <3>2, OneIsAwaited DEF Message
      <4> QED BY <2>1, <3>1, <3>2, <4>1 DEF IInv, Requests, AwaitedByReplay
    <3>3. CASE ~n.replay
      <4>1. edit'[n.to] = edit[n.to]
        BY <1>3, <1>5, <2>1, <3>1, <3>3, OneIsAwaited DEF Message
      <4> QED BY <2>1, <3>1, <3>3, <4>1 DEF IInv, Requests, AwaitedBySubmission
    <3> QED BY <3>2, <3>3
  <2> QED BY <1>1, <1>4, <2>1, MessageStays DEF IInv, Requests, Sound
<1>8. Made' /\ Queued'
  <2>1. Made'
    BY <1>1, <1>4, MadeStays DEF IInv, Made, history
  <2>2. Queued'
    BY <1>1, <1>4, QueueStays DEF IInv, Queued
  <2> QED BY <2>1, <2>2
<1>9. Served'
  <2>1. CASE UNCHANGED applied
    BY <1>4, <2>1, ServedStays
  <2>2. CASE effect /\ applied' = applied \cup {[edit |-> m.edit, account |-> session]}
    <3>1. PICK x : x = [edit |-> m.edit, account |-> session]
      OBVIOUS
    <3>2. /\ x.edit = m.edit /\ x.account = made[x.edit].actor /\ made[x.edit] # None
          /\ x \in [edit : Edit, account : Account]
          /\ \A d \in After[x.edit] : Passed(d, x.edit)
      BY <1>2, <1>3, <2>2, <3>1 DEF IsMessage, Message
    <3>3. applied' = applied \cup {x} /\ UNCHANGED <<made, gone>>
      BY <1>1, <2>2, <3>1 DEF history
    <3> QED BY <3>2, <3>3 DEF IInv, Served, AppliedAsMade, Passed
  <2> QED BY <1>2, <2>1, <2>2 DEF Apply
<1> QED BY <1>1, <1>5, <1>6, <1>7, <1>8, <1>9, OwnersStay DEF IInv

-----------------------------------------------------------------------------
(* The theorems *)

LEMMA InitialState == Init => IInv
<1> SUFFICES ASSUME Init PROVE IInv
  OBVIOUS
<1>1. cast.acts \in Nat
  BY OfflineAssumption DEF Init
<1>2. Owners
  <2>1. shift \in [Tab -> Seq(Shift)] /\ leaving \in [Tab -> {None, "wait", "clear", "again", "out"}]
    BY DEF Init
  <2>2. /\ view \in [Tab -> Account \cup {None, "loading"}]
        /\ actor \in [Tab -> Account \cup {None}] /\ ready \in [Tab -> BOOLEAN]
    BY DEF Init
  <2>3. blocked \in BOOLEAN /\ gen \in Nat /\ owner \in Account \cup {None}
    BY DEF Init
  <2> QED BY <1>1, <2>1, <2>2, <2>3 DEF Init, Owners
<1>3. Made /\ Queued
  BY DEF Init, Made, Queued
<1>4. Edits /\ Replays
  BY DEF Init, Edits, Replays
<1>5. Requests /\ Served
  BY DEF Init, Requests, Served, AppliedAsMade
<1> QED BY <1>2, <1>3, <1>4, <1>5 DEF IInv

LEMMA Inductive == IInv /\ [Next]_vars => IInv' /\ Sound
<1> SUFFICES ASSUME IInv, [Next]_vars PROVE IInv' /\ Sound
  OBVIOUS
<1>1. cast.tabs \subseteq Tab
  BY OfflineAssumption DEF IInv, Owners
<1>2. CASE SessionChanges
  BY <1>2, SessionChanging
<1>3. CASE \E t \in cast.tabs : Reload(t) \/ OwnerStep(t) \/ EditStep(t) \/ FlushStep(t)
  BY <1>1, <1>3, Closing, OwnerMoving, EditMoving, FlushMoving
<1>4. CASE \E m \in wire : Serve(m)
  BY <1>4, Serving
<1>5. CASE UNCHANGED vars
  <2>1. Owners'
    BY <1>5, OwnersStay DEF vars
  <2>2. gen' >= gen
    BY <1>5 DEF vars, store, IInv, Owners
  <2> QED BY <1>5, <2>1, <2>2, OnlyOwners DEF vars, history
<1> QED BY <1>2, <1>3, <1>4, <1>5 DEF Next

\* The invariant holds in every reachable state.
THEOREM Invariance == Spec => []IInv
<1>1. IInv /\ [Next]_vars => IInv'
  BY Inductive
<1> QED BY <1>1, InitialState, PTL DEF Spec

\* Every variable keeps its type, no two rows of one key are queued, and no two
\* tabs replay at once (enqueueMutation's transaction; the replay's Web Lock).
THEOREM TypeCorrect == Spec => []TypeOK
BY Invariance, IInvSuffices, PTL

\* What the server applies it applies to the account the edit was made for, and not
\* before what it depends on was answered, replaced or dropped, whoever is signed in
\* when the request arrives (OFFLINE_ACTOR_HEADER, dependsOnClientMutationIds).
THEOREM AppliedForItsAccount == Spec => []AppliedAsMade
<1>1. IInv => AppliedAsMade
  BY DEF IInv, Served
<1> QED BY <1>1, Invariance, PTL

\* An edit its user was told is queued is kept until it is answered, replaced,
\* discarded with a late one of its id, dropped by another account's replay or
\* overtaken by a purge: no late step of a replay removes or changes a newer row
\* (updateQueuedMutationForGeneration, removeQueuedMutationForGeneration).
THEOREM AcknowledgedStays == Spec => []AcknowledgedIsKept
BY Invariance, IInvSuffices, PTL

\* What was made before a purge that is over is not sent any more, by no tab, however
\* many transitions overlap (the purge generation of sync-runtime.ts).
THEOREM PurgesAreFinal == Spec => PurgeIsFinal
<1>1. IInv /\ [Next]_vars => [\A m \in wire' \ wire : m.to # None => m.edit \notin purged]_vars
  BY Inductive DEF Sound
<1> QED BY <1>1, Invariance, PTL DEF PurgeIsFinal, Spec

=============================================================================
