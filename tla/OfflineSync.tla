------------------------------ MODULE OfflineSync ------------------------------
(***************************************************************************)
(* The offline queue of one browser: edits that could not be delivered are  *)
(* rows of one IndexedDB store which all tabs share, and are replayed when  *)
(* the connection is back. The tabs also share, in localStorage, whose data *)
(* this is: the owner, a flag that blocks all use, and the purge generation, *)
(* a token that a purge replaces. Each tab holds in memory the account it    *)
(* believes to act for; the session cookie may meanwhile be another's.      *)
(*                                                                          *)
(* Nothing is locked but the replay itself (a Web Lock). An edit and a replay *)
(* carry the generation they started in, and ask before each effect whether *)
(* it is still current; a row is changed only if it is the row that was read.*)
(***************************************************************************)
EXTENDS Naturals, Sequences

CONSTANTS
    Tab, Account, None,
    Edit,      \* the edits a user may make
    KeyOf,     \* KeyOf[e]: the dedupe key; a newer edit replaces an older one of its key
    After,     \* After[e]: the edits e depends on (dependsOnClientMutationIds)
    Today,     \* Today actions: one id per day, and conflicts of their own
    MaxTries,  \* MAX_MUTATION_RETRIES
    Casts      \* what takes part in a behaviour: tabs, edits, and the bound acts
               \* on session changes, account transitions and tabs closed

\* What is captured, and a row of the queue.
Capture == [gen : Nat, actor : Account \cup {None}]

RowType == [edit : Edit, gen : Nat, actor : Account, at : Nat, tries : 0 .. MaxTries,
            status : {"pending", "failed", "conflict"}]

\* Where an edit was made; a submission; a replay.
Origin == [tab : Tab \cup {None}, gen : Nat, actor : Account \cup {None}]

Submission == [edit : Edit, step : {"made", "sent", "ok", "conflict", "refused", "again",
                                    "putting", "placed"}]

Replay == [own : Capture, today : BOOLEAN, todo : SUBSET RowType,
           step : {"next", "sent", "ok", "conflict", "refused", "again"},
           known : SUBSET Edit, bad : SUBSET Edit, done : SUBSET Edit]

\* A Today action depends on no edit, and no edit on one.
ASSUME OfflineAssumption ==
    /\ After \in [Edit -> SUBSET (Edit \ Today)] /\ Today \subseteq Edit
    /\ \A e \in Edit : e \in DOMAIN KeyOf /\ (e \in Today => After[e] = {})
    /\ MaxTries \in Nat \ {0}
    /\ \A c \in Casts : c.tabs \subseteq Tab /\ c.edits \subseteq Edit /\ c.acts \in Nat
    /\ None \notin Account \cup Tab \cup Origin \cup Submission \cup Replay

VARIABLES
    cast,     \* fixed in a behaviour
    session,  \* the account of the session cookie
    owner, blocked, gen,  \* localStorage; generation 0 is no token
    queue,    \* the rows
    puts,     \* rows put so far, by any tab: what the next one's createdAt stands for
    view,     \* the session each tab last rendered, "loading" before the first
    actor, ready,  \* the account each tab acts for, and whether it is established
    shift,    \* the account transitions each tab has under way, chained
    leaving,  \* the sign-out or account deletion each tab is in
    made,     \* where, when and for whom each edit was made
    edit,     \* the edit each tab is submitting
    flush,    \* the replay each tab is in
    wire,     \* requests on their way
    applied,  \* what the server did, for whom
    acts,     \* bounded
    acked,    \* history: edits whose user was told that they are queued
    gone,     \* history: edits answered, replaced, cleared, discarded with a late
              \* row of their id, or dropped by another account's replay
    purged    \* history: edits made before a purge that ended

store == <<owner, blocked, gen>>
tabVars == <<view, actor, ready, shift, leaving>>
history == <<acked, gone, purged>>
vars == <<cast, session, store, queue, puts, tabVars, made, edit, flush, wire, applied, acts, history>>

\* What an edit or a replay captures (captureOfflineMutationGeneration).
Captured(t) == [gen |-> gen, actor |-> actor[t]]

\* isCurrentPurgeGeneration
Current(t, c) ==
    /\ ready[t] /\ actor[t] = c.actor
    /\ ~blocked /\ owner # None /\ owner = c.actor
    /\ gen = c.gen

\* One request of tab t, sent by a replay or not; to is the tab that waits.
Request(t, e, a, replay) == [edit |-> e, actor |-> a, to |-> t, replay |-> replay]

\* A browser never used, or one that the account used before.
Init ==
    /\ cast \in Casts
    /\ session \in Account
    /\ owner \in {None, session} /\ blocked = FALSE
    /\ gen = IF owner = None THEN 0 ELSE 1
    /\ queue = {} /\ puts = 0
    /\ view = [t \in Tab |-> "loading"]
    /\ actor = [t \in Tab |-> None]
    /\ ready = [t \in Tab |-> FALSE]
    /\ shift = [t \in Tab |-> <<>>]
    /\ leaving = [t \in Tab |-> None]
    /\ made = [e \in Edit |-> None]
    /\ edit = [t \in Tab |-> None]
    /\ flush = [t \in Tab |-> None]
    /\ wire = {} /\ applied = {}
    /\ acts = 0
    /\ acked = {} /\ gone = {} /\ purged = {}

-----------------------------------------------------------------------------
(* The session, and tabs that are closed or reloaded.                       *)

Acts == acts < cast.acts /\ acts' = acts + 1

\* Somebody signs in, or the session expires, outside these tabs' control.
SessionChanges ==
    /\ Acts
    /\ session' \in (IF session = None THEN Account ELSE {None})
    /\ UNCHANGED <<cast, store, queue, puts, tabVars, made, edit, flush, wire, applied,
                   history>>

\* The memory of tab t is gone; a request it sent may still arrive.
Forget(t) ==
    /\ view' = [view EXCEPT ![t] = "loading"]
    /\ actor' = [actor EXCEPT ![t] = None]
    /\ ready' = [ready EXCEPT ![t] = FALSE]
    /\ shift' = [shift EXCEPT ![t] = <<>>]
    /\ leaving' = [leaving EXCEPT ![t] = None]
    /\ edit' = [edit EXCEPT ![t] = None]
    /\ flush' = [flush EXCEPT ![t] = None]
    /\ wire' = {[m EXCEPT !.to = IF m.to = t THEN None ELSE m.to] : m \in wire}
    /\ made' = [e \in Edit |-> IF made[e] # None /\ made[e].tab = t
                               THEN [made[e] EXCEPT !.tab = None] ELSE made[e]]

Reload(t) ==
    /\ view[t] # "loading" /\ Acts
    /\ Forget(t)
    /\ UNCHANGED <<cast, session, store, queue, puts, applied, history>>

-----------------------------------------------------------------------------
(* Who owns the data. A transition blocks all use at once; what it clears,  *)
(* and that it unblocks, come in later steps.                               *)

\* Every transition of the tab that has not finished is superseded.
Superseded(t) == [i \in DOMAIN shift[t] |-> [shift[t][i] EXCEPT !.live = FALSE]]

\* No session is known: the durable owner is taken, so that reading offline works.
SetActorUnknown(t) ==
    /\ view[t] # session /\ session = None
    /\ view' = [view EXCEPT ![t] = None]
    /\ actor' = [actor EXCEPT ![t] = IF blocked THEN None ELSE owner]
    /\ ready' = [ready EXCEPT ![t] = owner # None /\ ~blocked]
    /\ UNCHANGED <<cast, session, store, queue, puts, shift, leaving, made, edit, flush, wire,
                   applied, acts, history>>

\* A fresh tab of the same account writes nothing that its siblings would see.
SetActorAdopts(t) ==
    /\ view[t] = "loading" /\ session # None
    /\ owner = session /\ ~blocked /\ gen # 0
    /\ view' = [view EXCEPT ![t] = session]
    /\ actor' = [actor EXCEPT ![t] = session]
    /\ ready' = [ready EXCEPT ![t] = TRUE]
    /\ UNCHANGED <<cast, session, store, queue, puts, shift, leaving, made, edit, flush, wire,
                   applied, acts, history>>

SetActorAgain(t) ==
    /\ view[t] \notin {"loading", session} /\ session # None
    /\ actor[t] = session /\ ready[t]
    /\ view' = [view EXCEPT ![t] = session]
    /\ UNCHANGED <<cast, session, store, queue, puts, actor, ready, shift, leaving, made, edit,
                   flush, wire, applied, acts, history>>

SetActorBegins(t) ==
    /\ view[t] # session /\ session # None
    /\ ~(view[t] = "loading" /\ owner = session /\ ~blocked /\ gen # 0)
    /\ ~(view[t] # "loading" /\ actor[t] = session /\ ready[t])
    /\ Acts
    /\ view' = [view EXCEPT ![t] = session]
    /\ actor' = [actor EXCEPT ![t] = session]
    /\ ready' = [ready EXCEPT ![t] = FALSE]
    /\ blocked' = TRUE /\ owner' = None
    /\ shift' = [shift EXCEPT ![t] = Append(Superseded(t),
                    [actor |-> session, live |-> TRUE, step |-> "begin",
                     wipe |-> owner # session \/ blocked, adopt |-> owner = None, seen |-> 0])]
    /\ UNCHANGED <<cast, session, gen, queue, puts, leaving, made, edit, flush, wire, applied,
                   history>>

Shifting(t, step) == shift[t] # <<>> /\ Head(shift[t]).step = step

\* It still is the transition the tab wants.
Wanted(t) == Head(shift[t]).live /\ actor[t] = Head(shift[t]).actor

ShiftTo(t, step) == shift' = [shift EXCEPT ![t][1].step = step]
ShiftEnds(t) == shift' = [shift EXCEPT ![t] = Tail(@)]

\* purgeOfflineUserData: a new generation before the store is cleared, and
\* another one after it.
Invalidate == gen' = gen + 1

Establish(t) ==
    /\ owner' = Head(shift[t]).actor /\ blocked' = FALSE
    /\ gen' = IF gen = 0 THEN 1 ELSE gen
    /\ ready' = [ready EXCEPT ![t] = TRUE]

ShiftBegins(t) ==
    /\ Shifting(t, "begin")
    /\ LET s == Head(shift[t])
       IN  \/ /\ ~Wanted(t)
              /\ ShiftEnds(t) /\ UNCHANGED <<store, ready>>
           \/ /\ Wanted(t) /\ ~s.wipe
              /\ ShiftEnds(t) /\ Establish(t)
           \/ /\ Wanted(t) /\ s.wipe /\ s.adopt /\ gen # 0
              /\ shift' = [shift EXCEPT ![t][1].step = "look", ![t][1].seen = gen]
              /\ UNCHANGED <<store, ready>>
           \/ /\ Wanted(t) /\ s.wipe /\ ~(s.adopt /\ gen # 0)
              /\ ShiftTo(t, "clear") /\ Invalidate
              /\ UNCHANGED <<owner, blocked, ready>>
    /\ UNCHANGED <<cast, session, queue, puts, view, actor, leaving, made, edit, flush, wire,
                   applied, acts, history>>

\* queuedMutationsBelongTo: rows nobody owns are kept if they are all this
\* account's, of the generation that was current.
ShiftLooks(t) ==
    /\ Shifting(t, "look")
    /\ LET s == Head(shift[t])
       IN  IF \A r \in queue : r.actor = s.actor /\ r.gen = s.seen
           THEN ShiftTo(t, "finish") /\ UNCHANGED gen
           ELSE ShiftTo(t, "clear") /\ Invalidate
    /\ UNCHANGED <<cast, session, owner, blocked, queue, puts, view, actor, ready, leaving,
                   made, edit, flush, wire, applied, acts, history>>

Rows == {r.edit : r \in queue}

Clears == queue' = {} /\ gone' = gone \cup Rows

\* Mutant: the generation is not replaced again after the store was cleared.
Cleared_Once ==
    /\ UNCHANGED gen
    /\ purged' = purged \cup {e \in Edit : made[e] # None}

\* The purge is over.
Cleared ==
    /\ Invalidate
    /\ purged' = purged \cup {e \in Edit : made[e] # None}

ShiftClears(t) ==
    /\ Shifting(t, "clear")
    /\ Clears /\ ShiftTo(t, "again")
    /\ UNCHANGED <<cast, session, store, puts, view, actor, ready, leaving, made, edit, flush,
                   wire, applied, acts, acked, purged>>

ShiftCleared(t) ==
    /\ Shifting(t, "again")
    /\ Cleared /\ ShiftTo(t, "finish")
    /\ UNCHANGED <<cast, session, owner, blocked, queue, puts, view, actor, ready, leaving,
                   made, edit, flush, wire, applied, acts, acked, gone>>

ShiftFinishes(t) ==
    /\ Shifting(t, "finish")
    /\ ShiftEnds(t)
    /\ IF Wanted(t) THEN Establish(t) ELSE UNCHANGED <<store, ready>>
    /\ UNCHANGED <<cast, session, queue, puts, view, actor, leaving, made, edit, flush, wire,
                   applied, acts, history>>

\* prepareOfflineSignOut, and disableOfflineUserDataAccess after the account was
\* deleted, which replaces the generation at once and waits for nothing.
Leave(t) ==
    /\ view[t] # "loading" /\ leaving[t] = None /\ session # None
    /\ Acts
    /\ actor' = [actor EXCEPT ![t] = None]
    /\ ready' = [ready EXCEPT ![t] = FALSE]
    /\ shift' = [shift EXCEPT ![t] = Superseded(t)]
    /\ blocked' = TRUE /\ owner' = None
    /\ \/ leaving' = [leaving EXCEPT ![t] = "wait"] /\ UNCHANGED gen
       \/ leaving' = [leaving EXCEPT ![t] = "clear"] /\ Invalidate
    /\ UNCHANGED <<cast, session, queue, puts, view, made, edit, flush, wire, applied, history>>

LeaveBegins(t) ==
    /\ leaving[t] = "wait" /\ \A i \in DOMAIN shift[t] : shift[t][i].live
    /\ Invalidate
    /\ leaving' = [leaving EXCEPT ![t] = "clear"]
    /\ UNCHANGED <<cast, session, owner, blocked, queue, puts, view, actor, ready, shift, made,
                   edit, flush, wire, applied, acts, history>>

LeaveClears(t) ==
    /\ leaving[t] = "clear"
    /\ Clears
    /\ leaving' = [leaving EXCEPT ![t] = "again"]
    /\ UNCHANGED <<cast, session, store, puts, view, actor, ready, shift, made, edit, flush,
                   wire, applied, acts, acked, purged>>

LeaveCleared(t) ==
    /\ leaving[t] = "again"
    /\ Cleared
    /\ leaving' = [leaving EXCEPT ![t] = "out"]
    /\ UNCHANGED <<cast, session, owner, blocked, queue, puts, view, actor, ready, shift, made,
                   edit, flush, wire, applied, acts, acked, gone>>

\* The session ends and the page is left.
SignedOut(t) ==
    /\ leaving[t] = "out"
    /\ session' = None
    /\ Forget(t)
    /\ UNCHANGED <<cast, store, queue, puts, applied, acts, history>>

OwnerStep(t) ==
    \/ SetActorUnknown(t) \/ SetActorAdopts(t) \/ SetActorAgain(t) \/ SetActorBegins(t)
    \/ ShiftBegins(t) \/ ShiftLooks(t) \/ ShiftClears(t) \/ ShiftCleared(t) \/ ShiftFinishes(t)
    \/ Leave(t) \/ LeaveBegins(t) \/ LeaveClears(t) \/ LeaveCleared(t) \/ SignedOut(t)

-----------------------------------------------------------------------------
(* Submitting an edit.                                                      *)

Submitting(t, step) == edit[t] # None /\ edit[t].step = step

EditTo(t, step) == edit' = [edit EXCEPT ![t].step = step]
EditEnds(t) == edit' = [edit EXCEPT ![t] = None]

\* An edit of what is queued (the note on a new highlight, its removal) carries
\* the generation of the edit it depends on.
Make(t, e) ==
    /\ edit[t] = None /\ made[e] = None
    /\ \A d \in After[e] : d \in acked /\ made[d].tab = t
    /\ made' = [made EXCEPT ![e] =
            IF After[e] = {}
            THEN [tab |-> t, gen |-> IF gen = 0 THEN 1 ELSE gen, actor |-> actor[t]]
            ELSE made[CHOOSE d \in After[e] : TRUE]]
    /\ gen' = IF After[e] = {} /\ gen = 0 THEN 1 ELSE gen
    /\ edit' = [edit EXCEPT ![t] = [edit |-> e, step |-> "made"]]
    /\ UNCHANGED <<cast, session, owner, blocked, queue, puts, tabVars, flush, wire, applied,
                   acts, history>>

\* Refused if the generation is not current; else sent at once, or queued
\* (offline, or dependent).
Submit(t) ==
    /\ Submitting(t, "made")
    /\ LET e == edit[t].edit
       IN  \/ ~Current(t, made[e]) /\ EditEnds(t) /\ UNCHANGED wire
           \/ Current(t, made[e]) /\ EditTo(t, "putting") /\ UNCHANGED wire
           \/ /\ Current(t, made[e]) /\ After[e] = {}
              /\ wire' = wire \cup {Request(t, e, made[e].actor, FALSE)}
              /\ EditTo(t, "sent")
    /\ UNCHANGED <<cast, session, store, queue, puts, tabVars, made, flush, applied, acts,
                   history>>

\* An answer that another try would not change ends it.
Answered(t) ==
    /\ edit[t] # None /\ edit[t].step \in {"ok", "conflict", "refused", "again"}
    /\ IF edit[t].step = "again" /\ Current(t, made[edit[t].edit])
       THEN EditTo(t, "putting")
       ELSE EditEnds(t)
    /\ UNCHANGED <<cast, session, store, queue, puts, tabVars, made, flush, wire, applied, acts,
                   history>>

NewRow(e) ==
    [edit |-> e, gen |-> made[e].gen, actor |-> made[e].actor, at |-> puts, tries |-> 0,
     status |-> "pending"]

\* Mutant: the older edits of the key stay.
Put_KeepsOlder(t) ==
    /\ Submitting(t, "putting")
    /\ LET e == edit[t].edit
       IN  /\ queue' = queue \cup {NewRow(e)}
           /\ UNCHANGED gone
    /\ puts' = puts + 1
    /\ EditTo(t, "placed")
    /\ UNCHANGED <<cast, session, store, tabVars, made, flush, wire, applied, acts, acked,
                   purged>>

\* enqueueMutation: one transaction that removes what has the edit's key.
Put(t) ==
    /\ Submitting(t, "putting")
    /\ LET e == edit[t].edit
       IN  /\ queue' = {r \in queue : KeyOf[r.edit] # KeyOf[e]} \cup {NewRow(e)}
           /\ gone' = gone \cup {d \in Rows : KeyOf[d] = KeyOf[e]}
    /\ puts' = puts + 1
    /\ EditTo(t, "placed")
    /\ UNCHANGED <<cast, session, store, tabVars, made, flush, wire, applied, acts, acked,
                   purged>>

\* A Today action of the same day and type has the same id.
SameId(d, e) == d = e \/ ({d, e} \subseteq Today /\ KeyOf[d] = KeyOf[e])

\* The user is told, if the generation still is current; else the row of this id
\* is dropped.
Confirm(t) ==
    /\ Submitting(t, "placed")
    /\ LET e == edit[t].edit
       IN  IF Current(t, made[e])
           THEN acked' = acked \cup {e} /\ UNCHANGED <<queue, gone>>
           ELSE /\ queue' = {r \in queue : ~SameId(r.edit, e)}
                /\ gone' = gone \cup {d \in Rows : SameId(d, e)}
                /\ UNCHANGED acked
    /\ EditEnds(t)
    /\ UNCHANGED <<cast, session, store, puts, tabVars, made, flush, wire, applied, acts,
                   purged>>

EditStep(t) ==
    (\E e \in cast.edits : Make(t, e)) \/ Submit(t) \/ Answered(t) \/ Put(t) \/ Confirm(t)

-----------------------------------------------------------------------------
(* Replaying the queue: the Today actions first, then the other edits.      *)

Listed(c) == {r \in queue : r.gen = c.gen /\ r.actor = c.actor}

Pass(c, today) ==
    LET rows == {r \in Listed(c) : (r.edit \in Today) = today}
    IN  [own |-> c, today |-> today, todo |-> rows, step |-> "next",
         known |-> {r.edit : r \in rows}, bad |-> {}, done |-> {}]

\* The rows of this generation and account; any other row is removed.
Starts(t, c, today) ==
    /\ flush' = [flush EXCEPT ![t] = Pass(c, today)]
    /\ queue' = Listed(c)
    /\ gone' = gone \cup {r.edit : r \in {q \in queue : q.gen = c.gen /\ q.actor # c.actor}}

\* The lock is the browser's: one tab at a time replays.
FlushBegins(t) ==
    /\ \A u \in Tab : flush[u] = None
    /\ queue # {}
    /\ Current(t, Captured(t))
    /\ Starts(t, Captured(t), TRUE)
    /\ UNCHANGED <<cast, session, store, puts, tabVars, made, edit, wire, applied, acts,
                   acked, purged>>

Replaying(t, step) == flush[t] # None /\ flush[t].step = step

\* The end of a pass.
FlushTurns(t) ==
    /\ Replaying(t, "next") /\ flush[t].todo = {}
    /\ IF flush[t].today /\ Current(t, flush[t].own)
       THEN Starts(t, flush[t].own, FALSE)
       ELSE flush' = [flush EXCEPT ![t] = None] /\ UNCHANGED <<queue, gone>>
    /\ UNCHANGED <<cast, session, store, puts, tabVars, made, edit, wire, applied, acts,
                   acked, purged>>

\* sortQueue: the oldest row of those left.
Row(t) == CHOOSE r \in flush[t].todo : \A q \in flush[t].todo : r.at <= q.at

Terminal(r) == r.status = "conflict" \/ (r.status = "failed" /\ r.tries >= MaxTries)

\* Mutant: a row is removed by its id.
Dropped_ById(r) == queue' = {q \in queue : ~SameId(q.edit, r.edit)}

\* removeQueuedMutationForGeneration: only if it still is the row that was read.
Dropped(r) == queue' = queue \ {r}

\* updateQueuedMutationForGeneration
Update(r, tries, status) ==
    queue' = IF r \in queue
             THEN (queue \ {r}) \cup {[r EXCEPT !.tries = tries, !.status = status]} ELSE queue

Retried(r) == Update(r, r.tries + 1, IF r.tries + 1 >= MaxTries THEN "failed" ELSE "pending")

\* The next row, and what became of this one: bad, done, or neither.
Goes(t, outcome) ==
    flush' = [flush EXCEPT ![t].todo = @ \ {Row(t)}, ![t].step = "next",
                           ![t].bad = IF outcome = "bad" THEN @ \cup {Row(t).edit} ELSE @,
                           ![t].done = IF outcome = "done" THEN @ \cup {Row(t).edit} ELSE @]

\* Edits of this pass which the next one depends on and which are not delivered.
Awaited(t) == (After[Row(t).edit] \cap flush[t].known) \ flush[t].done

FlushNext(t) ==
    /\ Replaying(t, "next") /\ flush[t].todo # {}
    /\ LET r == Row(t)
           doomed == After[r.edit] \cap flush[t].bad # {}
           outcome == IF r.tries + 1 >= MaxTries THEN "bad" ELSE "tried"
       IN  \/ /\ Terminal(r)
              /\ Goes(t, "bad") /\ UNCHANGED <<queue, wire>>
           \/ /\ ~Terminal(r) /\ doomed
              /\ Update(r, MaxTries, "failed")
              /\ Goes(t, "bad") /\ UNCHANGED wire
           \/ /\ ~Terminal(r) /\ ~doomed /\ Awaited(t) # {}
              /\ Goes(t, "waits") /\ UNCHANGED <<queue, wire>>
           \/ /\ ~Terminal(r) /\ ~doomed /\ Awaited(t) = {} /\ Current(t, flush[t].own)
              /\ wire' = wire \cup {Request(t, r.edit, r.actor, TRUE)}
              /\ flush' = [flush EXCEPT ![t].step = "sent"]
              /\ UNCHANGED queue
           \/ /\ ~Terminal(r) /\ ~doomed /\ Awaited(t) = {} /\ ~Current(t, flush[t].own)
              /\ Retried(r)
              /\ Goes(t, outcome) /\ UNCHANGED wire
    /\ UNCHANGED <<cast, session, store, puts, tabVars, made, edit, applied, acts, history>>

\* A conflict ends a Today action; for any other edit the server has resolved it.
FlushSettles(t) ==
    /\ flush[t] # None
    /\ LET r == Row(t)
           answer == flush[t].step
           today == r.edit \in Today
       IN  \/ /\ answer = "ok" \/ (answer = "conflict" /\ ~today)
              /\ Dropped(r) /\ Goes(t, "done")
              /\ gone' = gone \cup {r.edit}
           \/ /\ answer = "conflict" /\ today
              /\ Update(r, r.tries, "conflict") /\ Goes(t, "bad")
              /\ UNCHANGED gone
           \/ /\ answer = "refused"
              /\ Update(r, IF today THEN r.tries + 1 ELSE MaxTries, "failed") /\ Goes(t, "bad")
              /\ UNCHANGED gone
           \/ /\ answer = "again"
              /\ Retried(r)
              /\ Goes(t, IF r.tries + 1 >= MaxTries THEN "bad" ELSE "tried")
              /\ UNCHANGED gone
    /\ UNCHANGED <<cast, session, store, puts, tabVars, made, edit, wire, applied, acts,
                   acked, purged>>

FlushStep(t) == FlushBegins(t) \/ FlushTurns(t) \/ FlushNext(t) \/ FlushSettles(t)

-----------------------------------------------------------------------------
(* The network and the server.                                              *)

\* The tab that waits for request m, if it still does, gets the answer.
Answer(m, answer) ==
    /\ edit' = [t \in Tab |-> IF m.to = t /\ ~m.replay
                              THEN [edit[t] EXCEPT !.step = answer] ELSE edit[t]]
    /\ flush' = [t \in Tab |-> IF m.to = t /\ m.replay
                               THEN [flush[t] EXCEPT !.step = answer] ELSE flush[t]]

Answers == {"ok", "conflict", "refused", "again"}

Apply(m, effect) ==
    applied' = IF effect THEN applied \cup {[edit |-> m.edit, account |-> session]} ELSE applied

\* Mutant: the actor header is not compared with the session.
Serve_AnySession(m) ==
    /\ m \in wire
    /\ wire' = wire \ {m}
    /\ \E answer \in Answers, effect \in BOOLEAN :
        /\ session = None => answer \in {"refused", "again"} /\ ~effect
        /\ effect => answer \in {"ok", "again"}
        /\ Apply(m, effect) /\ Answer(m, answer)
    /\ UNCHANGED <<cast, session, store, queue, puts, tabVars, made, acts, history>>

\* Without a session the request is refused; another account's is answered as
\* done, without effect. The answer is "again" when the server fails, or the
\* request or its answer is lost.
Serve(m) ==
    /\ m \in wire
    /\ wire' = wire \ {m}
    /\ \E answer \in Answers, effect \in BOOLEAN :
        /\ session = None => answer \in {"refused", "again"}
        /\ session \notin {None, m.actor} => answer \in {"ok", "again"}
        /\ effect => session = m.actor /\ answer \in {"ok", "again"}
        /\ session = m.actor /\ answer = "ok" => effect
        /\ Apply(m, effect) /\ Answer(m, answer)
    /\ UNCHANGED <<cast, session, store, queue, puts, tabVars, made, acts, history>>

Next ==
    \/ SessionChanges
    \/ \E t \in cast.tabs : Reload(t) \/ OwnerStep(t) \/ EditStep(t) \/ FlushStep(t)
    \/ \E m \in wire : Serve(m)

Spec == Init /\ [][Next]_vars

-----------------------------------------------------------------------------
(* Properties.                                                              *)

\* Every variable has its type; one row per key is queued, and one tab replays.
TypeOK ==
    /\ \A r, q \in queue : KeyOf[r.edit] = KeyOf[q.edit] => r = q
    /\ \A t, u \in Tab : flush[t] # None /\ flush[u] # None => t = u
    /\ cast \in Casts
    /\ session \in Account \cup {None} /\ owner \in Account \cup {None}
    /\ blocked \in BOOLEAN /\ gen \in Nat
    /\ queue \subseteq RowType /\ puts \in Nat
    /\ view \in [Tab -> Account \cup {None, "loading"}]
    /\ actor \in [Tab -> Account \cup {None}] /\ ready \in [Tab -> BOOLEAN]
    /\ shift \in [Tab -> Seq([actor : Account, live : BOOLEAN, wipe : BOOLEAN, adopt : BOOLEAN,
                              seen : Nat, step : {"begin", "look", "clear", "again", "finish"}])]
    /\ leaving \in [Tab -> {None, "wait", "clear", "again", "out"}]
    /\ made \in [Edit -> Origin \cup {None}]
    /\ edit \in [Tab -> Submission \cup {None}]
    /\ flush \in [Tab -> Replay \cup {None}]
    /\ wire \subseteq [edit : Edit, actor : Account, to : Tab \cup {None}, replay : BOOLEAN]
    /\ applied \subseteq [edit : Edit, account : Account]
    /\ acts \in 0 .. cast.acts
    /\ acked \subseteq Edit /\ gone \subseteq Edit /\ purged \subseteq Edit

\* Once a purge is over, nothing that was made before it is sent: not by a tab
\* that was submitting it, not by a replay, not when the same account is back
\* (sync-runtime.ts, the purge generation).
PurgeIsFinal == [][\A m \in wire' \ wire : m.to # None => m.edit \notin purged]_vars

\* What the server applies is applied to the account it was made for, whoever is
\* signed in when it arrives, and not before the edits it depends on were
\* answered, replaced or dropped, those apart that an earlier purge overtook
\* (OFFLINE_ACTOR_HEADER, dependsOnClientMutationIds).
AppliedAsMade ==
    \A x \in applied :
        /\ x.account = made[x.edit].actor
        /\ \A d \in After[x.edit] : d \in gone \/ made[d].gen # made[x.edit].gen

\* An edit its user was told is queued stays queued until it is answered,
\* replaced by a newer one of its key, discarded with a late one of its id, dropped
\* by a replay of another account, or overtaken by a purge (mutation-store.ts: a
\* stale drain must never delete a newer record).
AcknowledgedIsKept == \A e \in acked : e \in Rows \cup gone \/ made[e].gen # gen
=============================================================================
