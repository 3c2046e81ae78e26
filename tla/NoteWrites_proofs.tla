--------------------------- MODULE NoteWrites_proofs ---------------------------
(***************************************************************************)
(* Theorems about the operations on notes, for any requests, edits of the  *)
(* user and calls that overlap: a call that failed has left nothing        *)
(* behind, and following cursors lists every child.                        *)
(***************************************************************************)
EXTENDS NoteWrites, SequenceTheorems, TLAPS

-----------------------------------------------------------------------------
(* What a step does to the calls *)

\* Operations that change the knowledge base in more than one step.
Piecewise == {"tags", "document"}

IsCall(r) ==
    /\ DOMAIN r = {"pc", "req", "at", "todo", "seen", "title", "fresh", "wrote"}
    /\ r.wrote \in BOOLEAN /\ r.fresh \in BOOLEAN

AllCalls == DOMAIN call = Calls /\ \A c \in Calls : IsCall(call[c])

\* Nothing happens to d but that the tree may change under it.
Watches(d) ==
    /\ IsCall(call'[d])
    /\ call'[d].pc = call[d].pc /\ call'[d].req = call[d].req
    /\ call'[d].at = call[d].at /\ call'[d].seen = call[d].seen
    /\ call'[d].wrote = call[d].wrote
    /\ call[d].pc \in Busy /\ call'[d].fresh => call[d].fresh /\ kb'.kids = kb.kids

\* c goes on with its request; what it changes, it changes last.
GoesOn(c) ==
    /\ IsCall(call'[c]) /\ call[c].pc \in Busy /\ call'[c].req = call[c].req
    /\ call'[c].wrote =>
          call[c].wrote \/ call'[c].pc = "done" \/ call[c].req.kind \in Piecewise

Moves(c) == GoesOn(c) /\ \A d \in Calls \ {c} : Watches(d)

LEMMA BecomesMoves ==
    ASSUME AllCalls, NEW c \in Calls, NEW r, Becomes(c, r), kb' = kb, IsCall(r),
           call[c].pc \in Busy, r.req = call[c].req, r.wrote = call[c].wrote
    PROVE  Moves(c) /\ call'[c] = r /\ DOMAIN call' = Calls
<1>1. /\ DOMAIN call' = Calls /\ call'[c] = r
      /\ \A d \in Calls \ {c} : call'[d] = call[d] /\ IsCall(call[d])
  BY DEF Becomes, AllCalls
<1>2. GoesOn(c)
  BY <1>1 DEF GoesOn
<1>3. \A d \in Calls \ {c} : Watches(d)
  BY <1>1 DEF Watches
<1> QED BY <1>1, <1>2, <1>3 DEF Moves

\* Call c, or with c = 0 the user, changes the knowledge base.
LEMMA ChangesWatched ==
    ASSUME AllCalls, NEW c, NEW k, NEW r, Changes(c, k, r)
    PROVE  DOMAIN call' = Calls /\ \A d \in Calls \ {c} : Watches(d)
<1>1. ASSUME NEW d \in Calls \ {c} PROVE Watches(d)
  <2>1. kb' = k /\ IsCall(call[d])
        /\ call'[d] = IF call[d].pc \in Busy /\ k.kids # kb.kids
                      THEN [call[d] EXCEPT !.fresh = FALSE] ELSE call[d]
    BY <1>1 DEF Changes, AllCalls
  <2>2. CASE call[d].pc \in Busy /\ k.kids # kb.kids
    <3>1. call'[d] = [call[d] EXCEPT !.fresh = FALSE]
      BY <2>1, <2>2
    <3>2. /\ DOMAIN call'[d] = DOMAIN call[d] /\ call'[d].fresh = FALSE
          /\ call'[d].pc = call[d].pc /\ call'[d].req = call[d].req
          /\ call'[d].at = call[d].at /\ call'[d].seen = call[d].seen
          /\ call'[d].wrote = call[d].wrote
      BY <2>1, <3>1 DEF IsCall
    <3> QED BY <2>1, <3>2 DEF Watches, IsCall
  <2>3. CASE ~(call[d].pc \in Busy /\ k.kids # kb.kids)
    BY <2>1, <2>3 DEF Watches
  <2> QED BY <2>2, <2>3
<1>2. DOMAIN call' = Calls
  BY DEF Changes
<1> QED BY <1>1, <1>2

LEMMA ChangesMoves ==
    ASSUME AllCalls, NEW c \in Calls, NEW k, NEW r, Changes(c, k, r), IsCall(r),
           call[c].pc \in Busy, r.req = call[c].req,
           r.pc = "done" \/ call[c].req.kind \in Piecewise
    PROVE  Moves(c) /\ DOMAIN call' = Calls /\ call'[c].pc = r.pc
<1>1. call'[c] = [r EXCEPT !.wrote = @ \/ k # kb]
  BY DEF Changes
<1>2. /\ DOMAIN call'[c] = DOMAIN r /\ call'[c].pc = r.pc /\ call'[c].req = r.req
      /\ call'[c].fresh = r.fresh /\ call'[c].wrote \in BOOLEAN
  BY <1>1 DEF IsCall
<1>3. GoesOn(c)
  BY <1>2 DEF GoesOn, IsCall
<1> QED BY <1>2, <1>3, ChangesWatched DEF Moves

LEMMA GoesMoves ==
    ASSUME AllCalls, NEW c \in Calls, NEW pc, Goes(c, pc), call[c].pc \in Busy
    PROVE  Moves(c) /\ DOMAIN call' = Calls /\ call'[c].pc = pc
<1> DEFINE r == [call[c] EXCEPT !.pc = pc]
<1>1. IsCall(call[c])
  BY DEF AllCalls
<1>2. IsCall(r) /\ r.req = call[c].req /\ r.wrote = call[c].wrote /\ r.pc = pc
  BY <1>1 DEF IsCall
<1>3. Becomes(c, r) /\ kb' = kb
  BY DEF Goes
<1> HIDE DEF r
<1> QED BY <1>2, <1>3, BecomesMoves

LEMMA CommitsMoves ==
    ASSUME AllCalls, NEW c \in Calls, NEW k, Commits(c, k), call[c].pc \in Busy
    PROVE  Moves(c) /\ DOMAIN call' = Calls /\ call'[c].pc = "done"
<1> DEFINE r == [call[c] EXCEPT !.pc = "done"]
<1>1. IsCall(call[c])
  BY DEF AllCalls
<1>2. IsCall(r) /\ r.req = call[c].req /\ r.pc = "done"
  BY <1>1 DEF IsCall
<1>3. Changes(c, k, r)
  BY DEF Commits
<1> HIDE DEF r
<1> QED BY <1>2, <1>3, ChangesMoves

-----------------------------------------------------------------------------
(* The steps of a call *)

\* No step looks again but that of listChildren, which looks at every page.
Advances(c) == Moves(c) /\ DOMAIN call' = Calls /\ call'[c].pc # "look"

LEMMA BusyPlaces ==
    ASSUME NEW c, NEW kind, NEW pc \in Busy, At(c, kind, pc)
    PROVE  call[c].pc \in Busy /\ call[c].req.kind = kind
  BY DEF At, req

LEMMA FailsAdvances ==
    ASSUME AllCalls, NEW c \in Calls, call[c].pc \in Busy, Fails(c)
    PROVE  Advances(c)
  BY GoesMoves DEF Fails, Advances

LEMMA GoesAdvances ==
    ASSUME AllCalls, NEW c \in Calls, NEW pc, call[c].pc \in Busy, Goes(c, pc), pc # "look"
    PROVE  Advances(c)
  BY GoesMoves DEF Advances

LEMMA CommitsAdvances ==
    ASSUME AllCalls, NEW c \in Calls, NEW k, call[c].pc \in Busy, Commits(c, k)
    PROVE  Advances(c)
  BY CommitsMoves DEF Advances

\* A step that finds a place, a title or the changes to make.
LEMMA FindsAdvances ==
    ASSUME AllCalls, NEW c \in Calls, call[c].pc \in Busy, NEW r, Becomes(c, r), kb' = kb,
           IsCall(r), r.req = call[c].req, r.wrote = call[c].wrote, r.pc # "look"
    PROVE  Advances(c)
  BY BecomesMoves DEF Advances

LEMMA StepAdvances ==
    ASSUME AllCalls, NEW c \in Calls, Step(c), ~Page(c)
    PROVE  Advances(c) /\ call[c].pc \in Busy
<1>a. IsCall(call[c]) /\ "look" \in Busy /\ "walk" \in Busy /\ "parent" \in Busy
      /\ "place" \in Busy /\ "prepare" \in Busy /\ "commit" \in Busy /\ "verify" \in Busy
  BY DEF AllCalls, Busy
<1>1. ASSUME Prepare(c) PROVE Advances(c) /\ call[c].pc \in Busy
  <2> DEFINE title == IF req(c).kind # "update" THEN call[c].title
                      ELSE IF req(c).title # Untitled THEN req(c).title
                      ELSE kb.text[req(c).rem]
  <2>1. call[c].pc \in Busy
    BY <1>a, <1>1 DEF Prepare
  <2> DEFINE r == [call[c] EXCEPT !.pc = "commit", !.title = title]
  <2>2. Fails(c) \/ (kb' = kb /\ Becomes(c, r))
    BY <1>1 DEF Prepare
  <2> HIDE DEF title
  <2>3. IsCall(r) /\ r.req = call[c].req /\ r.wrote = call[c].wrote /\ r.pc # "look"
    BY <1>a DEF IsCall
  <2> HIDE DEF r
  <2> QED BY <2>1, <2>2, <2>3, FailsAdvances, FindsAdvances
<1>2. ASSUME InsertLook(c) PROVE Advances(c) /\ call[c].pc \in Busy
  <2> DEFINE q == req(c)
             at == PositionIn(kb.kids[q.parent], q)
             pc == IF NormalizeContent(q.lines) = <<>> THEN "done" ELSE "prepare"
  <2>1. call[c].pc \in Busy
    BY <1>a, <1>2, BusyPlaces DEF InsertLook
  <2> DEFINE r == [call[c] EXCEPT !.at = at, !.pc = pc]
  <2>2. Fails(c) \/ (kb' = kb /\ Becomes(c, r))
    BY <1>2, Zenon DEF InsertLook
  <2>3. pc # "look"
    OBVIOUS
  <2> HIDE DEF at, pc, q
  <2>4. IsCall(r) /\ r.req = call[c].req /\ r.wrote = call[c].wrote /\ r.pc # "look"
    BY <1>a, <2>3 DEF IsCall
  <2> HIDE DEF r
  <2> QED BY <2>1, <2>2, <2>4, FailsAdvances, FindsAdvances
<1>3. ASSUME InsertCommit(c) PROVE Advances(c) /\ call[c].pc \in Busy
  BY <1>a, <1>3, BusyPlaces, CommitsAdvances DEF InsertCommit
<1>4. ASSUME ReplaceLook(c) PROVE Advances(c) /\ call[c].pc \in Busy
  BY <1>a, <1>4, BusyPlaces, FailsAdvances, GoesAdvances DEF ReplaceLook
<1>5. ASSUME ReplaceCommit(c) PROVE Advances(c) /\ call[c].pc \in Busy
  BY <1>a, <1>5, BusyPlaces, CommitsAdvances DEF ReplaceCommit
<1>6. ASSUME CreateCommit(c) PROVE Advances(c) /\ call[c].pc \in Busy
  BY <1>a, <1>6, BusyPlaces, CommitsAdvances DEF CreateCommit
<1>7. ASSUME JournalCommit(c) PROVE Advances(c) /\ call[c].pc \in Busy
  BY <1>a, <1>7, BusyPlaces, CommitsAdvances DEF JournalCommit
<1>8. ASSUME MoveLook(c) PROVE Advances(c) /\ call[c].pc \in Busy
  <2> DEFINE r == [call[c] EXCEPT !.pc = "walk", !.at = req(c).parent]
  <2>1. call[c].pc \in Busy
    BY <1>a, <1>8, BusyPlaces DEF MoveLook
  <2>2. Fails(c) \/ (kb' = kb /\ Becomes(c, r))
    BY <1>8 DEF MoveLook
  <2>3. IsCall(r) /\ r.req = call[c].req /\ r.wrote = call[c].wrote /\ r.pc # "look"
    BY <1>a DEF IsCall
  <2> HIDE DEF r
  <2> QED BY <2>1, <2>2, <2>3, FailsAdvances, FindsAdvances
<1>9. ASSUME MoveWalk(c) PROVE Advances(c) /\ call[c].pc \in Busy
  <2>1. call[c].pc \in Busy /\ call[c].pc = "walk"
    BY <1>a, <1>9 DEF MoveWalk, At
  <2> DEFINE at == ParentOf(kb, call[c].at)
             r == [call[c] EXCEPT !.at = at]
  <2>2. Fails(c) \/ Goes(c, "parent") \/ (kb' = kb /\ Becomes(c, r))
    BY <1>9 DEF MoveWalk
  <2> HIDE DEF at
  <2>3. IsCall(r) /\ r.req = call[c].req /\ r.wrote = call[c].wrote /\ r.pc # "look"
    BY <1>a, <2>1 DEF IsCall
  <2> HIDE DEF r
  <2> QED BY <2>1, <2>2, <2>3, FailsAdvances, GoesAdvances, FindsAdvances
<1>10. ASSUME MoveParent(c) PROVE Advances(c) /\ call[c].pc \in Busy
  BY <1>a, <1>10, BusyPlaces, FailsAdvances, GoesAdvances DEF MoveParent
<1>11. ASSUME MovePlace(c) PROVE Advances(c) /\ call[c].pc \in Busy
  <2> DEFINE q == req(c)
             at == PositionIn(Remove(kb.kids[q.parent], q.rem), q)
             pc == IF q.dryRun THEN "done" ELSE "commit"
  <2>1. call[c].pc \in Busy
    BY <1>a, <1>11, BusyPlaces DEF MovePlace
  <2> DEFINE r == [call[c] EXCEPT !.at = at, !.pc = pc]
  <2>2. Fails(c) \/ (kb' = kb /\ Becomes(c, r))
    BY <1>11, Zenon DEF MovePlace
  <2>3. pc # "look"
    OBVIOUS
  <2> HIDE DEF at, pc, q
  <2>4. IsCall(r) /\ r.req = call[c].req /\ r.wrote = call[c].wrote /\ r.pc # "look"
    BY <1>a, <2>3 DEF IsCall
  <2> HIDE DEF r
  <2> QED BY <2>1, <2>2, <2>4, FailsAdvances, FindsAdvances
<1>12. ASSUME MoveCommit(c) PROVE Advances(c) /\ call[c].pc \in Busy
  BY <1>a, <1>12, BusyPlaces, FailsAdvances, CommitsAdvances DEF MoveCommit
<1>13. ASSUME Look(c) PROVE Advances(c) /\ call[c].pc \in Busy
  BY <1>a, <1>13, BusyPlaces, FailsAdvances, GoesAdvances DEF Look
<1>14. ASSUME UpdateCommit(c) PROVE Advances(c) /\ call[c].pc \in Busy
  BY <1>a, <1>14, BusyPlaces, FailsAdvances, CommitsAdvances DEF UpdateCommit
<1>15. ASSUME PropertyCommit(c) PROVE Advances(c) /\ call[c].pc \in Busy
  BY <1>a, <1>15, BusyPlaces, FailsAdvances, CommitsAdvances DEF PropertyCommit
<1>16. ASSUME DocumentLook(c) PROVE Advances(c) /\ call[c].pc \in Busy
  <2> DEFINE q == req(c)
             pc == IF q.dryRun THEN "done" ELSE IF kb.doc[q.rem] # q.document THEN "commit"
                   ELSE "verify"
  <2>1. call[c].pc \in Busy
    BY <1>a, <1>16, BusyPlaces DEF DocumentLook
  <2> DEFINE r == [call[c] EXCEPT !.pc = pc]
  <2>2. Fails(c) \/ (kb' = kb /\ Becomes(c, r))
    BY <1>16, Zenon DEF DocumentLook
  <2>3. pc # "look"
    OBVIOUS
  <2> HIDE DEF pc, q
  <2>4. IsCall(r) /\ r.req = call[c].req /\ r.wrote = call[c].wrote /\ r.pc # "look"
    BY <1>a, <2>3 DEF IsCall
  <2> HIDE DEF r
  <2> QED BY <2>1, <2>2, <2>4, FailsAdvances, FindsAdvances
<1>17. ASSUME DocumentCommit(c) PROVE Advances(c) /\ call[c].pc \in Busy
  <2> DEFINE r == [call[c] EXCEPT !.pc = "verify"]
             k == [kb EXCEPT !.doc[req(c).rem] = req(c).document]
  <2>1. call[c].pc \in Busy /\ call[c].req.kind \in Piecewise
    BY <1>a, <1>17, BusyPlaces DEF DocumentCommit, Piecewise
  <2>2. Fails(c) \/ Changes(c, k, r)
    BY <1>17 DEF DocumentCommit
  <2>3. IsCall(r) /\ r.req = call[c].req /\ r.pc = "verify"
    BY <1>a DEF IsCall
  <2> HIDE DEF r, k
  <2> QED BY <2>1, <2>2, <2>3, FailsAdvances, ChangesMoves DEF Advances
<1>18. ASSUME DocumentVerify(c) PROVE Advances(c) /\ call[c].pc \in Busy
  BY <1>a, <1>18, BusyPlaces, FailsAdvances, GoesAdvances DEF DocumentVerify
<1>19. ASSUME TagsLook(c) PROVE Advances(c) /\ call[c].pc \in Busy
  <2> DEFINE q == req(c)
             todo == [i \in DOMAIN q.add |-> <<"add", q.add[i]>>] \o
                     [i \in DOMAIN q.remove |-> <<"remove", q.remove[i]>>]
  <2>1. call[c].pc \in Busy
    BY <1>a, <1>19, BusyPlaces DEF TagsLook
  <2> DEFINE r == [call[c] EXCEPT !.pc = "commit", !.todo = todo]
  <2>2. Fails(c) \/ (kb' = kb /\ Becomes(c, r))
    BY <1>19, Zenon DEF TagsLook
  <2> HIDE DEF todo, q
  <2>3. IsCall(r) /\ r.req = call[c].req /\ r.wrote = call[c].wrote /\ r.pc # "look"
    BY <1>a DEF IsCall
  <2> HIDE DEF r
  <2> QED BY <2>1, <2>2, <2>3, FailsAdvances, FindsAdvances
<1>20. ASSUME TagsStep(c) PROVE Advances(c) /\ call[c].pc \in Busy
  <2> DEFINE next == Head(call[c].todo)
             rest1 == Tail(call[c].todo)
             pc == IF rest1 = <<>> THEN "done" ELSE call[c].pc
             r == [call[c] EXCEPT !.todo = rest1, !.pc = pc]
             k == [kb EXCEPT !.tags[req(c).rem] =
                      IF next[1] = "add" THEN @ \cup {next[2]} ELSE @ \ {next[2]}]
  <2>1. /\ call[c].pc \in Busy /\ call[c].req.kind \in Piecewise /\ call[c].pc = "commit"
    BY <1>a, <1>20, BusyPlaces DEF TagsStep, Piecewise, At
  <2>2. Fails(c) \/ Changes(c, k, r)
    BY <1>20 DEF TagsStep
  <2>3. pc # "look"
    BY <2>1
  <2> HIDE DEF k, pc, rest1
  <2>4. IsCall(r) /\ r.req = call[c].req /\ r.pc = pc
    BY <1>a DEF IsCall
  <2> HIDE DEF r
  <2> QED BY <2>1, <2>2, <2>3, <2>4, FailsAdvances, ChangesMoves DEF Advances
<1> QED BY <1>1, <1>2, <1>3, <1>4, <1>5, <1>6, <1>7, <1>8, <1>9, <1>10, <1>11, <1>12,
          <1>13, <1>14, <1>15, <1>16, <1>17, <1>18, <1>19, <1>20 DEF Step, MoveStep

LEMMA PageMoves ==
    ASSUME AllCalls, NEW c \in Calls, Page(c)
    PROVE  /\ Moves(c) /\ DOMAIN call' = Calls /\ call[c].pc \in Busy /\ kb' = kb
           /\ \/ call'[c].pc = "failed"
              \/ LET kids  == kb.kids[call[c].req.parent]
                     limit == call[c].req.limit
                     at    == call[c].at
                 IN /\ call'[c].seen = call[c].seen \o Slice(kids, at, limit)
                    /\ call'[c].at = at + limit
                    /\ call'[c].pc = IF at + limit >= Len(kids) THEN "done" ELSE "look"
                    /\ call'[c].fresh = call[c].fresh
<1> DEFINE kids  == kb.kids[call[c].req.parent]
           limit == call[c].req.limit
           at    == call[c].at
           more  == call[c].seen \o Slice(kids, at, limit)
           pc    == IF at + limit >= Len(kids) THEN "done" ELSE call[c].pc
           r     == [call[c] EXCEPT !.seen = more, !.at = at + limit, !.pc = pc]
<1>1. IsCall(call[c]) /\ call[c].pc = "look" /\ call[c].pc \in Busy
  BY DEF AllCalls, Page, At, Busy
<1>2. \/ Fails(c)
      \/ kb' = kb /\ Becomes(c, r)
  BY Zenon DEF Page, req
<1>3. CASE Fails(c)
  BY <1>1, <1>3, GoesMoves DEF Fails, Goes
<1>4. CASE kb' = kb /\ Becomes(c, r)
  <2>1. pc = IF at + limit >= Len(kids) THEN "done" ELSE "look"
    BY <1>1
  <2> HIDE DEF pc, more
  <2>2. /\ IsCall(r) /\ r.req = call[c].req /\ r.wrote = call[c].wrote
        /\ r.seen = more /\ r.at = at + limit /\ r.pc = pc /\ r.fresh = call[c].fresh
    BY <1>1 DEF IsCall
  <2> HIDE DEF r
  <2>3. Moves(c) /\ call'[c] = r /\ DOMAIN call' = Calls
    BY <1>1, <1>4, <2>2, BecomesMoves
  <2> QED BY <1>1, <1>4, <2>1, <2>2, <2>3 DEF more
<1> QED BY <1>2, <1>3, <1>4

LEMMA StepMoves ==
    ASSUME AllCalls, NEW c \in Calls, Step(c)
    PROVE  Moves(c) /\ DOMAIN call' = Calls /\ call[c].pc \in Busy
           /\ (call'[c].pc = "look" => Page(c))
  BY StepAdvances, PageMoves DEF Advances

\* A user's edit.
UserEdits ==
    \E r \in Editable : UserRemoves(r) \/ \E p \in Editable \cup {Top} : UserMoves(r, p)

LEMMA UserWatched ==
    ASSUME AllCalls, UserEdits
    PROVE  DOMAIN call' = Calls /\ \A d \in Calls : Watches(d)
<1>1. \E k : Changes(0, k, NoCall)
  BY DEF UserEdits, UserRemoves, UserMoves
<1>2. 0 \notin Calls
  BY DEF Calls
<1> QED BY <1>1, <1>2, ChangesWatched

LEMMA BeginFields ==
    ASSUME AllCalls, NEW c \in Calls, NEW q \in Requests, Begin(c, q)
    PROVE  /\ DOMAIN call' = Calls /\ IsCall(call'[c]) /\ call'[c].req = q
           /\ ~call'[c].wrote /\ call'[c].at = 0 /\ call'[c].seen = <<>>
           /\ kb' = kb /\ call[c].pc = "idle" /\ call'[c].pc # "done"
           /\ \A d \in Calls \ {c} : call'[d] = call[d]
<1> DEFINE pc == IF ~Allowed(q) \/ ~Valid(q) THEN "failed"
                 ELSE IF q.kind \in {"create", "journal"} THEN "prepare" ELSE "look"
           r == [NoCall EXCEPT !.req = q, !.pc = pc]
<1>1. Becomes(c, r) /\ kb' = kb /\ call[c].pc = "idle"
  BY DEF Begin
<1>2. pc # "done"
  OBVIOUS
<1> HIDE DEF pc
<1>3. /\ IsCall(r) /\ r.req = q /\ ~r.wrote /\ r.at = 0 /\ r.seen = <<>> /\ r.pc # "done"
  BY <1>2 DEF NoCall, IsCall
<1> HIDE DEF r
<1> QED BY <1>1, <1>3 DEF Becomes, AllCalls

-----------------------------------------------------------------------------
(* The inductive invariant of what calls have written *)

WritesLast ==
    /\ AllCalls
    /\ \A c \in Calls :
          call[c].wrote => call[c].pc = "done" \/ call[c].req.kind \in Piecewise

LEMMA WritesLastStep == ASSUME WritesLast, [Next]_vars PROVE WritesLast'
<1>1. ASSUME NEW c \in Calls, Step(c) PROVE WritesLast'
  <2>1. Moves(c) /\ DOMAIN call' = Calls /\ call[c].pc \in Busy
    BY <1>1, StepMoves DEF WritesLast
  <2>2. "done" \notin Busy
    BY DEF Busy
  <2> QED BY <2>1, <2>2 DEF WritesLast, AllCalls, Moves, GoesOn, Watches
<1>2. ASSUME NEW c \in Calls, NEW q \in Requests, Begin(c, q) PROVE WritesLast'
  BY <1>2, BeginFields DEF WritesLast, AllCalls
<1>3. ASSUME UserEdits PROVE WritesLast'
  BY <1>3, UserWatched DEF WritesLast, AllCalls, Watches
<1>4. CASE UNCHANGED vars
  BY <1>4 DEF WritesLast, AllCalls, vars
<1> QED BY <1>1, <1>2, <1>3, <1>4 DEF Next, UserEdits

LEMMA InitWritesLast == Init => WritesLast
<1>1. IsCall(NoCall) /\ ~NoCall.wrote
  BY DEF IsCall, NoCall
<1>2. Init => DOMAIN call = Calls /\ \A c \in Calls : call[c] = NoCall
  BY DEF Init
<1> QED BY <1>1, <1>2 DEF WritesLast, AllCalls

\* A call that failed has changed nothing, whichever lookup failed and whatever
\* else overlaps it; updateTags and setDocumentStatus excepted.
THEOREM FailuresLeaveNothing == Spec => []FailedLeftNothing
<1>1. WritesLast => FailedLeftNothing
  BY DEF WritesLast, FailedLeftNothing, Piecewise, req
<1> QED BY <1>1, InitWritesLast, WritesLastStep, PTL DEF Spec

-----------------------------------------------------------------------------
(* Paging *)

ChildrenAreSequences == \A p \in Nodes : kb.kids[p] \in Seq(Rems)

LEMMA TypedChildren == TypeOK => ChildrenAreSequences
  BY DEF TypeOK, Trees, ChildrenAreSequences

\* A listing during which nobody changed the tree has seen the children up to
\* its offset.
Pages(c) ==
    At(c, "list", "look") /\ call[c].fresh =>
        LET kids == kb.kids[call[c].req.parent] IN
        /\ call[c].at \in 0..Len(kids)
        /\ call[c].seen = SubSeq(kids, 1, call[c].at)

ListInv ==
    /\ WritesLast
    /\ \A c \in Calls : call[c].req \in Requests \cup {NoRequest} /\ Pages(c)

\* The next page is the next part of the children.
LEMMA SliceNext ==
    ASSUME NEW s \in Seq(Rems), NEW at \in 0..Len(s), NEW n \in Nat \ {0}
    PROVE  LET longer == SubSeq(s, 1, at) \o Slice(s, at, n) IN
           /\ at + n >= Len(s) => longer = s
           /\ at + n < Len(s) => longer = SubSeq(s, 1, at + n)
<1> DEFINE m == IF at + n > Len(s) THEN Len(s) ELSE at + n
<1>1. m \in at..Len(s) /\ Len(s) \in Nat
  OBVIOUS
<1>2. SubSeq(s, 1, at) \o SubSeq(s, at + 1, m) = SubSeq(s, 1, m)
  <2>1. 1 \in 1..(Len(s) + 1) /\ at \in (1 - 1)..Len(s)
    BY <1>1
  <2> HIDE DEF m
  <2> QED BY <1>1, <2>1, ConcatAdjacentSubSeq
<1>3. SubSeq(s, 1, Len(s)) = s
  BY SubSeqFull
<1>4. at + n >= Len(s) => m = Len(s)
  BY <1>1
<1>5. at + n < Len(s) => m = at + n
  BY <1>1
<1>6. Slice(s, at, n) = SubSeq(s, at + 1, m)
  BY DEF Slice
<1> HIDE DEF m
<1> QED BY <1>2, <1>3, <1>4, <1>5, <1>6

LEMMA ListRequest ==
    ASSUME ListInv, NEW c \in Calls, At(c, "list", "look")
    PROVE  /\ call[c].req.limit \in Nat \ {0} /\ call[c].req.parent \in Nodes
           /\ call[c].pc = "look" /\ call[c].req.kind = "list"
<1>1. call[c].req \in Requests \cup {NoRequest} /\ call[c].req.kind = "list"
      /\ call[c].pc = "look"
  BY DEF ListInv, At, req
<1>2. NoRequest.kind # "list"
  BY DEF NoRequest
<1> QED BY <1>1, <1>2, ListAssumption

\* What a page adds.
LEMMA PageSees ==
    ASSUME ListInv, ChildrenAreSequences, NEW c \in Calls, At(c, "list", "look"),
           call[c].fresh, Page(c)
    PROVE  LET kids == kb.kids[call[c].req.parent] IN
           /\ kb' = kb /\ call'[c].req = call[c].req
           /\ call'[c].pc = "done" => call'[c].seen = kids
           /\ call'[c].pc = "look" =>
                 /\ call'[c].at \in 0..Len(kids)
                 /\ call'[c].seen = SubSeq(kids, 1, call'[c].at)
<1> DEFINE kids  == kb.kids[call[c].req.parent]
           limit == call[c].req.limit
           at    == call[c].at
<1>1. limit \in Nat \ {0} /\ kids \in Seq(Rems)
  BY ListRequest DEF ChildrenAreSequences
<1>2. at \in 0..Len(kids) /\ call[c].seen = SubSeq(kids, 1, at)
  BY DEF ListInv, Pages
<1>3. /\ kb' = kb /\ call'[c].req = call[c].req
      /\ \/ call'[c].pc = "failed"
         \/ /\ call'[c].seen = SubSeq(kids, 1, at) \o Slice(kids, at, limit)
            /\ call'[c].at = at + limit
            /\ call'[c].pc = IF at + limit >= Len(kids) THEN "done" ELSE "look"
  BY <1>2, PageMoves DEF ListInv, WritesLast, Moves, GoesOn
<1> HIDE DEF kids, limit, at
<1>4. Len(kids) \in Nat
  BY <1>1
<1>5. /\ at + limit >= Len(kids) => SubSeq(kids, 1, at) \o Slice(kids, at, limit) = kids
      /\ at + limit < Len(kids) =>
            SubSeq(kids, 1, at) \o Slice(kids, at, limit) = SubSeq(kids, 1, at + limit)
  BY <1>1, <1>2, SliceNext
<1>6. CASE call'[c].pc = "done"
  <2>1. at + limit >= Len(kids)
    BY <1>1, <1>2, <1>3, <1>4, <1>6
  <2> QED BY <1>3, <1>5, <1>6, <2>1 DEF kids
<1>7. CASE call'[c].pc = "look"
  <2>1. ~(at + limit >= Len(kids))
    BY <1>3, <1>7
  <2>2. at + limit < Len(kids) /\ at + limit \in 0..Len(kids)
    BY <1>1, <1>2, <1>4, <2>1
  <2> QED BY <1>3, <1>5, <1>7, <2>2 DEF kids
<1> QED BY <1>3, <1>6, <1>7 DEF kids

LEMMA ListStep == ASSUME ListInv, ChildrenAreSequences, [Next]_vars PROVE ListInv'
<1>1. WritesLast' /\ WritesLast
  BY WritesLastStep DEF ListInv
\* d watches while some other call, or the user, takes a step.
<1>2. ASSUME NEW d \in Calls, Watches(d)
      PROVE  call'[d].req \in Requests \cup {NoRequest} /\ Pages(d)'
  <2>1. call'[d].req \in Requests \cup {NoRequest}
    BY <1>2 DEF ListInv, Watches
  <2>2. ASSUME At(d, "list", "look")', call'[d].fresh PROVE Pages(d)'
    <3>1. /\ call[d].pc = "look" /\ "look" \in Busy /\ call[d].req.kind = "list"
          /\ call[d].fresh /\ kb'.kids = kb.kids
          /\ call'[d].req = call[d].req /\ call'[d].at = call[d].at
          /\ call'[d].seen = call[d].seen
      BY <1>2, <2>2 DEF Watches, At, Busy, req
    <3>2. At(d, "list", "look") /\ Pages(d)
      BY <3>1 DEF At, req, ListInv
    <3> QED BY <3>1, <3>2 DEF Pages
  <2> QED BY <2>1, <2>2 DEF Pages
<1>3. ASSUME NEW c \in Calls, Step(c) PROVE ListInv'
  <2>1. Moves(c) /\ (call'[c].pc = "look" => Page(c)) /\ call'[c].req = call[c].req
    BY <1>1, <1>3, StepMoves DEF WritesLast, Moves, GoesOn
  <2>2. Pages(c)'
    <3> SUFFICES ASSUME At(c, "list", "look")', call'[c].fresh PROVE Pages(c)'
      BY DEF Pages
    <3>1. call'[c].pc = "look" /\ Page(c) /\ call[c].req.kind = "list" /\ kb' = kb
      BY <1>1, <2>1, PageMoves DEF At, req, WritesLast
    <3>2. At(c, "list", "look")
      BY <3>1 DEF Page
    <3>3. call[c].fresh
      BY <1>1, <3>1, PageMoves DEF WritesLast
    <3> QED BY <2>1, <3>1, <3>2, <3>3, PageSees DEF Pages
  <2> QED BY <1>1, <1>2, <2>1, <2>2 DEF ListInv, Moves
<1>4. ASSUME NEW c \in Calls, NEW q \in Requests, Begin(c, q) PROVE ListInv'
  <2>1. /\ call'[c].req = q /\ call'[c].at = 0 /\ call'[c].seen = <<>> /\ kb' = kb
        /\ \A d \in Calls \ {c} : call'[d] = call[d]
    BY <1>1, <1>4, BeginFields DEF WritesLast
  <2>2. Pages(c)'
    <3> SUFFICES ASSUME At(c, "list", "look")' PROVE Pages(c)'
      BY DEF Pages
    <3>1. q.kind = "list"
      BY <2>1 DEF At, req
    <3>2. kb.kids[q.parent] \in Seq(Rems)
      BY <3>1, ListAssumption DEF ChildrenAreSequences
    <3>3. 0 \in 0..Len(kb.kids[q.parent]) /\ SubSeq(kb.kids[q.parent], 1, 0) = <<>>
      BY <3>2, SubSeqEmpty
    <3> QED BY <2>1, <3>3 DEF Pages
  <2>3. \A d \in Calls \ {c} : call'[d].req \in Requests \cup {NoRequest} /\ Pages(d)'
    BY SMTT(20), <2>1 DEF ListInv, Pages, At, req
  <2> QED BY <1>1, <2>1, <2>2, <2>3 DEF ListInv
<1>5. ASSUME UserEdits PROVE ListInv'
  BY <1>1, <1>2, <1>5, UserWatched DEF ListInv, WritesLast
<1>6. CASE UNCHANGED vars
  BY <1>1, <1>6 DEF ListInv, Pages, At, req, vars
<1> QED BY <1>3, <1>4, <1>5, <1>6 DEF Next, UserEdits

LEMMA InitList == Init => ListInv
<1>1. NoCall.pc = "idle" /\ NoCall.req = NoRequest
  BY DEF NoCall
<1>2. Init => \A c \in Calls : call[c] = NoCall
  BY DEF Init
<1> QED BY <1>1, <1>2, InitWritesLast DEF ListInv, Pages, At

\* A listing that ends is the last page of one.
LEMMA ListEnds ==
    ASSUME ListInv, Next, NEW c \in Calls, At(c, "list", "look"), call'[c].pc = "done"
    PROVE  Page(c)
<1>1. WritesLast /\ AllCalls /\ call[c].pc = "look" /\ call[c].req.kind = "list"
  BY DEF ListInv, WritesLast, At, req
<1>2. ASSUME NEW d \in Calls, Step(d) PROVE Page(c)
  <2>1. d = c
    BY <1>1, <1>2, StepMoves DEF Moves, Watches
  <2> QED BY <1>1, <1>2, <2>1 DEF Step, MoveStep, Prepare, InsertLook, InsertCommit,
        ReplaceLook, ReplaceCommit, CreateCommit, JournalCommit, MoveLook, MoveWalk,
        MoveParent, MovePlace, MoveCommit, Look, UpdateCommit, PropertyCommit, DocumentLook,
        DocumentCommit, DocumentVerify, TagsLook, TagsStep, At, req
<1>3. ASSUME NEW d \in Calls, NEW q \in Requests, Begin(d, q) PROVE FALSE
  <2>1. call[d].pc = "idle" /\ call'[d].pc # "done"
        /\ \A e \in Calls \ {d} : call'[e] = call[e]
    BY <1>1, <1>3, BeginFields
  <2> QED BY <1>1, <2>1
<1>4. ASSUME UserEdits PROVE FALSE
  BY <1>1, <1>4, UserWatched DEF Watches
<1> QED BY <1>2, <1>3, <1>4 DEF Next, UserEdits

\* Following cursors from page to page lists every child once and in order, if no
\* other actor moves one meanwhile, for any limits and any overlapping calls.  That
\* the children of a rem stay sequences is left to TypeOK, which TLC checks.
THEOREM PagesCover == Spec /\ []ChildrenAreSequences => PagesCoverAll
<1> DEFINE Covers(c) ==
        At(c, "list", "look") /\ call'[c].pc = "done" /\ call[c].fresh
           => call'[c].seen = kb.kids[req(c).parent]
<1>1. ListInv /\ ChildrenAreSequences /\ [Next]_vars => [\A c \in Calls : Covers(c)]_vars
  <2> SUFFICES ASSUME ListInv, ChildrenAreSequences, Next, NEW c \in Calls,
                      At(c, "list", "look"), call'[c].pc = "done", call[c].fresh
               PROVE  call'[c].seen = kb.kids[req(c).parent]
    OBVIOUS
  <2>1. Page(c)
    BY ListEnds
  <2> QED BY <2>1, PageSees DEF req
<1>2. Spec /\ []ChildrenAreSequences => []ListInv
  BY InitList, ListStep, PTL DEF Spec
<1> QED BY <1>1, <1>2, PTL DEF Spec, PagesCoverAll
=============================================================================
