---------------------------- MODULE FleetProofs -----------------------------
(***************************************************************************)
(* The safety properties of Fleet, for any number of requests, nodes,      *)
(* keys, users and faults, and any length of the log.                      *)
(*                                                                         *)
(* A step of a request is a move of that request, whatever the handler:    *)
(* the lemmas named after the actions show that each of them makes one,    *)
(* and the invariants are proved from that.                                *)
(***************************************************************************)
EXTENDS Fleet, FiniteSetTheorems, SequenceTheorems, TLAPS

AnsweredPCs == {"wait", "done", "back", "gaveUp"}
NodeKinds == {"edit", "expire", "delete", "tags"}

(* What request q, if it is at its pc, has changed or refused to change.   *)
DidFits(q, d) ==
    /\ q.pc \in {"new", "form", "lookup", "call"} => d = None
    /\ q.pc = "update" => d = IF q.refused THEN <<"node", q.id>> ELSE None
    /\ q.pc = "restart" => d = IF q.kind = "edit" THEN <<"node", q.id>> ELSE None
    /\ q.pc = "audit" => IF q.kind \in NodeKinds THEN d = <<"node", q.id>>
                         ELSE d # None /\ \A n \in Ids : d # <<"node", n>>

(* What needs no entry.                                                    *)
Unlogged == UnloggedTests \cup {None}

(* The entry of request r, and what it means for the log that r moves.     *)
Writes(r) == Write(log, r, Action(req[r].kind), Target(req[r].kind, req[r].id))

Records(r, q, d) ==
    \/ req[r].pc \notin AnsweredPCs /\ q.pc \notin AnsweredPCs /\ log' = log
    \/ req[r].pc \notin AnsweredPCs /\ (d \in Unlogged \/ r \in cut') /\ log' = log
    \/ req[r].pc = "audit" /\ q.pc \in AnsweredPCs /\ d = did[r] /\ log' = Writes(r)
    \/ req[r].pc \in AnsweredPCs /\ q.pc \in AnsweredPCs /\ d = did[r] /\ log' = log

Move(r, q, d) ==
    /\ q \in RequestStates /\ Handles(q)
    /\ d \in Subjects \cup {None} /\ DidFits(q, d)
    /\ req' = [req EXCEPT ![r] = q]
    /\ did' = [did EXCEPT ![r] = d]
    /\ cut' \in SUBSET Requests /\ cut \subseteq cut'
    /\ Records(r, q, d)

Moves(r) == \E q \in RequestStates, d \in Subjects \cup {None} : Move(r, q, d)

(* The variables that are not of requests.                                 *)
StoresOK ==
    /\ rows \in [Ids -> Rows \cup {None}]
    /\ keys \in [Ids -> {"none", "valid", "expired"}]
    /\ users \in SUBSET Names /\ served \in SUBSET Ids
    /\ headscale \in {"down", "starting", "loaded", "up"}
    /\ enabled \in BOOLEAN /\ reachable \in BOOLEAN /\ presets \in SUBSET Ids
    /\ faults \in 0..MaxFaults
    /\ stale \in SUBSET Requests /\ unloaded \in SUBSET Requests

AllDidFits == \A r \in Requests : DidFits(req[r], did[r])

(* The entries of a request, and what an entry says of what was done.      *)
By(r) == {i \in DOMAIN log : log[i].by = r}

EntryFits(e, d) ==
    /\ d # None
    /\ \A n \in Ids : Unambiguous(n) => (NamesNode(e, n) <=> d = <<"node", n>>)

NotYetLogged == \A r \in Requests : req[r].pc \notin AnsweredPCs => By(r) = {}

LoggedOnce ==
    \A r \in Requests : req[r].pc \in AnsweredPCs /\ did[r] \notin Unlogged /\ r \notin cut
                        => \E i \in DOMAIN log : By(r) = {i}

LogIsTrue == \A i \in DOMAIN log : EntryFits(log[i], did[log[i].by])

TrailInv == AllDidFits /\ NotYetLogged /\ LoggedOnce /\ LogIsTrue

-----------------------------------------------------------------------------
(* States of one request                                                   *)

LEMMA FormType ==
    ASSUME NEW D \in SUBSET Fields, NEW form, form = [f \in D |-> form[f]],
           \A f \in D : form[f] \in (IF f = "id" THEN Ids \cup {""} ELSE Texts)
    PROVE  form \in Forms
<1>1. form \in [D -> Texts \cup Ids]
  BY DEF Texts
<1>2. QED
  BY <1>1 DEF Forms

LEMMA FormShape ==
    ASSUME NEW form \in Forms
    PROVE  /\ DOMAIN form \in SUBSET Fields
           /\ form = [f \in DOMAIN form |-> form[f]]
           /\ \A f \in DOMAIN form : form[f] \in (IF f = "id" THEN Ids \cup {""} ELSE Texts)
BY DEF Forms

LEMMA NoFieldsType == NoFields \in Forms /\ DOMAIN NoFields = {}
<1>1. DOMAIN NoFields = {} /\ NoFields = [f \in {} |-> NoFields[f]]
  BY DEF NoFields
<1>2. QED
  BY <1>1, FormType

LEMMA Bounds == MaxPolls \in Nat \ {0} /\ MaxFaults \in Nat
BY FleetAssumption, Zenon

LEMMA BlankType == Blank \in RequestStates /\ Blank.pc = "new" /\ Blank.reload = FALSE
<1>1. Blank.polls \in 0..MaxPolls
  BY Bounds DEF Blank
<1>2. QED
  BY <1>1, NoFieldsType DEF Blank, RequestStates, PCs, Things

(* A request that has ended, or waits in the browser, owes nothing.        *)
LEMMA EndedRequest ==
    ASSUME NEW pc \in AnsweredPCs, NEW d
    PROVE  LET q == [Blank EXCEPT !.pc = pc] IN
           /\ q \in RequestStates /\ Handles(q) /\ DidFits(q, d) /\ q.pc = pc
           /\ q.kind = None
<1>1. [Blank EXCEPT !.pc = pc] \in RequestStates
  BY BlankType DEF RequestStates, PCs, AnsweredPCs
<1>2. [Blank EXCEPT !.pc = pc].pc = pc /\ [Blank EXCEPT !.pc = pc].polls < MaxPolls
  BY Bounds DEF Blank
<1>3. QED
  BY <1>1, <1>2 DEF Handles, DidFits, AnsweredPCs, Handling, Blank

Concluded(p, pc, reload) ==
    [Blank EXCEPT !.pc = pc, !.kind = p.kind, !.id = p.id, !.reload = reload]

LEMMA ConcludedRequest ==
    ASSUME NEW pc \in {"restart", "audit"}, NEW p \in RequestStates, NEW reload \in BOOLEAN,
           p.kind \in Kinds, p.id \in Subject(p.kind),
           pc = "restart" => p.kind = "edit"
    PROVE  LET q == Concluded(p, pc, reload) IN
           /\ q \in RequestStates /\ Handles(q)
           /\ q.pc = pc /\ q.kind = p.kind /\ q.id = p.id /\ q.reload = reload
<1> DEFINE q == Concluded(p, pc, reload)
<1>1. q.pc = pc /\ q.kind = p.kind /\ q.id = p.id /\ q.reload = reload
  BY DEF Blank, Concluded
<1>2. q \in RequestStates
  BY BlankType DEF RequestStates, PCs, Concluded
<1>3. Handles(q)
  <2>1. q.pc \notin {"form", "update", "lookup", "call"}
    BY <1>1
  <2>2. QED
    BY <1>1, <2>1 DEF Handles
<1>4. QED
  BY <1>1, <1>2, <1>3

LEMMA RequestTypes ==
    ASSUME FleetTypeOK, NEW r \in Requests
    PROVE  /\ req[r] \in RequestStates /\ Handles(req[r])
           /\ did[r] \in Subjects \cup {None}
           /\ did = [did EXCEPT ![r] = did[r]]
           /\ StoresOK /\ cut \in SUBSET Requests
BY DEF FleetTypeOK, StoresOK

LEMMA SubjectTypes ==
    /\ \A n \in Ids : <<"node", n>> \in Subjects /\ <<"key", n>> \in Subjects /\ <<"preset", n>> \in Subjects
    /\ \A u \in Names : <<"user", u>> \in Subjects
    /\ \A s \in Settings : <<"settings", s>> \in Subjects /\ <<"test", s>> \in Subjects
    /\ <<"service", None>> \in Subjects
BY DEF Subjects

LEMMA NoneIsNoSubject == None \notin Subjects /\ None \notin Kinds /\ None \notin Fields
BY FleetAssumption, Zenon

LEMMA NotNone == \A a, b : <<a, b>> \in Subjects => <<a, b>> # None
BY NoneIsNoSubject

(* A request ends without an entry: it has done nothing, or was cut off.   *)
LEMMA EndsQuietly ==
    ASSUME FleetTypeOK, NEW r \in Requests, NEW pc \in AnsweredPCs, Finish(r, pc),
           req[r].pc \notin AnsweredPCs, log' = log,
           NEW d \in Subjects \cup {None}, did' = [did EXCEPT ![r] = d],
           cut' \in SUBSET Requests, cut \subseteq cut',
           d = None \/ d \in Unlogged \/ r \in cut'
    PROVE  Moves(r)
<1> DEFINE q == [Blank EXCEPT !.pc = pc]
<1>1. q \in RequestStates /\ Handles(q) /\ DidFits(q, d)
  BY EndedRequest
<1>2. req' = [req EXCEPT ![r] = q]
  BY DEF Finish
<1>3. Records(r, q, d)
  BY DEF Records, Unlogged
<1> HIDE DEF q
<1>4. Move(r, q, d)
  BY <1>1, <1>2, <1>3 DEF Move
<1>5. QED
  BY <1>1, <1>4 DEF Moves

(* A request goes on to another statement.                                 *)
LEMMA GoesOn ==
    ASSUME FleetTypeOK, NEW r \in Requests, NEW q \in RequestStates, Handles(q),
           NEW d \in Subjects \cup {None}, DidFits(q, d),
           req' = [req EXCEPT ![r] = q], did' = [did EXCEPT ![r] = d],
           req[r].pc \notin AnsweredPCs, q.pc \notin AnsweredPCs,
           log' = log, cut' = cut
    PROVE  Moves(r)
<1>1. Records(r, q, d)
  BY DEF Records
<1>2. cut' \in SUBSET Requests /\ cut \subseteq cut'
  BY DEF FleetTypeOK
<1>3. Move(r, q, d)
  BY <1>1, <1>2 DEF Move
<1>4. QED
  BY <1>3 DEF Moves

(* A request goes on to the restart or to its entry.                       *)
LEMMA Concludes ==
    ASSUME FleetTypeOK, NEW r \in Requests, NEW pc \in {"restart", "audit"},
           NEW reload \in BOOLEAN, Conclude(r, pc, reload),
           req[r].pc \in {"form", "update", "restart"},
           pc = "restart" => req[r].kind = "edit",
           NEW d \in Subjects, did' = [did EXCEPT ![r] = d],
           IF req[r].kind = "edit" THEN d = <<"node", req[r].id>>
           ELSE \A n \in Ids : d # <<"node", n>>,
           None \notin Subjects, log' = log, cut' = cut
    PROVE  Moves(r)
<1> DEFINE p == Concluded(req[r], pc, reload)
<1>1. req[r] \in RequestStates /\ Handles(req[r])
  BY RequestTypes
<1>2. /\ req[r].kind \in Kinds /\ req[r].id \in Subject(req[r].kind)
      /\ req[r].kind \in {"edit", "restart"} /\ req[r].pc \notin AnsweredPCs
  BY <1>1 DEF Handles, Handling, AnsweredPCs
<1>3. req' = [req EXCEPT ![r] = p]
  BY DEF Conclude, Concluded
<1>4. /\ p \in RequestStates /\ Handles(p)
      /\ p.pc = pc /\ p.kind = req[r].kind /\ p.id = req[r].id
  <2>1. req[r].kind \in Kinds /\ req[r].id \in Subject(req[r].kind)
    BY <1>2
  <2>2. QED
    BY <1>1, <2>1, ConcludedRequest
<1> HIDE DEF p
<1>5. DidFits(p, d)
  <2>1. req[r].kind \in NodeKinds <=> req[r].kind = "edit"
    BY <1>2 DEF NodeKinds
  <2>2. d # None
    OBVIOUS
  <2>3. QED
    BY <1>4, <2>1, <2>2 DEF DidFits
<1>6. p.pc \notin AnsweredPCs
  BY <1>4 DEF AnsweredPCs
<1>7. QED
  BY <1>2, <1>3, <1>4, <1>5, <1>6, GoesOn

-----------------------------------------------------------------------------
(* Moves of the Edit Node form                                             *)

LEMMA ShownType ==
    ASSUME FleetTypeOK, NEW n \in Ids, Listed(n), NEW f \in Fields
    PROVE  Shown(n)[f] \in (IF f = "id" THEN Ids \cup {""} ELSE Texts)
<1>1. CASE f = "id"
  BY <1>1 DEF Shown, Fields
<1>2. CASE f # "id"
  <2>1. f \in Columns
    BY <1>2 DEF Fields
  <2>2. rows[n] \in Rows
    BY DEF FleetTypeOK, Listed
  <2>3. rows[n][f] \in Texts \cup {Null}
    BY <2>1, <2>2 DEF Rows
  <2>4. Text(f, rows[n][f]) \in Texts
    BY <2>3 DEF Text, ToSecond, Texts
  <2>5. QED
    BY <1>2, <2>4 DEF Shown
<1>3. QED
  BY <1>1, <1>2

LEMMA BlankRowType ==
    ASSUME NEW f \in Fields
    PROVE  BlankRow[f] \in (IF f = "id" THEN Ids \cup {""} ELSE Texts)
BY DEF BlankRow, Texts

LEMMA OpenFormMoves ==
    ASSUME FleetTypeOK, AllDidFits, NEW r \in Requests, NEW n \in Ids,
           NEW D \in SUBSET Fields, NEW row,
           \A f \in D : row[f] \in (IF f = "id" THEN Ids \cup {""} ELSE Texts),
           OpenForm(r, n, D, row), faults' \in 0..MaxFaults
    PROVE  Moves(r) /\ StoresOK'
<1> DEFINE form == [f \in D |-> row[f]]
           q == [req[r] EXCEPT !.pc = "form", !.kind = "edit", !.id = n, !.form = form]
<1>1. form \in Forms
  BY FormType
<1>2. req[r] \in RequestStates /\ did[r] \in Subjects \cup {None} /\ did = [did EXCEPT ![r] = did[r]]
  BY RequestTypes
<1>3. req[r].pc = "new" /\ did[r] = None
  BY DEF OpenForm, At, AllDidFits, DidFits
<1>4. q \in RequestStates /\ q.pc = "form" /\ q.kind = "edit" /\ q.id = n
  BY <1>1, <1>2 DEF RequestStates, PCs, Kinds, Things
<1>5. Handles(q)
  <2>1. "edit" \in Kinds /\ Subject("edit") = Ids
    BY DEF Kinds, Subject
  <2>2. QED
    BY <1>4, <2>1 DEF Handles
<1>6. DidFits(q, did[r])
  BY <1>3, <1>4 DEF DidFits
<1>7. req' = [req EXCEPT ![r] = q]
  BY DEF OpenForm
<1>8. UNCHANGED <<database, service, settings, log, history>>
  BY DEF OpenForm
<1>9. StoresOK'
  BY <1>8, RequestTypes DEF StoresOK, database, service, settings, history
<1>10. did' = [did EXCEPT ![r] = did[r]] /\ log' = log /\ cut' = cut
  BY <1>2, <1>8 DEF history
<1> HIDE DEF q
<1>11. Moves(r)
  BY <1>2, <1>3, <1>4, <1>5, <1>6, <1>7, <1>10, GoesOn DEF AnsweredPCs
<1>12. QED
  BY <1>9, <1>11

LEMMA DetailFieldsType == DetailFields \in SUBSET Fields /\ Fields \in SUBSET Fields
BY DEF DetailFields, Fields, Columns

LEMMA LoadFormMoves ==
    ASSUME FleetTypeOK, AllDidFits, NEW r \in Requests, NEW n \in Ids,
           LoadForm(r, n) \/ LoadFormFails(r, n)
    PROVE  Moves(r) /\ StoresOK'
<1>1. faults' \in 0..MaxFaults
  BY Bounds DEF LoadForm, LoadFormFails, FleetTypeOK
<1>2. CASE Listed(n) /\ OpenForm(r, n, Fields, Shown(n))
  BY <1>1, <1>2, DetailFieldsType, ShownType, OpenFormMoves
<1>3. CASE OpenForm(r, n, DetailFields, BlankRow)
  BY <1>1, <1>3, DetailFieldsType, BlankRowType, OpenFormMoves
<1>4. CASE Listed(n) /\ OpenForm(r, n, DetailFields, Shown(n))
  BY <1>1, <1>4, DetailFieldsType, ShownType, OpenFormMoves
<1>5. QED
  BY <1>2, <1>3, <1>4 DEF LoadForm, LoadFormFails

LEMMA TypedText ==
    ASSUME NEW f, NEW text, <<f, text>> \in Typed
    PROVE  f \in Fields /\ text \in (IF f = "id" THEN Ids \cup {""} ELSE Texts)
<1>1. <<f, text>> \in (Columns \X Texts) \cup ({"id"} \X Ids)
  BY FleetAssumption, Zenon
<1>2. QED
  BY <1>1 DEF Fields, Columns

LEMMA SavedForm ==
    ASSUME NEW form \in Forms, NEW f, NEW text,
           f # None => f \in DOMAIN form /\ <<f, text>> \in Typed
    PROVE  LET new == IF f = None THEN form ELSE [form EXCEPT ![f] = text] IN
           /\ new \in Forms /\ DOMAIN new = DOMAIN form
           /\ f \in Fields \cup {None}
           /\ \A g \in DOMAIN form : new[g] = IF g = f /\ f # None THEN text ELSE form[g]
<1>1. CASE f = None
  BY <1>1
<1>2. CASE f # None
  <2> DEFINE new == [form EXCEPT ![f] = text]
  <2>1. /\ DOMAIN form \in SUBSET Fields
        /\ form = [g \in DOMAIN form |-> form[g]]
        /\ \A g \in DOMAIN form : form[g] \in (IF g = "id" THEN Ids \cup {""} ELSE Texts)
    BY FormShape
  <2>2. f \in Fields /\ text \in (IF f = "id" THEN Ids \cup {""} ELSE Texts)
    BY <1>2, TypedText
  <2>3. /\ DOMAIN new = DOMAIN form /\ new = [g \in DOMAIN form |-> new[g]]
        /\ \A g \in DOMAIN form : new[g] = IF g = f THEN text ELSE form[g]
    BY <2>1
  <2>4. \A g \in DOMAIN form : new[g] \in (IF g = "id" THEN Ids \cup {""} ELSE Texts)
    BY <2>1, <2>2, <2>3
  <2> HIDE DEF new
  <2>5. new \in Forms
    BY <2>1, <2>3, <2>4, FormType
  <2>6. QED
    BY <1>2, <2>2, <2>3, <2>5 DEF new
<1>3. QED
  BY <1>1, <1>2

(* What Compare goes on to write is what the form says.                    *)
LEMMA WrittenSet ==
    ASSUME NEW form \in Forms, NEW D \in SUBSET DOMAIN form
    PROVE  LET set == [g \in D |-> FormValue(form, g)] IN
           set \in Forms /\ DOMAIN set = D /\ \A g \in D : set[g] = form[g]
<1> DEFINE set == [g \in D |-> FormValue(form, g)]
<1>1. DOMAIN set = D /\ set = [g \in D |-> set[g]] /\ \A g \in D : set[g] = form[g]
  BY DEF FormValue
<1>2. /\ DOMAIN form \in SUBSET Fields
      /\ \A f \in DOMAIN form : form[f] \in (IF f = "id" THEN Ids \cup {""} ELSE Texts)
  BY FormShape
<1> HIDE DEF set
<1>3. D \in SUBSET Fields /\ \A g \in D : set[g] \in (IF g = "id" THEN Ids \cup {""} ELSE Texts)
  BY <1>1, <1>2
<1>4. set \in Forms
  BY <1>1, <1>3, FormType
<1>5. QED
  BY <1>1, <1>4 DEF set

LEMMA CompareMoves ==
    ASSUME FleetTypeOK, AllDidFits, NEW r \in Requests, At(r, "form"),
           NEW form \in Forms, NEW f \in Fields \cup {None}, NEW danger,
           NEW restart \in BOOLEAN, NEW current, NEW unread \in BOOLEAN,
           Compare(r, f, form, danger, restart, current, unread),
           log' = log, cut' = cut
    PROVE  Moves(r)
<1> DEFINE changed == Changed(form, current)
           allowed == changed \ (IF danger THEN {} ELSE DangerColumns)
           refused == changed # allowed
           set == [g \in allowed |-> FormValue(form, g)]
           q == [req[r] EXCEPT !.pc = "update", !.touched = f, !.form = form,
                               !.set = set, !.refused = refused, !.unread = unread,
                               !.reload = restart]
           subject == <<"node", req[r].id>>
<1>1. /\ req[r] \in RequestStates /\ Handles(req[r]) /\ req[r].pc = "form"
      /\ did[r] \in Subjects \cup {None} /\ did = [did EXCEPT ![r] = did[r]]
  BY RequestTypes DEF At
<1>2. did[r] = None /\ req[r].pc \notin AnsweredPCs
  BY <1>1 DEF AllDidFits, DidFits, AnsweredPCs
<1>3. req[r].kind = "edit" /\ "edit" \in Kinds /\ req[r].id \in Ids /\ req[r].id \in Subject(req[r].kind)
  BY <1>1 DEF Handles, Kinds, Subject
<1>4. cut' \in SUBSET Requests /\ cut \subseteq cut'
  BY DEF FleetTypeOK
<1>5. subject \in Subjects
  BY <1>3, SubjectTypes
<1>6. ASSUME Finish(r, "done"), UNCHANGED did
      PROVE  Moves(r)
  BY <1>1, <1>2, <1>4, <1>6, EndsQuietly DEF AnsweredPCs
<1>7. ASSUME allowed = {}, refused, Did(r, subject), Conclude(r, "audit", FALSE)
      PROVE  Moves(r)
  <2> HIDE DEF changed, allowed, refused, set, q
  <2>1. did' = [did EXCEPT ![r] = subject]
    BY <1>7 DEF Did
  <2>2. Conclude(r, "audit", FALSE)
    BY <1>7
  <2>3. QED
    BY <1>1, <1>3, <1>5, <2>1, <2>2, Concludes, NoneIsNoSubject
<1>8. ASSUME allowed # {}, req' = [req EXCEPT ![r] = q],
             IF refused THEN Did(r, subject) ELSE UNCHANGED did
      PROVE  Moves(r)
  <2>1. allowed \in SUBSET DOMAIN form
    BY DEF Changed
  <2> HIDE DEF allowed
  <2>2. set \in Forms /\ DOMAIN set = allowed
    BY <2>1, WrittenSet
  <2> HIDE DEF set
  <2>3. /\ q \in RequestStates /\ q.pc = "update" /\ q.refused = refused
        /\ q.id = req[r].id /\ q.kind = "edit" /\ q.set = set
    BY <1>1, <1>3, <2>2 DEF RequestStates, PCs
  <2>4. Handles(q)
    BY <1>3, <1>8, <2>2, <2>3 DEF Handles
  <2>5. CASE refused
    <3>1. DidFits(q, subject)
      BY <2>3, <2>5 DEF DidFits
    <3> HIDE DEF q
    <3>2. QED
      BY <1>2, <1>5, <1>8, <2>3, <2>4, <2>5, <3>1, GoesOn DEF Did, AnsweredPCs
  <2>6. CASE ~refused
    <3>1. DidFits(q, did[r])
      BY <1>2, <2>3, <2>6 DEF DidFits
    <3> HIDE DEF q
    <3>2. did' = [did EXCEPT ![r] = did[r]]
      BY <1>1, <1>8, <2>6
    <3>3. QED
      BY <1>1, <1>2, <1>8, <2>3, <2>4, <3>1, <3>2, GoesOn DEF AnsweredPCs
  <2>7. QED
    BY <2>5, <2>6
<1>9. QED
  BY <1>6, <1>7, <1>8 DEF Compare

LEMMA SaveMoves ==
    ASSUME FleetTypeOK, AllDidFits, NEW r \in Requests, NEW f, NEW text,
           NEW danger \in BOOLEAN, NEW restart \in BOOLEAN,
           \/ Submit(r, f, text, danger, restart)
           \/ SubmitUnread(r, f, text, danger, restart)
    PROVE  Moves(r) /\ StoresOK'
<1>1. PICK current, unread : unread \in BOOLEAN /\ Save(r, f, text, danger, restart, current, unread)
  BY DEF Submit, SubmitUnread
<1>2. faults' \in 0..MaxFaults
  <2>1. faults' = faults \/ (faults < MaxFaults /\ faults' = faults + 1)
    BY DEF Submit, SubmitUnread
  <2>2. faults \in 0..MaxFaults
    BY DEF FleetTypeOK
  <2>3. QED
    BY <2>1, <2>2, Bounds
<1>3. /\ At(r, "form") /\ (f # None => f \in DOMAIN req[r].form /\ <<f, text>> \in Typed)
      /\ UNCHANGED <<database, service, settings, log, cut, stale, unloaded>>
  BY <1>1 DEF Save
<1>4. StoresOK'
  BY <1>2, <1>3, RequestTypes DEF StoresOK, database, service, settings
<1> DEFINE form == IF f = None THEN req[r].form ELSE [req[r].form EXCEPT ![f] = text]
<1>5. req[r].form \in Forms
  BY RequestTypes DEF RequestStates
<1>6. form \in Forms /\ f \in Fields \cup {None}
  BY <1>3, <1>5, SavedForm
<1>7. \/ Compare(r, f, form, danger, restart, current, unread)
      \/ Finish(r, "done") /\ UNCHANGED did
  BY <1>1 DEF Save
<1> HIDE DEF form
<1>8. CASE Compare(r, f, form, danger, restart, current, unread)
  BY <1>1, <1>3, <1>4, <1>6, <1>8, CompareMoves
<1>9. CASE Finish(r, "done") /\ UNCHANGED did
  <2>1. did[r] = None /\ req[r].pc \notin AnsweredPCs
    BY <1>3 DEF At, AllDidFits, DidFits, AnsweredPCs
  <2>2. did' = [did EXCEPT ![r] = None]
    BY <1>9, <2>1, RequestTypes
  <2>3. cut' \in SUBSET Requests /\ cut \subseteq cut'
    BY <1>3, RequestTypes
  <2>4. Moves(r)
    BY <1>3, <1>9, <2>1, <2>2, <2>3, EndsQuietly DEF AnsweredPCs
  <2>5. QED
    BY <1>4, <2>4
<1>10. QED
  BY <1>7, <1>8, <1>9

LEMMA GiveUpMoves ==
    ASSUME FleetTypeOK, AllDidFits, NEW r \in Requests, At(r, "update"), GiveUpEdit(r),
           faults' \in 0..MaxFaults
    PROVE  Moves(r) /\ StoresOK'
<1>1. UNCHANGED <<database, service, settings, log, history>>
  BY DEF GiveUpEdit
<1>2. StoresOK'
  BY <1>1, RequestTypes DEF StoresOK, database, service, settings, history
<1>3. /\ req[r] \in RequestStates /\ Handles(req[r]) /\ req[r].pc = "update"
      /\ did[r] \in Subjects \cup {None} /\ did' = [did EXCEPT ![r] = did[r]]
      /\ log' = log /\ cut' = cut /\ cut \in SUBSET Requests
  BY <1>1, RequestTypes DEF At, history
<1>4. /\ did[r] = IF req[r].refused THEN <<"node", req[r].id>> ELSE None
      /\ req[r].kind = "edit" /\ req[r].id \in Ids
  BY <1>3 DEF AllDidFits, DidFits, Handles, Handling, Subject
<1>5. CASE req[r].refused
  <2>1. did[r] \in Subjects /\ did[r] = <<"node", req[r].id>>
    BY <1>4, <1>5, SubjectTypes
  <2>2. Conclude(r, "audit", FALSE)
    BY <1>5 DEF GiveUpEdit
  <2>3. Moves(r)
    BY <1>3, <1>4, <2>1, <2>2, Concludes, NoneIsNoSubject
  <2>4. QED
    BY <1>2, <2>3
<1>6. CASE ~req[r].refused
  <2>1. did[r] = None
    BY <1>4, <1>6
  <2>2. Finish(r, "done")
    BY <1>6 DEF GiveUpEdit
  <2>3. Moves(r)
    BY <1>3, <2>1, <2>2, EndsQuietly DEF AnsweredPCs
  <2>4. QED
    BY <1>2, <2>3
<1>7. QED
  BY <1>5, <1>6

LEMMA WrittenType ==
    ASSUME FleetTypeOK, NEW n \in Ids, NEW set \in Forms, rows[n] # None
    PROVE  Written(set, rows[n]) \in Rows
<1>1. rows \in [Ids -> Rows \cup {None}] /\ rows[n] \in Rows
  BY DEF FleetTypeOK
<1>2. ASSUME NEW c \in Columns
      PROVE  Written(set, rows[n])[c] \in Texts \cup {Null}
  <2>1. c # "id"
    BY DEF Columns
  <2>2. c \in DOMAIN set => set[c] \in Texts
    BY <2>1, FormShape
  <2>3. rows[n][c] \in Texts \cup {Null}
    BY <1>1 DEF Rows
  <2>4. "now" \in Texts
    BY DEF Texts
  <2>5. QED
    BY <2>2, <2>3, <2>4 DEF Written
<1>3. QED
  BY <1>2 DEF Rows, Written

LEMMA UpdateMoves ==
    ASSUME FleetTypeOK, AllDidFits, NEW r \in Requests,
           UpdateNodeFields(r) \/ UpdateFails(r)
    PROVE  Moves(r) /\ StoresOK'
<1> DEFINE n == req[r].id
           set == req[r].set
           m == IF "id" \in DOMAIN set THEN set["id"] ELSE n
<1>1. faults' \in 0..MaxFaults /\ At(r, "update")
  <2>1. At(r, "update") /\ (faults' = faults \/ (faults < MaxFaults /\ faults' = faults + 1))
    BY DEF UpdateNodeFields, UpdateFails
  <2>2. faults \in 0..MaxFaults
    BY DEF FleetTypeOK
  <2>3. QED
    BY <2>1, <2>2, Bounds
<1>2. CASE GiveUpEdit(r)
  BY <1>1, <1>2, GiveUpMoves
<1>3. ASSUME UpdateNodeFields(r), ~GiveUpEdit(r)
      PROVE  Moves(r) /\ StoresOK'
  <2>1. /\ rows' = IF rows[n] = None THEN rows
                   ELSE [rows EXCEPT ![n] = None, ![m] = Written(set, rows[n])]
        /\ Conclude(r, IF req[r].reload THEN "restart" ELSE "audit", FALSE)
        /\ Did(r, <<"node", n>>)
        /\ stale' = (stale \cup Holders(n) \cup Holders(m)) \ {r}
        /\ unloaded' = unloaded \cup {r}
        /\ UNCHANGED <<keys, users, service, settings, log, cut>>
    BY <1>3 DEF UpdateNodeFields
  <2>2. /\ req[r] \in RequestStates /\ Handles(req[r]) /\ req[r].pc = "update"
        /\ StoresOK /\ cut' = cut /\ log' = log
    BY <1>1, <2>1, RequestTypes DEF At
  <2>3. req[r].kind = "edit" /\ n \in Ids
    BY <2>2 DEF Handles, Handling, Subject
  <2>4. set \in Forms
    BY <2>2 DEF RequestStates
  <2> HIDE DEF n, m, set
  <2>5. rows' \in [Ids -> Rows \cup {None}]
    <3>1. CASE rows[n] = None
      BY <2>1, <2>2, <3>1 DEF StoresOK
    <3>2. CASE rows[n] # None
      <4>1. Written(set, rows[n]) \in Rows
        BY <2>3, <2>4, <3>2, WrittenType
      <4>2. rows' = [rows EXCEPT ![n] = None, ![m] = Written(set, rows[n])]
        BY <2>1, <3>2
      <4>3. QED
        BY <2>2, <4>1, <4>2 DEF StoresOK
    <3>3. QED
      BY <3>1, <3>2
  <2>6. StoresOK'
    <3>1. Holders(n) \in SUBSET Requests /\ Holders(m) \in SUBSET Requests
      BY DEF Holders
    <3>2. stale' \in SUBSET Requests /\ unloaded' \in SUBSET Requests
      BY <2>1, <2>2, <3>1 DEF StoresOK
    <3>3. QED
      BY <1>1, <2>1, <2>2, <2>5, <3>2 DEF StoresOK, service, settings
  <2>7. <<"node", n>> \in Subjects /\ did' = [did EXCEPT ![r] = <<"node", n>>]
    BY <2>1, <2>3, SubjectTypes DEF Did
  <2>8. PICK pc \in {"restart", "audit"} : Conclude(r, pc, FALSE)
    BY <2>1
  <2>9. Moves(r)
    BY <2>2, <2>3, <2>7, <2>8, Concludes, NoneIsNoSubject DEF n
  <2>10. QED
    BY <2>6, <2>9
<1>4. CASE UpdateFails(r)
  BY <1>2, <1>4 DEF UpdateFails
<1>5. QED
  BY <1>2, <1>3, <1>4

-----------------------------------------------------------------------------
(* Moves of restarts and of the wait page                                  *)

LEMMA RestartMoves ==
    ASSUME FleetTypeOK, AllDidFits, NEW r \in Requests,
           RestartHeadscale(r) \/ RestartFails(r)
    PROVE  Moves(r) /\ StoresOK'
<1>1. /\ req[r] \in RequestStates /\ Handles(req[r]) /\ req[r].pc = "restart"
      /\ did[r] \in Subjects \cup {None} /\ did = [did EXCEPT ![r] = did[r]]
      /\ StoresOK /\ cut \in SUBSET Requests
  BY RequestTypes DEF At, RestartHeadscale, RestartFails
<1>2. /\ req[r].kind \in {"edit", "restart"}
      /\ did[r] = IF req[r].kind = "edit" THEN <<"node", req[r].id>> ELSE None
  BY <1>1 DEF Handles, AllDidFits, DidFits
<1>3. req[r].kind = "edit" => req[r].id \in Ids /\ did[r] \in Subjects
  BY <1>1, <1>2, SubjectTypes DEF Handles, Handling, Subject
<1>4. CASE RestartHeadscale(r)
  <2> DEFINE d == IF req[r].kind = "edit" THEN did[r] ELSE <<"service", None>>
  <2>1. /\ Conclude(r, "audit", TRUE) /\ did' = [did EXCEPT ![r] = d]
        /\ headscale' = "starting"
        /\ UNCHANGED <<database, served, Env, cut, stale, unloaded>>
    BY <1>4 DEF RestartHeadscale, Did
  <2>2. StoresOK'
    BY <1>1, <2>1 DEF StoresOK, database, Env, settings
  <2>3. d \in Subjects
    BY <1>3, SubjectTypes
  <2>4. IF req[r].kind = "edit" THEN d = <<"node", req[r].id>> ELSE \A n \in Ids : d # <<"node", n>>
    BY <1>2
  <2>5. log' = log /\ cut' = cut
    BY <2>1 DEF Env
  <2> HIDE DEF d
  <2>6. Moves(r)
    BY <1>1, <2>1, <2>3, <2>4, <2>5, Concludes, NoneIsNoSubject
  <2>7. QED
    BY <2>2, <2>6
<1>5. CASE RestartFails(r)
  <2>1. faults' \in 0..MaxFaults
    BY <1>1, <1>5, Bounds DEF RestartFails, StoresOK
  <2>2. /\ headscale' \in {headscale, "starting", "down"}
        /\ UNCHANGED <<database, served, settings, log, did, stale, unloaded>>
    BY <1>5 DEF RestartFails
  <2>3. StoresOK'
    BY <1>1, <2>1, <2>2 DEF StoresOK, database, settings
  <2>4. did' = [did EXCEPT ![r] = did[r]]
    BY <1>1, <2>2
  <2>5. CASE req[r].kind = "edit"
    <3>1. Conclude(r, "audit", FALSE) /\ cut' = cut
      BY <1>5, <2>5 DEF RestartFails
    <3>2. did[r] \in Subjects /\ did[r] = <<"node", req[r].id>>
      BY <1>2, <1>3, <2>5
    <3>3. Moves(r)
      BY <1>1, <2>2, <2>4, <2>5, <3>1, <3>2, Concludes, NoneIsNoSubject
    <3>4. QED
      BY <2>3, <3>3
  <2>6. CASE req[r].kind # "edit"
    <3>1. Finish(r, "done") /\ cut' = cut \cup {r}
      BY <1>5, <2>6 DEF RestartFails
    <3>2. Moves(r)
      BY <1>1, <2>2, <2>4, <3>1, EndsQuietly DEF AnsweredPCs
    <3>3. QED
      BY <2>3, <3>2
  <2>7. QED
    BY <2>5, <2>6
<1>6. QED
  BY <1>4, <1>5

(* A wait page stays one or is left.                                       *)
LEMMA StaysAnswered ==
    ASSUME FleetTypeOK, NEW r \in Requests, req[r].pc \in AnsweredPCs,
           NEW q \in RequestStates, q.pc \in AnsweredPCs, req' = [req EXCEPT ![r] = q],
           q.pc = "wait" => q.polls < MaxPolls,
           UNCHANGED <<log, did, cut>>
    PROVE  Moves(r)
<1>1. did[r] \in Subjects \cup {None} /\ did' = [did EXCEPT ![r] = did[r]] /\ cut \in SUBSET Requests
  BY RequestTypes
<1>2. Handles(q) /\ DidFits(q, did[r])
  BY DEF Handles, DidFits, Handling, AnsweredPCs
<1>3. Move(r, q, did[r])
  BY <1>1, <1>2 DEF Move, Records
<1>4. QED
  BY <1>1, <1>3 DEF Moves

(* One more poll without an answer.                                        *)
LEMMA PolledRequest ==
    ASSUME FleetTypeOK, NEW r \in Requests, At(r, "wait"),
           req' = [req EXCEPT ![r].polls = @ + 1,
                              ![r].pc = IF req[r].polls + 1 < MaxPolls THEN @ ELSE "gaveUp"],
           UNCHANGED <<log, did, cut>>
    PROVE  /\ Moves(r)
           /\ req'[r].pc \in {"wait", "gaveUp"}
<1> DEFINE pc == IF req[r].polls + 1 < MaxPolls THEN "wait" ELSE "gaveUp"
           q == [req[r] EXCEPT !.polls = @ + 1, !.pc = pc]
<1>1. /\ req[r] \in RequestStates /\ req[r].pc = "wait"
      /\ req[r].polls \in 0..MaxPolls /\ req[r].polls < MaxPolls
  BY RequestTypes DEF At, RequestStates, Handles
<1>2. req' = [req EXCEPT ![r] = q]
  BY <1>1
<1>3. q.pc \in {"wait", "gaveUp"} /\ (q.pc = "wait" => q.polls < MaxPolls)
  BY <1>1 DEF RequestStates
<1>4. q \in RequestStates
  <2>1. req[r].polls + 1 \in 0..MaxPolls
    BY <1>1, Bounds
  <2>2. QED
    BY <1>1, <2>1 DEF RequestStates, PCs
<1> HIDE DEF q
<1>5. Moves(r)
  BY <1>1, <1>2, <1>3, <1>4, StaysAnswered DEF AnsweredPCs
<1>6. req'[r] = q
  BY <1>2 DEF FleetTypeOK
<1>7. QED
  BY <1>3, <1>5, <1>6

LEMMA PollMoves ==
    ASSUME FleetTypeOK, NEW r \in Requests, Poll(r) \/ PollFails(r)
    PROVE  Moves(r) /\ StoresOK'
<1>1. /\ At(r, "wait") /\ UNCHANGED <<database, service, settings, log, history>>
      /\ faults' = faults \/ (faults < MaxFaults /\ faults' = faults + 1)
  BY DEF Poll, PollFails, Env
<1>2. StoresOK /\ faults' \in 0..MaxFaults
  BY <1>1, RequestTypes, Bounds DEF StoresOK
<1>3. StoresOK'
  BY <1>1, <1>2 DEF StoresOK, database, service, settings, history
<1>4. UNCHANGED <<log, did, cut>> /\ req[r].pc \in AnsweredPCs
  BY <1>1 DEF history, At, AnsweredPCs
<1>5. CASE Finish(r, "back")
  <2> DEFINE q == [Blank EXCEPT !.pc = "back"]
  <2>1. q \in RequestStates /\ q.pc = "back"
    BY EndedRequest DEF AnsweredPCs
  <2>2. req' = [req EXCEPT ![r] = q]
    BY <1>5 DEF Finish
  <2> HIDE DEF q
  <2>3. Moves(r)
    BY <1>4, <2>1, <2>2, StaysAnswered DEF AnsweredPCs
  <2>4. QED
    BY <1>3, <2>3
<1>6. CASE req' = [req EXCEPT ![r].polls = @ + 1,
                              ![r].pc = IF req[r].polls + 1 < MaxPolls THEN @ ELSE "gaveUp"]
  BY <1>1, <1>3, <1>4, <1>6, PolledRequest
<1>7. QED
  BY <1>5, <1>6 DEF Poll, PollFails

-----------------------------------------------------------------------------
(* Moves of the other handlers                                             *)

LEMMA ArriveMoves ==
    ASSUME FleetTypeOK, AllDidFits, NEW r \in Requests, NEW kind \in Kinds, NEW id \in Things,
           Arrive(r, kind, id)
    PROVE  Moves(r) /\ StoresOK'
<1>1. UNCHANGED <<database, service, settings, log, faults, history>>
  BY DEF Arrive, Env
<1>2. StoresOK'
  BY <1>1, RequestTypes DEF StoresOK, database, service, settings, history
<1>3. /\ req[r] \in RequestStates /\ did[r] \in Subjects \cup {None}
      /\ did' = [did EXCEPT ![r] = did[r]] /\ log' = log /\ cut' = cut /\ cut \in SUBSET Requests
  BY <1>1, RequestTypes DEF history
<1>4. req[r].pc = "new" /\ did[r] = None /\ kind # "edit" /\ id \in Subject(kind)
  BY DEF Arrive, At, AllDidFits, DidFits
<1>5. CASE Finish(r, "done")
  <2>1. Moves(r)
    BY <1>3, <1>4, <1>5, EndsQuietly DEF AnsweredPCs
  <2>2. QED
    BY <1>2, <2>1
<1>6. CASE ~Finish(r, "done")
  <2> DEFINE pc == CASE kind = "restart" -> "restart"
                     [] kind = "key"     -> "lookup"
                     [] OTHER            -> "call"
             q == [req[r] EXCEPT !.kind = kind, !.id = id, !.pc = pc]
  <2>1. req' = [req EXCEPT ![r] = q]
    BY <1>6 DEF Arrive
  <2>2. /\ pc \in {"restart", "lookup", "call"}
        /\ pc = "restart" => kind = "restart"
        /\ pc = "lookup" => kind = "key"
        /\ pc = "call" => kind # "restart"
    OBVIOUS
  <2> HIDE DEF pc
  <2>3. q \in RequestStates /\ q.pc = pc /\ q.kind = kind /\ q.id = id
    BY <1>3, <2>2 DEF RequestStates, PCs
  <2> HIDE DEF q
  <2>4. Handles(q)
    BY <1>4, <2>2, <2>3 DEF Handles
  <2>5. DidFits(q, did[r])
    BY <1>4, <2>2, <2>3 DEF DidFits
  <2>6. Moves(r)
    BY <1>3, <1>4, <2>1, <2>2, <2>3, <2>4, <2>5, GoesOn DEF AnsweredPCs
  <2>7. QED
    BY <1>2, <2>6
<1>7. QED
  BY <1>5, <1>6

LEMMA LookUpMoves ==
    ASSUME FleetTypeOK, AllDidFits, NEW r \in Requests, LookUpUser(r)
    PROVE  Moves(r) /\ StoresOK'
<1>1. UNCHANGED <<database, service, settings, log, faults, history>>
  BY DEF LookUpUser, Env
<1>2. StoresOK'
  BY <1>1, RequestTypes DEF StoresOK, database, service, settings, history
<1>3. /\ req[r] \in RequestStates /\ Handles(req[r]) /\ did[r] \in Subjects \cup {None}
      /\ did' = [did EXCEPT ![r] = did[r]] /\ log' = log /\ cut' = cut /\ cut \in SUBSET Requests
  BY <1>1, RequestTypes DEF history
<1>4. req[r].pc = "lookup" /\ did[r] = None /\ req[r].kind = "key"
  BY <1>3 DEF LookUpUser, At, AllDidFits, DidFits, Handles
<1>5. CASE Finish(r, "done")
  <2>1. Moves(r)
    BY <1>3, <1>4, <1>5, EndsQuietly DEF AnsweredPCs
  <2>2. QED
    BY <1>2, <2>1
<1>6. CASE Goto(r, "call")
  <2> DEFINE q == [req[r] EXCEPT !.pc = "call"]
  <2>1. req' = [req EXCEPT ![r] = q]
    BY <1>6 DEF Goto
  <2>2. q \in RequestStates /\ q.pc = "call" /\ q.kind = req[r].kind /\ q.id = req[r].id
    BY <1>3 DEF RequestStates, PCs
  <2> HIDE DEF q
  <2>3. Handles(q) /\ DidFits(q, did[r])
    BY <1>3, <1>4, <2>2 DEF Handles, Handling, DidFits
  <2>4. Moves(r)
    BY <1>3, <1>4, <2>1, <2>2, <2>3, GoesOn DEF AnsweredPCs
  <2>5. QED
    BY <1>2, <2>4
<1>7. QED
  BY <1>5, <1>6 DEF LookUpUser

(* What a call did is what its entry will say.                             *)
EffectFits(r, d) ==
    IF Unrecorded(r) THEN d \in UnloggedTests
    ELSE /\ d \in Subjects
         /\ IF req[r].kind \in NodeKinds THEN d = <<"node", req[r].id>>
            ELSE \A n \in Ids : d # <<"node", n>>

LEMMA NodeEffect ==
    ASSUME FleetTypeOK, NEW r \in Requests, Handles(req[r]), At(r, "call"),
           req[r].kind \in NodeKinds, req[r].kind # "edit",
           ExpireNode(r) \/ DeleteNode(r) \/ SetNodeTags(r),
           UNCHANGED <<headscale, unloaded>>, faults' \in 0..MaxFaults
    PROVE  StoresOK' /\ \E d \in Subjects \cup {None} : did' = [did EXCEPT ![r] = d] /\ EffectFits(r, d)
<1> DEFINE n == req[r].id
           d == <<"node", n>>
<1>1. n \in Ids /\ StoresOK
  BY RequestTypes DEF At, Handles, Handling, Subject, NodeKinds
<1>2. did' = [did EXCEPT ![r] = d]
  BY DEF ExpireNode, DeleteNode, SetNodeTags, Did
<1>3. d \in Subjects /\ EffectFits(r, d)
  BY <1>1, SubjectTypes DEF EffectFits, Unrecorded, NodeKinds
<1>4. rows' \in [Ids -> Rows \cup {None}]
  <2>1. rows \in [Ids -> Rows \cup {None}]
    BY <1>1 DEF StoresOK
  <2>2. ASSUME rows[n] # None, NEW c \in Columns
        PROVE  [rows EXCEPT ![n][c] = "new"] \in [Ids -> Rows \cup {None}]
    <3>1. rows[n] \in Rows
      BY <1>1, <2>1, <2>2
    <3>2. [rows[n] EXCEPT ![c] = "new"] \in Rows
      BY <3>1 DEF Rows, Texts
    <3>3. QED
      BY <1>1, <2>1, <3>2
  <2>3. "expiry" \in Columns /\ "deleted_at" \in Columns
    BY DEF Columns
  <2>4. [rows EXCEPT ![n] = None] \in [Ids -> Rows \cup {None}]
    BY <1>1, <2>1
  <2> HIDE DEF n
  <2>5. CASE ExpireNode(r)
    BY <2>1, <2>2, <2>3, <2>5 DEF ExpireNode, n
  <2>6. CASE DeleteNode(r)
    BY <2>2, <2>3, <2>4, <2>6 DEF DeleteNode, n
  <2>7. CASE SetNodeTags(r)
    BY <2>1, <2>7 DEF SetNodeTags, database
  <2>8. QED
    BY <2>5, <2>6, <2>7
<1>5. stale' \in SUBSET Requests
  <2>1. Holders(n) \in SUBSET Requests
    BY DEF Holders
  <2>2. QED
    BY <1>1, <2>1 DEF StoresOK, ExpireNode, DeleteNode, SetNodeTags, Disturb
<1>6. StoresOK'
  BY <1>1, <1>4, <1>5 DEF StoresOK, ExpireNode, DeleteNode, SetNodeTags, settings, database
<1> HIDE DEF d
<1>7. QED
  BY <1>2, <1>3, <1>6

LEMMA OtherEffect ==
    ASSUME FleetTypeOK, AllDidFits, NEW r \in Requests, Handles(req[r]), At(r, "call"),
           \/ CreatePreAuthKey(r) \/ ExpirePreAuthKeyByID(r)
           \/ CreateUser(r) \/ DeleteUser(r)
           \/ SaveSetting(r) \/ TestSetting(r) \/ SavePreset(r),
           UNCHANGED <<headscale, unloaded>>, faults' \in 0..MaxFaults
    PROVE  StoresOK' /\ \E d \in Subjects \cup {None} : did' = [did EXCEPT ![r] = d] /\ EffectFits(r, d)
<1>1. req[r].id \in Subject(req[r].kind) /\ StoresOK
  BY RequestTypes DEF At, Handles, Handling
<1>2. StoresOK'
  <2>1. CASE CreatePreAuthKey(r)
    BY <1>1, <2>1 DEF CreatePreAuthKey, StoresOK, settings
  <2>2. CASE ExpirePreAuthKeyByID(r)
    BY <1>1, <2>2 DEF ExpirePreAuthKeyByID, StoresOK, settings
  <2>3. CASE CreateUser(r) \/ DeleteUser(r)
    <3>1. req[r].id \in Names
      BY <1>1, <2>3 DEF CreateUser, DeleteUser, Subject
    <3>2. QED
      BY <1>1, <2>3, <3>1 DEF CreateUser, DeleteUser, StoresOK, settings
  <2>4. CASE SaveSetting(r)
    BY <1>1, <2>4 DEF SaveSetting, StoresOK, database
  <2>5. CASE TestSetting(r)
    BY <1>1, <2>5 DEF TestSetting, StoresOK, database
  <2>6. CASE SavePreset(r)
    <3>1. req[r].id \in Ids
      BY <1>1, <2>6 DEF SavePreset, Subject
    <3>2. QED
      BY <1>1, <2>6, <3>1 DEF SavePreset, StoresOK, database
  <2>7. QED
    BY <2>1, <2>2, <2>3, <2>4, <2>5, <2>6
<1>3. \E d \in Subjects \cup {None} : did' = [did EXCEPT ![r] = d] /\ EffectFits(r, d)
  <2>1. CASE CreatePreAuthKey(r)
    <3>1. PICK k \in Ids : did' = [did EXCEPT ![r] = <<"key", k>>]
      BY <2>1 DEF CreatePreAuthKey, Did
    <3>2. EffectFits(r, <<"key", k>>)
      BY <2>1, SubjectTypes DEF EffectFits, Unrecorded, CreatePreAuthKey, NodeKinds
    <3>3. QED
      BY <3>1, <3>2, SubjectTypes
  <2>2. CASE ExpirePreAuthKeyByID(r)
    <3>1. req[r].id \in Ids /\ did' = [did EXCEPT ![r] = <<"key", req[r].id>>]
      BY <1>1, <2>2 DEF ExpirePreAuthKeyByID, Subject, Did
    <3>2. EffectFits(r, <<"key", req[r].id>>)
      BY <2>2, <3>1, SubjectTypes DEF EffectFits, Unrecorded, ExpirePreAuthKeyByID, NodeKinds
    <3>3. QED
      BY <3>1, <3>2, SubjectTypes
  <2>3. CASE CreateUser(r) \/ DeleteUser(r)
    <3>1. req[r].id \in Names /\ did' = [did EXCEPT ![r] = <<"user", req[r].id>>]
      BY <1>1, <2>3 DEF CreateUser, DeleteUser, Subject, Did
    <3>2. EffectFits(r, <<"user", req[r].id>>)
      BY <2>3, <3>1, SubjectTypes DEF EffectFits, Unrecorded, CreateUser, DeleteUser, NodeKinds
    <3>3. QED
      BY <3>1, <3>2, SubjectTypes
  <2>4. CASE SaveSetting(r)
    <3>1. req[r].id \in Settings /\ did' = [did EXCEPT ![r] = <<"settings", req[r].id>>]
      BY <1>1, <2>4 DEF SaveSetting, Subject, Did
    <3>2. EffectFits(r, <<"settings", req[r].id>>)
      BY <2>4, <3>1, SubjectTypes DEF EffectFits, Unrecorded, SaveSetting, NodeKinds
    <3>3. QED
      BY <3>1, <3>2, SubjectTypes
  <2>5. CASE TestSetting(r)
    <3>1. req[r].id \in Settings /\ did' = [did EXCEPT ![r] = <<"test", req[r].id>>]
      BY <1>1, <2>5 DEF TestSetting, Subject, Did
    <3>2. <<"test", req[r].id>> \in Subjects
      BY <3>1, SubjectTypes
    <3>3. Unrecorded(r) => <<"test", req[r].id>> \in UnloggedTests
      BY <3>1 DEF Unrecorded, UnloggedTests, Settings
    <3>4. EffectFits(r, <<"test", req[r].id>>)
      BY <2>5, <3>2, <3>3 DEF EffectFits, TestSetting, NodeKinds
    <3>5. QED
      BY <3>1, <3>2, <3>4
  <2>6. CASE SavePreset(r)
    <3>1. req[r].id \in Ids /\ did' = [did EXCEPT ![r] = <<"preset", req[r].id>>]
      BY <1>1, <2>6 DEF SavePreset, Subject, Did
    <3>2. EffectFits(r, <<"preset", req[r].id>>)
      BY <2>6, <3>1, SubjectTypes DEF EffectFits, Unrecorded, SavePreset, NodeKinds
    <3>3. QED
      BY <3>1, <3>2, SubjectTypes
  <2>7. QED
    BY <2>1, <2>2, <2>3, <2>4, <2>5, <2>6
<1>4. QED
  BY <1>2, <1>3

LEMMA CallMoves ==
    ASSUME FleetTypeOK, AllDidFits, NEW r \in Requests, Call(r) \/ CallFails(r)
    PROVE  Moves(r) /\ StoresOK'
<1>1. /\ req[r] \in RequestStates /\ Handles(req[r]) /\ StoresOK /\ cut \in SUBSET Requests
      /\ did[r] \in Subjects \cup {None} /\ did = [did EXCEPT ![r] = did[r]]
  BY RequestTypes
<1>2. req[r].pc \in {"call", "lookup"} /\ did[r] = None
  BY DEF Call, CallFails, At, AllDidFits, DidFits
<1>3. faults' \in 0..MaxFaults
  <2>1. faults' = faults \/ (faults < MaxFaults /\ faults' = faults + 1)
    BY DEF Call, CallFails
  <2>2. QED
    BY <1>1, <2>1, Bounds DEF StoresOK
<1>4. ASSUME At(r, "call"), Effect(r)
      PROVE  /\ StoresOK' /\ log' = log
             /\ \E d \in Subjects \cup {None} : did' = [did EXCEPT ![r] = d] /\ EffectFits(r, d)
  <2>1. UNCHANGED <<headscale, log, unloaded>>
    BY <1>4 DEF Effect
  <2>2. CASE ExpireNode(r) \/ DeleteNode(r) \/ SetNodeTags(r)
    <3>1. req[r].kind \in NodeKinds /\ req[r].kind # "edit"
      BY <2>2 DEF ExpireNode, DeleteNode, SetNodeTags, NodeKinds
    <3>2. QED
      BY <1>1, <1>3, <1>4, <2>1, <2>2, <3>1, NodeEffect
  <2>3. CASE \/ CreatePreAuthKey(r) \/ ExpirePreAuthKeyByID(r)
             \/ CreateUser(r) \/ DeleteUser(r)
             \/ SaveSetting(r) \/ TestSetting(r) \/ SavePreset(r)
    BY <1>1, <1>3, <1>4, <2>1, <2>3, OtherEffect
  <2>4. QED
    BY <1>4, <2>2, <2>3 DEF Effect
<1>5. ASSUME UNCHANGED <<database, service, settings, stale, unloaded>>
      PROVE  StoresOK'
  BY <1>1, <1>3, <1>5 DEF StoresOK, database, service, settings
<1>6. CASE Call(r)
  <2>1. At(r, "call") /\ cut' = cut
    BY <1>6 DEF Call
  <2>2. CASE Effect(r) /\ ~Unrecorded(r) /\ Goto(r, "audit")
    <3>1. PICK d \in Subjects \cup {None} : did' = [did EXCEPT ![r] = d] /\ EffectFits(r, d)
      BY <1>4, <2>1, <2>2
    <3> DEFINE q == [req[r] EXCEPT !.pc = "audit"]
    <3>2. req' = [req EXCEPT ![r] = q]
      BY <2>2 DEF Goto
    <3>3. q \in RequestStates /\ q.pc = "audit" /\ q.kind = req[r].kind /\ q.id = req[r].id
      BY <1>1 DEF RequestStates, PCs
    <3> HIDE DEF q
    <3>4. Handles(q)
      BY <1>1, <2>1, <3>3 DEF Handles, Handling, At
    <3>5. DidFits(q, d)
      BY <2>2, <3>1, <3>3, NoneIsNoSubject DEF DidFits, EffectFits
    <3>6. log' = log /\ StoresOK'
      BY <1>4, <2>1, <2>2
    <3>7. Moves(r)
      BY <1>2, <2>1, <3>1, <3>2, <3>3, <3>4, <3>5, <3>6, GoesOn DEF AnsweredPCs
    <3>8. QED
      BY <3>6, <3>7
  <2>3. CASE Effect(r) /\ Unrecorded(r) /\ Finish(r, "done")
    <3>1. PICK d \in Subjects \cup {None} : did' = [did EXCEPT ![r] = d] /\ EffectFits(r, d)
      BY <1>4, <2>1, <2>3
    <3>2. log' = log /\ StoresOK' /\ d \in Unlogged
      BY <1>4, <2>1, <2>3, <3>1 DEF EffectFits, Unlogged
    <3>3. Moves(r)
      BY <1>1, <1>2, <2>1, <2>3, <3>1, <3>2, EndsQuietly DEF AnsweredPCs
    <3>4. QED
      BY <3>2, <3>3
  <2>4. CASE Finish(r, "done") /\ UNCHANGED <<database, service, settings, log, history>>
    <3>1. log' = log /\ did' = [did EXCEPT ![r] = None]
      BY <1>1, <1>2, <2>4 DEF history
    <3>2. StoresOK'
      BY <1>5, <2>4 DEF history
    <3>3. Moves(r)
      BY <1>1, <1>2, <2>1, <2>4, <3>1, EndsQuietly DEF AnsweredPCs
    <3>4. QED
      BY <3>2, <3>3
  <2>5. QED
    BY <1>6, <2>2, <2>3, <2>4 DEF Call
<1>7. CASE CallFails(r)
  <2>1. Finish(r, "done") /\ cut' = cut \cup {r}
    BY <1>7 DEF CallFails
  <2>2. CASE At(r, "call") /\ Effect(r)
    <3>1. PICK d \in Subjects \cup {None} : did' = [did EXCEPT ![r] = d]
      BY <1>4, <2>2
    <3>2. log' = log /\ StoresOK'
      BY <1>4, <2>2
    <3>3. Moves(r)
      BY <1>1, <1>2, <2>1, <3>1, <3>2, EndsQuietly DEF AnsweredPCs
    <3>4. QED
      BY <3>2, <3>3
  <2>3. CASE UNCHANGED <<database, service, settings, log, did, stale, unloaded>>
    <3>1. log' = log /\ did' = [did EXCEPT ![r] = None]
      BY <1>1, <1>2, <2>3
    <3>2. StoresOK'
      BY <1>5, <2>3
    <3>3. Moves(r)
      BY <1>1, <1>2, <2>1, <3>1, EndsQuietly DEF AnsweredPCs
    <3>4. QED
      BY <3>2, <3>3
  <2>4. QED
    BY <1>7, <2>2, <2>3 DEF CallFails
<1>8. QED
  BY <1>6, <1>7

LEMMA AuditMoves ==
    ASSUME FleetTypeOK, NEW r \in Requests, Audit(r) \/ AuditFails(r)
    PROVE  Moves(r) /\ StoresOK'
<1> DEFINE pc == IF req[r].reload THEN "wait" ELSE "done"
           q == [Blank EXCEPT !.pc = pc]
<1>1. /\ req[r].pc = "audit" /\ Finish(r, pc)
      /\ UNCHANGED <<database, service, settings, did, stale, unloaded>>
      /\ cut' \in {cut, cut \cup {r}}
      /\ faults' = faults \/ (faults < MaxFaults /\ faults' = faults + 1)
  BY DEF Audit, AuditFails, At, Answered, history
<1>2. /\ StoresOK /\ cut \in SUBSET Requests /\ did[r] \in Subjects \cup {None}
      /\ did' = [did EXCEPT ![r] = did[r]]
  BY <1>1, RequestTypes
<1>3. StoresOK'
  BY <1>1, <1>2, Bounds DEF StoresOK, database, service, settings
<1>4. pc \in AnsweredPCs
  BY DEF AnsweredPCs
<1> HIDE DEF pc
<1>5. q \in RequestStates /\ Handles(q) /\ DidFits(q, did[r]) /\ q.pc = pc
  BY <1>4, EndedRequest
<1>6. req' = [req EXCEPT ![r] = q]
  BY <1>1 DEF Finish
<1> HIDE DEF q
<1>7. \/ log' = Writes(r)
      \/ log' = log /\ r \in cut'
  BY DEF Audit, AuditFails, Writes
<1>8. Records(r, q, did[r])
  BY <1>1, <1>4, <1>5, <1>7 DEF Records, AnsweredPCs
<1>9. cut' \in SUBSET Requests /\ cut \subseteq cut'
  BY <1>1, <1>2
<1>10. Move(r, q, did[r])
  BY <1>2, <1>5, <1>6, <1>8, <1>9 DEF Move
<1>11. QED
  BY <1>2, <1>3, <1>5, <1>10 DEF Moves

-----------------------------------------------------------------------------
(* Every step of a request is a move of it.                                *)
RequestStep(r) == Operator(r) \/ Step(r) \/ StepFails(r)

LEMMA StepMoves ==
    ASSUME FleetTypeOK, AllDidFits, NEW r \in Requests, RequestStep(r)
    PROVE  Moves(r) /\ StoresOK'
<1>1. CASE Operator(r)
  <2>1. CASE \E n \in Ids : LoadForm(r, n) \/ LoadFormFails(r, n)
    BY <2>1, LoadFormMoves
  <2>2. CASE \E edit \in Typed \cup {<<None, "">>}, danger, restart \in BOOLEAN :
                \/ Submit(r, edit[1], edit[2], danger, restart)
                \/ SubmitUnread(r, edit[1], edit[2], danger, restart)
    BY <2>2, SaveMoves, Zenon
  <2>3. CASE \E kind \in Kinds, id \in Ids \cup Names \cup Settings \cup {None} : Arrive(r, kind, id)
    BY <2>3, ArriveMoves DEF Things
  <2>4. QED
    BY <1>1, <2>1, <2>2, <2>3 DEF Operator
<1>2. CASE UpdateNodeFields(r) \/ UpdateFails(r)
  BY <1>2, UpdateMoves
<1>3. CASE RestartHeadscale(r) \/ RestartFails(r)
  BY <1>3, RestartMoves
<1>4. CASE LookUpUser(r)
  BY <1>4, LookUpMoves
<1>5. CASE Call(r) \/ CallFails(r)
  BY <1>5, CallMoves
<1>6. CASE Audit(r) \/ AuditFails(r)
  BY <1>6, AuditMoves
<1>7. CASE Poll(r) \/ PollFails(r)
  BY <1>7, PollMoves
<1>8. QED
  BY <1>1, <1>2, <1>3, <1>4, <1>5, <1>6, <1>7 DEF RequestStep, Step, StepFails

(* A move leaves the other requests alone.                                 *)
LEMMA OthersStay ==
    ASSUME FleetTypeOK, NEW r \in Requests, NEW q, NEW d, Move(r, q, d)
    PROVE  /\ req'[r] = q /\ did'[r] = d
           /\ \A s \in Requests \ {r} : req'[s] = req[s] /\ did'[s] = did[s]
BY DEF Move, FleetTypeOK

(* The entry a request is about to write.                                  *)
LEMMA EntryType ==
    ASSUME FleetTypeOK, NEW r \in Requests, req[r].pc = "audit"
    PROVE  [by |-> r, action |-> Action(req[r].kind), target |-> Target(req[r].kind, req[r].id)]
             \in Entries
<1>1. req[r] \in RequestStates /\ Handles(req[r])
  BY RequestTypes
<1>2. req[r].kind \in Kinds /\ req[r].id \in Things
  BY <1>1 DEF Handles, Handling, RequestStates
<1>3. QED
  BY <1>2 DEF Entries

LEMMA MoveKeepsTypes ==
    ASSUME FleetTypeOK, AllDidFits, NEW r \in Requests, Moves(r), StoresOK'
    PROVE  FleetTypeOK' /\ AllDidFits'
<1>1. PICK q \in RequestStates, d \in Subjects \cup {None} : Move(r, q, d)
  BY DEF Moves
<1>2. /\ req'[r] = q /\ did'[r] = d
      /\ \A s \in Requests \ {r} : req'[s] = req[s] /\ did'[s] = did[s]
  BY <1>1, OthersStay
<1>3. Handles(q) /\ DidFits(q, d) /\ cut' \in SUBSET Requests
  BY <1>1 DEF Move
<1>4. /\ req' \in [Requests -> RequestStates]
      /\ did' \in [Requests -> Subjects \cup {None}]
  BY <1>1 DEF Move, FleetTypeOK
<1>5. \A s \in Requests : Handles(req'[s])
  BY <1>2, <1>3 DEF FleetTypeOK
<1>6. log' \in Seq(Entries)
  <2>1. log \in Seq(Entries)
    BY DEF FleetTypeOK
  <2>2. CASE log' = log
    BY <2>1, <2>2
  <2>3. CASE req[r].pc = "audit" /\ log' = Writes(r)
    BY <2>1, <2>3, EntryType DEF Writes, Write
  <2>4. QED
    BY <1>1, <2>2, <2>3 DEF Move, Records
<1>7. FleetTypeOK'
  BY <1>3, <1>4, <1>5, <1>6 DEF FleetTypeOK, StoresOK
<1>8. AllDidFits'
  BY <1>2, <1>3 DEF AllDidFits
<1>9. QED
  BY <1>7, <1>8

-----------------------------------------------------------------------------
(* Steps of Headscale, and the death of the dashboard                      *)

HeadscaleStep == LoadDatabase \/ ComeUp \/ \E n \in Ids : Report(n)

LEMMA HeadscaleSteps ==
    ASSUME FleetTypeOK, HeadscaleStep
    PROVE  StoresOK' /\ UNCHANGED <<req, log, did, cut>>
<1>1. StoresOK
  BY DEF FleetTypeOK, StoresOK
<1>2. CASE LoadDatabase
  BY <1>1, <1>2 DEF LoadDatabase, StoresOK, database, Env, settings
<1>3. CASE ComeUp
  BY <1>1, <1>3 DEF ComeUp, StoresOK, database, Env, settings, history
<1>4. ASSUME NEW n \in Ids, Report(n)
      PROVE  StoresOK' /\ UNCHANGED <<req, log, did, cut>>
  <2>1. rows[n] \in Rows /\ "expiry" \in Columns
    BY <1>1, <1>4 DEF StoresOK, Report, Columns
  <2>2. [rows[n] EXCEPT !["expiry"] = "new"] \in Rows
    BY <2>1 DEF Rows, Texts
  <2>3. rows' \in [Ids -> Rows \cup {None}]
    BY <1>1, <1>4, <2>2 DEF Report, StoresOK
  <2>4. stale' \in SUBSET Requests
    BY <1>1, <1>4 DEF Report, Disturb, Holders, StoresOK
  <2>5. QED
    BY <1>1, <1>4, <2>3, <2>4 DEF Report, StoresOK, service, Env, settings
<1>5. QED
  BY <1>2, <1>3, <1>4 DEF HeadscaleStep

(* Those that die are cut off; the others stay as they are.                *)
LEMMA DeathOf ==
    ASSUME FleetTypeOK, Die, NEW r \in Requests
    PROVE  /\ did'[r] = did[r] /\ log' = log /\ cut \subseteq cut'
           /\ \/ req'[r] = req[r]
              \/ /\ req[r].pc \notin AnsweredPCs
                 /\ req'[r] = [Blank EXCEPT !.pc = "done"] /\ r \in cut'
<1> DEFINE dying == {s \in Requests : req[s].pc \in Handling}
<1>1. /\ req' = [s \in Requests |-> IF s \in dying THEN [Blank EXCEPT !.pc = "done"] ELSE req[s]]
      /\ cut' = cut \cup dying /\ log' = log /\ did' = did
  BY DEF Die
<1>2. req'[r] = IF r \in dying THEN [Blank EXCEPT !.pc = "done"] ELSE req[r]
  BY <1>1
<1>3. r \in dying => req[r].pc \notin AnsweredPCs
  BY DEF Handling, AnsweredPCs
<1>4. QED
  BY <1>1, <1>2, <1>3

LEMMA DeathKeepsTypes ==
    ASSUME FleetTypeOK, AllDidFits, Die
    PROVE  FleetTypeOK' /\ AllDidFits'
<1> DEFINE end == [Blank EXCEPT !.pc = "done"]
<1>1. end \in RequestStates /\ Handles(end) /\ \A d : DidFits(end, d)
  BY EndedRequest DEF AnsweredPCs
<1> HIDE DEF end
<1>2. \A r \in Requests : /\ did'[r] = did[r]
                          /\ req'[r] = req[r] \/ req'[r] = end
  BY DeathOf DEF end
<1>3. req' \in [Requests -> RequestStates]
  BY <1>1 DEF Die, FleetTypeOK, end
<1>4. \A r \in Requests : Handles(req'[r]) /\ DidFits(req'[r], did'[r])
  BY <1>1, <1>2 DEF FleetTypeOK, AllDidFits
<1>5. /\ UNCHANGED <<database, service, settings, log, did, stale, unloaded>>
      /\ cut' \in SUBSET Requests
  BY DEF Die, FleetTypeOK
<1>6. faults' \in 0..MaxFaults
  BY Bounds DEF Die, FleetTypeOK
<1>7. FleetTypeOK'
  BY <1>3, <1>4, <1>5, <1>6 DEF FleetTypeOK, database, service, settings
<1>8. QED
  BY <1>4, <1>7 DEF AllDidFits

LEMMA NextShape ==
    ASSUME Next
    PROVE  (\E r \in Requests : RequestStep(r)) \/ HeadscaleStep \/ Die
BY DEF Next, RequestStep, HeadscaleStep

LEMMA TypesStep ==
    ASSUME FleetTypeOK, AllDidFits, [Next]_vars
    PROVE  FleetTypeOK' /\ AllDidFits'
<1>1. ASSUME NEW r \in Requests, RequestStep(r)
      PROVE  FleetTypeOK' /\ AllDidFits'
  BY <1>1, StepMoves, MoveKeepsTypes
<1>2. CASE HeadscaleStep
  BY <1>2, HeadscaleSteps DEF FleetTypeOK, StoresOK, AllDidFits
<1>3. CASE Die
  BY <1>3, DeathKeepsTypes
<1>4. CASE UNCHANGED vars
  BY <1>4 DEF vars, database, service, settings, history, FleetTypeOK, AllDidFits
<1>5. QED
  BY <1>1, <1>2, <1>3, <1>4, NextShape

LEMMA TypesInit ==
    ASSUME Init
    PROVE  FleetTypeOK /\ AllDidFits
<1>1. Blank \in RequestStates /\ Handles(Blank) /\ DidFits(Blank, None)
  BY BlankType DEF Handles, DidFits, Handling
<1>2. FreshRow \in Rows
  BY DEF FreshRow, Rows, Texts
<1>3. Nodes \subseteq Ids
  BY FleetAssumption, Zenon
<1>4. rows \in [Ids -> Rows \cup {None}]
  BY <1>2 DEF Init
<1>5. <<>> \in Seq(Entries) /\ 0 \in 0..MaxFaults
  BY Bounds
<1>6. QED
  BY <1>1, <1>3, <1>4, <1>5 DEF Init, FleetTypeOK, AllDidFits

-----------------------------------------------------------------------------
(* The audit log                                                           *)

(* The WHERE clause of ListForNode finds the entries of the four kinds of  *)
(* request about a node, and those only, though keys have the same numbers,*)
(* when no user is called like this node.                                  *)
LEMMA EntryMeans ==
    ASSUME NEW r, NEW kind \in Kinds, NEW id, NEW n \in Ids, Unambiguous(n)
    PROVE  LET e == [by |-> r, action |-> Action(kind), target |-> Target(kind, id)] IN
           NamesNode(e, n) <=> kind \in NodeKinds /\ id = n
<1> DEFINE e == [by |-> r, action |-> Action(kind), target |-> Target(kind, id)]
<1>1. CASE kind = "edit" \/ kind = "tags"
  BY <1>1 DEF Target, NamesNode, NodeTarget, TagsTarget, Bare, NodeKinds
<1>2. CASE kind = "expire" \/ kind = "delete"
  <2>1. n \notin DOMAIN Lookalikes
    BY FleetAssumption
  <2>2. /\ e.target = IF id \in DOMAIN Lookalikes THEN <<"node.", Lookalikes[id]>> ELSE <<"", id>>
        /\ e.action \in {"headscale.node.expire", "headscale.node.delete"}
    BY <1>2 DEF Target, Action, NodeTarget, Bare
  <2> HIDE DEF e
  <2>3. NamesNode(e, n) <=> id = n
    <3>1. CASE id \in DOMAIN Lookalikes
      <4>1. Lookalikes[id] # n /\ e.target = <<"node.", Lookalikes[id]>>
        BY <2>2, <3>1 DEF Unambiguous
      <4>2. \A m : m # n => <<"node.", m>> \notin {<<"node.", n>>, <<"node.tags.", n>>, <<"", n>>}
        OBVIOUS
      <4>3. ~NamesNode(e, n)
        BY <4>1, <4>2 DEF NamesNode, NodeTarget, TagsTarget, Bare
      <4>4. QED
        BY <2>1, <3>1, <4>3
    <3>2. CASE id \notin DOMAIN Lookalikes
      <4>1. e.target = <<"", id>>
        BY <2>2, <3>2
      <4>2. /\ <<"", id>> \notin {<<"node.", n>>, <<"node.tags.", n>>}
            /\ <<"", id>> = <<"", n>> <=> id = n
        OBVIOUS
      <4>3. QED
        BY <2>2, <4>1, <4>2 DEF NamesNode, NodeTarget, TagsTarget, Bare
    <3>3. QED
      BY <3>1, <3>2
  <2>4. QED
    BY <1>2, <2>3 DEF NodeKinds, e
<1>3. CASE kind \notin NodeKinds
  <2>1. Action(kind) \notin {"headscale.node.expire", "headscale.node.delete"}
    BY <1>3 DEF Action, NodeKinds
  <2>2. PICK name : \/ e.target = <<"", name>>
                    \/ e.target = <<"node.", name>> /\ name # n
    <3>1. CASE kind \in {"restart", "savePreset", "deletePreset"}
      BY <1>3, <3>1 DEF Target, Bare, NodeKinds
    <3>2. CASE kind \notin {"restart", "savePreset", "deletePreset"}
      <4>1. e.target = IF id \in DOMAIN Lookalikes THEN <<"node.", Lookalikes[id]>> ELSE <<"", id>>
        BY <1>3, <3>2 DEF Target, Bare, NodeTarget, NodeKinds
      <4>2. id \in DOMAIN Lookalikes => Lookalikes[id] # n
        BY DEF Unambiguous
      <4>3. QED
        BY <4>1, <4>2
    <3>3. QED
      BY <3>1, <3>2
  <2>3. e.action = Action(kind)
    OBVIOUS
  <2> HIDE DEF e
  <2>4. e.target \notin {NodeTarget(n), TagsTarget(n)}
    <3>1. /\ <<"", name>> # <<"node.", n>> /\ <<"", name>> # <<"node.tags.", n>>
          /\ name # n => <<"node.", name>> # <<"node.", n>>
          /\ <<"node.", name>> # <<"node.tags.", n>>
      OBVIOUS
    <3>2. QED
      BY <2>2, <3>1 DEF NodeTarget, TagsTarget
  <2>5. QED
    BY <1>3, <2>1, <2>3, <2>4 DEF NamesNode, e
<1>4. QED
  BY <1>1, <1>2, <1>3 DEF NodeKinds

LEMMA EntryOfRequest ==
    ASSUME FleetTypeOK, AllDidFits, NEW r \in Requests, req[r].pc = "audit"
    PROVE  EntryFits([by |-> r, action |-> Action(req[r].kind),
                      target |-> Target(req[r].kind, req[r].id)], did[r])
<1> DEFINE kind == req[r].kind
           id == req[r].id
           e == [by |-> r, action |-> Action(kind), target |-> Target(kind, id)]
<1>1. kind \in Kinds /\ DidFits(req[r], did[r])
  BY RequestTypes DEF Handles, Handling, AllDidFits
<1>2. kind \in NodeKinds => id \in Ids /\ did[r] = <<"node", id>>
  BY <1>1, RequestTypes DEF DidFits, Handles, Handling, Subject, NodeKinds
<1>3. kind \notin NodeKinds => did[r] # None /\ \A n \in Ids : did[r] # <<"node", n>>
  BY <1>1 DEF DidFits
<1>4. did[r] # None
  BY <1>2, <1>3, SubjectTypes, NotNone
<1>5. \A n \in Ids : Unambiguous(n) =>
         (NamesNode(e, n) <=> (kind \in NodeKinds /\ id = n))
  BY <1>1, EntryMeans
<1>6. \A n \in Ids : did[r] = <<"node", n>> <=> (kind \in NodeKinds /\ id = n)
  BY <1>2, <1>3
<1> HIDE DEF e, kind, id
<1>7. EntryFits(e, did[r])
  BY <1>4, <1>5, <1>6 DEF EntryFits
<1>8. QED
  BY <1>7 DEF e, kind, id

(* An INSERT moves every other entry one place down.                       *)
LEMMA WrittenLog ==
    ASSUME NEW S, NEW old \in Seq(S), NEW e \in S, NEW new, new = <<e>> \o old
    PROVE  /\ new[1] = e /\ 1 \in DOMAIN new
           /\ \A i \in DOMAIN old : i + 1 \in DOMAIN new /\ new[i + 1] = old[i]
           /\ \A i \in DOMAIN new : i = 1 \/ (i - 1 \in DOMAIN old /\ new[i] = old[i - 1])
<1>1. <<e>> \in Seq(S) /\ Len(<<e>>) = 1 /\ <<e>>[1] = e
  OBVIOUS
<1>2. /\ Len(new) = 1 + Len(old) /\ Len(old) \in Nat
      /\ \A i \in 1..Len(new) : new[i] = IF i <= 1 THEN <<e>>[i] ELSE old[i - 1]
  BY <1>1, ConcatProperties
<1>3. DOMAIN new = 1..Len(new) /\ DOMAIN old = 1..Len(old)
  <2>1. new \in Seq(S)
    BY <1>1, ConcatProperties
  <2>2. QED
    BY <2>1
<1>4. QED
  BY <1>1, <1>2, <1>3

(* No other step touches the log, and no request undoes what it has done.  *)
LEMMA UnwrittenTrail ==
    ASSUME FleetTypeOK, TrailInv, log' = log, cut \subseteq cut',
           \A s \in Requests :
              /\ req'[s].pc \notin AnsweredPCs => req[s].pc \notin AnsweredPCs
              /\ req[s].pc \in AnsweredPCs => did'[s] = did[s]
              /\ req[s].pc \notin AnsweredPCs /\ req'[s].pc \in AnsweredPCs
                 => did'[s] \in Unlogged \/ s \in cut'
    PROVE  NotYetLogged' /\ LoggedOnce' /\ LogIsTrue'
<1>1. \A s : By(s)' = By(s)
  BY DEF By
<1>2. NotYetLogged'
  BY <1>1 DEF NotYetLogged, TrailInv
<1>3. ASSUME NEW s \in Requests, req'[s].pc \in AnsweredPCs, did'[s] \notin Unlogged, s \notin cut'
      PROVE  \E i \in DOMAIN log' : By(s)' = {i}
  <2>1. req[s].pc \in AnsweredPCs /\ did[s] \notin Unlogged /\ s \notin cut
    BY <1>3
  <2>2. QED
    BY <1>1, <1>3, <2>1 DEF TrailInv, LoggedOnce
<1>4. ASSUME NEW i \in DOMAIN log'
      PROVE  EntryFits(log'[i], did'[log'[i].by])
  <2>1. i \in DOMAIN log /\ log'[i] = log[i]
    BY <1>4
  <2>2. log[i].by \in Requests
    BY <2>1 DEF FleetTypeOK, Entries
  <2>3. i \in By(log[i].by)
    BY <2>1 DEF By
  <2>4. req[log[i].by].pc \in AnsweredPCs
    BY <2>2, <2>3 DEF TrailInv, NotYetLogged
  <2>5. did'[log[i].by] = did[log[i].by]
    BY <2>2, <2>4
  <2>6. QED
    BY <2>1, <2>5 DEF TrailInv, LogIsTrue
<1>5. QED
  BY <1>2, <1>3, <1>4 DEF LoggedOnce, LogIsTrue

LEMMA WrittenTrail ==
    ASSUME FleetTypeOK, TrailInv, NEW r \in Requests, NEW q, NEW d, Move(r, q, d),
           req[r].pc = "audit", q.pc \in AnsweredPCs, d = did[r], log' = Writes(r)
    PROVE  NotYetLogged' /\ LoggedOnce' /\ LogIsTrue'
<1> DEFINE e == [by |-> r, action |-> Action(req[r].kind), target |-> Target(req[r].kind, req[r].id)]
<1>1. e \in Entries /\ e.by = r /\ EntryFits(e, did[r])
  BY EntryType, EntryOfRequest DEF TrailInv
<1>2. log' = <<e>> \o log /\ log \in Seq(Entries)
  BY DEF Writes, Write, FleetTypeOK
<1> HIDE DEF e
<1>3. /\ log'[1] = e /\ 1 \in DOMAIN log'
      /\ \A i \in DOMAIN log : i + 1 \in DOMAIN log' /\ log'[i + 1] = log[i]
      /\ \A i \in DOMAIN log' : i = 1 \/ (i - 1 \in DOMAIN log /\ log'[i] = log[i - 1])
  BY <1>1, <1>2, WrittenLog
<1>4. DOMAIN log \subseteq Nat /\ DOMAIN log' \subseteq Nat /\ DOMAIN log \subseteq Nat \ {0}
  BY <1>1, <1>2
<1>5. /\ req'[r] = q /\ did' = did
      /\ \A s \in Requests \ {r} : req'[s] = req[s]
  BY OthersStay, RequestTypes DEF Move
<1>6. By(r) = {}
  BY DEF TrailInv, NotYetLogged, AnsweredPCs
<1>7. By(r)' = {1}
  <2>1. ASSUME NEW i \in DOMAIN log', log'[i].by = r
        PROVE  i = 1
    BY <1>3, <1>6, <2>1 DEF By
  <2>2. QED
    BY <1>1, <1>3, <2>1 DEF By
<1>8. ASSUME NEW s \in Requests \ {r}
      PROVE  /\ By(s) = {} => By(s)' = {}
             /\ \A i \in DOMAIN log : By(s) = {i} => By(s)' = {i + 1}
  <2>1. ASSUME NEW i, i \in By(s)'
        PROVE  i - 1 \in By(s) /\ i \in Nat
    <3>1. i \in DOMAIN log' /\ log'[i].by = s
      BY <2>1 DEF By
    <3>2. i # 1
      BY <1>1, <1>3, <3>1
    <3>3. QED
      BY <1>3, <1>4, <3>1, <3>2 DEF By
  <2>2. ASSUME NEW i \in By(s)
        PROVE  i + 1 \in By(s)' /\ i \in Nat
    BY <1>3, <1>4, <2>2 DEF By
  <2>3. By(s) = {} => By(s)' = {}
    BY <2>1
  <2>4. ASSUME NEW i \in DOMAIN log, By(s) = {i}
        PROVE  By(s)' = {i + 1}
    <3>1. i \in Nat /\ i + 1 \in By(s)'
      BY <2>2, <2>4
    <3>2. ASSUME NEW j, j \in By(s)'
          PROVE  j = i + 1
      BY <2>1, <2>4, <3>1, <3>2
    <3>3. QED
      BY <3>1, <3>2
  <2>5. QED
    BY <2>3, <2>4
<1>9. ASSUME NEW s \in Requests, req'[s].pc \notin AnsweredPCs
      PROVE  By(s)' = {}
  BY <1>5, <1>8, <1>9 DEF TrailInv, NotYetLogged
<1>10. ASSUME NEW s \in Requests, req'[s].pc \in AnsweredPCs, did'[s] \notin Unlogged, s \notin cut'
       PROVE  \E i \in DOMAIN log' : By(s)' = {i}
  <2>1. CASE s = r
    BY <1>3, <1>7, <2>1
  <2>2. CASE s # r
    <3>1. req[s].pc \in AnsweredPCs /\ did[s] \notin Unlogged /\ s \notin cut
      BY <1>5, <1>10, <2>2 DEF Move
    <3>2. PICK i \in DOMAIN log : By(s) = {i}
      BY <3>1 DEF TrailInv, LoggedOnce
    <3>3. By(s)' = {i + 1} /\ i + 1 \in DOMAIN log'
      BY <1>3, <1>8, <2>2, <3>2
    <3>4. QED
      BY <3>3
  <2>3. QED
    BY <2>1, <2>2
<1>11. ASSUME NEW i \in DOMAIN log'
       PROVE  EntryFits(log'[i], did'[log'[i].by])
  <2>1. CASE i = 1
    BY <1>1, <1>3, <1>5, <2>1
  <2>2. CASE i # 1
    BY <1>3, <1>5, <2>2 DEF TrailInv, LogIsTrue
  <2>3. QED
    BY <2>1, <2>2
<1>12. QED
  BY <1>9, <1>10, <1>11 DEF NotYetLogged, LoggedOnce, LogIsTrue

LEMMA TrailStep ==
    ASSUME FleetTypeOK, TrailInv, [Next]_vars
    PROVE  TrailInv'
<1>1. FleetTypeOK' /\ AllDidFits'
  BY TypesStep DEF TrailInv
<1> SUFFICES NotYetLogged' /\ LoggedOnce' /\ LogIsTrue'
  BY <1>1 DEF TrailInv
<1>2. ASSUME NEW r \in Requests, RequestStep(r)
      PROVE  NotYetLogged' /\ LoggedOnce' /\ LogIsTrue'
  <2>1. PICK q \in RequestStates, d \in Subjects \cup {None} : Move(r, q, d)
    BY <1>2, StepMoves DEF Moves, TrailInv
  <2>2. /\ req'[r] = q /\ did'[r] = d
        /\ \A s \in Requests \ {r} : req'[s] = req[s] /\ did'[s] = did[s]
    BY <2>1, OthersStay
  <2>3. CASE req[r].pc = "audit" /\ q.pc \in AnsweredPCs /\ d = did[r] /\ log' = Writes(r)
    BY <2>1, <2>3, WrittenTrail
  <2>4. CASE log' = log /\ \/ req[r].pc \notin AnsweredPCs /\ q.pc \notin AnsweredPCs
                           \/ req[r].pc \notin AnsweredPCs /\ (d \in Unlogged \/ r \in cut')
                           \/ req[r].pc \in AnsweredPCs /\ q.pc \in AnsweredPCs /\ d = did[r]
    BY <2>1, <2>2, <2>4, UnwrittenTrail DEF Move
  <2>5. QED
    BY <2>1, <2>3, <2>4 DEF Move, Records
<1>3. CASE HeadscaleStep
  BY <1>3, HeadscaleSteps, UnwrittenTrail
<1>4. CASE Die
  <2>1. log' = log /\ cut \subseteq cut'
    BY <1>4 DEF Die
  <2>2. [Blank EXCEPT !.pc = "done"].pc = "done"
    BY DEF Blank
  <2>3. QED
    BY <1>4, <2>1, <2>2, DeathOf, UnwrittenTrail DEF AnsweredPCs
<1>5. CASE UNCHANGED vars
  BY <1>5, UnwrittenTrail DEF vars, history
<1>6. QED
  BY <1>2, <1>3, <1>4, <1>5, NextShape

LEMMA TrailInit ==
    ASSUME Init
    PROVE  TrailInv
<1>1. log = <<>> /\ DOMAIN log = {} /\ \A r \in Requests : req[r].pc = "new"
  BY DEF Init, Blank
<1>2. QED
  BY <1>1, TypesInit DEF TrailInv, NotYetLogged, LoggedOnce, LogIsTrue, By, AnsweredPCs

-----------------------------------------------------------------------------
(* Restarts, and the page that waits for them                              *)

Awaits(q) == q.pc = "wait" \/ (q.pc = "audit" /\ q.reload)

(* A request whose edit Headscale has not read, and that has restarted it, *)
(* sees a Headscale that has still to read; it cannot be sent back.        *)
AwaitsReload(r) ==
    /\ req[r].pc \in {"new", "lookup", "call"} => ~req[r].reload
    /\ r \in unloaded /\ Awaits(req[r]) => headscale \in {"starting", "down"}
    /\ r \in unloaded => req[r].pc # "back"

ReloadInv == \A r \in Requests : AwaitsReload(r)

LEMMA MovedRequest ==
    ASSUME FleetTypeOK, NEW r \in Requests, NEW pc
    PROVE  /\ Finish(r, pc) => req'[r].pc = pc
           /\ Goto(r, pc) => req'[r].pc = pc /\ req'[r].reload = req[r].reload
<1>1. req \in [Requests -> RequestStates] /\ req[r] \in RequestStates
  BY RequestTypes DEF FleetTypeOK
<1>2. [Blank EXCEPT !.pc = pc].pc = pc
  BY DEF Blank
<1>3. [req[r] EXCEPT !.pc = pc].pc = pc /\ [req[r] EXCEPT !.pc = pc].reload = req[r].reload
  BY <1>1 DEF RequestStates
<1>4. QED
  BY <1>1, <1>2, <1>3 DEF Finish, Goto

LEMMA ConcludedMove ==
    ASSUME FleetTypeOK, NEW r \in Requests, NEW pc, NEW reload, Conclude(r, pc, reload)
    PROVE  req'[r].pc = pc /\ req'[r].reload = reload
<1>1. req \in [Requests -> RequestStates]
  BY DEF FleetTypeOK
<1>2. req' = [req EXCEPT ![r] = Concluded(req[r], pc, reload)]
  BY DEF Conclude, Concluded
<1>3. Concluded(req[r], pc, reload).pc = pc /\ Concluded(req[r], pc, reload).reload = reload
  BY DEF Concluded, Blank
<1>4. QED
  BY <1>1, <1>2, <1>3

(* A request that has neither come back nor started a restart.             *)
Idle(q) == ~Awaits(q) /\ q.pc # "back" /\ (q.pc \in {"new", "lookup", "call"} => ~q.reload)

LEMMA IdleAfter ==
    ASSUME FleetTypeOK, NEW r \in Requests
    PROVE  /\ Finish(r, "done") => Idle(req'[r])
           /\ \A pc \in {"restart", "audit"} : Conclude(r, pc, FALSE) => Idle(req'[r])
<1>1. ASSUME Finish(r, "done")
      PROVE  Idle(req'[r])
  BY <1>1, MovedRequest DEF Idle, Awaits
<1>2. ASSUME NEW pc \in {"restart", "audit"}, Conclude(r, pc, FALSE)
      PROVE  Idle(req'[r])
  <2>1. req'[r].pc = pc /\ req'[r].reload = FALSE
    BY <1>2, ConcludedMove
  <2>2. QED
    BY <2>1 DEF Idle, Awaits
<1>3. QED
  BY <1>1, <1>2

LEMMA FormReloads ==
    ASSUME FleetTypeOK, NEW r \in Requests,
           \/ \E n \in Ids : LoadForm(r, n) \/ LoadFormFails(r, n)
           \/ \E f, text, danger, restart :
                 Submit(r, f, text, danger, restart) \/ SubmitUnread(r, f, text, danger, restart)
    PROVE  Idle(req'[r]) /\ headscale' = headscale /\ unloaded' = unloaded
<1>1. req \in [Requests -> RequestStates] /\ req[r] \in RequestStates
  BY RequestTypes DEF FleetTypeOK
<1>2. ASSUME NEW n, NEW D, NEW row, OpenForm(r, n, D, row)
      PROVE  Idle(req'[r]) /\ headscale' = headscale /\ unloaded' = unloaded
  <2>1. req'[r].pc = "form"
    <3> DEFINE q == [req[r] EXCEPT !.pc = "form", !.kind = "edit", !.id = n,
                                   !.form = [f \in D |-> row[f]]]
    <3>1. req' = [req EXCEPT ![r] = q]
      BY <1>2 DEF OpenForm
    <3>2. q.pc = "form"
      BY <1>1 DEF RequestStates
    <3> HIDE DEF q
    <3>3. QED
      BY <1>1, <3>1, <3>2
  <2>2. QED
    BY <1>2, <2>1 DEF OpenForm, service, history, Idle, Awaits
<1>3. ASSUME NEW f, NEW text, NEW danger, NEW restart, NEW current, NEW unread,
             Save(r, f, text, danger, restart, current, unread)
      PROVE  Idle(req'[r]) /\ headscale' = headscale /\ unloaded' = unloaded
  <2>1. headscale' = headscale /\ unloaded' = unloaded
    BY <1>3 DEF Save, service
  <2> DEFINE form == IF f = None THEN req[r].form ELSE [req[r].form EXCEPT ![f] = text]
  <2>2. \/ Finish(r, "done")
        \/ Conclude(r, "audit", FALSE)
        \/ \E set, refused : req' = [req EXCEPT ![r].pc = "update", ![r].touched = f, ![r].form = form,
                                                ![r].set = set, ![r].refused = refused,
                                                ![r].unread = unread, ![r].reload = restart]
    BY <1>3 DEF Save, Compare
  <2> HIDE DEF form
  <2>3. ASSUME NEW set, NEW refused,
               req' = [req EXCEPT ![r].pc = "update", ![r].touched = f, ![r].form = form,
                                  ![r].set = set, ![r].refused = refused,
                                  ![r].unread = unread, ![r].reload = restart]
        PROVE  Idle(req'[r])
    <3>1. req'[r].pc = "update"
      BY <1>1, <2>3 DEF RequestStates
    <3>2. QED
      BY <3>1 DEF Idle, Awaits
  <2>4. QED
    BY <2>1, <2>2, <2>3, IdleAfter
<1>4. QED
  BY <1>2, <1>3 DEF LoadForm, LoadFormFails, Submit, SubmitUnread

LEMMA StepReloads ==
    ASSUME FleetTypeOK, ReloadInv, NEW r \in Requests, RequestStep(r)
    PROVE  /\ AwaitsReload(r)'
           /\ headscale' \in {headscale, "starting", "down"}
           /\ unloaded' \subseteq unloaded \cup {r}
<1>1. req[r] \in RequestStates /\ AwaitsReload(r)
  BY RequestTypes DEF ReloadInv
<1>2. ASSUME Idle(req'[r])
      PROVE  AwaitsReload(r)'
  BY <1>2 DEF Idle, AwaitsReload
<1>3. CASE Operator(r)
  <2>1. CASE \/ \E n \in Ids : LoadForm(r, n) \/ LoadFormFails(r, n)
             \/ \E edit \in Typed \cup {<<None, "">>}, danger, restart \in BOOLEAN :
                   \/ Submit(r, edit[1], edit[2], danger, restart)
                   \/ SubmitUnread(r, edit[1], edit[2], danger, restart)
    <3>1. Idle(req'[r]) /\ headscale' = headscale /\ unloaded' = unloaded
      BY <2>1, FormReloads, Zenon
    <3>2. QED
      BY <1>2, <3>1
  <2>2. ASSUME NEW kind \in Kinds, NEW id, Arrive(r, kind, id)
        PROVE  /\ Idle(req'[r])
               /\ headscale' = headscale /\ unloaded' = unloaded
    <3>1. headscale' = headscale /\ unloaded' = unloaded /\ req[r].pc = "new"
      BY <2>2 DEF Arrive, service, history, At
    <3>2. CASE Finish(r, "done")
      BY <3>1, <3>2, IdleAfter
    <3>3. CASE ~Finish(r, "done")
      <4> DEFINE pc == CASE kind = "restart" -> "restart"
                         [] kind = "key"     -> "lookup"
                         [] OTHER            -> "call"
                 q == [req[r] EXCEPT !.kind = kind, !.id = id, !.pc = pc]
      <4>1. req' = [req EXCEPT ![r] = q]
        BY <2>2, <3>3 DEF Arrive
      <4>2. pc \in {"restart", "lookup", "call"}
        OBVIOUS
      <4> HIDE DEF pc
      <4>3. q.pc = pc /\ q.reload = req[r].reload
        BY <1>1 DEF RequestStates
      <4> HIDE DEF q
      <4>4. req'[r] = q
        BY <4>1 DEF FleetTypeOK
      <4>5. ~req[r].reload
        BY <1>1, <3>1 DEF AwaitsReload
      <4>6. QED
        BY <3>1, <4>2, <4>3, <4>4, <4>5 DEF Idle, Awaits
    <3>4. QED
      BY <3>2, <3>3
  <2>3. CASE \E kind \in Kinds, id \in Ids \cup Names \cup Settings \cup {None} : Arrive(r, kind, id)
    BY <1>2, <2>2, <2>3
  <2>4. QED
    BY <1>3, <2>1, <2>3 DEF Operator
<1>4. CASE UpdateNodeFields(r) \/ UpdateFails(r)
  <2>1. Idle(req'[r])
    <3>1. ASSUME GiveUpEdit(r)
          PROVE  Idle(req'[r])
      BY <3>1, IdleAfter DEF GiveUpEdit
    <3>2. ASSUME Conclude(r, IF req[r].reload THEN "restart" ELSE "audit", FALSE)
          PROVE  Idle(req'[r])
      <4>1. PICK pc \in {"restart", "audit"} : Conclude(r, pc, FALSE)
        BY <3>2
      <4>2. QED
        BY <4>1, IdleAfter
    <3>3. QED
      BY <1>4, <3>1, <3>2 DEF UpdateNodeFields, UpdateFails
  <2>2. headscale' = headscale /\ unloaded' \subseteq unloaded \cup {r}
    BY <1>4 DEF UpdateNodeFields, UpdateFails, GiveUpEdit, service, history
  <2>3. QED
    BY <1>2, <2>1, <2>2
<1>5. CASE RestartHeadscale(r)
  <2>1. headscale' = "starting" /\ unloaded' = unloaded /\ Conclude(r, "audit", TRUE)
    BY <1>5 DEF RestartHeadscale
  <2>2. req'[r].pc = "audit"
    BY <2>1, ConcludedMove
  <2>3. QED
    BY <2>1, <2>2 DEF AwaitsReload
<1>6. CASE RestartFails(r)
  <2>1. headscale' \in {headscale, "starting", "down"} /\ unloaded' = unloaded
    BY <1>6 DEF RestartFails
  <2>2. Idle(req'[r])
    BY <1>6, IdleAfter DEF RestartFails
  <2>3. QED
    BY <1>2, <2>1, <2>2
<1>7. CASE LookUpUser(r) \/ Call(r) \/ CallFails(r)
  <2>1. headscale' = headscale /\ unloaded' = unloaded
    BY <1>7 DEF LookUpUser, Call, CallFails, Effect, service, history
  <2>2. CASE Finish(r, "done")
    BY <1>2, <2>1, <2>2, IdleAfter
  <2>3. CASE ~Finish(r, "done")
    <3>1. PICK pc \in {"call", "audit"} : Goto(r, pc) /\ req[r].pc \in {"lookup", "call"}
      BY <1>7, <2>3 DEF LookUpUser, Call, CallFails, At
    <3>2. req'[r].pc = pc /\ req'[r].reload = req[r].reload
      BY <3>1, MovedRequest
    <3>3. ~req[r].reload
      BY <1>1, <3>1 DEF AwaitsReload
    <3>4. Idle(req'[r])
      BY <3>1, <3>2, <3>3 DEF Idle, Awaits
    <3>5. QED
      BY <1>2, <2>1, <3>4
  <2>4. QED
    BY <2>2, <2>3
<1>8. CASE Audit(r) \/ AuditFails(r)
  <2>1. /\ headscale' = headscale /\ unloaded' = unloaded
        /\ req[r].pc = "audit" /\ Answered(r)
    BY <1>8 DEF Audit, AuditFails, service, history, At
  <2>2. req'[r].pc = IF req[r].reload THEN "wait" ELSE "done"
    BY <2>1, MovedRequest DEF Answered
  <2>3. QED
    BY <1>1, <2>1, <2>2 DEF AwaitsReload, Awaits
<1>9. CASE Poll(r) \/ PollFails(r)
  <2>1. headscale' = headscale /\ unloaded' = unloaded /\ req[r].pc = "wait"
    BY <1>9 DEF Poll, PollFails, service, history, At
  <2>2. CASE Answers /\ Finish(r, "back")
    <3>1. r \notin unloaded
      BY <1>1, <2>1, <2>2 DEF Answers, AwaitsReload, Awaits
    <3>2. req'[r].pc = "back"
      BY <2>2, MovedRequest
    <3>3. QED
      BY <2>1, <3>1, <3>2 DEF AwaitsReload
  <2>3. CASE req' = [req EXCEPT ![r].polls = @ + 1,
                                ![r].pc = IF req[r].polls + 1 < MaxPolls THEN @ ELSE "gaveUp"]
    <3>1. UNCHANGED <<log, did, cut>>
      BY <1>9 DEF Poll, PollFails, Env, history
    <3>2. req'[r].pc \in {"wait", "gaveUp"}
      BY <2>1, <2>3, <3>1, PolledRequest DEF At
    <3>3. QED
      BY <1>1, <2>1, <3>2 DEF AwaitsReload, Awaits
  <2>4. QED
    BY <1>9, <2>2, <2>3 DEF Poll, PollFails
<1>10. QED
  BY <1>3, <1>4, <1>5, <1>6, <1>7, <1>8, <1>9 DEF RequestStep, Step, StepFails

LEMMA ReloadStep ==
    ASSUME FleetTypeOK, AllDidFits, ReloadInv, [Next]_vars
    PROVE  ReloadInv'
<1>1. ASSUME NEW r \in Requests, RequestStep(r), NEW s \in Requests
      PROVE  AwaitsReload(s)'
  <2>1. /\ AwaitsReload(r)' /\ headscale' \in {headscale, "starting", "down"}
        /\ unloaded' \subseteq unloaded \cup {r}
    BY <1>1, StepReloads
  <2>2. CASE s # r
    <3>1. req'[s] = req[s]
      BY <1>1, <2>2, StepMoves, OthersStay DEF Moves
    <3>2. QED
      BY <2>1, <2>2, <3>1 DEF ReloadInv, AwaitsReload
  <2>3. QED
    BY <2>1, <2>2
<1>2. ASSUME HeadscaleStep, NEW s \in Requests
      PROVE  AwaitsReload(s)'
  <2>1. req' = req
    BY <1>2, HeadscaleSteps
  <2>2. \/ unloaded' = {}
        \/ headscale = "loaded" /\ unloaded' = unloaded
        \/ headscale' = headscale /\ unloaded' = unloaded
    BY <1>2 DEF HeadscaleStep, LoadDatabase, ComeUp, Report, history, service
  <2>3. QED
    BY <2>1, <2>2 DEF ReloadInv, AwaitsReload
<1>3. ASSUME Die, NEW s \in Requests
      PROVE  AwaitsReload(s)'
  <2>1. headscale' = headscale /\ unloaded' = unloaded
    BY <1>3 DEF Die, service
  <2>2. [Blank EXCEPT !.pc = "done"].pc = "done"
    BY DEF Blank
  <2>3. QED
    BY <1>3, <2>1, <2>2, DeathOf DEF ReloadInv, AwaitsReload, Awaits
<1>4. CASE UNCHANGED vars
  BY <1>4 DEF vars, history, service, ReloadInv, AwaitsReload
<1>5. QED
  BY <1>1, <1>2, <1>3, <1>4, NextShape DEF ReloadInv

-----------------------------------------------------------------------------
(* The Edit Node form                                                      *)

(* A form holds the row as it is, or came up blank.                        *)
ShowsRow(form, n) ==
    \/ Listed(n) /\ \A g \in DOMAIN form : form[g] = Shown(n)[g]
    \/ DOMAIN form = DetailFields /\ \A g \in DetailFields : form[g] = ""

(* What is about to be written is the field the operator typed into.       *)
WritesTouched(q) ==
    DOMAIN q.set = {q.touched} /\ q.set[q.touched] = q.form[q.touched]

FormFits(r) ==
    r \notin stale =>
        /\ req[r].pc = "form" => ShowsRow(req[r].form, req[r].id)
        /\ req[r].pc = "update" /\ ~req[r].unread =>
              \/ req[r].touched = "id" /\ req[r].form["given_name"] = ""
              \/ WritesTouched(req[r])

FormInv == \A r \in Requests : FormFits(r)

Fills(q) == q.pc \in {"form", "update"}

LEMMA FormStays ==
    ASSUME NEW s \in Requests, FormFits(s), req'[s] = req[s],
           s \notin stale' /\ Fills(req[s]) => s \notin stale /\ rows'[req[s].id] = rows[req[s].id]
    PROVE  FormFits(s)'
<1> SUFFICES ASSUME s \notin stale', Fills(req[s])
             PROVE  FormFits(s)'
  BY DEF FormFits, Fills
<1> DEFINE n == req[s].id
<1>1. s \notin stale /\ rows'[n] = rows[n] /\ req'[s] = req[s]
  OBVIOUS
<1>2. CASE req[s].pc = "form"
  <2>1. ShowsRow(req[s].form, n)
    BY <1>1, <1>2 DEF FormFits
  <2>2. ASSUME Listed(n), \A g \in DOMAIN req[s].form : req[s].form[g] = Shown(n)[g]
        PROVE  ShowsRow(req[s].form, n)'
    <3>1. Listed(n)'
      BY <1>1, <2>2 DEF Listed
    <3>2. Shown(n)' = Shown(n)
      BY <1>1 DEF Shown
    <3>3. \A g \in DOMAIN req'[s].form : req'[s].form[g] = Shown(req[s].id)'[g]
      BY <1>1, <2>2, <3>2
    <3>4. QED
      BY <1>1, <3>1, <3>3 DEF ShowsRow
  <2>3. QED
    BY <1>1, <1>2, <2>1, <2>2 DEF FormFits, ShowsRow
<1>3. CASE req[s].pc = "update"
  BY <1>1, <1>3 DEF FormFits, WritesTouched
<1>4. QED
  BY <1>2, <1>3 DEF Fills

LEMMA OpenedForm ==
    ASSUME FleetTypeOK, NEW r \in Requests, NEW n \in Ids,
           LoadForm(r, n) \/ LoadFormFails(r, n)
    PROVE  FormFits(r)' /\ rows' = rows /\ stale' = stale
<1>1. req \in [Requests -> RequestStates] /\ req[r] \in RequestStates
  BY RequestTypes DEF FleetTypeOK
<1>2. rows' = rows /\ stale' = stale
  BY DEF LoadForm, LoadFormFails, OpenForm, database, history
<1>3. ASSUME NEW D, NEW row, OpenForm(r, n, D, row)
      PROVE  req'[r].pc = "form" /\ req'[r].id = n /\ req'[r].form = [f \in D |-> row[f]]
  <2> DEFINE form == [f \in D |-> row[f]]
             q == [req[r] EXCEPT !.pc = "form", !.kind = "edit", !.id = n, !.form = form]
  <2>1. req' = [req EXCEPT ![r] = q]
    BY <1>3 DEF OpenForm
  <2> HIDE DEF form
  <2>2. q.pc = "form" /\ q.id = n /\ q.form = form
    BY <1>1 DEF RequestStates
  <2> HIDE DEF q
  <2>3. QED
    BY <1>1, <2>1, <2>2 DEF form
<1>4. Listed(n)' <=> Listed(n)
  BY <1>2 DEF Listed
<1>5. Shown(n)' = Shown(n)
  BY <1>2 DEF Shown
<1>6. ASSUME NEW D, Listed(n), OpenForm(r, n, D, Shown(n))
      PROVE  FormFits(r)'
  <2>1. req'[r].pc = "form" /\ req'[r].id = n /\ req'[r].form = [f \in D |-> Shown(n)[f]]
    BY <1>3, <1>6
  <2>2. DOMAIN req'[r].form = D /\ \A g \in D : req'[r].form[g] = Shown(n)[g]
    BY <2>1
  <2>3. ShowsRow(req[r].form, n)'
    BY <1>4, <1>5, <1>6, <2>2 DEF ShowsRow
  <2>4. QED
    BY <2>1, <2>3 DEF FormFits, ShowsRow
<1>7. ASSUME OpenForm(r, n, DetailFields, BlankRow)
      PROVE  FormFits(r)'
  <2>1. req'[r].pc = "form" /\ req'[r].id = n /\ req'[r].form = [f \in DetailFields |-> BlankRow[f]]
    BY <1>3, <1>7
  <2>2. DOMAIN req'[r].form = DetailFields /\ \A g \in DetailFields : req'[r].form[g] = ""
    BY <2>1, DetailFieldsType DEF BlankRow
  <2>3. ShowsRow(req[r].form, req[r].id)'
    BY <2>2 DEF ShowsRow
  <2>4. QED
    BY <2>1, <2>3 DEF FormFits
<1>8. QED
  BY <1>2, <1>6, <1>7 DEF LoadForm, LoadFormFails

(* Against the row, Compare lets nothing through but field f.              *)
LEMMA ComparedForm ==
    ASSUME NEW old \in Forms, NEW n \in Ids, ShowsRow(old, n),
           NEW f, NEW form, DOMAIN form = DOMAIN old,
           \A g \in DOMAIN old : g # f => form[g] = old[g],
           NEW current, current = IF Listed(n) THEN Shown(n) ELSE BlankRow,
           NEW D \in SUBSET Changed(form, current),
           "id" \in Changed(form, current) => "id" \in D,
           "id" \in D => form["id"] \in Ids,
           f = "id" => form["given_name"] # ""
    PROVE  D \subseteq {f}
<1> SUFFICES ASSUME NEW g \in D, g # f
             PROVE  FALSE
  OBVIOUS
<1>1. /\ g \in DOMAIN old /\ g \in Fields /\ form[g] = old[g] /\ form[g] # current[g]
  BY FormShape DEF Changed, FormValue
<1>2. /\ BlankRow["given_name"] = "" /\ Shown(n)["id"] = n
      /\ "id" \in DetailFields /\ "given_name" \in DetailFields
      /\ DetailFields = {"id", "given_name"} /\ "" \notin Ids
  <2>1. "" \notin Ids
    BY FleetAssumption, Zenon
  <2>2. QED
    BY <2>1 DEF BlankRow, Shown, Fields, Columns, DetailFields
<1>3. CASE Listed(n) /\ \A h \in DOMAIN old : old[h] = Shown(n)[h]
  BY <1>1, <1>3
<1>4. CASE DOMAIN old = DetailFields /\ \A h \in DetailFields : old[h] = ""
  <2>1. ASSUME f # "id", "id" \in Changed(form, current)
        PROVE  FALSE
    BY <1>2, <1>4, <2>1
  <2>2. g = "given_name" /\ form[g] = ""
    <3>1. g = "id" => FALSE
      BY <1>1, <2>1
    <3>2. QED
      BY <1>1, <1>2, <1>4, <3>1
  <2>3. f # "id"
    BY <2>2
  <2>4. current["id"] = n /\ form["id"] = ""
    BY <1>1, <1>2, <1>4, <2>2, <2>3
  <2>5. "id" \in Changed(form, current)
    <3>1. "id" \in DOMAIN form
      BY <1>2, <1>4
    <3>2. form["id"] # current["id"]
      BY <1>2, <2>4
    <3>3. QED
      BY <3>1, <3>2 DEF Changed, FormValue
  <2>6. QED
    BY <2>1, <2>3, <2>5
<1>5. QED
  BY <1>3, <1>4 DEF ShowsRow

LEMMA SavedFits ==
    ASSUME FleetTypeOK, FormInv, NEW r \in Requests, NEW f, NEW text, NEW danger, NEW restart,
           \/ Submit(r, f, text, danger, restart)
           \/ SubmitUnread(r, f, text, danger, restart)
    PROVE  FormFits(r)' /\ rows' = rows /\ stale' = stale
<1> DEFINE n == req[r].id
           old == req[r].form
           form == IF f = None THEN old ELSE [old EXCEPT ![f] = text]
<1>1. PICK current, unread :
         /\ unread \in BOOLEAN /\ Save(r, f, text, danger, restart, current, unread)
         /\ unread \/ current = IF Listed(n) THEN Shown(n) ELSE BlankRow
  BY DEF Submit, SubmitUnread
<1>2. /\ req[r].pc = "form" /\ rows' = rows /\ stale' = stale
      /\ (f # None => f \in DOMAIN old /\ <<f, text>> \in Typed)
  BY <1>1 DEF Save, At, database
<1>3. req \in [Requests -> RequestStates] /\ old \in Forms /\ n \in Ids
  BY <1>2, RequestTypes DEF FleetTypeOK, RequestStates, Handles, Subject
<1>4. r \notin stale => ShowsRow(old, n)
  BY <1>2 DEF FormInv, FormFits
<1>5. CASE Finish(r, "done")
  BY <1>2, <1>5, MovedRequest DEF FormFits
<1>6. CASE Conclude(r, "audit", FALSE)
  <2>1. req'[r].pc = "audit"
    BY <1>6, ConcludedMove
  <2>2. QED
    BY <1>2, <2>1 DEF FormFits
<1> DEFINE changed == Changed(form, current)
           allowed == changed \ (IF danger THEN {} ELSE DangerColumns)
           refused == changed # allowed
           set == [g \in allowed |-> FormValue(form, g)]
           q == [req[r] EXCEPT !.pc = "update", !.touched = f, !.form = form,
                               !.set = set, !.refused = refused, !.unread = unread,
                               !.reload = restart]
<1>7. CASE /\ ~("id" \in allowed /\ form["id"] \notin Ids) /\ allowed # {}
           /\ req' = [req EXCEPT ![r].pc = "update", ![r].touched = f, ![r].form = form,
                                 ![r].set = set, ![r].refused = refused, ![r].unread = unread,
                                 ![r].reload = restart]
  <2>1. req' = [req EXCEPT ![r] = q]
    BY <1>3, <1>7
  <2>2. allowed \in SUBSET changed /\ ("id" \in changed => "id" \in allowed)
    BY DEF DangerColumns
  <2>3. "id" \in allowed => form["id"] \in Ids
    BY <1>7
  <2>4. /\ form \in Forms /\ changed \in SUBSET DOMAIN form
        /\ DOMAIN form = DOMAIN old /\ \A g \in DOMAIN old : g # f => form[g] = old[g]
    BY <1>2, <1>3, SavedForm DEF Changed
  <2> HIDE DEF form, allowed
  <2>5. DOMAIN set = allowed /\ \A g \in allowed : set[g] = form[g]
    BY <2>2, <2>4, WrittenSet
  <2> HIDE DEF set, refused
  <2>6. q.pc = "update" /\ q.touched = f /\ q.form = form /\ q.set = set /\ q.unread = unread
    BY <1>3 DEF RequestStates, FleetTypeOK
  <2> HIDE DEF q, changed
  <2>7. req'[r] = q
    BY <1>3, <2>1
  <2>8. ASSUME r \notin stale, ~unread, f = "id" => form["given_name"] # ""
        PROVE  allowed \subseteq {f}
    <3>1. ShowsRow(old, n) /\ old \in Forms /\ n \in Ids
      BY <1>3, <1>4, <2>8
    <3>2. allowed \in SUBSET Changed(form, current)
      BY <2>2 DEF changed
    <3>3. "id" \in Changed(form, current) => "id" \in allowed
      BY <2>2 DEF changed
    <3>4. current = IF Listed(n) THEN Shown(n) ELSE BlankRow
      BY <1>1, <2>8
    <3> HIDE DEF n, old
    <3>5. QED
      BY <2>3, <2>4, <2>8, <3>1, <3>2, <3>3, <3>4, ComparedForm, Zenon
  <2>9. ASSUME r \notin stale, ~unread, f = "id" => form["given_name"] # ""
        PROVE  WritesTouched(q)
    <3>1. allowed = {f}
      BY <1>7, <2>8, <2>9
    <3>2. QED
      BY <2>5, <2>6, <3>1 DEF WritesTouched
  <2>10. WritesTouched(req[r])' <=> WritesTouched(q)
    BY <2>7 DEF WritesTouched
  <2>11. QED
    BY <1>2, <2>6, <2>7, <2>9, <2>10 DEF FormFits
<1>8. QED
  BY <1>1, <1>2, <1>5, <1>6, <1>7 DEF Save, Compare

(* Past the form, no step fills one.                                       *)
LEMMA NoFormAfter ==
    ASSUME FleetTypeOK, NEW r \in Requests,
           \/ Step(r) \/ StepFails(r)
           \/ \E kind \in Kinds, id \in Things : Arrive(r, kind, id)
    PROVE  ~Fills(req'[r])
<1>1. req \in [Requests -> RequestStates] /\ req[r] \in RequestStates
  BY RequestTypes DEF FleetTypeOK
<1>2. ASSUME NEW pc \in {"done", "wait", "back"}, Finish(r, pc)
      PROVE  ~Fills(req'[r])
  BY <1>2, MovedRequest DEF Fills
<1>3. ASSUME NEW pc \in {"restart", "audit"}, NEW reload, Conclude(r, pc, reload)
      PROVE  ~Fills(req'[r])
  BY <1>3, ConcludedMove DEF Fills
<1>4. ASSUME NEW pc \in {"call", "audit"}, Goto(r, pc)
      PROVE  ~Fills(req'[r])
  BY <1>4, MovedRequest DEF Fills
<1>5. CASE UpdateNodeFields(r) \/ UpdateFails(r)
  <2>1. PICK pc \in {"restart", "audit"} : Conclude(r, pc, FALSE) \/ Finish(r, "done")
    BY <1>5 DEF UpdateNodeFields, UpdateFails, GiveUpEdit
  <2>2. QED
    BY <1>2, <1>3, <2>1
<1>6. CASE RestartHeadscale(r) \/ RestartFails(r)
  BY <1>2, <1>3, <1>6 DEF RestartHeadscale, RestartFails
<1>7. CASE LookUpUser(r) \/ Call(r) \/ CallFails(r)
  BY <1>2, <1>4, <1>7 DEF LookUpUser, Call, CallFails
<1>8. CASE Audit(r) \/ AuditFails(r)
  <2>1. PICK pc \in {"wait", "done"} : Finish(r, pc)
    BY <1>8 DEF Audit, AuditFails, Answered
  <2>2. QED
    BY <1>2, <2>1
<1>9. CASE Poll(r) \/ PollFails(r)
  <2>1. At(r, "wait") /\ UNCHANGED <<log, did, cut>>
    BY <1>9 DEF Poll, PollFails, Env, history
  <2>2. CASE Finish(r, "back")
    BY <1>2, <2>2
  <2>3. CASE ~Finish(r, "back")
    <3>1. req' = [req EXCEPT ![r].polls = @ + 1,
                             ![r].pc = IF req[r].polls + 1 < MaxPolls THEN @ ELSE "gaveUp"]
      BY <1>9, <2>3 DEF Poll, PollFails
    <3>2. QED
      BY <2>1, <3>1, PolledRequest DEF Fills
  <2>4. QED
    BY <2>2, <2>3
<1>10. ASSUME NEW kind, NEW id, Arrive(r, kind, id)
       PROVE  ~Fills(req'[r])
  <2>1. CASE Finish(r, "done")
    BY <1>2, <2>1
  <2>2. CASE ~Finish(r, "done")
    <3> DEFINE pc == CASE kind = "restart" -> "restart"
                       [] kind = "key"     -> "lookup"
                       [] OTHER            -> "call"
               q == [req[r] EXCEPT !.kind = kind, !.id = id, !.pc = pc]
    <3>1. req' = [req EXCEPT ![r] = q]
      BY <1>10, <2>2 DEF Arrive
    <3>2. pc \notin {"form", "update"}
      OBVIOUS
    <3> HIDE DEF pc
    <3>3. q.pc = pc
      BY <1>1 DEF RequestStates
    <3> HIDE DEF q
    <3>4. QED
      BY <1>1, <3>1, <3>2, <3>3 DEF Fills
  <2>3. QED
    BY <2>1, <2>2
<1>11. QED
  BY <1>5, <1>6, <1>7, <1>8, <1>9, <1>10 DEF Step, StepFails

(* A row changes under no form that another party is not marked to have    *)
(* disturbed.                                                              *)
LEMMA RowsUnderForms ==
    ASSUME FleetTypeOK, NEW r \in Requests, RequestStep(r), NEW s \in Requests,
           s # r, Fills(req[s]), s \notin stale'
    PROVE  s \notin stale /\ rows'[req[s].id] = rows[req[s].id]
<1> DEFINE k == req[s].id
<1>1. req[s].kind = "edit" /\ rows \in [Ids -> Rows \cup {None}] /\ k \in Ids
  BY RequestTypes DEF Fills, Handles, Handling, Subject, FleetTypeOK
<1>2. \A n : s \in Holders(n) <=> n = k
  BY <1>1 DEF Holders, Fills
<1>3. CASE UNCHANGED <<rows, stale>>
  BY <1>3
<1>4. ASSUME UpdateNodeFields(r), ~GiveUpEdit(r)
      PROVE  s \notin stale /\ rows'[k] = rows[k]
  <2> DEFINE n == req[r].id
             set == req[r].set
             m == IF "id" \in DOMAIN set THEN set["id"] ELSE n
  <2>1. /\ rows' = IF rows[n] = None THEN rows
                   ELSE [rows EXCEPT ![n] = None, ![m] = Written(set, rows[n])]
        /\ stale' = (stale \cup Holders(n) \cup Holders(m)) \ {r}
    BY <1>4 DEF UpdateNodeFields
  <2> HIDE DEF n, m, set
  <2>2. s \notin stale /\ k # n /\ k # m
    BY <1>2, <2>1
  <2>3. QED
    BY <1>1, <2>1, <2>2
<1>5. ASSUME ExpireNode(r) \/ DeleteNode(r)
      PROVE  s \notin stale /\ rows'[k] = rows[k]
  <2> DEFINE n == req[r].id
  <2>1. stale' = stale \cup (Holders(n) \ {r})
    BY <1>5 DEF ExpireNode, DeleteNode, Disturb
  <2>2. s \notin stale /\ k # n
    BY <1>2, <2>1
  <2>3. \/ rows' = rows
        \/ rows' = [rows EXCEPT ![n] = None]
        \/ rows' = [rows EXCEPT ![n]["expiry"] = "new"]
        \/ rows' = [rows EXCEPT ![n]["deleted_at"] = "new"]
    BY <1>5 DEF ExpireNode, DeleteNode
  <2> HIDE DEF n
  <2>4. QED
    BY <1>1, <2>2, <2>3
<1>6. CASE Call(r) \/ CallFails(r)
  <2>1. \/ ExpireNode(r) \/ DeleteNode(r)
        \/ UNCHANGED <<rows, stale>>
    BY <1>6 DEF Call, CallFails, Effect, SetNodeTags, CreatePreAuthKey, ExpirePreAuthKeyByID,
                CreateUser, DeleteUser, SaveSetting, TestSetting, SavePreset, database, history
  <2>2. QED
    BY <1>3, <1>5, <2>1
<1>7. CASE UpdateNodeFields(r)
  <2>1. GiveUpEdit(r) => UNCHANGED <<rows, stale>>
    BY DEF GiveUpEdit, database, history
  <2>2. QED
    BY <1>3, <1>4, <1>7, <2>1
<1>8. CASE \/ Operator(r)
           \/ UpdateFails(r) \/ RestartHeadscale(r) \/ RestartFails(r) \/ LookUpUser(r)
           \/ Audit(r) \/ AuditFails(r) \/ Poll(r) \/ PollFails(r)
  <2>1. Operator(r) => UNCHANGED <<rows, stale>>
    BY DEF Operator, LoadForm, LoadFormFails, OpenForm, Submit, SubmitUnread, Save, Arrive,
           database, history
  <2>2. UpdateFails(r) \/ RestartHeadscale(r) \/ RestartFails(r) => UNCHANGED <<rows, stale>>
    BY DEF UpdateFails, GiveUpEdit, RestartHeadscale, RestartFails, database, history
  <2>3. \/ LookUpUser(r) \/ Audit(r) \/ AuditFails(r) \/ Poll(r) \/ PollFails(r)
        => UNCHANGED <<rows, stale>>
    BY DEF LookUpUser, Audit, AuditFails, Poll, PollFails, database, history
  <2>4. QED
    BY <1>3, <1>8, <2>1, <2>2, <2>3
<1>9. QED
  BY <1>6, <1>7, <1>8 DEF RequestStep, Step, StepFails

LEMMA FormStep ==
    ASSUME FleetTypeOK, AllDidFits, FormInv, [Next]_vars
    PROVE  FormInv'
<1>1. ASSUME NEW r \in Requests, RequestStep(r), NEW s \in Requests, s # r
      PROVE  FormFits(s)'
  <2>1. req'[s] = req[s]
    BY <1>1, StepMoves, OthersStay DEF Moves
  <2>2. s \notin stale' /\ Fills(req[s]) => s \notin stale /\ rows'[req[s].id] = rows[req[s].id]
    BY <1>1, RowsUnderForms
  <2>3. QED
    BY <2>1, <2>2, FormStays DEF FormInv
<1>2. ASSUME NEW r \in Requests, RequestStep(r)
      PROVE  FormFits(r)'
  <2>1. CASE \E n \in Ids : LoadForm(r, n) \/ LoadFormFails(r, n)
    BY <2>1, OpenedForm
  <2>2. CASE \E edit \in Typed \cup {<<None, "">>}, danger, restart \in BOOLEAN :
                \/ Submit(r, edit[1], edit[2], danger, restart)
                \/ SubmitUnread(r, edit[1], edit[2], danger, restart)
    BY <2>2, SavedFits, Zenon
  <2>3. CASE \/ Step(r) \/ StepFails(r)
             \/ \E kind \in Kinds, id \in Ids \cup Names \cup Settings \cup {None} : Arrive(r, kind, id)
    <3>1. ~Fills(req'[r])
      BY <2>3, NoFormAfter DEF Things
    <3>2. QED
      BY <3>1 DEF FormFits, Fills
  <2>4. QED
    BY <1>2, <2>1, <2>2, <2>3 DEF RequestStep, Operator
<1>3. ASSUME HeadscaleStep, NEW s \in Requests
      PROVE  FormFits(s)'
  <2>1. req'[s] = req[s]
    BY <1>3, HeadscaleSteps
  <2>2. ASSUME NEW n \in Ids, Report(n), s \notin stale', Fills(req[s])
        PROVE  s \notin stale /\ rows'[req[s].id] = rows[req[s].id]
    <3>1. s \in Requests \ {None}
      BY FleetAssumption, Zenon
    <3>2. /\ rows' = [rows EXCEPT ![n]["expiry"] = "new"]
          /\ stale' = stale \cup (Holders(n) \ {None})
      BY <2>2 DEF Report, Disturb
    <3>3. /\ req[s].kind = "edit" /\ rows \in [Ids -> Rows \cup {None}] /\ req[s].id \in Ids
      BY <2>2, RequestTypes DEF Fills, Handles, Handling, Subject, FleetTypeOK
    <3>4. s \notin stale /\ req[s].id # n
      BY <2>2, <3>1, <3>2, <3>3 DEF Holders, Fills
    <3>5. QED
      BY <3>2, <3>3, <3>4
  <2>3. LoadDatabase \/ ComeUp => UNCHANGED <<rows, stale>>
    BY DEF LoadDatabase, ComeUp, database, history
  <2>4. s \notin stale' /\ Fills(req[s]) => s \notin stale /\ rows'[req[s].id] = rows[req[s].id]
    BY <1>3, <2>2, <2>3 DEF HeadscaleStep
  <2>5. QED
    BY <2>1, <2>4, FormStays DEF FormInv
<1>4. ASSUME Die, NEW s \in Requests
      PROVE  FormFits(s)'
  <2>1. rows' = rows /\ stale' = stale
    BY <1>4 DEF Die, database
  <2>2. CASE req'[s] = req[s]
    BY <2>1, <2>2, FormStays DEF FormInv
  <2>3. CASE req'[s] = [Blank EXCEPT !.pc = "done"]
    <3>1. req'[s].pc = "done"
      BY <2>3 DEF Blank
    <3>2. QED
      BY <3>1 DEF FormFits
  <2>4. QED
    BY <1>4, <2>2, <2>3, DeathOf
<1>5. ASSUME UNCHANGED vars, NEW s \in Requests
      PROVE  FormFits(s)'
  <2>1. req' = req /\ rows' = rows /\ stale' = stale
    BY <1>5 DEF vars, database, history
  <2>2. QED
    BY <2>1, FormStays DEF FormInv
<1>6. QED
  BY <1>1, <1>2, <1>3, <1>4, <1>5, NextShape DEF FormInv

LEMMA FormInit ==
    ASSUME Init
    PROVE  FormInv
<1>1. \A r \in Requests : req[r].pc = "new"
  BY DEF Init, Blank
<1>2. QED
  BY <1>1 DEF FormInv, FormFits

(* Only its own UPDATE takes a request past it.                            *)
LEMMA LeavesUpdate ==
    ASSUME FleetTypeOK, AllDidFits, NEW r \in Requests, [Next]_vars,
           At(r, "update"), ~At(r, "update")', rows' # rows
    PROVE  UpdateNodeFields(r) /\ ~GiveUpEdit(r)
<1>1. req[r].pc = "update" /\ req'[r].pc # "update"
  BY DEF At
<1>2. ASSUME NEW s \in Requests, RequestStep(s), s # r
      PROVE  FALSE
  BY <1>1, <1>2, StepMoves, OthersStay DEF Moves
<1>3. ~HeadscaleStep
  BY <1>1, HeadscaleSteps
<1>4. ~Die /\ ~UNCHANGED vars
  BY DEF Die, database, vars
<1>5. RequestStep(r)
  BY <1>2, <1>3, <1>4, NextShape
<1>6. ~Operator(r)
  BY <1>1 DEF Operator, LoadForm, LoadFormFails, OpenForm, Submit, SubmitUnread, Save, Arrive, At
<1>7. UpdateNodeFields(r) \/ UpdateFails(r)
  BY <1>1, <1>5, <1>6 DEF RequestStep, Step, StepFails, RestartHeadscale, RestartFails,
       LookUpUser, Call, CallFails, Audit, AuditFails, Poll, PollFails, At
<1>8. GiveUpEdit(r) => rows' = rows
  BY DEF GiveUpEdit, database
<1>9. QED
  BY <1>7, <1>8 DEF UpdateFails

LEMMA EditStep ==
    ASSUME FleetTypeOK, AllDidFits, FormInv, [Next]_vars
    PROVE  \A r \in Requests : ~req[r].unread => EditIsExact(r)
<1> SUFFICES ASSUME NEW r \in Requests, At(r, "update"), ~At(r, "update")',
                    r \notin stale, ~req[r].unread, rows' # rows,
                    req[r].touched = "id" => req[r].form["given_name"] # ""
             PROVE  rows' = EditOf(req[r].id, req[r].touched, req[r].form)
  BY DEF EditIsExact
<1> DEFINE n == req[r].id
           f == req[r].touched
           form == req[r].form
           set == req[r].set
           m == IF "id" \in DOMAIN set THEN set["id"] ELSE n
           edited == [c \in Columns |-> IF c = f THEN form[c]
                                        ELSE IF c = "updated_at" THEN "now" ELSE rows[n][c]]
<1>1. UpdateNodeFields(r) /\ ~GiveUpEdit(r)
  BY LeavesUpdate
<1>2. rows' = IF rows[n] = None THEN rows
              ELSE [rows EXCEPT ![n] = None, ![m] = Written(set, rows[n])]
  BY <1>1 DEF UpdateNodeFields
<1> HIDE DEF m
<1>3. rows' = [rows EXCEPT ![n] = None, ![m] = Written(set, rows[n])]
  BY <1>2
<1>4. DOMAIN set = {f} /\ set[f] = form[f]
  BY DEF FormInv, FormFits, WritesTouched, At
<1>5. n \in Ids /\ f \in Fields /\ rows \in [Ids -> Rows \cup {None}]
  <2>1. set \in Forms /\ req[r].kind = "edit" /\ n \in Ids
    BY RequestTypes DEF Handles, Handling, Subject, RequestStates, At
  <2>2. QED
    BY <1>4, <2>1, FormShape DEF FleetTypeOK
<1>6. m = IF f = "id" THEN form["id"] ELSE n
  BY <1>4 DEF m
<1>7. EditOf(n, f, form) = IF f = "id" THEN [rows EXCEPT ![n] = None, ![form["id"]] = edited]
                           ELSE [rows EXCEPT ![n] = edited]
  BY <1>5, NoneIsNoSubject DEF EditOf
<1> HIDE DEF n, f, form, set
<1>8. Written(set, rows[n]) = edited
  <2>1. \A c \in Columns : c \in DOMAIN set <=> c = f
    BY <1>4
  <2>2. QED
    BY <1>4, <2>1 DEF Written
<1> HIDE DEF edited
<1>9. CASE f = "id"
  BY <1>3, <1>6, <1>7, <1>8, <1>9 DEF n, f, form
<1>10. CASE f # "id"
  <2>1. rows' = [rows EXCEPT ![n] = edited]
    BY <1>3, <1>5, <1>6, <1>8, <1>10
  <2>2. QED
    BY <1>7, <1>10, <2>1 DEF n, f, form
<1>11. QED
  BY <1>9, <1>10

-----------------------------------------------------------------------------
(* Theorems                                                                *)

(* Every request, row, setting and entry of the log is of its type, each   *)
(* handler has a request of its own kind, and what a request has done so   *)
(* far fits the statement it is at.                                        *)
THEOREM FleetTypes == Spec => [](FleetTypeOK /\ AllDidFits)
<1>1. Init => FleetTypeOK /\ AllDidFits
  BY TypesInit
<1>2. FleetTypeOK /\ AllDidFits /\ [Next]_vars => (FleetTypeOK /\ AllDidFits)'
  BY TypesStep
<1>3. QED
  BY <1>1, <1>2, PTL DEF Spec

(* The type invariant of Fleet.                                            *)
THEOREM FleetTypeCorrect == Spec => []FleetTypeOK
<1>1. FleetTypeOK /\ AllDidFits => FleetTypeOK
  OBVIOUS
<1>2. QED
  BY <1>1, FleetTypes, PTL

(* EffectsAreLogged: what a request did to the system is in the log, once, *)
(* when it is answered, unless a failure or an exit stopped it or it was a *)
(* test of the Headscale settings, which leave no entry; and what is in    *)
(* the log was done; for any number of requests at any statements.         *)
THEOREM EffectsAreInTheLog == Spec => []EffectsAreLogged
<1>1. Init => TrailInv
  BY TrailInit
<1>2. FleetTypeOK /\ TrailInv /\ [Next]_vars => TrailInv'
  BY TrailStep
<1>3. ASSUME TrailInv
      PROVE  EffectsAreLogged
  <2>1. ASSUME NEW r \in Requests, req[r].pc \in AnsweredPCs, r \notin cut,
               did[r] \notin UnloggedTests \cup {None}
        PROVE  Cardinality({i \in DOMAIN log : log[i].by = r}) = 1
    <3>1. PICK i \in DOMAIN log : By(r) = {i}
      BY <1>3, <2>1 DEF TrailInv, LoggedOnce, Unlogged
    <3>2. Cardinality({i}) = 1
      BY FS_Singleton
    <3>3. QED
      BY <3>1, <3>2 DEF By
  <2>2. \A i \in DOMAIN log : did[log[i].by] # None
    BY <1>3 DEF TrailInv, LogIsTrue, EntryFits
  <2>3. QED
    BY <2>1, <2>2 DEF EffectsAreLogged, AnsweredPCs
<1>4. QED
  BY <1>1, <1>2, <1>3, FleetTypeCorrect, PTL DEF Spec

(* NodeHistoryIsExact: the page of a node shows the newest of what was     *)
(* done to it and nothing else, however long the log is and whatever       *)
(* numbers nodes and keys share, when no user is called like this node.    *)
THEOREM NodeHistoriesAreExact == Spec => []NodeHistoryIsExact
<1>1. Init => TrailInv
  BY TrailInit
<1>2. FleetTypeOK /\ TrailInv /\ [Next]_vars => TrailInv'
  BY TrailStep
<1>3. ASSUME TrailInv
      PROVE  NodeHistoryIsExact
  <2>1. ASSUME NEW n \in Ids, Unambiguous(n)
        PROVE  ListForNode(log, n, NodePage) =
                 Newest({i \in DOMAIN log : did[log[i].by] = <<"node", n>>}, NodePage)
    <3>1. {i \in DOMAIN log : NamesNode(log[i], n)} = {i \in DOMAIN log : did[log[i].by] = <<"node", n>>}
      BY <1>3, <2>1 DEF TrailInv, LogIsTrue, EntryFits
    <3>2. NodePage \in 1..NodeMax
      BY AuditAssumption
    <3>3. QED
      BY <3>1, <3>2 DEF ListForNode
  <2>2. QED
    BY <2>1 DEF NodeHistoryIsExact
<1>4. QED
  BY <1>1, <1>2, <1>3, FleetTypeCorrect, PTL DEF Spec

(* RedirectMeansReloaded: a wait page sends back only an operator whose    *)
(* edit Headscale has read, whatever other restarts overlap with it.       *)
THEOREM RedirectsMeanReloaded == Spec => []RedirectMeansReloaded
<1>1. Init => ReloadInv
  <2>1. Init => \A r \in Requests : req[r] = Blank /\ unloaded = {}
    BY DEF Init
  <2>2. QED
    BY <2>1, BlankType DEF ReloadInv, AwaitsReload, Awaits
<1>2. FleetTypeOK /\ AllDidFits /\ ReloadInv /\ [Next]_vars => ReloadInv'
  BY ReloadStep
<1>3. ReloadInv => RedirectMeansReloaded
  BY DEF ReloadInv, AwaitsReload, RedirectMeansReloaded, At
<1>4. QED
  BY <1>1, <1>2, <1>3, FleetTypes, PTL DEF Spec

(* UndisturbedEditIsExact: a save that could read the row, and over which  *)
(* nobody else wrote since the form was made, changes the field the        *)
(* operator typed into and updated_at, and nothing else, whatever was      *)
(* typed, shown or refused.                                                *)
THEOREM UndisturbedEditsAreExact == Spec => UndisturbedEditIsExact
<1>1. Init => FormInv
  BY FormInit
<1>2. FleetTypeOK /\ AllDidFits /\ FormInv /\ [Next]_vars => FormInv'
  BY FormStep
<1>3. FleetTypeOK /\ AllDidFits /\ FormInv /\ [Next]_vars
      => \A r \in Requests : ~req[r].unread => EditIsExact(r)
  BY EditStep
<1>4. QED
  BY <1>1, <1>2, <1>3, FleetTypes, PTL DEF Spec, UndisturbedEditIsExact
=============================================================================
