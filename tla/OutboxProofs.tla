---------------------------- MODULE OutboxProofs ----------------------------
(***************************************************************************)
(* The outbox keeps its promise for every number of events, dispatchers,   *)
(* admin requests and failures: it implements Delivery, and a parked event *)
(* always has a letter that is not replayed.                               *)
(***************************************************************************)
EXTENDS Outbox, SequenceTheorems, TLAPS

------------------------------------------------------------------------------
(* The list of letters.                                                    *)

Fresh(e) == [event |-> e, state |-> "pending"]

\* A new letter leaves the others as they were.
LEMMA LetterAdded ==
    ASSUME NEW s \in Seq(Letter), NEW e \in Events
    PROVE  LET t == Append(s, Fresh(e))
           IN  /\ t \in Seq(Letter)
               /\ DOMAIN s = 1..Len(s) /\ DOMAIN t = 1..Len(t)
               /\ Len(s) \in Nat /\ Len(t) = Len(s) + 1
               /\ \A l \in 1..Len(s) : t[l] = s[l]
               /\ t[Len(s) + 1] = Fresh(e)
<1>1. Fresh(e) \in Letter  BY DEF Fresh, Letter
<1> DEFINE t == Append(s, Fresh(e))
<1>2. t \in Seq(Letter) /\ Len(t) = Len(s) + 1 /\ t[Len(s) + 1] = Fresh(e)
      /\ \A l \in 1..Len(s) : t[l] = s[l]
  BY <1>1, AppendProperties
<1>3. DOMAIN s = 1..Len(s) /\ Len(s) \in Nat  BY LenProperties
<1>4. DOMAIN t = 1..Len(t)  BY <1>2, LenProperties
<1>5. QED  BY <1>2, <1>3, <1>4

\* Resolving a letter changes its state and nothing else.
LEMMA LetterResolved ==
    ASSUME NEW s \in Seq(Letter), NEW l \in 1..Len(s), NEW x \in {"replayed", "discarded"}
    PROVE  LET t == [s EXCEPT ![l].state = x]
           IN  /\ t \in Seq(Letter)
               /\ DOMAIN s = 1..Len(s) /\ DOMAIN t = 1..Len(s) /\ Len(t) = Len(s)
               /\ \A k \in 1..Len(s) : /\ t[k].event = s[k].event
                                       /\ t[k].state = IF k = l THEN x ELSE s[k].state
<1> DEFINE e == [s[l] EXCEPT !.state = x]
           t == [s EXCEPT ![l] = e]
<1>1. \A k \in 1..Len(s) : s[k] \in Letter  BY ElementOfSeq
<1>2. e \in Letter /\ e.event = s[l].event /\ e.state = x  BY <1>1 DEF Letter
<1>3. /\ t \in Seq(Letter) /\ Len(t) = Len(s)
      /\ \A k \in 1..Len(s) : t[k] = IF k = l THEN e ELSE s[k]
  BY <1>2, ExceptSeq
<1>4. DOMAIN s = 1..Len(s)  BY LenProperties
<1>5. DOMAIN t = 1..Len(t)  BY <1>3, LenProperties
<1>6. QED  BY <1>2, <1>3, <1>4, <1>5

\* Every letter is about an event.
LEMMA LetterEvents ==
    TypeOK => \A l \in 1..Len(letters) : letters[l].event \in Events
<1> SUFFICES ASSUME TypeOK, NEW l \in 1..Len(letters) PROVE letters[l].event \in Events
  OBVIOUS
<1>1. letters[l] \in Letter  BY ElementOfSeq DEF TypeOK
<1>2. QED  BY <1>1 DEF Letter

------------------------------------------------------------------------------
(* Types.                                                                  *)

\* The empty outbox is typed.
LEMMA InitTyped == Init => TypeOK
  BY OutboxAssumption DEF Init, TypeOK, Statuses, Unsent

\* Every step keeps every variable in its type.
LEMMA StepTyped == TypeOK /\ [Next]_vars => TypeOK'
<1> SUFFICES ASSUME TypeOK, [Next]_vars PROVE TypeOK'  OBVIOUS
<1> USE OutboxAssumption, NullAssumption DEF rowVars, Statuses, Unsent, Move
<1>1. ASSUME NEW e \in Events, Enqueue(e)  PROVE TypeOK'
  BY <1>1 DEF TypeOK, Enqueue
<1>2. ASSUME NEW e \in Events, Elapse(e)  PROVE TypeOK'
  BY <1>2 DEF TypeOK, Elapse, BecomesDue
<1>3. ASSUME NEW e \in Events, ClaimLapses(e)  PROVE TypeOK'
  BY <1>3 DEF TypeOK, ClaimLapses, BecomesDue
<1>4. ASSUME NEW d \in Dispatchers, Claim(d)  PROVE TypeOK'
  BY <1>4 DEF TypeOK, Claim, Due
<1>5. ASSUME NEW d \in Dispatchers, Read(d)  PROVE TypeOK'
  BY <1>5 DEF TypeOK, Read, Current, NoRecord
<1>6. ASSUME NEW d \in Dispatchers, Publish(d)  PROVE TypeOK'
  BY <1>6 DEF TypeOK, Publish, Current, NoRecord
<1>7. ASSUME NEW d \in Dispatchers, MarkSent(d)  PROVE TypeOK'
  BY <1>7 DEF TypeOK, MarkSent, Current, NoRecord
<1>8. ASSUME NEW d \in Dispatchers, Fail(d)  PROVE TypeOK'
  <2>1. current[d] \in Current  BY <1>8 DEF TypeOK, Fail
  <2>2. current[d].event \in Events /\ current[d].retries + 1 \in Nat  BY <2>1 DEF Current
  <2>3. /\ letters' \in Seq(Letter) /\ Len(letters) \in Nat
        /\ Len(letters') \in Nat /\ Len(letters') >= Len(letters)
    <3>1. letters' = letters \/ letters' = Append(letters, Fresh(current[d].event))
      BY <1>8 DEF Fail, Fresh
    <3>2. letters \in Seq(Letter)  BY DEF TypeOK
    <3>3. CASE letters' = letters  BY <3>2, <3>3, LenProperties
    <3>4. CASE letters' = Append(letters, Fresh(current[d].event))
      BY <2>2, <3>2, <3>4, LetterAdded
    <3>5. QED  BY <3>1, <3>3, <3>4
  <2>4. \A a \in Admins : request'[a] # NULL => request'[a].letter \in 1..Len(letters')
    <3>1. request' = request  BY <1>8 DEF Fail
    <3>2. \A a \in Admins : request[a] # NULL => request[a].letter \in 1..Len(letters)
      BY DEF TypeOK
    <3>3. 1..Len(letters) \subseteq 1..Len(letters')  BY <2>3
    <3>4. QED  BY <3>1, <3>2, <3>3, Zenon
  <2>5. /\ retryCount' = [retryCount EXCEPT ![current[d].event] = current[d].retries + 1]
        /\ due' = [due EXCEPT ![current[d].event] = FALSE]
        /\ \E x \in {"pending", "failed"} : status' = [status EXCEPT ![current[d].event] = x]
        /\ current' = [current EXCEPT ![d] = NULL]
        /\ UNCHANGED <<delivered, batch, request>>
        /\ moves > 0 /\ moves' = moves - 1
    BY <1>8 DEF Fail
  <2>6. status' \in [Events -> Statuses]  BY <2>2, <2>5 DEF TypeOK
  <2>7. moves' \in 0..MaxMoves  BY <2>5 DEF TypeOK
  <2>8. retryCount' \in [Events -> Nat] /\ due' \in [Events -> BOOLEAN]
        /\ current' \in [Dispatchers -> Current \cup {NULL}]
    BY <2>2, <2>5 DEF TypeOK
  <2>9. delivered' \subseteq Events /\ batch' \in [Dispatchers -> SUBSET Events]
        /\ request' \in [Admins -> Request \cup {NULL}]
    BY <2>5 DEF TypeOK
  <2>10. QED  BY <2>3, <2>4, <2>6, <2>7, <2>8, <2>9 DEF TypeOK
<1>9. ASSUME NEW d \in Dispatchers, Crash(d)  PROVE TypeOK'
  BY <1>9 DEF TypeOK, Crash
<1>10. ASSUME NEW a \in Admins, ReplayRead(a) \/ DiscardRead(a)  PROVE TypeOK'
  <2>1. PICK kind \in {"replay", "discard"} : Open(a, kind)
    BY <1>10 DEF ReplayRead, DiscardRead
  <2>2. QED  BY <2>1 DEF TypeOK, Open, Request, NoRecord
<1>11. ASSUME NEW a \in Admins, ReplayCommit(a) \/ DiscardCommit(a)  PROVE TypeOK'
  <2>1. request[a] \in Request /\ request[a].letter \in 1..Len(letters)
    BY <1>11 DEF TypeOK, ReplayCommit, DiscardCommit
  <2>2. PICK state \in {"replayed", "discarded"} : Resolve(a, state)
    BY <1>11 DEF ReplayCommit, DiscardCommit
  <2>3. letters' \in Seq(Letter) /\ Len(letters') = Len(letters)
    <3>1. letters' = [letters EXCEPT ![request[a].letter].state = state]
      BY <2>2 DEF Resolve
    <3>2. letters \in Seq(Letter)  BY DEF TypeOK
    <3>3. QED  BY <2>1, <3>1, <3>2, LetterResolved
  <2>4. letters[request[a].letter].event \in Events
    <3>1. letters[request[a].letter] \in Letter  BY <2>1, ElementOfSeq DEF TypeOK
    <3>2. QED  BY <3>1 DEF Letter
  <2>5. request' = [request EXCEPT ![a] = NULL]  BY <2>2 DEF Resolve
  <2>6. request' \in [Admins -> Request \cup {NULL}]  BY <2>5 DEF TypeOK
  <2>7. \A b \in Admins : request'[b] # NULL => request'[b].letter \in 1..Len(letters')
    BY <2>3, <2>5 DEF TypeOK
  <2>8. QED  BY <1>11, <2>3, <2>4, <2>6, <2>7 DEF TypeOK, ReplayCommit, DiscardCommit
<1>12. CASE UNCHANGED vars  BY <1>12 DEF TypeOK, vars
<1>13. QED
  BY <1>1, <1>2, <1>3, <1>4, <1>5, <1>6, <1>7, <1>8, <1>9, <1>10, <1>11, <1>12
     DEF Next, Dispatch

\* Every variable keeps its type in every reachable state.
THEOREM OutboxTypes == Spec => []TypeOK
  BY InitTyped, StepTyped, PTL DEF Spec

------------------------------------------------------------------------------
(* A parked event has a letter.                                            *)

\* An open replay that will not write the event's status: it read 'pending', so it
\* resolves its letter and leaves the event as it is by then.
Abandons(a, l) ==
    request[a] # NULL /\ request[a].kind = "replay" /\ request[a].letter = l
    /\ ~request[a].reset

\* The letter of a parked event that no open request takes away.
ParkedHasSafeLetter ==
    \A e \in Events : status[e] = "failed" =>
        \E l \in 1..Len(letters) : Witness(e, l) /\ \A a \in Admins : ~Abandons(a, l)

\* A failing dispatcher writes a letter of its own when it parks, and takes none away.
LEMMA FailKeepsLetter ==
    ASSUME TypeOK, ParkedHasSafeLetter, NEW d \in Dispatchers, Fail(d)
    PROVE  ParkedHasSafeLetter'
<1> DEFINE f == current[d].event
<1>1. f \in Events  BY DEF TypeOK, Fail, Current
<1>2. letters \in Seq(Letter) /\ request' = request
      /\ \A a \in Admins : request[a] # NULL => request[a].letter \in 1..Len(letters)
  BY DEF TypeOK, Fail
<1>3. SUFFICES ASSUME NEW e \in Events, status'[e] = "failed"
               PROVE \E l \in 1..Len(letters') :
                       (Witness(e, l))' /\ \A a \in Admins : ~Abandons(a, l)'
  BY DEF ParkedHasSafeLetter
<1>4. CASE letters' = Append(letters, Fresh(f)) /\ e = f
  <2>1. PICK l \in Nat : l = Len(letters) + 1  BY <1>2, LenProperties
  <2>2. l \in 1..Len(letters') /\ letters'[l] = Fresh(f) /\ l \notin 1..Len(letters)
    BY <1>1, <1>2, <1>4, <2>1, LetterAdded
  <2>3. (Witness(e, l))'  BY <2>2, <1>4 DEF Witness, Fresh
  <2>4. ASSUME NEW a \in Admins  PROVE ~Abandons(a, l)'
    <3>1. request[a] # NULL => request[a].letter # l  BY <1>2, <2>2
    <3>2. QED  BY <1>2, <3>1 DEF Abandons
  <2>5. QED  BY <2>2, <2>3, <2>4
<1>5. CASE e # f
  <2>1. status[e] = "failed"
    <3>1. \E x \in {"pending", "failed"} : status' = [status EXCEPT ![f] = x]  BY DEF Fail
    <3>2. QED  BY <1>3, <1>5, <3>1 DEF TypeOK
  <2>2. PICK l \in 1..Len(letters) : Witness(e, l) /\ \A a \in Admins : ~Abandons(a, l)
    BY <2>1 DEF ParkedHasSafeLetter
  <2>3. letters' = letters \/ letters' = Append(letters, Fresh(f))
    BY DEF Fail, Fresh
  <2>4. l \in 1..Len(letters') /\ letters'[l] = letters[l]
    BY <1>1, <1>2, <2>3, LetterAdded
  <2>5. (Witness(e, l))'  BY <2>2, <2>4 DEF Witness
  <2>6. \A a \in Admins : ~Abandons(a, l)'  BY <1>2, <2>2 DEF Abandons
  <2>7. QED  BY <2>4, <2>5, <2>6
<1>6. QED
  <2>1. e = f => status'[f] = "failed"  BY <1>3
  <2>2. e = f => letters' = Append(letters, Fresh(f))
    BY <1>1, <2>1 DEF Fail, Fresh, TypeOK
  <2>3. QED  BY <1>4, <1>5, <2>2

\* A replay of a safe letter also reopens its event; other requests leave safe
\* letters unreplayed.
LEMMA RequestKeepsLetter ==
    ASSUME TypeOK, ParkedHasSafeLetter, NEW a \in Admins,
           ReplayRead(a) \/ DiscardRead(a) \/ ReplayCommit(a) \/ DiscardCommit(a)
    PROVE  ParkedHasSafeLetter'
<1> SUFFICES ASSUME NEW e \in Events, status'[e] = "failed"
             PROVE \E l \in 1..Len(letters') :
                     (Witness(e, l))' /\ \A b \in Admins : ~Abandons(b, l)'
  BY DEF ParkedHasSafeLetter
<1> USE NullAssumption DEF NoRecord
<1>1. letters \in Seq(Letter) /\ request \in [Admins -> Request \cup {NULL}]
      /\ \A b \in Admins : request[b] # NULL => request[b].letter \in 1..Len(letters)
      /\ status \in [Events -> Statuses]
  BY DEF TypeOK
<1>2. \A k \in 1..Len(letters) : letters[k] \in Letter  BY <1>1, ElementOfSeq
<1>3. CASE ReplayRead(a) \/ DiscardRead(a)
  <2>1. PICK kind \in {"replay", "discard"} : Open(a, kind)
    BY <1>3 DEF ReplayRead, DiscardRead
  <2>2. DOMAIN letters = 1..Len(letters)  BY <1>1, LenProperties
  <2>3. PICK k \in 1..Len(letters) :
            request' = [request EXCEPT ![a] =
                [kind |-> kind, letter |-> k, reset |-> status[letters[k].event] # "pending"]]
    BY <2>1, <2>2 DEF Open
  <2>4. letters' = letters /\ status' = status  BY <2>1 DEF Open, rowVars
  <2>5. PICK l \in 1..Len(letters) : Witness(e, l) /\ \A b \in Admins : ~Abandons(b, l)
    BY <2>4 DEF ParkedHasSafeLetter
  <2>6. \A b \in Admins : ~Abandons(b, l)'
    <3>1. SUFFICES ASSUME NEW b \in Admins, Abandons(b, l)' PROVE FALSE  OBVIOUS
    <3>2. CASE b # a
      <4>1. request'[b] = request[b]  BY <1>1, <2>3, <3>2
      <4>2. QED  BY <2>5, <3>1, <4>1 DEF Abandons
    <3>3. CASE b = a
      <4>1. request'[a] = [kind |-> kind, letter |-> k,
                           reset |-> status[letters[k].event] # "pending"]
        BY <1>1, <2>3
      <4>2. request'[a].letter = l /\ ~request'[a].reset
        BY <3>1, <3>3 DEF Abandons
      <4>3. k = l /\ status[letters[k].event] = "pending"
        <5> DEFINE z == status[letters[k].event] # "pending"
        <5>1. request'[a].letter = k /\ request'[a].reset = z  BY <4>1
        <5>2. QED  BY <4>2, <5>1
      <4>4. QED  BY <2>4, <2>5, <4>3 DEF Witness
    <3>4. QED  BY <3>2, <3>3
  <2>7. QED  BY <2>4, <2>5, <2>6 DEF Witness
<1>4. CASE ReplayCommit(a) \/ DiscardCommit(a)
  <2>1. PICK x \in {"replayed", "discarded"} :
          Resolve(a, x) /\ (x = "replayed" <=> request[a].kind = "replay")
    BY <1>4 DEF ReplayCommit, DiscardCommit
  <2> DEFINE r == request[a].letter
  <2>2. r \in 1..Len(letters)  BY <1>1, <1>4 DEF ReplayCommit, DiscardCommit
  <2>3. letters' = [letters EXCEPT ![r].state = x] /\ request' = [request EXCEPT ![a] = NULL]
    BY <2>1 DEF Resolve
  <2>4. /\ Len(letters') = Len(letters)
        /\ \A k \in 1..Len(letters) : /\ letters'[k].event = letters[k].event
                                      /\ letters'[k].state =
                                           IF k = r THEN x ELSE letters[k].state
    BY <1>1, <2>2, <2>3, LetterResolved
  <2>5. status[e] = "failed"
    BY <1>1, <1>4 DEF ReplayCommit, DiscardCommit, rowVars
  <2>6. PICK l \in 1..Len(letters) : Witness(e, l) /\ \A b \in Admins : ~Abandons(b, l)
    BY <2>5 DEF ParkedHasSafeLetter
  <2>7. ~(l = r /\ x = "replayed")
    <3>1. SUFFICES ASSUME l = r, x = "replayed" PROVE FALSE  OBVIOUS
    <3>2. ReplayCommit(a)  BY <1>4, <2>1, <3>1 DEF DiscardCommit
    <3>3. request[a].reset
      BY <2>6, <3>1, <3>2 DEF Abandons, ReplayCommit
    <3>4. letters[r].event = e  BY <2>6, <3>1 DEF Witness
    <3>5. QED  BY <1>1, <3>2, <3>3, <3>4 DEF ReplayCommit
  <2>8. (Witness(e, l))'  BY <2>4, <2>6, <2>7 DEF Witness
  <2>9. \A b \in Admins : ~Abandons(b, l)'
    <3>1. \A b \in Admins : request'[b] = IF b = a THEN NULL ELSE request[b]
      BY <1>1, <2>3
    <3>2. QED  BY <2>6, <3>1 DEF Abandons
  <2>10. QED  BY <2>4, <2>8, <2>9
<1>5. QED  BY <1>3, <1>4

\* So every step keeps a safe letter beside every parked event.
LEMMA LetterStep == TypeOK /\ ParkedHasSafeLetter /\ [Next]_vars => ParkedHasSafeLetter'
<1> SUFFICES ASSUME TypeOK, ParkedHasSafeLetter, [Next]_vars PROVE ParkedHasSafeLetter'
  OBVIOUS
<1>1. ASSUME letters' = letters, request' = request,
             \A e \in Events : status'[e] = "failed" => status[e] = "failed"
      PROVE  ParkedHasSafeLetter'
  BY <1>1 DEF ParkedHasSafeLetter, Witness, Abandons
<1>2. ASSUME NEW e \in Events, Enqueue(e) \/ Elapse(e) \/ ClaimLapses(e)
      PROVE  ParkedHasSafeLetter'
  BY <1>1, <1>2 DEF Enqueue, Elapse, ClaimLapses, BecomesDue, TypeOK
<1>3. ASSUME NEW d \in Dispatchers, Dispatch(d) \/ Crash(d)  PROVE ParkedHasSafeLetter'
  BY <1>1, <1>3 DEF Dispatch, Claim, Read, Publish, MarkSent, Crash, rowVars, TypeOK
<1>4. CASE UNCHANGED vars  BY <1>1, <1>4 DEF vars, rowVars
<1>5. QED
  BY <1>2, <1>3, <1>4, FailKeepsLetter, RequestKeepsLetter DEF Next

\* A parked event always has a letter that was not replayed, for every number of
\* dispatchers and requests that overwrite each other's rows.
THEOREM ParkedLetter == Spec => []ParkedHasLetter
<1>1. Init => ParkedHasSafeLetter  BY DEF Init, ParkedHasSafeLetter
<1>2. TypeOK /\ ParkedHasSafeLetter => ParkedHasLetter
  <2>1. TypeOK => DOMAIN letters = 1..Len(letters)  BY LenProperties DEF TypeOK
  <2>2. QED  BY <2>1 DEF ParkedHasSafeLetter, ParkedHasLetter
<1>3. QED  BY <1>1, <1>2, LetterStep, OutboxTypes, PTL DEF Spec

------------------------------------------------------------------------------
(* The outbox implements Delivery.                                         *)

\* Nobody works on a row that does not exist, and a dispatcher that has published
\* an event has handed it to the broker.
Backed ==
    /\ \A d \in Dispatchers : \A e \in batch[d] : status[e] # "absent"
    /\ \A d \in Dispatchers : current[d] # NULL =>
         /\ status[current[d].event] # "absent"
         /\ current[d].published => current[d].event \in delivered
    /\ \A l \in 1..Len(letters) : status[letters[l].event] # "absent"

\* Steps that leave the dispatchers alone.
LEMMA BackedByRows ==
    ASSUME TypeOK, Backed, batch' = batch, current' = current, delivered' = delivered,
           \A e \in Events : status[e] # "absent" => status'[e] # "absent",
           Len(letters') = Len(letters),
           \A l \in 1..Len(letters) : letters'[l].event = letters[l].event
    PROVE  Backed'
<1>1. \A d \in Dispatchers : current[d] # NULL => current[d].event \in Events
  BY DEF TypeOK, Current
<1>2. \A l \in 1..Len(letters) : letters[l].event \in Events
  BY LetterEvents
<1>3. \A d \in Dispatchers : batch[d] \subseteq Events  BY DEF TypeOK
<1>4. QED  BY <1>1, <1>2, <1>3 DEF Backed

\* A dispatcher publishes before it concludes, and rows are never removed.
LEMMA BackedStep == TypeOK /\ Backed /\ [Next]_vars => Backed'
<1> SUFFICES ASSUME TypeOK, Backed, [Next]_vars PROVE Backed'  OBVIOUS
<1> USE NullAssumption DEF NoRecord, rowVars
<1>1. /\ status \in [Events -> Statuses] /\ letters \in Seq(Letter)
      /\ batch \in [Dispatchers -> SUBSET Events]
      /\ current \in [Dispatchers -> Current \cup {NULL}]
      /\ \A a \in Admins : request[a] # NULL => request[a].letter \in 1..Len(letters)
  BY DEF TypeOK
<1>2. \A d \in Dispatchers : current[d] # NULL => current[d] \in Current  BY <1>1
<1>3. ASSUME NEW e \in Events, Enqueue(e) \/ Elapse(e) \/ ClaimLapses(e)  PROVE Backed'
  <2>1. UNCHANGED <<letters, batch, current, delivered>>
    BY <1>3 DEF Enqueue, Elapse, ClaimLapses, BecomesDue
  <2>2. status' = status \/ status' = [status EXCEPT ![e] = "pending"]
    BY <1>3 DEF Enqueue, Elapse, ClaimLapses, BecomesDue
  <2>3. \A f \in Events : status[f] # "absent" => status'[f] # "absent"  BY <1>1, <2>2
  <2>4. QED  BY <2>1, <2>3, BackedByRows
<1>4. ASSUME NEW d \in Dispatchers, Claim(d)  PROVE Backed'
  <2>1. PICK B \in SUBSET Due :
          /\ batch' = [batch EXCEPT ![d] = B]
          /\ status' = [e \in Events |-> IF e \in B THEN "publishing" ELSE status[e]]
    BY <1>4 DEF Claim
  <2>2. UNCHANGED <<letters, delivered, current>>  BY <1>4 DEF Claim
  <2>3. \A e \in Events : status[e] # "absent" => status'[e] # "absent"  BY <2>1
  <2>4. \A c \in Dispatchers : \A e \in batch'[c] : e \in Events /\ status'[e] # "absent"
    BY <1>1, <2>1 DEF Due, Backed
  <2>5. \A l \in 1..Len(letters) : letters[l].event \in Events
    BY LetterEvents
  <2>6. QED  BY <1>2, <2>2, <2>3, <2>4, <2>5 DEF Backed, Current
<1>5. ASSUME NEW d \in Dispatchers, Read(d)  PROVE Backed'
  <2>1. PICK e \in batch[d] :
          /\ batch' = [batch EXCEPT ![d] = @ \ {e}]
          /\ current' = IF status[e] = "publishing"
                        THEN [current EXCEPT ![d] =
                               [event |-> e, retries |-> retryCount[e], published |-> FALSE]]
                        ELSE current
    BY <1>5 DEF Read
  <2>2. UNCHANGED <<status, letters, delivered>>  BY <1>5 DEF Read
  <2>3. \A c \in Dispatchers : batch'[c] \subseteq batch[c]  BY <1>1, <2>1
  <2>4. \A c \in Dispatchers : current'[c] # current[c] =>
          status[e] = "publishing" /\ current'[c].event = e /\ ~current'[c].published
    <3> DEFINE r == [event |-> e, retries |-> retryCount[e], published |-> FALSE]
    <3>1. r.event = e /\ ~r.published  OBVIOUS
    <3>2. \A c \in Dispatchers : current'[c] # current[c] =>
            status[e] = "publishing" /\ current'[c] = r
      BY <1>1, <2>1
    <3>3. QED  BY <3>1, <3>2
  <2>5. QED  BY <2>2, <2>3, <2>4 DEF Backed
<1>6. ASSUME NEW d \in Dispatchers, Publish(d)  PROVE Backed'
  <2>1. current' = [current EXCEPT ![d].published = TRUE]
        /\ delivered' = delivered \cup {current[d].event} /\ current[d] # NULL
        /\ UNCHANGED <<status, letters, batch>>
    BY <1>6 DEF Publish
  <2>2. current'[d].event = current[d].event /\ current'[d].published
    BY <1>1, <1>2, <2>1 DEF Current
  <2>3. \A c \in Dispatchers : c # d => current'[c] = current[c]  BY <1>1, <2>1
  <2>4. QED  BY <2>1, <2>2, <2>3 DEF Backed
<1>7. ASSUME NEW d \in Dispatchers, current' = [current EXCEPT ![d] = NULL],
             batch' = batch \/ batch' = [batch EXCEPT ![d] = {}],
             delivered' = delivered,
             \A e \in Events : status[e] # "absent" => status'[e] # "absent",
             \A l \in 1..Len(letters') : status'[letters'[l].event] # "absent"
      PROVE  Backed'
  <2>1. \A c \in Dispatchers : batch'[c] \subseteq batch[c] /\ batch[c] \subseteq Events
    BY <1>1, <1>7
  <2>2. \A c \in Dispatchers : current'[c] # NULL => current'[c] = current[c]
    BY <1>1, <1>7
  <2>3. QED  BY <1>2, <1>7, <2>1, <2>2 DEF Backed, Current
<1>8. \A l \in 1..Len(letters) :
        letters[l].event \in Events /\ status[letters[l].event] # "absent"
  BY LetterEvents DEF Backed
<1>9. ASSUME NEW d \in Dispatchers, MarkSent(d) \/ Crash(d)  PROVE Backed'
  <2>1. \A e \in Events : status[e] # "absent" => status'[e] # "absent"
    BY <1>1, <1>9 DEF MarkSent, Crash
  <2>2. QED  BY <1>7, <1>8, <1>9, <2>1 DEF MarkSent, Crash
<1>10. ASSUME NEW d \in Dispatchers, Fail(d)  PROVE Backed'
  <2> DEFINE f == current[d].event
  <2>1. f \in Events /\ status[f] # "absent"
    BY <1>2, <1>10 DEF Fail, Backed, Current
  <2>2. \E x \in {"pending", "failed"} : status' = [status EXCEPT ![f] = x]
    BY <1>10 DEF Fail
  <2>3. \A e \in Events : status[e] # "absent" => status'[e] # "absent"  BY <1>1, <2>2
  <2>4. letters' = letters \/ letters' = Append(letters, Fresh(f))  BY <1>10 DEF Fail, Fresh
  <2>5. \A l \in 1..Len(letters') : letters'[l].event = f \/
          (l \in 1..Len(letters) /\ letters'[l] = letters[l])
    BY <1>1, <2>1, <2>4, LetterAdded, SMTT(30) DEF Fresh
  <2>6. \A l \in 1..Len(letters') : status'[letters'[l].event] # "absent"
    BY <1>8, <2>1, <2>3, <2>5
  <2>7. current' = [current EXCEPT ![d] = NULL] /\ batch' = batch /\ delivered' = delivered
    BY <1>10 DEF Fail
  <2>8. QED  BY <1>7, <2>3, <2>6, <2>7
<1>11. ASSUME NEW a \in Admins, ReplayRead(a) \/ DiscardRead(a)  PROVE Backed'
  <2>1. UNCHANGED <<status, letters, delivered, batch, current>>
    BY <1>11 DEF ReplayRead, DiscardRead, Open
  <2>2. QED  BY <2>1 DEF Backed
<1>12. ASSUME NEW a \in Admins, ReplayCommit(a) \/ DiscardCommit(a)  PROVE Backed'
  <2>1. PICK x \in {"replayed", "discarded"} : Resolve(a, x)
    BY <1>12 DEF ReplayCommit, DiscardCommit
  <2>2. request[a].letter \in 1..Len(letters)
    BY <1>1, <1>12 DEF ReplayCommit, DiscardCommit
  <2>3. Len(letters') = Len(letters)
        /\ \A l \in 1..Len(letters) : letters'[l].event = letters[l].event
    BY <1>1, <2>1, <2>2, LetterResolved DEF Resolve
  <2>4. \A e \in Events : status[e] # "absent" => status'[e] # "absent"
    BY <1>1, <1>12 DEF ReplayCommit, DiscardCommit
  <2>5. batch' = batch /\ current' = current /\ delivered' = delivered
    BY <1>12 DEF ReplayCommit, DiscardCommit
  <2>6. QED  BY <2>3, <2>4, <2>5, BackedByRows
<1>13. CASE UNCHANGED vars  BY <1>13 DEF vars, Backed
<1>14. QED
  BY <1>3, <1>4, <1>5, <1>6, <1>9, <1>10, <1>11, <1>12, <1>13 DEF Next, Dispatch

\* The abstract place of each status.
LEMMA Places ==
    /\ Place("absent") = "none" /\ Place("sent") = "done" /\ Place("failed") = "parked"
    /\ \A s \in Unsent : Place(s) = "owed"
  BY DEF Place, Unsent

\* One abstract move of one event.
LEMMA PlaceMove ==
    ASSUME TypeOK, NEW e \in Events, NEW x \in Statuses, status' = [status EXCEPT ![e] = x],
           delivered' = delivered, status[e] # "absent", x # "absent",
           x = "sent" => e \in delivered
    PROVE  [Promise!Next]_(Promise!vars)
<1> DEFINE P == [f \in Events |-> Place(status[f])]
<1>1. P' = [P EXCEPT ![e] = Place(x)] /\ P[e] = Place(status[e])  BY DEF TypeOK
<1>2. \A s \in Statuses \ {"absent"} : Place(s) \in {"owed", "done", "parked"}
      /\ (Place(s) = "done" <=> s = "sent")
  BY DEF Place, Statuses, Unsent
<1>3. P[e] \in {"owed", "done", "parked"}  BY <1>1, <1>2 DEF TypeOK
<1>4. CASE Place(x) = P[e]
  <2>1. P' = P  BY <1>1, <1>4
  <2>2. QED  BY <2>1 DEF Promise!vars
<1>5. CASE P[e] # "owed" /\ Place(x) = "owed"
  BY <1>1, <1>3, <1>5 DEF Promise!Next, Promise!Reopen, Promise!Move
<1>6. CASE P[e] # "done" /\ Place(x) = "done"
  BY <1>1, <1>2, <1>3, <1>6 DEF Promise!Next, Promise!Finish, Promise!Move
<1>7. CASE P[e] # "parked" /\ Place(x) = "parked"
  BY <1>1, <1>3, <1>7 DEF Promise!Next, Promise!Park, Promise!Move
<1>8. QED  BY <1>2, <1>4, <1>5, <1>6, <1>7

\* Every step of the outbox is a step of the promise or a stutter.
LEMMA PromiseStep == TypeOK /\ Backed /\ [Next]_vars => [Promise!Next]_(Promise!vars)
<1> SUFFICES ASSUME TypeOK, Backed, [Next]_vars PROVE [Promise!Next]_(Promise!vars)  OBVIOUS
<1> USE NullAssumption DEF NoRecord, rowVars
<1> DEFINE P == [e \in Events |-> Place(status[e])]
<1>1. ASSUME P' = P, delivered' = delivered  PROVE [Promise!Next]_(Promise!vars)
  BY <1>1 DEF Promise!vars
<1>2. ASSUME NEW e \in Events, Enqueue(e)  PROVE Promise!Request(e)
  <2>1. status[e] = "absent" /\ status' = [status EXCEPT ![e] = "pending"]
        /\ delivered' = delivered
    BY <1>2 DEF Enqueue
  <2>2. Place("absent") = "none" /\ Place("pending") = "owed"  BY Places DEF Unsent
  <2>3. P[e] = "none"  BY <2>1, <2>2
  <2>4. \A f \in Events : status'[f] = IF f = e THEN "pending" ELSE status[f]
    BY <2>1 DEF TypeOK
  <2>5. P' = [P EXCEPT ![e] = "owed"]  BY <2>2, <2>4
  <2>6. QED  BY <2>1, <2>3, <2>5 DEF Promise!Request, Promise!Move
<1>3. ASSUME NEW e \in Events, Elapse(e) \/ ClaimLapses(e)
      PROVE  status' = status /\ delivered' = delivered
  BY <1>3 DEF Elapse, ClaimLapses, BecomesDue
<1>4. ASSUME NEW d \in Dispatchers, Claim(d)  PROVE P' = P /\ delivered' = delivered
  <2>1. PICK B \in SUBSET Due :
          status' = [e \in Events |-> IF e \in B THEN "publishing" ELSE status[e]]
    BY <1>4 DEF Claim
  <2>2. \A e \in Events : Place(status'[e]) = Place(status[e])
    <3>1. SUFFICES ASSUME NEW e \in Events PROVE Place(status'[e]) = Place(status[e])
      OBVIOUS
    <3>2. CASE e \in B
      <4>1. status'[e] = "publishing" /\ status[e] \in Unsent  BY <2>1, <3>2 DEF Due
      <4>2. QED  BY <4>1, Places DEF Unsent
    <3>3. CASE e \notin B  BY <2>1, <3>3
    <3>4. QED  BY <3>2, <3>3
  <2>3. QED  BY <1>4, <2>2 DEF Claim
<1>5. ASSUME NEW d \in Dispatchers, Read(d) \/ Crash(d)
      PROVE  status' = status /\ delivered' = delivered
  BY <1>5 DEF Read, Crash
<1>6. ASSUME NEW d \in Dispatchers, Publish(d)  PROVE \E e \in Events : Promise!Deliver(e)
  <2> DEFINE e == current[d].event
  <2>1. e \in Events /\ status[e] # "absent" /\ status[e] \in Statuses
    BY <1>6 DEF Publish, Backed, TypeOK, Current
  <2>2. P[e] # "none"  BY <2>1 DEF Place, Statuses, Unsent
  <2>3. QED  BY <1>6, <2>1, <2>2 DEF Publish, Promise!Deliver
<1>7. ASSUME NEW d \in Dispatchers, MarkSent(d)  PROVE [Promise!Next]_(Promise!vars)
  <2> DEFINE e == current[d].event
  <2>1. e \in Events /\ status[e] # "absent" /\ e \in delivered
    BY <1>7 DEF MarkSent, Backed, TypeOK, Current
  <2>2. status' = [status EXCEPT ![e] = "sent"] /\ delivered' = delivered
    BY <1>7 DEF MarkSent
  <2>3. QED  BY <2>1, <2>2, PlaceMove DEF Statuses
<1>8. ASSUME NEW d \in Dispatchers, Fail(d)  PROVE [Promise!Next]_(Promise!vars)
  <2> DEFINE e == current[d].event
  <2>1. e \in Events /\ status[e] # "absent"
    BY <1>8 DEF Fail, Backed, TypeOK, Current
  <2>2. PICK x \in {"pending", "failed"} : status' = [status EXCEPT ![e] = x]
    BY <1>8 DEF Fail
  <2>3. delivered' = delivered  BY <1>8 DEF Fail
  <2>4. QED  BY <2>1, <2>2, <2>3, PlaceMove DEF Statuses, Unsent
<1>9. ASSUME NEW a \in Admins, ReplayRead(a) \/ DiscardRead(a) \/ DiscardCommit(a)
      PROVE  status' = status /\ delivered' = delivered
  BY <1>9 DEF ReplayRead, DiscardRead, Open, DiscardCommit
<1>10. ASSUME NEW a \in Admins, ReplayCommit(a)  PROVE [Promise!Next]_(Promise!vars)
  <2> DEFINE e == letters[request[a].letter].event
  <2>1. request[a].letter \in 1..Len(letters)  BY <1>10 DEF ReplayCommit, TypeOK
  <2>2. e \in Events /\ status[e] # "absent"  BY <2>1, LetterEvents DEF Backed
  <2>3. status' = [status EXCEPT ![e] = IF request[a].reset THEN "pending" ELSE @]
        /\ delivered' = delivered
    BY <1>10 DEF ReplayCommit
  <2>4. CASE request[a].reset
    BY <2>2, <2>3, <2>4, PlaceMove DEF Statuses, Unsent
  <2>5. CASE ~request[a].reset
    <3>1. status' = status  BY <2>3, <2>5 DEF TypeOK
    <3>2. QED  BY <1>1, <2>3, <3>1
  <2>6. QED  BY <2>4, <2>5
<1>11. CASE UNCHANGED vars  BY <1>1, <1>11 DEF vars
<1>12. QED
  BY <1>1, <1>2, <1>3, <1>4, <1>5, <1>6, <1>7, <1>8, <1>9, <1>10, <1>11
     DEF Next, Dispatch, Promise!Next

\* The outbox implements the abstract delivery: what is reported sent was delivered,
\* and a committed event is always owed, delivered or parked.
THEOREM Implementation == Spec => AtLeastOnce
<1>1. Init => Backed  BY DEF Init, Backed
<1>2. Spec => [](TypeOK /\ Backed)
  BY <1>1, BackedStep, OutboxTypes, PTL DEF Spec
<1>3. Init => Promise!Init
  <2>1. SUFFICES ASSUME Init PROVE Promise!Init  OBVIOUS
  <2>2. \A e \in Events : Place(status[e]) = "none"  BY <2>1, Places DEF Init
  <2>3. QED  BY <2>1, <2>2 DEF Init, Promise!Init
<1>4. QED  BY <1>2, <1>3, PromiseStep, PTL DEF Spec, AtLeastOnce, Promise!Spec
=============================================================================
