-------------------------- MODULE ResourcesProofs --------------------------
(***************************************************************************)
(* The key discipline of Resources: an object key has at any time at most  *)
(* one kind of owner (a request between put and commit, a row, a deletion  *)
(* under way, the reconciler), and it changes owner only in one direction. *)
(* And the storage quota: what a request commits was funded under the lock.*)
(***************************************************************************)
EXTENDS Resources, DataLemmas

\* The operations that create a document.
Creating == {"upload", "import"}
\* Which operation a request in a given step belongs to, and what it carries.
Shape ==
    \A r \in Requests :
       /\ req[r].pc \in {"staged", "reserved", "stored"} => req[r].op \in Creating \cup {"replace"}
       /\ req[r].pc \in {"locked", "trim"} => req[r].op = "replace"
       /\ req[r].pc = "committed" => req[r].op = "import" /\ req[r].doc \in Docs
       /\ req[r].op \in {"replace", "requeue"} => req[r].doc \in Docs
       /\ req[r].op \in Creating \cup {"replace"} => req[r].content \in Contents
       /\ req[r].pc \in {"stored", "committed", "trim"} => req[r].key \in Keys
\* A replacement past its row lock holds it, and its document stays visible.
Locking ==
    \A r \in Requests :
       (req[r].op = "replace" /\ req[r].pc \in {"locked", "reserved", "stored"}) =>
          kbLock = r /\ rows[req[r].doc] # None /\ rows[req[r].doc].status = "live"
\* Keys and ids in use have been drawn before.
Drawn ==
    /\ \A r \in Requests : req[r].pc \in {"stored", "committed", "trim"} => req[r].key < nextKey
    /\ \A d \in Docs : rows[d] # None => rows[d].key < nextKey /\ d < nextDoc
    /\ listing # None => \A d \in Docs : listing[d] # None => listing[d].key < nextKey
    /\ \A j \in jobs : \A k \in j.keys : k < nextKey
    /\ \A j \in jobs : j.doc # None => j.doc < nextDoc
    /\ \A k \in sweep.doomed : k < nextKey
    /\ \A k \in Keys : store[k] # "absent" => k < nextKey
\* A stored object not yet committed belongs to its request alone.
PrivateTo(r) ==
    /\ store[req[r].key] = "fresh"
    /\ \A d \in Docs : rows[d] # None => rows[d].key # req[r].key
    /\ listing # None => \A d \in Docs : listing[d] # None => listing[d].key # req[r].key
    /\ \A j \in jobs : req[r].key \notin j.keys
    /\ req[r].key \notin sweep.doomed
    /\ \A q \in Requests \ {r} : req[q].pc \in {"stored", "committed", "trim"} => req[q].key # req[r].key
\* Every stored object not yet committed is private to its request.
Private == \A r \in Requests : req[r].pc = "stored" => PrivateTo(r)
\* Rows do not share objects, no row has the object a replacement is removing, and only the row
\* it created has that of an import.
Separate ==
    /\ \A d, e \in Docs : d # e /\ rows[d] # None /\ rows[e] # None => rows[d].key # rows[e].key
    /\ \A r \in Requests : req[r].pc = "trim" =>
          \A d \in Docs : rows[d] # None => rows[d].key # req[r].key
    /\ \A r \in Requests : req[r].pc = "committed" =>
          \A d \in Docs : rows[d] # None /\ d # req[r].doc => rows[d].key # req[r].key
\* A document a user can see, whose deletion nobody overruled and whose import was not undone.
Visible(d) == /\ rows[d] # None /\ rows[d].status = "live" /\ d \notin overruled
              /\ rows[d].key \notin unrefreshed
\* Deletions under way are after keys no visible row has.
Deletion(j) ==
    /\ j.left \subseteq j.keys
    /\ \A k \in j.keys \ j.left : ~Stored(k)
    /\ \A d \in Docs : Visible(d) => rows[d].key \notin j.keys
    /\ \A d \in Docs : j.doc = d /\ rows[d] # None /\ d \notin overruled =>
          rows[d].status = "deleting" /\ rows[d].key \in j.keys
\* All deletions under way.
Deletions == \A j \in jobs : Deletion(j)
\* The reconciler has read every visible reference, or the object is too young to delete.
Sweeping ==
    /\ sweep.pc = "read" =>
          \A d \in Docs : Visible(d) => rows[d].key \in sweep.refs \/ store[rows[d].key] = "fresh"
    /\ \A d \in Docs : Visible(d) => rows[d].key \notin sweep.doomed

\* The inductive invariant of the objects.
ResInv == /\ ResTypeOK /\ Shape /\ Locking /\ Drawn /\ Private /\ Separate
          /\ Deletions /\ Sweeping /\ LiveRowHasObject

USE ResourceConstants DEF Docs, Keys

\* The keys the state refers to are numbers of Keys.
LEMMA KeyTypes ==
    ASSUME ResTypeOK
    PROVE  /\ \A d \in Docs : rows[d] # None => rows[d] \in Row /\ rows[d].key \in Keys
           /\ listing # None => \A d \in Docs : listing[d] # None => listing[d].key \in Keys
           /\ \A j \in jobs : j.keys \subseteq Keys /\ j.doc \in Docs \cup {None}
           /\ sweep.doomed \subseteq Keys
           /\ nextKey \in 1..MaxKeys + 1 /\ nextDoc \in 1..MaxDocs + 1
BY DEF ResTypeOK, Row, Job

\* The end of a request, with or without the deletion of the object it owned.
LEMMA EndStep ==
    ASSUME ResInv, NEW r \in Requests, End(r),
           UNCHANGED <<kbExists, rows, nextDoc, nextKey, listing, jobs, sweep, mix, overruled>>,
           faults' \in 0..MaxFaults,
           unrefreshed \subseteq unrefreshed' /\ unrefreshed' \subseteq Keys,
           \/ store' = store
           \/ /\ store' = Without(req[r].key)
              /\ \/ req[r].pc \in {"stored", "trim"}
                 \/ req[r].pc = "committed" /\ rows[req[r].doc] = None
                 \/ req[r].pc = "committed" /\ req[r].key \in unrefreshed'
    PROVE  ResInv'
<1>1. /\ req' \in [Requests -> Request]
      /\ req'[r] = Idle
      /\ \A q \in Requests : q # r => req'[q] = req[q]
  BY DEF ResInv, ResTypeOK, Request, End, Idle
<1>2. /\ store' \in [Keys -> {"absent", "fresh", "old"}]
      /\ \A k \in Keys : \/ store'[k] = store[k]
                         \/ /\ store'[k] = "absent" /\ k = req[r].key
                            /\ req[r].pc \in {"stored", "committed", "trim"}
  <2>1. store \in [Keys -> {"absent", "fresh", "old"}]  BY DEF ResInv, ResTypeOK
  <2>2. CASE store' = store  BY <2>1, <2>2
  <2>3. CASE store' # store
    <3>1. store' = Without(req[r].key) /\ req[r].pc \in {"stored", "committed", "trim"}
      BY <2>3
    <3> QED  BY <2>1, <3>1 DEF Without
  <2> QED  BY <2>2, <2>3
<1>3. /\ quotaLock' \in Requests \cup {None} /\ kbLock' \in Requests \cup {None}
      /\ kbLock # r => kbLock' = kbLock
  BY DEF ResInv, ResTypeOK, End, Freed
<1>4. ResTypeOK'  BY <1>1, <1>2, <1>3 DEF ResInv, ResTypeOK
<1>5. Shape'  BY <1>1 DEF ResInv, Shape, Creating, Idle
<1>6. Locking'  BY <1>1, <1>3 DEF ResInv, Locking, Idle
<1>7. Drawn'  BY <1>1, <1>2 DEF ResInv, Drawn, Idle, Shape
<1>8. Private'
  <2> Private  BY DEF ResInv
  <2> SUFFICES ASSUME NEW q \in Requests, req'[q].pc = "stored" PROVE PrivateTo(q)'
    BY DEF Private
  <2>1. q # r /\ req'[q] = req[q] /\ PrivateTo(q)  BY <1>1 DEF Private, Idle
  <2>2. req[q].key \in Keys /\ store[req[q].key] = "fresh"
    BY <2>1 DEF ResInv, Shape, PrivateTo
  <2>3. req[r].pc \in {"stored", "committed", "trim"} => req[r].key # req[q].key  BY <2>1 DEF PrivateTo
  <2>4. store'[req[q].key] = "fresh"  BY <1>2, <2>2, <2>3
  <2>5. \A p \in Requests \ {q} : req'[p].pc \in {"stored", "committed", "trim"} => req'[p].key # req[q].key
    BY <1>1, <2>1 DEF PrivateTo, Idle
  <2> QED  BY <2>1, <2>4, <2>5 DEF PrivateTo
<1>9. Separate'  BY <1>1 DEF ResInv, Separate, Idle
<1>10. \A d \in Docs : Visible(d)' => Visible(d)  BY DEF Visible
<1>11. Deletions'  BY <1>2, <1>10 DEF ResInv, Deletions, Deletion, Stored, ResTypeOK, Job
<1>12. \A d \in Docs : Visible(d)' => rows[d].key \in Keys /\ store'[rows[d].key] = store[rows[d].key]
  BY <1>2 DEF ResInv, ResTypeOK, Row, Visible, Private, PrivateTo, Separate, Shape
<1>13. Sweeping'  BY <1>10, <1>12 DEF ResInv, Sweeping
<1>14. LiveRowHasObject'
  BY <1>10, <1>12 DEF ResInv, LiveRowHasObject, Visible, Present, Stored
<1> QED  BY <1>4, <1>5, <1>6, <1>7, <1>8, <1>9, <1>11, <1>13, <1>14 DEF ResInv

\* A request goes on to a step in which it owns no object.
LEMMA AdvanceStep ==
    ASSUME ResInv, NEW r \in Requests, NEW q \in Request,
           req' = [req EXCEPT ![r] = q],
           q.pc \in {"staged", "locked", "reserved", "decided"},
           q.op \in Creating => q.pc \in {"staged", "reserved"} /\ q.content \in Contents,
           q.op = "replace" => /\ q.pc \in {"staged", "locked", "reserved"}
                               /\ q.content \in Contents /\ q.doc \in Docs,
           q.op = "requeue" => q.pc = "decided" /\ q.doc \in Docs,
           q.op # "none",
           (q.op = "replace" /\ q.pc # "staged") =>
              kbLock' = r /\ rows[q.doc] # None /\ rows[q.doc].status = "live",
           kbLock' = kbLock \/ (kbLock = None /\ kbLock' = r),
           quotaLock' = quotaLock \/ quotaLock' = r,
           UNCHANGED <<kbExists, rows, nextDoc, nextKey, store, listing, jobs, sweep, faults,
                       mix, overruled, unrefreshed>>
    PROVE  ResInv'
<1>1. /\ req' \in [Requests -> Request]
      /\ req'[r] = q
      /\ \A p \in Requests : p # r => req'[p] = req[p]
  BY DEF ResInv, ResTypeOK
<1>4. ResTypeOK'  BY <1>1 DEF ResInv, ResTypeOK
<1>5. Shape'  BY <1>1 DEF ResInv, Shape, Creating, Request
<1>6. Locking'  BY <1>1 DEF ResInv, Locking
<1>7. Drawn'  BY <1>1 DEF ResInv, Drawn
<1>8. Private'
  <2> Private  BY DEF ResInv
  <2> SUFFICES ASSUME NEW p \in Requests, req'[p].pc = "stored" PROVE PrivateTo(p)'
    BY DEF Private
  <2>1. p # r /\ req'[p] = req[p] /\ PrivateTo(p)  BY <1>1 DEF Private
  <2>2. \A s \in Requests \ {p} : req'[s].pc \in {"stored", "committed", "trim"} => req'[s].key # req[p].key
    BY <1>1, <2>1 DEF PrivateTo
  <2> QED  BY <2>1, <2>2 DEF PrivateTo
<1>9. Separate'  BY <1>1 DEF ResInv, Separate
<1>10. Deletions' /\ Sweeping' /\ LiveRowHasObject'
  BY DEF ResInv, Deletions, Deletion, Sweeping, LiveRowHasObject, Visible, Present, Stored
<1> QED  BY <1>4, <1>5, <1>6, <1>7, <1>8, <1>9, <1>10 DEF ResInv

\* The object is stored under a key nobody has seen.
LEMMA PutStep ==
    ASSUME ResInv, NEW r \in Requests, Put(r)
    PROVE  ResInv'
<1> USE DEF Put
<1>1. /\ req' \in [Requests -> Request]
      /\ req'[r].pc = "stored" /\ req'[r].key = nextKey
      /\ req'[r].op = req[r].op /\ req'[r].doc = req[r].doc /\ req'[r].content = req[r].content
      /\ \A q \in Requests : q # r => req'[q] = req[q]
  <2> DEFINE put == [req[r] EXCEPT !.pc = "stored", !.key = nextKey]
  <2>0. nextKey \in Keys /\ req' = [req EXCEPT ![r] = put]  OBVIOUS
  <2> HIDE DEF Put
  <2>1. req \in [Requests -> Request] /\ req[r] \in Request  BY DEF ResInv, ResTypeOK
  <2>2. put \in Request  BY <2>0, <2>1 DEF Request
  <2>3. /\ put.pc = "stored" /\ put.key = nextKey
        /\ put.op = req[r].op /\ put.doc = req[r].doc /\ put.content = req[r].content
    BY <2>1 DEF Request
  <2> HIDE DEF put
  <2>4. /\ req' \in [Requests -> Request] /\ req'[r] = put
        /\ \A q \in Requests : q # r => req'[q] = req[q]
    BY <2>0, <2>1, <2>2
  <2> QED  BY <2>3, <2>4
<1>2. /\ store' \in [Keys -> {"absent", "fresh", "old"}]
      /\ store'[nextKey] = "fresh"
      /\ \A k \in Keys : k # nextKey => store'[k] = store[k]
  BY DEF ResInv, ResTypeOK
<1>3. nextKey \in Nat /\ nextKey' = nextKey + 1 /\ nextKey' \in 1..MaxKeys + 1
  BY DEF ResInv, ResTypeOK
<1>4. ResTypeOK'  BY <1>1, <1>2, <1>3 DEF ResInv, ResTypeOK
<1>5. Shape'  BY <1>1 DEF ResInv, Shape, Creating
<1>6. Locking'  BY <1>1 DEF ResInv, Locking
<1>7. Drawn'
  <2> ResTypeOK /\ Drawn /\ Shape  BY DEF ResInv
  <2>1. \A q \in Requests : req'[q].pc \in {"stored", "committed", "trim"} => req'[q].key < nextKey'
    BY <1>1, <1>3 DEF Drawn, Shape
  <2>2. \A k \in Keys : k < nextKey => k < nextKey'  BY <1>3
  <2>3. /\ \A d \in Docs : rows[d] # None => rows[d].key < nextKey' /\ d < nextDoc
        /\ listing # None => \A d \in Docs : listing[d] # None => listing[d].key < nextKey'
    BY <2>2, KeyTypes DEF Drawn
  <2>4. /\ \A j \in jobs : \A k \in j.keys : k < nextKey'
        /\ \A k \in sweep.doomed : k < nextKey'
    BY <2>2, KeyTypes DEF Drawn
  <2>5. \A k \in Keys : store'[k] # "absent" => k < nextKey'  BY <1>2, <1>3, <2>2 DEF Drawn
  <2> QED  BY <2>1, <2>3, <2>4, <2>5 DEF Drawn
<1>8. Private'
  <2> ResTypeOK /\ Private /\ Drawn /\ Shape  BY DEF ResInv
  <2> SUFFICES ASSUME NEW q \in Requests, req'[q].pc = "stored" PROVE PrivateTo(q)'
    BY DEF Private
  <2>1. CASE q = r
    <3>1. \A p \in Requests \ {r} : req'[p].pc \in {"stored", "committed", "trim"} => req'[p].key # nextKey
      BY <1>1, <1>3 DEF Drawn, Shape
    <3>2. /\ \A d \in Docs : rows[d] # None => rows[d].key # nextKey
          /\ listing # None => \A d \in Docs : listing[d] # None => listing[d].key # nextKey
          /\ \A j \in jobs : nextKey \notin j.keys
          /\ nextKey \notin sweep.doomed
      BY <1>3, KeyTypes DEF Drawn
    <3> QED  BY <1>1, <1>2, <2>1, <3>1, <3>2 DEF PrivateTo
  <2>2. CASE q # r
    <3>1. req'[q] = req[q] /\ PrivateTo(q)  BY <1>1, <2>2 DEF Private
    <3>2. req[q].key \in Keys /\ req[q].key < nextKey  BY <3>1 DEF Shape, Drawn
    <3>3. store'[req[q].key] = "fresh" /\ req[q].key # nextKey  BY <1>2, <1>3, <3>1, <3>2 DEF PrivateTo
    <3>4. \A p \in Requests \ {q} : req'[p].pc \in {"stored", "committed", "trim"} => req'[p].key # req[q].key
      BY <1>1, <3>1, <3>3 DEF PrivateTo
    <3> QED  BY <3>1, <3>3, <3>4 DEF PrivateTo
  <2> QED  BY <2>1, <2>2
<1>9. Separate'  BY <1>1 DEF ResInv, Separate
<1>10. \A d \in Docs : Visible(d)' = Visible(d)  BY DEF Visible
<1>11. Deletions'  BY <1>2, <1>3, <1>10 DEF ResInv, Deletions, Deletion, Drawn, Stored, ResTypeOK, Job
<1>12. \A d \in Docs : Visible(d) => rows[d].key \in Keys /\ store'[rows[d].key] = store[rows[d].key]
  BY <1>2, <1>3 DEF ResInv, ResTypeOK, Row, Visible, Drawn
<1>13. Sweeping'  BY <1>10, <1>12 DEF ResInv, Sweeping
<1>14. LiveRowHasObject'
  BY <1>12 DEF ResInv, LiveRowHasObject, Visible, Present, Stored
<1> QED  BY <1>4, <1>5, <1>6, <1>7, <1>8, <1>9, <1>11, <1>13, <1>14 DEF ResInv

\* The commit of a creation hands the object over to a new row.
LEMMA CreateCommitStep ==
    ASSUME ResInv, NEW r \in Requests, CreateCommit(r)
    PROVE  ResInv'
<1> DEFINE row == [status |-> "live", key |-> req[r].key, content |-> req[r].content]
<1>1. /\ req[r].pc = "stored" /\ req[r].op \in Creating /\ kbLock = None
      /\ UNCHANGED <<kbExists, nextKey, store, listing, jobs, sweep, faults, mix, overruled, unrefreshed>>
  BY DEF CreateCommit, At, Creating
<1>2. row \in Row /\ row.key < nextKey
  BY <1>1 DEF ResInv, ResTypeOK, Shape, Drawn, Row
<1>3. /\ rows' \in [Docs -> Row \cup {None}]
      /\ nextDoc \in Docs /\ nextDoc' = nextDoc + 1
      /\ rows'[nextDoc] = row
      /\ \A d \in Docs : d # nextDoc => rows'[d] = rows[d]
  BY <1>2 DEF CreateCommit, ResInv, ResTypeOK
<1>4. rows[nextDoc] = None  BY <1>3 DEF ResInv, Drawn
<1>5. /\ req' \in [Requests -> Request]
      /\ \/ req'[r] = Idle
         \/ /\ req[r].op = "import" /\ req'[r].op = "import" /\ req'[r].pc = "committed"
            /\ req'[r].key = req[r].key /\ req'[r].doc = nextDoc /\ req'[r].content = req[r].content
      /\ \A q \in Requests : q # r => req'[q] = req[q]
  <2>1. req \in [Requests -> Request] /\ req[r] \in Request  BY DEF ResInv, ResTypeOK
  <2>2. CASE End(r)  BY <2>1, <2>2 DEF Request, End, Idle
  <2>3. CASE ~End(r)
    <3> PICK q : q = [req[r] EXCEPT !.pc = "committed", !.doc = nextDoc]  OBVIOUS
    <3>1. req' = [req EXCEPT ![r] = q] /\ req[r].op = "import"
      BY <1>1, <2>1, <2>3 DEF CreateCommit, Creating
    <3>2. /\ q \in Request /\ q.op = req[r].op /\ q.pc = "committed" /\ q.key = req[r].key
          /\ q.doc = nextDoc /\ q.content = req[r].content
      BY <1>3, <2>1 DEF Request
    <3> HIDE DEF Request
    <3> QED  BY <2>1, <3>1, <3>2
  <2> QED  BY <2>2, <2>3
<1>6. quotaLock' \in Requests \cup {None} /\ kbLock' = None
  BY <1>1 DEF ResInv, ResTypeOK, CreateCommit, End, Freed
<1>7. ResTypeOK'  BY <1>1, <1>3, <1>5, <1>6, SMTT(30) DEF ResInv, ResTypeOK
<1>8. Shape'  BY <1>1, <1>3, <1>5 DEF ResInv, Shape, Creating, Idle
<1>9. Locking'  BY <1>1, <1>5 DEF ResInv, Locking, Idle
<1>10. Drawn'
  <2> ResTypeOK /\ Drawn  BY DEF ResInv
  <2>1. nextDoc \in Nat /\ \A i \in Nat : i < nextDoc => i < nextDoc'  BY <1>3
  <2>2. \A e \in Docs : rows'[e] # None => rows'[e].key < nextKey /\ e < nextDoc'
    BY <1>2, <1>3, <2>1 DEF Drawn
  <2>3. \A j \in jobs : j.doc # None => j.doc < nextDoc'  BY <2>1, KeyTypes DEF Drawn
  <2>4. \A q \in Requests : req'[q].pc \in {"stored", "committed", "trim"} => req'[q].key < nextKey
    BY <1>1, <1>5 DEF Drawn, Idle
  <2> QED  BY <1>1, <2>2, <2>3, <2>4 DEF Drawn
<1>11. Private'
  <2> Private  BY DEF ResInv
  <2> SUFFICES ASSUME NEW q \in Requests, req'[q].pc = "stored" PROVE PrivateTo(q)'
    BY DEF Private
  <2>1. q # r /\ req'[q] = req[q] /\ PrivateTo(q) /\ PrivateTo(r)  BY <1>1, <1>5 DEF Private, Idle
  <2>2. req[q].key # req[r].key  BY <1>1, <1>5, <2>1 DEF PrivateTo
  <2>3. \A e \in Docs : rows'[e] # None => rows'[e].key # req[q].key
    BY <1>3, <2>1, <2>2 DEF PrivateTo
  <2>4. \A p \in Requests \ {q} : req'[p].pc \in {"stored", "committed", "trim"} => req'[p].key # req[q].key
    BY <1>5, <2>1 DEF PrivateTo, Idle
  <2> QED  BY <1>1, <2>1, <2>3, <2>4 DEF PrivateTo
<1>12. Separate'
  <2>1. Separate /\ PrivateTo(r)  BY <1>1 DEF ResInv, Private
  <2>2. \A e \in Docs : e # nextDoc /\ rows[e] # None => rows[e].key # row.key
    BY <2>1 DEF PrivateTo
  <2>3. \A d, e \in Docs : d # e /\ rows'[d] # None /\ rows'[e] # None
                           => rows'[d].key # rows'[e].key
    BY <1>3, <2>1, <2>2 DEF Separate
  <2>4. ASSUME NEW q \in Requests, req'[q].pc = "trim", NEW d \in Docs, rows'[d] # None
        PROVE  rows'[d].key # req'[q].key
    <3>1. q # r /\ req'[q] = req[q]  BY <1>5, <2>4 DEF Idle
    <3>2. req[q].key # row.key  BY <2>1, <2>4, <3>1 DEF PrivateTo
    <3>3. CASE d = nextDoc  BY <1>3, <3>1, <3>2, <3>3
    <3>4. CASE d # nextDoc  BY <1>3, <2>1, <2>4, <3>1, <3>4 DEF Separate
    <3> QED  BY <3>3, <3>4
  <2>5. ASSUME NEW q \in Requests, req'[q].pc = "committed", NEW d \in Docs, rows'[d] # None,
               d # req'[q].doc
        PROVE  rows'[d].key # req'[q].key
    <3>1. CASE q = r
      <4>1. req'[r].doc = nextDoc /\ req'[r].key = row.key  BY <1>5, <2>5, <3>1 DEF Idle
      <4> QED  BY <1>3, <2>2, <2>5, <3>1, <4>1
    <3>2. CASE q # r
      <4>1. req'[q] = req[q] /\ req[q].key # row.key  BY <1>5, <2>1, <2>5, <3>2 DEF PrivateTo
      <4>2. CASE d = nextDoc  BY <1>3, <4>1, <4>2
      <4>3. CASE d # nextDoc  BY <1>3, <2>1, <2>5, <4>1, <4>3 DEF Separate
      <4> QED  BY <4>2, <4>3
    <3> QED  BY <3>1, <3>2
  <2> QED  BY <2>3, <2>4, <2>5 DEF Separate
<1>13. \A d \in Docs : d # nextDoc => Visible(d)' = Visible(d)  BY <1>1, <1>3 DEF Visible
<1>14. Deletions'
  <2> ResTypeOK /\ Deletions /\ Private /\ Drawn  BY DEF ResInv
  <2> SUFFICES ASSUME NEW j \in jobs PROVE Deletion(j)'  BY <1>1 DEF Deletions, Deletion
  <2>1. j.left \subseteq j.keys /\ \A k \in j.keys \ j.left : ~Stored(k)'
    BY <1>1 DEF Deletions, Deletion, Stored
  <2>2. \A e \in Docs : Visible(e)' => rows'[e].key \notin j.keys
    BY <1>1, <1>3, <1>13 DEF Deletions, Deletion, Private, PrivateTo
  <2>3. j.doc # nextDoc  BY <1>3, KeyTypes DEF Drawn
  <2>4. \A e \in Docs : (j.doc = e /\ rows'[e] # None /\ e \notin overruled) =>
             rows'[e].status = "deleting" /\ rows'[e].key \in j.keys
    BY <1>3, <2>3 DEF Deletions, Deletion
  <2> QED  BY <1>1, <2>1, <2>2, <2>4 DEF Deletion
<1>15. Sweeping'
  <2> Sweeping /\ Private  BY DEF ResInv
  <2>1. /\ rows'[nextDoc].key = req[r].key
        /\ store[req[r].key] = "fresh" /\ req[r].key \notin sweep.doomed
    BY <1>1, <1>3 DEF Private, PrivateTo
  <2> QED  BY <1>1, <1>3, <1>13, <2>1 DEF Sweeping
<1>16. LiveRowHasObject'
  BY <1>1, <1>3 DEF ResInv, LiveRowHasObject, Private, PrivateTo, Present, Stored
<1> QED  BY <1>7, <1>8, <1>9, <1>10, <1>11, <1>12, <1>14, <1>15, <1>16 DEF ResInv

\* The commit of a replacement hands the new object over and takes the old one back.
LEMMA ReplaceCommitStep ==
    ASSUME ResInv, NEW r \in Requests, ReplaceCommit(r)
    PROVE  ResInv'
<1> DEFINE d == req[r].doc
           row == [status |-> "live", key |-> req[r].key, content |-> req[r].content]
<1>1. /\ req[r].pc = "stored" /\ req[r].op = "replace" /\ d \in Docs
      /\ UNCHANGED <<kbExists, nextDoc, nextKey, store, listing, jobs, sweep, faults, mix,
                     overruled, unrefreshed>>
  BY DEF ReplaceCommit, At, ResInv, Shape
<1>2. /\ row \in Row /\ row.key < nextKey
      /\ kbLock = r /\ rows[d] \in Row /\ rows[d].status = "live" /\ rows[d].key < nextKey
      /\ rows[d] # None
  BY <1>1 DEF ResInv, ResTypeOK, Shape, Drawn, Row, Locking, Creating
<1>3. /\ rows' \in [Docs -> Row \cup {None}]
      /\ rows'[d] = row
      /\ \A e \in Docs : e # d => rows'[e] = rows[e]
  BY <1>1, <1>2 DEF ReplaceCommit, ResInv, ResTypeOK
<1>4. /\ req' \in [Requests -> Request]
      /\ req'[r].pc = "trim" /\ req'[r].op = "replace" /\ req'[r].doc = d
      /\ req'[r].content = req[r].content /\ req'[r].key = rows[d].key
      /\ \A q \in Requests : q # r => req'[q] = req[q]
  <2> req[r] \in Request /\ rows[d].key \in Keys  BY <1>2 DEF ResInv, ResTypeOK, Row
  <2>1. req' = [req EXCEPT ![r] = [req[r] EXCEPT !.pc = "trim", !.key = rows[d].key]]
    BY ZenonT(40) DEF ReplaceCommit, ResInv, ResTypeOK
  <2>2. [req[r] EXCEPT !.pc = "trim", !.key = rows[d].key] \in Request  BY DEF Request
  <2> QED  BY <1>1, <2>1, <2>2 DEF ResInv, ResTypeOK, Request
<1>5. quotaLock' \in Requests \cup {None} /\ kbLock' \in Requests \cup {None}
  BY DEF ReplaceCommit, Freed, ResInv, ResTypeOK
<1>6. ResTypeOK'  BY <1>1, <1>3, <1>4, <1>5 DEF ResInv, ResTypeOK
<1>7. Shape'  BY <1>1, <1>2, <1>4 DEF ResInv, Shape, Row, Creating
<1>8. Locking'  BY <1>2, <1>4 DEF ResInv, Locking
<1>9. Drawn'  BY <1>1, <1>2, <1>3, <1>4 DEF ResInv, Drawn
<1>10. Private'
  <2> Private /\ Separate  BY DEF ResInv
  <2> SUFFICES ASSUME NEW q \in Requests, req'[q].pc = "stored" PROVE PrivateTo(q)'
    BY DEF Private
  <2>1. q # r /\ req'[q] = req[q] /\ PrivateTo(q) /\ PrivateTo(r)  BY <1>1, <1>4 DEF Private
  <2>2. req[q].key # req[r].key /\ req[q].key # rows[d].key  BY <1>1, <1>2, <2>1 DEF PrivateTo
  <2>3. \A e \in Docs : rows'[e] # None => rows'[e].key # req[q].key
    BY <1>3, <2>1, <2>2, SMTT(30) DEF PrivateTo
  <2>4. \A p \in Requests \ {q} : req'[p].pc \in {"stored", "committed", "trim"} => req'[p].key # req[q].key
    BY <1>4, <2>1, <2>2 DEF PrivateTo
  <2> QED  BY <1>1, <2>1, <2>3, <2>4 DEF PrivateTo
<1>11. Separate'
  <2> Private /\ Separate  BY DEF ResInv
  <2>1. \A e \in Docs : e # d /\ rows[e] # None => rows[e].key # req[r].key /\ rows[e].key # rows[d].key
    BY <1>1, <1>2 DEF Private, PrivateTo, Separate
  <2>2. \A e, f \in Docs : e # f /\ rows'[e] # None /\ rows'[f] # None => rows'[e].key # rows'[f].key
    <3> rows'[d].key = req[r].key  BY <1>3
    <3> QED  BY <1>3, <2>1 DEF Separate
  <2>3. req[r].key # rows[d].key  BY <1>1, <1>2 DEF Private, PrivateTo
  <2>4. \A q \in Requests : req'[q].pc = "trim" =>
           \A e \in Docs : rows'[e] # None => rows'[e].key # req'[q].key
    BY <1>1, <1>3, <1>4, <2>1, <2>3 DEF Separate, Private, PrivateTo
  <2>5. ASSUME NEW q \in Requests, req'[q].pc = "committed", NEW e \in Docs, rows'[e] # None,
               e # req'[q].doc
        PROVE  rows'[e].key # req'[q].key
    <3>1. q # r /\ req'[q] = req[q]  BY <1>4, <2>5
    <3>2. req[q].key # req[r].key  BY <1>1, <2>5, <3>1 DEF Private, PrivateTo
    <3>3. CASE e = d  BY <1>3, <3>1, <3>2, <3>3
    <3>4. CASE e # d  BY <1>3, <2>5, <3>1, <3>4 DEF Separate
    <3> QED  BY <3>3, <3>4
  <2> QED  BY <2>2, <2>4, <2>5 DEF Separate
<1>12. \A e \in Docs : e # d => Visible(e)' = Visible(e)
  BY <1>1, <1>3 DEF Visible
<1>13. Deletions'
  <2> Deletions /\ Private  BY DEF ResInv
  <2> SUFFICES ASSUME NEW j \in jobs PROVE Deletion(j)'  BY <1>1 DEF Deletions
  <2>1. Deletion(j) /\ req[r].key \notin j.keys  BY <1>1 DEF Deletions, Private, PrivateTo
  <2>2. \A e \in Docs : Visible(e)' => rows'[e].key \notin j.keys
    BY <1>3, <1>12, <2>1 DEF Deletion
  <2>3. \A e \in Docs : j.doc = e /\ rows'[e] # None /\ e \notin overruled =>
             rows'[e].status = "deleting" /\ rows'[e].key \in j.keys
    BY <1>2, <1>3, <2>1 DEF Deletion
  <2> QED  BY <1>1, <2>1, <2>2, <2>3 DEF Deletion, Stored
<1>14. Sweeping'  BY <1>1, <1>3, <1>12 DEF ResInv, Sweeping, Private, PrivateTo
<1>15. LiveRowHasObject'
  BY <1>1, <1>3 DEF ResInv, LiveRowHasObject, Private, PrivateTo, Present, Stored
<1> QED  BY <1>6, <1>7, <1>8, <1>9, <1>10, <1>11, <1>13, <1>14, <1>15 DEF ResInv

\* A deletion marks the row and announces its key; the row is invisible from here on.
LEMMA DeleteStep ==
    ASSUME ResInv, NEW d \in Docs, Delete(d)
    PROVE  ResInv'
<1> DEFINE j == NewJob(d, {rows[d].key})
<1>1. /\ rows[d] # None /\ rows[d] \in Row /\ rows[d].key \in Keys /\ kbLock = None
      /\ rows[d].key < nextKey /\ d < nextDoc
      /\ jobs' = jobs \cup {j}
      /\ UNCHANGED <<kbExists, nextDoc, nextKey, store, quotaLock, kbLock, req, listing,
                     sweep, faults, mix, overruled, unrefreshed>>
  BY KeyTypes DEF Delete, ResInv, Drawn
<1>2. j \in Job /\ j.keys = {rows[d].key} /\ j.left = j.keys /\ j.doc = d
  BY <1>1 DEF NewJob, Job
<1>3. /\ rows' \in [Docs -> Row \cup {None}]
      /\ rows'[d] # None /\ rows'[d].status = "deleting" /\ rows'[d].key = rows[d].key
      /\ \A e \in Docs : e # d => rows'[e] = rows[e]
  <2>1. [rows[d] EXCEPT !.status = "deleting"] \in Row  BY <1>1 DEF Row
  <2>2. rows' = [rows EXCEPT ![d] = [rows[d] EXCEPT !.status = "deleting"]]
    BY DEF Delete, ResInv, ResTypeOK
  <2>3. rows \in [Docs -> Row \cup {None}]  BY DEF ResInv, ResTypeOK
  <2> DEFINE y == [rows[d] EXCEPT !.status = "deleting"]
  <2>4. y \in Row /\ y # None /\ y.status = "deleting" /\ y.key = rows[d].key
    <3>1. y \in Row /\ y.status = "deleting" /\ y.key = rows[d].key  BY <1>1, <2>1 DEF Row
    <3> QED  BY <3>1, ResourceConstants
  <2> HIDE DEF y
  <2>5. rows' = [rows EXCEPT ![d] = y]  BY <2>2 DEF y
  <2> QED  BY <2>3, <2>4, <2>5
<1>4. ResTypeOK'  BY <1>1, <1>2, <1>3 DEF ResInv, ResTypeOK
<1>5. Shape'  BY <1>1 DEF ResInv, Shape
<1>6. Locking'  BY <1>1 DEF ResInv, Locking, ResTypeOK
<1>7. Drawn'  BY <1>1, <1>2, <1>3 DEF ResInv, Drawn
<1>8. Private'
  <2> Private  BY DEF ResInv
  <2> SUFFICES ASSUME NEW q \in Requests, req[q].pc = "stored" PROVE PrivateTo(q)'
    BY <1>1 DEF Private
  <2>1. PrivateTo(q)  BY DEF Private
  <2>2. \A e \in Docs : rows'[e] # None => rows'[e].key # req[q].key
    BY <1>1, <1>3, <2>1 DEF PrivateTo
  <2>3. req[q].key # rows[d].key  BY <1>1, <2>1 DEF PrivateTo
  <2>4. \A i \in jobs' : req[q].key \notin i.keys  BY <1>1, <1>2, <2>1, <2>3 DEF PrivateTo
  <2> QED  BY <1>1, <2>1, <2>2, <2>4 DEF PrivateTo
<1>9. Separate'  BY <1>1, <1>3 DEF ResInv, Separate
<1>10. \A e \in Docs : Visible(e)' <=> Visible(e) /\ e # d  BY <1>1, <1>3 DEF Visible
<1>11. Deletions'
  <2> Deletions /\ Separate  BY DEF ResInv
  <2> SUFFICES ASSUME NEW i \in jobs' PROVE Deletion(i)'  BY DEF Deletions
  <2>1. CASE i \in jobs
    <3> Deletion(i)  BY <2>1 DEF Deletions
    <3> QED  BY <1>1, <1>3, <1>10 DEF Deletion, Stored
  <2>2. CASE i = j
    <3>1. i.doc = d /\ i.keys = {rows[d].key} /\ i.left = i.keys  BY <1>2, <2>2
    <3>2. \A e \in Docs : Visible(e)' => rows'[e].key # rows[d].key
      BY <1>1, <1>3, <1>10 DEF Separate, Visible
    <3> QED  BY <1>3, <3>1, <3>2 DEF Deletion
  <2> QED  BY <1>1, <2>1, <2>2
<1>12. Sweeping'  BY <1>1, <1>3, <1>10 DEF ResInv, Sweeping
<1>13. LiveRowHasObject'
  BY <1>1, <1>3 DEF ResInv, LiveRowHasObject, Present, Stored
<1> QED  BY <1>4, <1>5, <1>6, <1>7, <1>8, <1>9, <1>11, <1>12, <1>13 DEF ResInv

\* The documents of the knowledge base are read.
LEMMA ListForDeletionStep ==
    ASSUME ResInv, ListForDeletion
    PROVE  ResInv'
<1> USE DEF ListForDeletion
<1>1. ResTypeOK' /\ Shape' /\ Locking'  BY DEF ResInv, ResTypeOK, Shape, Locking
<1>2. Drawn' /\ Private'  BY DEF ResInv, Drawn, Private, PrivateTo
<1>3. Separate' /\ Deletions' /\ Sweeping' /\ LiveRowHasObject'
  BY DEF ResInv, Separate, Deletions, Deletion, Sweeping, LiveRowHasObject, Visible, Present, Stored
<1> QED  BY <1>1, <1>2, <1>3 DEF ResInv

\* All rows go; the keys that were listed are announced.
LEMMA DeleteKnowledgeBaseStep ==
    ASSUME ResInv, DeleteKnowledgeBase
    PROVE  ResInv'
<1>1. /\ listing' = None /\ kbLock = None /\ listing # None
      /\ UNCHANGED <<nextDoc, nextKey, store, quotaLock, kbLock, req, sweep, faults, mix,
                     overruled, unrefreshed>>
  BY DEF DeleteKnowledgeBase
<1>2. CASE UNCHANGED <<kbExists, rows, jobs>>
  <2>1. ResTypeOK' /\ Shape' /\ Locking'
    BY <1>1, <1>2 DEF ResInv, ResTypeOK, Shape, Locking
  <2>2. Drawn' /\ Private'  BY <1>1, <1>2 DEF ResInv, Drawn, Private, PrivateTo
  <2>3. Separate' /\ Deletions' /\ Sweeping' /\ LiveRowHasObject'
    BY <1>1, <1>2 DEF ResInv, Separate, Deletions, Deletion, Sweeping, LiveRowHasObject, Visible,
                      Present, Stored
  <2> QED  BY <2>1, <2>2, <2>3 DEF ResInv
<1>3. CASE ~UNCHANGED <<kbExists, rows, jobs>>
  <2> DEFINE keys == {listing[d].key : d \in {e \in Docs : listing[e] # None}}
             j == NewJob(None, keys)
  <2>1. /\ kbExists' = FALSE /\ rows' = [d \in Docs |-> None]
        /\ jobs' = jobs \/ jobs' = jobs \cup {j}
    BY <1>3 DEF DeleteKnowledgeBase
  <2>2. keys \subseteq Keys /\ \A k \in keys : k < nextKey
    BY <1>1, KeyTypes DEF ResInv, Drawn
  <2>3. j \in Job /\ j.keys = keys /\ j.left = keys /\ j.doc = None
    BY <2>2 DEF NewJob, Job
  <2>4. \A d \in Docs : rows'[d] = None /\ ~Visible(d)'  BY <2>1 DEF Visible
  <2>5. rows' \in [Docs -> Row \cup {None}]  BY <2>1
  <2>6. ResTypeOK'  BY <1>1, <2>1, <2>3, <2>5, ZenonT(40) DEF ResInv, ResTypeOK
  <2>7. Shape'  BY <1>1 DEF ResInv, Shape
  <2>8. Locking'  BY <1>1 DEF ResInv, Locking, ResTypeOK
  <2>9. Drawn'  BY <1>1, <2>1, <2>2, <2>3, <2>4 DEF ResInv, Drawn
  <2>10. Private'
    <3> Private  BY DEF ResInv
    <3>1. \A r \in Requests : req[r].pc = "stored" => req[r].key \notin keys
      BY <1>1 DEF Private, PrivateTo
    <3> QED  BY <1>1, <2>1, <2>3, <2>4, <3>1 DEF Private, PrivateTo
  <2>11. Separate'  BY <2>4 DEF Separate
  <2>12. Deletions'
    <3> Deletions  BY DEF ResInv
    <3> SUFFICES ASSUME NEW i \in jobs' PROVE Deletion(i)'  BY DEF Deletions
    <3>1. i.left \subseteq i.keys /\ \A k \in i.keys \ i.left : ~Stored(k)'
      BY <1>1, <2>1, <2>3 DEF Deletions, Deletion, Stored
    <3> QED  BY <2>4, <3>1 DEF Deletion
  <2>13. Sweeping'  BY <2>4 DEF Sweeping
  <2>14. LiveRowHasObject'  BY <2>4 DEF LiveRowHasObject, Present
  <2> QED  BY <2>6, <2>7, <2>8, <2>9, <2>10, <2>11, <2>12, <2>13, <2>14 DEF ResInv
<1> QED  BY <1>2, <1>3

\* Steps that change jobs only: a job replaced by one after the same keys and document.
LEMMA RewriteStep ==
    ASSUME ResInv, NEW j \in jobs, NEW i \in Job, Become(j, i),
           i.doc = j.doc, i.keys = j.keys, i.left = i.keys,
           faults' \in 0..MaxFaults,
           UNCHANGED <<kbExists, rows, nextDoc, nextKey, store, quotaLock, kbLock, req,
                       listing, sweep, mix, overruled, unrefreshed>>
    PROVE  ResInv'
<1>1. jobs' = (jobs \ {j}) \cup {i}  BY DEF Become
<1>2. ResTypeOK' /\ Shape' /\ Locking'  BY <1>1 DEF ResInv, ResTypeOK, Shape, Locking
<1>3. Drawn' /\ Private'  BY <1>1 DEF ResInv, Drawn, Private, PrivateTo
<1>4. Separate' /\ Sweeping' /\ LiveRowHasObject'
  BY DEF ResInv, Separate, Sweeping, LiveRowHasObject, Visible, Present, Stored
<1>5. Deletions'
  <2> Deletions  BY DEF ResInv
  <2> SUFFICES ASSUME NEW h \in jobs' PROVE Deletion(h)'  BY DEF Deletions
  <2>1. CASE h \in jobs  BY <2>1 DEF Deletions, Deletion, Stored, Visible
  <2>2. CASE h = i
    <3> Deletion(j)  BY DEF Deletions
    <3> QED  BY <2>2 DEF Deletion, Stored, Visible
  <2> QED  BY <1>1, <2>1, <2>2
<1> QED  BY <1>2, <1>3, <1>4, <1>5 DEF ResInv

\* One object of a deletion goes; no visible row and no request between put and commit has it.
LEMMA TaskDeleteStep ==
    ASSUME ResInv, NEW j \in jobs, NEW k \in Keys, TaskDelete(j, k)
    PROVE  ResInv'
<1> PICK i : i = [j EXCEPT !.left = @ \ {k}]  OBVIOUS
<1>1. /\ jobs' = (jobs \ {j}) \cup {i} /\ k \in j.left /\ k \in j.keys
      /\ UNCHANGED <<kbExists, rows, nextDoc, nextKey, quotaLock, kbLock, req, listing,
                     sweep, faults, mix, overruled, unrefreshed>>
  BY DEF TaskDelete, Become, ResInv, Deletions, Deletion
<1>2. /\ j \in Job /\ i \in Job /\ i.keys = j.keys /\ i.doc = j.doc /\ i.left = j.left \ {k}
  <2> j \in Job  BY DEF ResInv, ResTypeOK
  <2> QED  BY DEF Job
<1>3. /\ store' \in [Keys -> {"absent", "fresh", "old"}]
      /\ store'[k] = "absent"
      /\ \A l \in Keys : l # k => store'[l] = store[l]
  BY DEF TaskDelete, Without, ResInv, ResTypeOK
<1>4. ResTypeOK'
  <2> ResTypeOK  BY DEF ResInv
  <2>1. jobs' \subseteq Job  BY <1>1, <1>2 DEF ResTypeOK
  <2> QED  BY <1>1, <1>3, <2>1 DEF ResTypeOK
<1>5. Shape' /\ Locking' /\ Separate'  BY <1>1 DEF ResInv, Shape, Locking, Separate
<1>6. Drawn'
  <2>1. \A l \in Keys : store'[l] # "absent" => store[l] # "absent"  BY <1>3
  <2> QED  BY <1>1, <1>2, <2>1 DEF ResInv, Drawn
<1>7. Private'
  <2> Private /\ Shape  BY DEF ResInv
  <2> SUFFICES ASSUME NEW q \in Requests, req[q].pc = "stored" PROVE PrivateTo(q)'
    BY <1>1 DEF Private
  <2>1. PrivateTo(q) /\ req[q].key \in Keys  BY DEF Private, Shape
  <2>2. req[q].key # k  BY <1>1, <2>1 DEF PrivateTo
  <2> QED  BY <1>1, <1>2, <1>3, <2>1, <2>2 DEF PrivateTo
<1>8. \A d \in Docs : Visible(d)' = Visible(d)  BY <1>1 DEF Visible
<1>9. \A d \in Docs : Visible(d) => rows[d].key \in Keys /\ store'[rows[d].key] = store[rows[d].key]
  BY <1>1, <1>3, KeyTypes DEF ResInv, Visible, Deletions, Deletion
<1>10. Deletions'
  <2> Deletions  BY DEF ResInv
  <2> SUFFICES ASSUME NEW h \in jobs' PROVE Deletion(h)'  BY DEF Deletions
  <2>1. PICK g \in jobs : h.keys = g.keys /\ h.doc = g.doc /\ (h = g \/ (h = i /\ g = j))
    BY <1>1, <1>2
  <2>2. Deletion(g) /\ g.keys \subseteq Keys  BY KeyTypes DEF Deletions, ResInv
  <2>3. h.left \subseteq h.keys /\ \A l \in h.keys \ h.left : ~Stored(l)'
    BY <1>2, <1>3, <2>1, <2>2 DEF Deletion, Stored
  <2> QED  BY <1>1, <1>8, <2>1, <2>2, <2>3 DEF Deletion
<1>11. Sweeping'  BY <1>1, <1>8, <1>9 DEF ResInv, Sweeping
<1>12. LiveRowHasObject'
  BY <1>1, <1>9 DEF ResInv, LiveRowHasObject, Visible, Present, Stored
<1> QED  BY <1>4, <1>5, <1>6, <1>7, <1>10, <1>11, <1>12 DEF ResInv

\* The row of a finished deletion goes, if it is still marked.
LEMMA TaskFinishStep ==
    ASSUME ResInv, NEW j \in jobs, TaskFinish(j)
    PROVE  ResInv'
<1> PICK i : i = [j EXCEPT !.left = j.keys]  OBVIOUS
<1>1. /\ jobs' \subseteq jobs \cup {i} /\ faults' \in 0..MaxFaults
      /\ UNCHANGED <<kbExists, nextDoc, nextKey, store, quotaLock, kbLock, req, listing,
                     sweep, mix, overruled, unrefreshed>>
  BY DEF TaskFinish, Become, Fault, ResInv, ResTypeOK
<1>2. j \in Job /\ i \in Job /\ i.keys = j.keys /\ i.doc = j.doc /\ i.left = j.keys
  <2> j \in Job  BY DEF ResInv, ResTypeOK
  <2> QED  BY DEF Job
<1>3. /\ rows' \in [Docs -> Row \cup {None}]
      /\ \A d \in Docs : rows'[d] = rows[d] \/ (rows'[d] = None /\ rows[d].status = "deleting")
  BY <1>2 DEF TaskFinish, ResInv, ResTypeOK, Job
<1>4. ResTypeOK'
  <2> ResTypeOK  BY DEF ResInv
  <2>1. jobs' \subseteq Job  BY <1>1, <1>2 DEF ResTypeOK
  <2> QED  BY <1>1, <1>3, <2>1 DEF ResTypeOK
<1>5. Shape'  BY <1>1 DEF ResInv, Shape
<1>6. Locking'
  <2>1. \A r \in Requests : req[r].op = "replace" => req[r].doc \in Docs  BY DEF ResInv, Shape
  <2> QED  BY <1>1, <1>3, <2>1 DEF ResInv, Locking
<1>7. Separate'
  <2> Separate  BY DEF ResInv
  <2>1. \A d \in Docs : rows'[d] # None => rows'[d] = rows[d]  BY <1>3
  <2> QED  BY <1>1, <2>1 DEF Separate
<1>8. Drawn'  BY <1>1, <1>2, <1>3 DEF ResInv, Drawn
<1>9. Private'
  <2> Private  BY DEF ResInv
  <2> SUFFICES ASSUME NEW q \in Requests, req[q].pc = "stored" PROVE PrivateTo(q)'
    BY <1>1 DEF Private
  <2>1. PrivateTo(q)  BY DEF Private
  <2>2. \A d \in Docs : rows'[d] # None => rows'[d] = rows[d]  BY <1>3
  <2>3. \A h \in jobs' : \E g \in jobs : h.keys = g.keys  BY <1>1, <1>2
  <2> QED  BY <1>1, <2>1, <2>2, <2>3 DEF PrivateTo
<1>10. \A d \in Docs : Visible(d)' => Visible(d) /\ rows'[d] = rows[d]  BY <1>1, <1>3 DEF Visible
<1>11. Deletions'
  <2> Deletions  BY DEF ResInv
  <2> SUFFICES ASSUME NEW h \in jobs' PROVE Deletion(h)'  BY DEF Deletions
  <2>1. PICK g \in jobs : h.keys = g.keys /\ h.doc = g.doc /\ (h = g \/ h.left = h.keys)
    BY <1>1, <1>2
  <2>2. Deletion(g)  BY DEF Deletions
  <2>3. \A d \in Docs : rows'[d] # None => rows'[d] = rows[d]  BY <1>3
  <2> QED  BY <1>1, <1>10, <2>1, <2>2, <2>3 DEF Deletion, Stored
<1>12. Sweeping'  BY <1>1, <1>10 DEF ResInv, Sweeping
<1>13. LiveRowHasObject'
  BY <1>1, <1>3 DEF ResInv, LiveRowHasObject, Present, Stored
<1> QED  BY <1>4, <1>5, <1>6, <1>7, <1>8, <1>9, <1>11, <1>12, <1>13 DEF ResInv

\* A discarded letter leaves its document to the reader of `overruled`.
LEMMA DiscardStep ==
    ASSUME ResInv, NEW j \in jobs, DiscardCleanup(j)
    PROVE  ResInv'
<1> USE DEF DiscardCleanup
<1>1. ResTypeOK' /\ Shape' /\ Locking'
  <2> ResTypeOK  BY DEF ResInv
  <2> j.doc \in Docs \cup {None}  BY KeyTypes
  <2>1. overruled' \subseteq Docs  BY ZenonT(40) DEF ResTypeOK
  <2>2. ResTypeOK'  BY <2>1 DEF ResTypeOK
  <2> QED  BY <2>2 DEF ResInv, Shape, Locking
<1>2. Drawn' /\ Private' /\ Separate'  BY DEF ResInv, Drawn, Private, PrivateTo, Separate
<1>3. \A d \in Docs : /\ Visible(d)' => Visible(d)
                      /\ d \notin overruled' => d \notin overruled
  BY DEF Visible
<1>4. Deletions'  BY <1>3 DEF ResInv, Deletions, Deletion, Stored
<1>5. Sweeping'  BY <1>3 DEF ResInv, Sweeping
<1>6. LiveRowHasObject'  BY <1>3 DEF ResInv, LiveRowHasObject, Present, Stored
<1> QED  BY <1>1, <1>2, <1>4, <1>5, <1>6 DEF ResInv

\* A requeue makes a row visible again; if it was marked, its document is overruled.
LEMMA RequeueCommitStep ==
    ASSUME ResInv, NEW r \in Requests, RequeueCommit(r)
    PROVE  ResInv'
<1> PICK d \in Docs : d = req[r].doc  BY DEF RequeueCommit, At, ResInv, Shape
<1>1. /\ req[r].op = "requeue" /\ req[r].pc = "decided"
      /\ UNCHANGED <<kbExists, nextDoc, nextKey, store, listing, jobs, sweep, faults, mix,
                     unrefreshed>>
  BY DEF RequeueCommit, At
<1>2. /\ req' \in [Requests -> Request]
      /\ req'[r] = Idle
      /\ \A q \in Requests : q # r => req'[q] = req[q]
      /\ quotaLock' \in Requests \cup {None} /\ kbLock' \in Requests \cup {None}
      /\ kbLock # r => kbLock' = kbLock
  BY DEF ResInv, ResTypeOK, Request, RequeueCommit, End, Freed, Idle
<1>3. /\ rows' \in [Docs -> Row \cup {None}]
      /\ \A e \in Docs : \/ rows'[e] = rows[e]
                         \/ /\ rows[e] # None /\ rows'[e] # None /\ rows'[e].key = rows[e].key
                            /\ rows'[e].status = "live"
                            /\ rows[e].status = "live" \/ e \in overruled'
      /\ overruled \subseteq overruled' /\ overruled' \subseteq Docs
  <2>1. CASE rows[d] = None  BY <2>1 DEF RequeueCommit, ResInv, ResTypeOK
  <2>2. CASE rows[d] # None
    <3>1. rows[d] \in Row  BY <2>2 DEF ResInv, ResTypeOK
    <3>2. [rows[d] EXCEPT !.status = "live"] \in Row  BY <3>1 DEF Row
    <3>3. /\ rows' = [rows EXCEPT ![d] = [rows[d] EXCEPT !.status = "live"]]
          /\ overruled' = IF rows[d].status = "deleting" THEN overruled \cup {d} ELSE overruled
      BY <2>2 DEF RequeueCommit, ResInv, ResTypeOK
    <3>4. /\ rows'[d] = [rows[d] EXCEPT !.status = "live"]
          /\ \A e \in Docs : e # d => rows'[e] = rows[e]
          /\ rows' \in [Docs -> Row \cup {None}]
      BY <3>2, <3>3, ZenonT(40) DEF ResInv, ResTypeOK
    <3>5. rows'[d] # None /\ rows'[d].key = rows[d].key /\ rows'[d].status = "live"
      BY <3>1, <3>2, <3>4 DEF Row
    <3>6. rows[d].status = "live" \/ d \in overruled'  BY <3>1, <3>3 DEF Row
    <3> QED  BY <2>2, <3>3, <3>4, <3>5, <3>6 DEF ResInv, ResTypeOK
  <2> QED  BY <2>1, <2>2
<1>4. ResTypeOK'  BY <1>1, <1>2, <1>3 DEF ResInv, ResTypeOK
<1>5. Shape'  BY <1>2 DEF ResInv, Shape, Creating, Idle
<1>6. \A e \in Docs : /\ (rows'[e] # None) = (rows[e] # None)
                      /\ rows[e] # None => rows'[e].key = rows[e].key
                      /\ rows[e] # None /\ rows[e].status = "live" => rows'[e].status = "live"
  BY <1>3
<1>7. Locking'
  <2>1. \A q \in Requests : req[q].op = "replace" => req[q].doc \in Docs  BY DEF ResInv, Shape
  <2>2. \A q \in Requests : req'[q].op = "replace" => q # r /\ req'[q] = req[q]
    BY <1>2 DEF Idle
  <2> QED  BY <1>1, <1>2, <1>6, <2>1, <2>2 DEF ResInv, Locking
<1>8. Drawn'  BY <1>1, <1>2, <1>6 DEF ResInv, Drawn, Idle
<1>9. Private'
  <2> Private  BY DEF ResInv
  <2> SUFFICES ASSUME NEW q \in Requests, req'[q].pc = "stored" PROVE PrivateTo(q)'
    BY DEF Private
  <2>1. q # r /\ req'[q] = req[q] /\ PrivateTo(q)  BY <1>2 DEF Private, Idle
  <2>2. \A e \in Docs : rows'[e] # None => rows'[e].key # req[q].key
    BY <1>6, <2>1 DEF PrivateTo
  <2>3. \A p \in Requests \ {q} : req'[p].pc \in {"stored", "committed", "trim"} => req'[p].key # req[q].key
    BY <1>2, <2>1 DEF PrivateTo, Idle
  <2> QED  BY <1>1, <2>1, <2>2, <2>3 DEF PrivateTo
<1>10. Separate'  BY <1>1, <1>2, <1>6 DEF ResInv, Separate, Idle
<1>11. \A e \in Docs : Visible(e)' => Visible(e) /\ rows'[e].key = rows[e].key
  BY <1>1, <1>3, <1>6 DEF Visible
<1>12. Deletions'
  <2> Deletions  BY DEF ResInv
  <2> SUFFICES ASSUME NEW j \in jobs PROVE Deletion(j)'  BY <1>1 DEF Deletions
  <2>1. Deletion(j)  BY DEF Deletions
  <2>2. \A e \in Docs : e \notin overruled' =>
            e \notin overruled /\ (rows'[e] = rows[e] \/ rows[e].status = "live")
    BY <1>3
  <2>3. \A e \in Docs : (j.doc = e /\ rows'[e] # None /\ e \notin overruled') =>
            rows'[e].status = "deleting" /\ rows'[e].key \in j.keys
    BY <1>6, <2>1, <2>2 DEF Deletion
  <2> QED  BY <1>1, <1>11, <2>1, <2>3 DEF Deletion, Stored
<1>13. Sweeping'  BY <1>1, <1>11 DEF ResInv, Sweeping
<1>14. LiveRowHasObject'
  <2>1. \A e \in Docs : Visible(e)' => Stored(rows[e].key)
    BY <1>11 DEF ResInv, LiveRowHasObject, Present, Visible
  <2> QED  BY <1>1, <1>11, <2>1 DEF LiveRowHasObject, Present, Visible, Stored
<1> QED  BY <1>4, <1>5, <1>7, <1>8, <1>9, <1>10, <1>12, <1>13, <1>14 DEF ResInv

\* An object passes the grace period.
LEMMA AgeStep ==
    ASSUME ResInv, NEW k \in Keys, Age(k)
    PROVE  ResInv'
<1> USE DEF Age
<1>1. /\ store' \in [Keys -> {"absent", "fresh", "old"}]
      /\ \A l \in Keys : l # k => store'[l] = store[l]
      /\ store[k] = "fresh" /\ store'[k] = "old"
  BY DEF ResInv, ResTypeOK
<1>2. ResTypeOK' /\ Shape' /\ Locking' /\ Drawn' /\ Separate'
  <2>1. ResTypeOK'  BY <1>1 DEF ResInv, ResTypeOK
  <2>2. Shape' /\ Locking' /\ Separate'  BY DEF ResInv, Shape, Locking, Separate
  <2>3. Drawn'  BY <1>1 DEF ResInv, Drawn
  <2> QED  BY <2>1, <2>2, <2>3
<1>3. Private'
  <2> Private /\ Shape  BY DEF ResInv
  <2> SUFFICES ASSUME NEW q \in Requests, req[q].pc = "stored" PROVE PrivateTo(q)'
    BY DEF Private
  <2>1. PrivateTo(q) /\ req[q].key \in Keys /\ req[q].key # k  BY DEF Private, Shape
  <2> QED  BY <1>1, <2>1 DEF PrivateTo
<1>4. \A d \in Docs : Visible(d)' = Visible(d)  BY DEF Visible
<1>5. Deletions'
  <2> Deletions  BY DEF ResInv
  <2> SUFFICES ASSUME NEW j \in jobs PROVE Deletion(j)'  BY DEF Deletions
  <2>1. Deletion(j) /\ j.keys \subseteq Keys  BY KeyTypes DEF Deletions, ResInv
  <2> QED  BY <1>1, <1>4, <2>1 DEF Deletion, Stored
<1>6. Sweeping'  BY <1>4 DEF ResInv, Sweeping
<1>7. LiveRowHasObject'
  <2>1. \A d \in Docs : rows[d] # None => rows[d].key \in Keys  BY KeyTypes DEF ResInv
  <2> QED  BY <1>1, <2>1 DEF ResInv, LiveRowHasObject, Present, Stored
<1> QED  BY <1>2, <1>3, <1>5, <1>6, <1>7 DEF ResInv

\* The reconciler: a visible row is among the references it read, or its object is fresh.
LEMMA SweepReadStep ==
    ASSUME ResInv, SweepRead
    PROVE  ResInv'
<1> USE DEF SweepRead
<1> ResTypeOK  BY DEF ResInv
<1>1. Referenced \subseteq Keys  BY KeyTypes DEF Referenced, Present
<1>2. /\ sweep' \in [pc : {"idle", "read", "listed"}, refs : SUBSET Keys, doomed : SUBSET Keys]
      /\ sweep'.refs = Referenced /\ sweep'.doomed = sweep.doomed
  BY <1>1 DEF ResTypeOK
<1>3. ResTypeOK' /\ Shape' /\ Locking' /\ Drawn' /\ Separate'
  BY <1>2 DEF ResInv, ResTypeOK, Shape, Locking, Drawn, Separate
<1>4. Private'  BY <1>2 DEF ResInv, Private, PrivateTo
<1>5. Deletions' /\ LiveRowHasObject'
  BY DEF ResInv, Deletions, Deletion, LiveRowHasObject, Visible, Present, Stored
<1>6. Sweeping'  BY <1>2, ZenonT(40) DEF ResInv, Sweeping, Visible, Referenced, Present
<1> QED  BY <1>3, <1>4, <1>5, <1>6 DEF ResInv

\* The reconciler lists the objects to delete.
LEMMA SweepListStep ==
    ASSUME ResInv, SweepList
    PROVE  ResInv'
<1> USE DEF SweepList
<1> ResTypeOK  BY DEF ResInv
<1>1. /\ sweep' \in [pc : {"idle", "read", "listed"}, refs : SUBSET Keys, doomed : SUBSET Keys]
      /\ sweep'.pc = "listed" /\ sweep.pc = "read"
      /\ sweep'.doomed = {k \in Keys \ sweep.refs : store[k] = "old"}
  BY DEF ResTypeOK
<1>2. ResTypeOK' /\ Shape' /\ Locking' /\ Separate'
  BY <1>1, ZenonT(40) DEF ResInv, ResTypeOK, Shape, Locking, Separate
<1>3. Drawn'
  <2>1. \A k \in Keys : store[k] # "absent" => k < nextKey  BY DEF ResInv, Drawn
  <2> QED  BY <1>1, <2>1 DEF ResInv, Drawn
<1>4. Private'
  <2>1. ASSUME NEW r \in Requests, req[r].pc = "stored"
        PROVE  PrivateTo(r)'
    <3>1. PrivateTo(r)  BY <2>1 DEF ResInv, Private
    <3>2. store[req[r].key] = "fresh"  BY <3>1 DEF PrivateTo
    <3>3. req[r].key \notin sweep'.doomed  BY <1>1, <3>2
    <3> QED  BY <3>1, <3>3 DEF PrivateTo
  <2> QED  BY <2>1 DEF Private
<1>5. Deletions' /\ LiveRowHasObject'
  BY DEF ResInv, Deletions, Deletion, LiveRowHasObject, Visible, Present, Stored
<1>6. Sweeping'  BY <1>1 DEF ResInv, Sweeping, Visible
<1> QED  BY <1>2, <1>3, <1>4, <1>5, <1>6 DEF ResInv

\* The reconciler deletes one.
LEMMA SweepDeleteStep ==
    ASSUME ResInv, NEW k \in Keys, SweepDelete(k)
    PROVE  ResInv'
<1> USE DEF SweepDelete
<1> ResTypeOK  BY DEF ResInv
<1>1. /\ store' \in [Keys -> {"absent", "fresh", "old"}]
      /\ store'[k] = "absent"
      /\ \A l \in Keys : l # k => store'[l] = store[l]
  BY DEF Without, ResTypeOK
<1>2. /\ sweep' \in [pc : {"idle", "read", "listed"}, refs : SUBSET Keys, doomed : SUBSET Keys]
      /\ sweep'.pc = "listed" /\ sweep'.doomed \subseteq sweep.doomed
  BY DEF ResTypeOK
<1>3. ResTypeOK' /\ Shape' /\ Locking' /\ Separate'
  <2>1. ResTypeOK'  BY <1>1, <1>2 DEF ResTypeOK
  <2>2. Shape'  BY DEF ResInv, Shape
  <2>3. Locking'  BY DEF ResInv, Locking
  <2>4. Separate'  BY DEF ResInv, Separate
  <2> QED  BY <2>1, <2>2, <2>3, <2>4
<1>4. Drawn'
  <2>1. \A l \in Keys : store'[l] # "absent" => store[l] # "absent"  BY <1>1
  <2> QED  BY <1>2, <2>1 DEF ResInv, Drawn
<1>5. Private'
  <2> Private /\ Shape  BY DEF ResInv
  <2> SUFFICES ASSUME NEW q \in Requests, req[q].pc = "stored" PROVE PrivateTo(q)'
    BY DEF Private
  <2>1. PrivateTo(q) /\ req[q].key \in Keys  BY DEF Private, Shape
  <2>2. req[q].key # k  BY <2>1 DEF PrivateTo
  <2> QED  BY <1>1, <1>2, <2>1, <2>2 DEF PrivateTo
<1>6. \A d \in Docs : Visible(d)' = Visible(d)  BY DEF Visible
<1>7. \A d \in Docs : Visible(d) => rows[d].key \in Keys /\ store'[rows[d].key] = store[rows[d].key]
  BY <1>1, KeyTypes DEF ResInv, Visible, Sweeping
<1>8. Deletions'
  <2> Deletions  BY DEF ResInv
  <2> SUFFICES ASSUME NEW j \in jobs PROVE Deletion(j)'  BY DEF Deletions
  <2>1. Deletion(j) /\ j.keys \subseteq Keys  BY KeyTypes DEF Deletions, ResInv
  <2> QED  BY <1>1, <1>6, <2>1 DEF Deletion, Stored
<1>9. Sweeping'  BY <1>2, <1>6 DEF ResInv, Sweeping
<1>10. LiveRowHasObject'
  BY <1>7 DEF ResInv, LiveRowHasObject, Visible, Present, Stored
<1> QED  BY <1>3, <1>4, <1>5, <1>8, <1>9, <1>10 DEF ResInv

\* The reconciler ends.
LEMMA SweepEndStep ==
    ASSUME ResInv, SweepEnd
    PROVE  ResInv'
<1> USE DEF SweepEnd
<1>1. /\ sweep' \in [pc : {"idle", "read", "listed"}, refs : SUBSET Keys, doomed : SUBSET Keys]
      /\ sweep'.pc = "idle" /\ sweep'.doomed = {}
      /\ faults' \in 0..MaxFaults
  BY DEF Resting, Fault, ResInv, ResTypeOK
<1>2. ResTypeOK' /\ Shape' /\ Locking' /\ Separate'
  BY <1>1 DEF ResInv, ResTypeOK, Shape, Locking, Separate
<1>3. Drawn' /\ Private'  BY <1>1 DEF ResInv, Drawn, Private, PrivateTo
<1>4. Deletions' /\ LiveRowHasObject'
  BY DEF ResInv, Deletions, Deletion, LiveRowHasObject, Visible, Present, Stored
<1>5. Sweeping'  BY <1>1 DEF Sweeping
<1> QED  BY <1>2, <1>3, <1>4, <1>5 DEF ResInv

-----------------------------------------------------------------------------
(* The requests.                                                           *)

\* The steps of a request.
LEMMA RequestInv ==
    ASSUME ResInv, NEW r \in Requests, RequestStep(r) \/ CommitFails(r) \/ RefreshFails(r) \/ Abandon(r)
    PROVE  ResInv'
<1> ResTypeOK /\ Shape /\ Locking  BY DEF ResInv
<1> req[r] \in Request  BY DEF ResTypeOK
<1>1. CASE Reserve(r)
  <2>1. CASE End(r)  BY <1>1, <2>1, EndStep DEF Reserve, ResTypeOK
  <2>2. CASE quotaLock' = r /\ Goto(r, "reserved") /\ UNCHANGED kbLock
    <3> PICK q \in Request : q = [req[r] EXCEPT !.pc = "reserved"]  BY DEF Request
    <3>1. /\ q.pc = "reserved" /\ q.op = req[r].op /\ q.content = req[r].content
          /\ q.op \in Creating /\ q.content \in Contents
      BY <1>1 DEF Request, Reserve, At, Creating, Shape
    <3>2. req' = [req EXCEPT ![r] = q]  BY <2>2 DEF Goto, ResTypeOK
    <3> QED  BY <1>1, <2>2, <3>1, <3>2, AdvanceStep DEF Reserve, Creating
  <2> QED  BY <1>1, <2>1, <2>2 DEF Reserve
<1>2. CASE Put(r)  BY <1>2, PutStep
<1>3. CASE CreateCommit(r)  BY <1>3, CreateCommitStep
<1>4. CASE CreateRejected(r)
  BY <1>4, EndStep DEF CreateRejected, At, ResTypeOK
<1>5. CASE LockRow(r)
  <2>1. CASE End(r)  BY <1>5, <2>1, EndStep DEF LockRow, ResTypeOK
  <2>2. CASE ~End(r)
    <3> PICK q \in Request : q = [req[r] EXCEPT !.pc = "locked"]  BY DEF Request
    <3>1. /\ q.pc = "locked" /\ q.op = "replace" /\ q.content \in Contents /\ q.doc \in Docs
          /\ q.doc = req[r].doc
      BY <1>5 DEF Request, LockRow, At, Shape, Creating
    <3>2. /\ req' = [req EXCEPT ![r] = q] /\ kbLock = None /\ kbLock' = r
          /\ rows[q.doc] # None /\ rows[q.doc].status = "live" /\ quotaLock' = quotaLock
      BY <1>5, <2>2, <3>1 DEF LockRow, Goto, ResTypeOK
    <3> QED  BY <1>5, <3>1, <3>2, AdvanceStep DEF LockRow, Creating
  <2> QED  BY <2>1, <2>2
<1>6. CASE ReserveReplace(r)
  <2>1. CASE End(r)  BY <1>6, <2>1, EndStep DEF ReserveReplace, ResTypeOK
  <2>2. CASE ~End(r)
    <3> PICK q \in Request : q = [req[r] EXCEPT !.pc = "reserved"]  BY DEF Request
    <3>1. /\ q.pc = "reserved" /\ q.op = "replace" /\ q.content \in Contents /\ q.doc \in Docs
          /\ q.doc = req[r].doc
      BY <1>6 DEF Request, ReserveReplace, At, Shape, Creating
    <3>2. /\ req' = [req EXCEPT ![r] = q] /\ kbLock = r /\ kbLock' = kbLock
          /\ rows[q.doc] # None /\ rows[q.doc].status = "live" /\ quotaLock' = r
      BY <1>6, <2>2, <3>1 DEF ReserveReplace, At, Goto, ResTypeOK, Locking
    <3> QED  BY <1>6, <3>1, <3>2, AdvanceStep DEF ReserveReplace, Creating
  <2> QED  BY <2>1, <2>2
<1>7. CASE ReplaceCommit(r)  BY <1>7, ReplaceCommitStep
<1>8. CASE ReplaceRejected(r)
  BY <1>8, EndStep DEF ReplaceRejected, At, ResTypeOK
<1>9. CASE Trim(r)
  BY <1>9, EndStep DEF Trim, At, ResTypeOK
<1>10. CASE RequeueCommit(r)  BY <1>10, RequeueCommitStep
<1>11. ASSUME NEW p \in Requests, DeadlockAbort(r, p) PROVE ResInv'
  <2>1. CASE End(p) /\ UNCHANGED store
    BY <1>11, <2>1, EndStep DEF DeadlockAbort, ResTypeOK
  <2>2. CASE End(r) /\ store' = IF req[r].op = "import" THEN Without(req[r].key) ELSE store
    BY <1>11, <2>2, EndStep DEF DeadlockAbort, Deadlocked, At, ResTypeOK
  <2> QED  BY <1>11, <2>1, <2>2 DEF DeadlockAbort
<1>12. CASE CommitFails(r)
  BY <1>12, EndStep DEF CommitFails, Fault, ResTypeOK
<1>13. CASE Abandon(r)
  <2>1. unrefreshed \subseteq Keys /\ faults' \in 0..MaxFaults
    BY <1>13 DEF Abandon, Fault, ResTypeOK
  <2> QED  BY <1>13, <2>1, EndStep DEF Abandon
<1>14. CASE Refresh(r)
  BY <1>14, EndStep DEF Refresh, At, ResTypeOK
<1>15. CASE RefreshFails(r)
  <2>1. req[r].key \in Keys  BY <1>15 DEF RefreshFails, At, Shape
  <2>2. /\ End(r) /\ req[r].pc = "committed" /\ store' = Without(req[r].key)
        /\ unrefreshed' = unrefreshed \cup {req[r].key} /\ faults' = faults + 1 /\ faults < MaxFaults
        /\ UNCHANGED <<kbExists, rows, nextDoc, nextKey, listing, jobs, sweep, mix, overruled>>
    BY <1>15 DEF RefreshFails, At, Fault
  <2>3. unrefreshed \subseteq unrefreshed' /\ unrefreshed' \subseteq Keys /\ faults' \in 0..MaxFaults
    BY <2>1, <2>2 DEF ResTypeOK
  <2> QED  BY <2>2, <2>3, EndStep
<1> QED  BY <1>1, <1>2, <1>3, <1>4, <1>5, <1>6, <1>7, <1>8, <1>9, <1>10, <1>11, <1>12, <1>13,
            <1>14, <1>15
         DEF RequestStep

\* The beginning of a request.
LEMMA BeginInv ==
    ASSUME ResInv, NEW r \in Requests,
           \/ \E c \in Contents : \/ \E op \in {"upload", "import"} : Begin(r, op, c)
                                  \/ \E d \in Docs : BeginReplace(r, d, c)
           \/ \E d \in Docs : RequeueRead(r, d)
    PROVE  ResInv'
<1>1. ASSUME NEW c \in Contents, NEW op \in {"upload", "import"}, Begin(r, op, c) PROVE ResInv'
  <2> PICK q \in Request : q = [Idle EXCEPT !.op = op, !.pc = "staged", !.content = c]
    BY DEF Request, Idle
  <2>1. q.op = op /\ q.pc = "staged" /\ q.content = c  BY DEF Idle
  <2>2. req' = [req EXCEPT ![r] = q]  BY <1>1 DEF Begin
  <2>3. UNCHANGED <<kbExists, rows, nextDoc, nextKey, store, quotaLock, kbLock, listing, jobs,
                    sweep, faults, mix, overruled, unrefreshed>>
    BY <1>1 DEF Begin
  <2> QED  BY <2>1, <2>2, <2>3, AdvanceStep DEF Creating
<1>2. ASSUME NEW c \in Contents, NEW d \in Docs, BeginReplace(r, d, c) PROVE ResInv'
  <2> PICK q \in Request : q = [Idle EXCEPT !.op = "replace", !.pc = "staged", !.doc = d, !.content = c]
    BY DEF Request, Idle
  <2>1. q.op = "replace" /\ q.pc = "staged" /\ q.content = c /\ q.doc = d  BY DEF Idle
  <2>2. req' = [req EXCEPT ![r] = q]  BY <1>2 DEF BeginReplace
  <2>3. UNCHANGED <<kbExists, rows, nextDoc, nextKey, store, quotaLock, kbLock, listing, jobs,
                    sweep, faults, mix, overruled, unrefreshed>>
    BY <1>2 DEF BeginReplace
  <2> QED  BY <2>1, <2>2, <2>3, AdvanceStep DEF Creating
<1>3. ASSUME NEW d \in Docs, RequeueRead(r, d) PROVE ResInv'
  <2> PICK q \in Request : q = [Idle EXCEPT !.op = "requeue", !.pc = "decided", !.doc = d]
    BY DEF Request, Idle
  <2>1. q.op = "requeue" /\ q.pc = "decided" /\ q.doc = d  BY DEF Idle
  <2>2. req' = [req EXCEPT ![r] = q]  BY <1>3 DEF RequeueRead
  <2>3. UNCHANGED <<kbExists, rows, nextDoc, nextKey, store, quotaLock, kbLock, listing, jobs,
                    sweep, faults, mix, overruled, unrefreshed>>
    BY <1>3 DEF RequeueRead
  <2> QED  BY <2>1, <2>2, <2>3, AdvanceStep DEF Creating
<1> QED  BY <1>1, <1>2, <1>3

\* The tasks.
LEMMA TaskInv ==
    ASSUME ResInv, NEW j \in jobs, TaskStep(j) \/ TaskFails(j) \/ DiscardCleanup(j)
    PROVE  ResInv'
<1> j \in Job /\ faults \in 0..MaxFaults  BY DEF ResInv, ResTypeOK
<1>1. ASSUME NEW k \in Keys, TaskDelete(j, k) PROVE ResInv'  BY <1>1, TaskDeleteStep
<1>2. CASE TaskFinish(j)  BY <1>2, TaskFinishStep
<1>3. CASE Replay(j)
  <2> PICK i : i = NewJob(j.doc, j.keys)  OBVIOUS
  <2>1. i \in Job /\ i.doc = j.doc /\ i.keys = j.keys /\ i.left = i.keys  BY DEF NewJob, Job
  <2>2. Become(j, i)  BY <1>3 DEF Replay
  <2> QED  BY <1>3, <2>1, <2>2, RewriteStep DEF Replay
<1>4. CASE TaskFails(j)
  <2> PICK i : i = IF j.retries < MaxRetries
                   THEN [j EXCEPT !.left = j.keys, !.retries = @ + 1]
                   ELSE [j EXCEPT !.left = j.keys, !.parked = TRUE]
    OBVIOUS
  <2>1. i \in Job /\ i.doc = j.doc /\ i.keys = j.keys /\ i.left = i.keys
    <3>1. CASE j.retries < MaxRetries
      <4> j.retries + 1 \in 0..MaxRetries  BY <3>1 DEF Job
      <4> QED  BY <3>1 DEF Job
    <3>2. CASE ~(j.retries < MaxRetries)  BY <3>2 DEF Job
    <3> QED  BY <3>1, <3>2
  <2>2. Become(j, i) /\ faults' \in 0..MaxFaults  BY <1>4 DEF TaskFails, Fault
  <2> QED  BY <1>4, <2>1, <2>2, RewriteStep DEF TaskFails
<1>5. CASE DiscardCleanup(j)  BY <1>5, DiscardStep
<1> QED  BY <1>1, <1>2, <1>3, <1>4, <1>5 DEF TaskStep

-----------------------------------------------------------------------------
\* There are no documents, objects or requests at first.
LEMMA InitInv == ResInit => ResInv
<1> SUFFICES ASSUME ResInit PROVE ResInv  OBVIOUS
<1> USE DEF ResInit
<1>1. ResTypeOK
  <2>1. Idle \in Request  BY DEF Idle, Request
  <2>2. Resting \in [pc : {"idle", "read", "listed"}, refs : SUBSET Keys, doomed : SUBSET Keys]
    BY DEF Resting
  <2> QED  BY <2>1, <2>2 DEF ResTypeOK
<1>2. Shape /\ Locking /\ Drawn /\ Private /\ Separate
  BY DEF Shape, Locking, Drawn, Private, PrivateTo, Separate, Idle, Creating, Resting
<1>3. Deletions /\ Sweeping /\ LiveRowHasObject
  BY DEF Deletions, Deletion, Sweeping, LiveRowHasObject, Visible, Present, Resting
<1> QED  BY <1>1, <1>2, <1>3 DEF ResInv

\* Every step keeps the invariant.
LEMMA NextInv == ResInv /\ [ResNext]_resVars => ResInv'
<1> SUFFICES ASSUME ResInv, [ResNext]_resVars PROVE ResInv'  OBVIOUS
<1>1. CASE UNCHANGED resVars
  BY <1>1 DEF ResInv, resVars, ResTypeOK, Shape, Locking, Drawn, Private, PrivateTo, Separate,
     Deletions, Deletion, Sweeping, LiveRowHasObject, Visible, Present, Stored
<1>2. ASSUME NEW r \in Requests,
             \/ \E c \in Contents : \/ \E op \in {"upload", "import"} : Begin(r, op, c)
                                    \/ \E d \in Docs : BeginReplace(r, d, c)
             \/ \E d \in Docs : RequeueRead(r, d)
      PROVE ResInv'
  BY <1>2, BeginInv
<1>3. ASSUME NEW r \in Requests, RequestStep(r) \/ CommitFails(r) \/ RefreshFails(r) \/ Abandon(r) PROVE ResInv'
  BY <1>3, RequestInv
<1>4. ASSUME NEW d \in Docs, Delete(d) PROVE ResInv'  BY <1>4, DeleteStep
<1>5. CASE ListForDeletion  BY <1>5, ListForDeletionStep
<1>6. CASE DeleteKnowledgeBase  BY <1>6, DeleteKnowledgeBaseStep
<1>7. ASSUME NEW j \in jobs, TaskStep(j) \/ TaskFails(j) \/ DiscardCleanup(j) PROVE ResInv'
  BY <1>7, TaskInv
<1>8. ASSUME NEW k \in Keys, Age(k) PROVE ResInv'  BY <1>8, AgeStep
<1>9. CASE SweepStep
  BY <1>9, SweepReadStep, SweepListStep, SweepDeleteStep, SweepEndStep DEF SweepStep
<1> QED  BY <1>1, <1>2, <1>3, <1>4, <1>5, <1>6, <1>7, <1>8, <1>9 DEF ResNext

\* The invariant holds always.
LEMMA ResInvariant == ResSpec => []ResInv
<1>1. ResInit => ResInv  BY InitInv
<1>2. ResInv /\ [ResNext]_resVars => ResInv'  BY NextInv
<1> QED  BY <1>1, <1>2, PTL DEF ResSpec

\* Every variable keeps its type.
THEOREM ResTypeCorrect == ResSpec => []ResTypeOK
<1>1. ResInv => ResTypeOK  BY DEF ResInv
<1> QED  BY <1>1, ResInvariant, PTL

\* A document a user can see has its file, but for one whose import failed to read its row
\* again after the commit, whatever requests, deletions, retries, replays,
\* crashes and sweeps run beside each other.
THEOREM VisibleRowsKeepObjects == ResSpec => []LiveRowHasObject
<1>1. ResInv => LiveRowHasObject  BY DEF ResInv
<1> QED  BY <1>1, ResInvariant, PTL

\* A step that removes the row of one document is the end of its deletion task, which
\* has deleted the object of the row.
THEOREM RowsOutliveObjects == ResSpec => RowOutlivesObject
<1> DEFINE A == \A d \in Docs \ overruled :
                   rows[d] # None /\ rows'[d] = None /\ kbExists' => ~Stored(rows[d].key)
<1>1. ResInv /\ [ResNext]_resVars => A
  <2> SUFFICES ASSUME ResInv, [ResNext]_resVars,
                      NEW d \in Docs \ overruled, rows[d] # None, rows'[d] = None, kbExists'
               PROVE  ~Stored(rows[d].key)
    OBVIOUS
  <2> rows \in [Docs -> Row \cup {None}]  BY DEF ResInv, ResTypeOK
  <2>1. ASSUME NEW j \in jobs, TaskFinish(j) PROVE ~Stored(rows[d].key)
    <3>1. j \in Job /\ Deletion(j)  BY DEF ResInv, ResTypeOK, Deletions
    <3>2. j.doc = d /\ j.left = {}  BY <2>1 DEF TaskFinish
    <3> QED  BY <3>1, <3>2 DEF Deletion
  <2>2. ASSUME NEW e \in Docs, Delete(e) PROVE FALSE
    BY <2>2 DEF Delete, Row
  <2>3. CASE DeleteKnowledgeBase  BY <2>3 DEF DeleteKnowledgeBase
  <2>4. ASSUME NEW r \in Requests, CreateCommit(r) \/ ReplaceCommit(r) \/ RequeueCommit(r)
        PROVE FALSE
    <3> Shape  BY DEF ResInv
    <3>1. CASE CreateCommit(r)  BY <3>1 DEF CreateCommit, At, Shape, Creating, Row
    <3>2. CASE ReplaceCommit(r)  BY <3>2 DEF ReplaceCommit, At, Shape, Creating, Row
    <3>3. CASE RequeueCommit(r)
      <4> PICK e : e = req[r].doc  OBVIOUS
      <4>1. /\ e \in Docs /\ rows[e] \in Row /\ d = e
            /\ rows'[e] = [rows[e] EXCEPT !.status = "live"]
        BY <3>3 DEF RequeueCommit, At, Shape
      <4> QED  BY <4>1 DEF Row
    <3> QED  BY <2>4, <3>1, <3>2, <3>3
  <2>5. UNCHANGED rows => FALSE  OBVIOUS
  <2> QED
    BY <2>1, <2>2, <2>3, <2>4, <2>5 DEF ResNext, resVars, RequestStep, TaskStep, SweepStep,
       Begin, BeginReplace, RequeueRead, Reserve, Put, CreateRejected, LockRow, ReserveReplace,
       ReplaceRejected, Trim, DeadlockAbort, CommitFails, Refresh, RefreshFails, Abandon,
       ListForDeletion, TaskDelete,
       TaskFails, Replay, DiscardCleanup, Age, SweepRead, SweepList, SweepDelete, SweepEnd
<1> QED  BY <1>1, ResInvariant, PTL DEF ResSpec, RowOutlivesObject

-----------------------------------------------------------------------------
(* The quota.                                                                *)

\* The stored bytes as a function of the rows, and what each document counts for.
UsedBy(R) == MapThenSumSet(LAMBDA d : SizeOf[R[d].content], {d \in Docs : R[d] # None})
\* What each document counts for.
Weight(R) == [d \in Docs |-> IF R[d] = None THEN 0 ELSE SizeOf[R[d].content]]

\* The values of rows.
Rows == [Docs -> Row \cup {None}]

\* The stored bytes before and after a step.
LEMMA UsedNow == Used = UsedBy(rows) /\ Used' = UsedBy(rows')
BY DEF Used, UsedBy, Present, MapThenSumSet, MapThenFoldSet

\* Documents weigh what their contents do.
LEMMA Weighs ==
    ASSUME NEW R \in Rows
    PROVE  Weight(R) \in [Docs -> Nat] /\ \A d \in Docs : R[d] # None => Weight(R)[d] = SizeOf[R[d].content]
BY DEF Weight, Rows, Row

\* The sum over the documents there are is the running total of the weights.
LEMMA UsedIsTotal ==
    ASSUME NEW R \in Rows
    PROVE  \E h : IsTotal(h, Weight(R), MaxDocs) /\ UsedBy(R) = h[MaxDocs]
<1> DEFINE S == {d \in Docs : R[d] # None}
<1> PICK w : w = Weight(R)  OBVIOUS
<1>1. w \in [1..MaxDocs -> Nat] /\ S \in SUBSET (1..MaxDocs) /\ MaxDocs \in Nat  BY Weighs
<1>2. Only(w, S) = w
  <2>1. DOMAIN w = Docs /\ \A d \in Docs : d \notin S => w[d] = 0
    BY DEF Weight
  <2>2. \A d \in Docs : Only(w, S)[d] = w[d]  BY <2>1 DEF Only
  <2>3. Only(w, S) \in [Docs -> Nat]  BY <1>1, <2>1 DEF Only
  <2> QED  BY <1>1, <2>2, <2>3
<1>3. \E e : IsSum(e, w, S) /\ UsedBy(R) = e[S]
  <2>1. PICK f : IsSum(f, w, S)  BY <1>1, SumExists
  <2> DEFINE Eq(e) == e = [s \in SUBSET S |-> IF s = {} THEN 0
                             ELSE SizeOf[R[CHOOSE x \in s : TRUE].content] + e[s \ {CHOOSE x \in s : TRUE}]]
  <2>2. \A e : Eq(e) <=> IsSum(e, w, S)
    <3>1. \A s \in SUBSET S : s # {} => Pick(s) \in s  BY DEF Pick
    <3>2. \A s \in SUBSET S : s # {} => SizeOf[R[Pick(s)].content] = w[Pick(s)]
      BY <3>1, Weighs
    <3> HIDE DEF S, Docs
    <3> QED  BY <3>2 DEF IsSum, Pick
  <2>3. UsedBy(R) = (CHOOSE e : Eq(e))[S]
    BY DEF UsedBy, MapThenSumSet, MapThenFoldSet
  <2> HIDE DEF Eq, S
  <2>4. Eq(CHOOSE e : Eq(e))  BY <2>1, <2>2
  <2> QED  BY <2>2, <2>3, <2>4
<1>4. PICK e : IsSum(e, w, S) /\ UsedBy(R) = e[S]  BY <1>3
<1> HIDE DEF S
<1>5. \E h : IsTotal(h, Only(w, S), MaxDocs) /\ e[S] = h[MaxDocs]
  BY <1>1, <1>4, SumIsTotal
<1> QED  BY <1>2, <1>4, <1>5

\* Rows that weigh no more use no more.
LEMMA UsedMonotone ==
    ASSUME NEW R \in Rows, NEW Q \in Rows,
           \A d \in Docs : Weight(Q)[d] <= Weight(R)[d]
    PROVE  UsedBy(Q) <= UsedBy(R)
<1>1. PICK g : IsTotal(g, Weight(Q), MaxDocs) /\ UsedBy(Q) = g[MaxDocs]  BY UsedIsTotal
<1>2. PICK h : IsTotal(h, Weight(R), MaxDocs) /\ UsedBy(R) = h[MaxDocs]  BY UsedIsTotal
<1>3. Weight(Q) \in [1..MaxDocs -> Nat] /\ Weight(R) \in [1..MaxDocs -> Nat]  BY Weighs
<1>4. g[MaxDocs] <= h[MaxDocs]  BY <1>1, <1>2, <1>3, TotalMonotone
<1> QED  BY <1>1, <1>2, <1>4

\* A change of one row changes the use by the difference of what it weighs.
LEMMA UsedChange ==
    ASSUME NEW R \in Rows, NEW Q \in Rows, NEW d \in Docs,
           \A e \in Docs : e # d => Q[e] = R[e]
    PROVE  UsedBy(Q) = UsedBy(R) - Weight(R)[d] + Weight(Q)[d]
<1>1. PICK g : IsTotal(g, Weight(Q), MaxDocs) /\ UsedBy(Q) = g[MaxDocs]  BY UsedIsTotal
<1>2. PICK h : IsTotal(h, Weight(R), MaxDocs) /\ UsedBy(R) = h[MaxDocs]  BY UsedIsTotal
<1>3. Weight(Q) \in [1..MaxDocs -> Nat] /\ Weight(R) \in [1..MaxDocs -> Nat]  BY Weighs
<1>4. AgreeBut(Weight(Q), Weight(R), d, MaxDocs)  BY DEF AgreeBut, Weight
<1>5. Moves(g, h, Weight(Q), Weight(R), d, MaxDocs)
  BY <1>1, <1>2, <1>3, <1>4, TotalChange
<1> QED  BY <1>1, <1>2, <1>5 DEF Moves

\* The stored bytes are a number.
LEMMA UsedType == ASSUME NEW R \in Rows PROVE UsedBy(R) \in Nat
<1>1. PICK h : IsTotal(h, Weight(R), MaxDocs) /\ UsedBy(R) = h[MaxDocs]  BY UsedIsTotal
<1> QED  BY <1>1 DEF IsTotal

\* A request past the quota check holds the lock, and the quota has room for what it will
\* commit.
Funded ==
    \A r \in Requests : req[r].pc \in {"reserved", "stored"} =>
       /\ quotaLock = r
       /\ req[r].op # "replace" => Used + SizeOf[req[r].content] <= Quota
       /\ req[r].op = "replace" =>
             Used - SizeOf[rows[req[r].doc].content] + SizeOf[req[r].content] <= Quota
\* The inductive invariant of the quota, beside that of the objects.
QuotaInv == Funded /\ QuotaRespected

\* What the sizes in these comparisons are.
LEMMA Sizes ==
    ASSUME ResInv
    PROVE  /\ rows \in Rows /\ Used \in Nat
           /\ \A d \in Docs : rows[d] # None => SizeOf[rows[d].content] \in Nat
           /\ \A r \in Requests : req[r].op \in Creating \cup {"replace"} =>
                 SizeOf[req[r].content] \in Nat
<1>1. rows \in Rows  BY DEF ResInv, ResTypeOK, Rows
<1>2. Used \in Nat  BY <1>1, UsedType, UsedNow
<1>3. \A d \in Docs : rows[d] # None => SizeOf[rows[d].content] \in Nat  BY <1>1 DEF Rows, Row
<1>4. \A r \in Requests : req[r].op \in Creating \cup {"replace"} => SizeOf[req[r].content] \in Nat
  BY DEF ResInv, Shape
<1> QED  BY <1>1, <1>2, <1>3, <1>4

\* Steps that add nothing to the rows.  Requests that have just reserved are the caller's.
LEMMA NoMoreUsed ==
    ASSUME ResInv, ResInv', QuotaInv, Used' <= Used,
           \A r \in Requests : req'[r].pc \in {"reserved", "stored"} =>
              /\ req[r].pc \in {"reserved", "stored"}
              /\ req'[r].op = req[r].op /\ req'[r].doc = req[r].doc
              /\ req'[r].content = req[r].content
              /\ quotaLock' = quotaLock
              /\ req[r].op = "replace" => rows'[req[r].doc].content = rows[req[r].doc].content
    PROVE  QuotaInv'
<1>1. Used \in Nat /\ Used' \in Nat  BY Sizes, UsedType, UsedNow DEF ResInv, ResTypeOK, Rows
<1>2. QuotaRespected'  BY <1>1 DEF QuotaInv, QuotaRespected
<1>3. Funded'
  <2> SUFFICES ASSUME NEW r \in Requests, req'[r].pc \in {"reserved", "stored"}
               PROVE  /\ quotaLock' = r
                      /\ req'[r].op # "replace" => Used' + SizeOf[req'[r].content] <= Quota
                      /\ req'[r].op = "replace" =>
                            Used' - SizeOf[rows'[req'[r].doc].content] + SizeOf[req'[r].content] <= Quota
    BY DEF Funded
  <2>1. /\ req[r].pc \in {"reserved", "stored"} /\ req'[r].op = req[r].op
        /\ req'[r].content = req[r].content /\ req'[r].doc = req[r].doc /\ quotaLock' = quotaLock
    OBVIOUS
  <2>2. quotaLock' = r  BY <2>1 DEF QuotaInv, Funded
  <2>3. SizeOf[req[r].content] \in Nat  BY <2>1, Sizes DEF ResInv, Shape
  <2>4. ASSUME req[r].op # "replace" PROVE Used' + SizeOf[req[r].content] <= Quota
    <3>1. Used + SizeOf[req[r].content] <= Quota  BY <2>1, <2>4 DEF QuotaInv, Funded
    <3> QED  BY <1>1, <2>3, <3>1
  <2>5. ASSUME req[r].op = "replace"
        PROVE  Used' - SizeOf[rows'[req[r].doc].content] + SizeOf[req[r].content] <= Quota
    <3>1. req[r].doc \in Docs /\ rows[req[r].doc] # None
      BY <2>1, <2>5 DEF ResInv, Shape, Locking
    <3>2. SizeOf[rows[req[r].doc].content] \in Nat  BY <3>1, Sizes
    <3>3. rows'[req[r].doc].content = rows[req[r].doc].content  BY <2>5
    <3>4. Used - SizeOf[rows[req[r].doc].content] + SizeOf[req[r].content] <= Quota
      BY <2>1, <2>5 DEF QuotaInv, Funded
    <3> QED  BY <1>1, <2>3, <3>2, <3>3, <3>4
  <2> QED  BY <2>1, <2>2, <2>4, <2>5
<1> QED  BY <1>2, <1>3 DEF QuotaInv

\* A step that leaves the rows alone and puts no request past the quota check.
LEMMA RowsAlone ==
    ASSUME ResInv, ResInv', QuotaInv, rows' = rows,
           \A r \in Requests : req'[r].pc \in {"reserved", "stored"} =>
              /\ req[r].pc \in {"reserved", "stored"}
              /\ req'[r].op = req[r].op /\ req'[r].doc = req[r].doc
              /\ req'[r].content = req[r].content
              /\ quotaLock' = quotaLock
    PROVE  QuotaInv'
<1>1. Used' = Used  BY UsedNow
<1>2. Used' <= Used  BY <1>1, Sizes
<1> QED  BY <1>2, NoMoreUsed

\* The end of a request frees its own lock only.
LEMMA EndAlone ==
    ASSUME ResInv, QuotaInv, NEW r \in Requests, End(r)
    PROVE  \A q \in Requests : req'[q].pc \in {"reserved", "stored"} =>
              /\ q # r /\ req'[q] = req[q] /\ quotaLock = q /\ quotaLock' = quotaLock
<1>1. /\ req'[r].pc = "idle"
      /\ \A q \in Requests : q # r => req'[q] = req[q]
  BY DEF ResInv, ResTypeOK, End, Idle
<1>2. ASSUME NEW q \in Requests, q # r, req[q].pc \in {"reserved", "stored"}
      PROVE  quotaLock = q /\ quotaLock' = quotaLock
  BY <1>2 DEF QuotaInv, Funded, End, Freed
<1> QED  BY <1>1, <1>2

\* A request passes the quota check.
LEMMA PassesQuota ==
    ASSUME ResInv, ResInv', QuotaInv, NEW r \in Requests,
           quotaLock = None, quotaLock' = r, rows' = rows,
           req[r].pc \in {"staged", "locked"}, Goto(r, "reserved"),
           req[r].op # "replace" => Used + SizeOf[req[r].content] <= Quota,
           req[r].op = "replace" =>
              Used - SizeOf[rows[req[r].doc].content] + SizeOf[req[r].content] <= Quota
    PROVE  QuotaInv'
<1>1. /\ req'[r].op = req[r].op /\ req'[r].doc = req[r].doc /\ req'[r].content = req[r].content
      /\ \A q \in Requests : q # r => req'[q] = req[q]
  BY DEF Goto, ResInv, ResTypeOK, Request
<1>2. Used' = Used  BY UsedNow
<1>3. \A q \in Requests : q # r => req[q].pc \notin {"reserved", "stored"}
  BY DEF QuotaInv, Funded
<1>4. Funded'
  <2> SUFFICES ASSUME NEW q \in Requests, req'[q].pc \in {"reserved", "stored"}
               PROVE  /\ quotaLock' = q
                      /\ req'[q].op # "replace" => Used' + SizeOf[req'[q].content] <= Quota
                      /\ req'[q].op = "replace" =>
                            Used' - SizeOf[rows'[req'[q].doc].content] + SizeOf[req'[q].content] <= Quota
    BY DEF Funded
  <2>1. q = r  BY <1>1, <1>3
  <2> QED  BY <1>1, <1>2, <2>1
<1>5. QuotaRespected'  BY <1>2 DEF QuotaInv, QuotaRespected
<1> QED  BY <1>4, <1>5 DEF QuotaInv

\* A commit spends what its request reserved; nobody else is past the check meanwhile.
LEMMA CreateCommitQuota ==
    ASSUME ResInv, ResInv', QuotaInv, NEW r \in Requests, CreateCommit(r)
    PROVE  QuotaInv'
<1>1. /\ req[r].pc = "stored" /\ req[r].op \in Creating
      /\ nextDoc \in Docs
      /\ rows' = [rows EXCEPT ![nextDoc] =
                     [status |-> "live", key |-> req[r].key, content |-> req[r].content]]
  BY DEF CreateCommit, At, Creating
<1>2. quotaLock = r /\ Used + SizeOf[req[r].content] <= Quota
  BY <1>1 DEF QuotaInv, Funded, Creating
<1>3. \A q \in Requests : req'[q].pc \notin {"reserved", "stored"}
  <2>1. \A q \in Requests : q # r => req[q].pc \notin {"reserved", "stored"}
    BY <1>1 DEF QuotaInv, Funded
  <2>2. req'[r].pc \in {"idle", "committed"} /\ \A q \in Requests : q # r => req'[q] = req[q]
    BY DEF CreateCommit, End, Idle, ResInv, ResTypeOK, Request
  <2> QED  BY <2>1, <2>2
<1>4. Funded'  BY <1>3 DEF Funded
<1>5. rows \in Rows /\ rows' \in Rows  BY DEF ResInv, ResTypeOK, Rows
<1>6. rows[nextDoc] = None  BY <1>1 DEF ResInv, ResTypeOK, Drawn
<1>7. /\ rows'[nextDoc].content = req[r].content /\ rows'[nextDoc] # None
      /\ \A e \in Docs : e # nextDoc => rows'[e] = rows[e]
  <2>1. req[r].content \in Contents /\ req[r].key \in Keys  BY <1>1 DEF ResInv, Shape
  <2>2. [status |-> "live", key |-> req[r].key, content |-> req[r].content] \in Row
    BY <2>1 DEF Row
  <2> QED  BY <1>1, <1>5, <2>2 DEF Rows
<1>8. Weight(rows)[nextDoc] = 0 /\ Weight(rows')[nextDoc] = SizeOf[req[r].content]
  BY <1>1, <1>6, <1>7 DEF Weight
<1>9. UsedBy(rows') = UsedBy(rows) - Weight(rows)[nextDoc] + Weight(rows')[nextDoc]
  <2>1. \A e \in Docs : e # nextDoc => rows'[e] = rows[e]  BY <1>7
  <2>2. PICK R \in Rows, Q \in Rows, d \in Docs : R = rows /\ Q = rows' /\ d = nextDoc  BY <1>1, <1>5
  <2>3. \A e \in Docs : e # d => Q[e] = R[e]  BY <2>1, <2>2
  <2>4. UsedBy(Q) = UsedBy(R) - Weight(R)[d] + Weight(Q)[d]  BY <2>3, UsedChange
  <2> QED  BY <2>2, <2>4
<1>10. SizeOf[req[r].content] \in Nat /\ Used \in Nat  BY <1>1, Sizes
<1>11. Used' = Used + SizeOf[req[r].content]  BY <1>8, <1>9, <1>10, UsedNow
<1> QED  BY <1>2, <1>4, <1>11 DEF QuotaInv, QuotaRespected

\* The same for a replacement, which gives back what the old content took.
LEMMA ReplaceCommitQuota ==
    ASSUME ResInv, ResInv', QuotaInv, NEW r \in Requests, ReplaceCommit(r)
    PROVE  QuotaInv'
<1> PICK d : d = req[r].doc  OBVIOUS
<1>1. /\ req[r].pc = "stored" /\ req[r].op = "replace"
      /\ rows' = [rows EXCEPT ![d] =
                     [status |-> "live", key |-> req[r].key, content |-> req[r].content]]
      /\ req' = [req EXCEPT ![r].pc = "trim", ![r].key = rows[d].key]
  BY DEF ReplaceCommit, At
<1>2. d \in Docs /\ rows[d] # None  BY <1>1 DEF ResInv, Shape, Locking
<1>3. quotaLock = r /\ Used - SizeOf[rows[d].content] + SizeOf[req[r].content] <= Quota
  BY <1>1 DEF QuotaInv, Funded
<1>4. \A q \in Requests : req'[q].pc \notin {"reserved", "stored"}
  <2>1. req'[r].pc = "trim" /\ \A q \in Requests : q # r => req'[q] = req[q]
    BY <1>1 DEF ResInv, ResTypeOK, Request
  <2>2. \A q \in Requests : q # r => req[q].pc \notin {"reserved", "stored"}
    BY <1>3 DEF QuotaInv, Funded
  <2> QED  BY <2>1, <2>2
<1>5. Funded'  BY <1>4 DEF Funded
<1>6. rows \in Rows /\ rows' \in Rows  BY DEF ResInv, ResTypeOK, Rows
<1>7. /\ rows'[d].content = req[r].content /\ rows'[d] # None
      /\ \A e \in Docs : e # d => rows'[e] = rows[e]
  <2>1. req[r].content \in Contents /\ req[r].key \in Keys  BY <1>1 DEF ResInv, Shape
  <2>2. [status |-> "live", key |-> req[r].key, content |-> req[r].content] \in Row
    BY <2>1 DEF Row
  <2> QED  BY <1>1, <1>2, <1>6, <2>2 DEF Rows
<1>8. /\ Weight(rows)[d] = SizeOf[rows[d].content]
      /\ Weight(rows')[d] = SizeOf[req[r].content]
  BY <1>2, <1>7 DEF Weight
<1>9. UsedBy(rows') = UsedBy(rows) - Weight(rows)[d] + Weight(rows')[d]
  BY <1>2, <1>6, <1>7, UsedChange
<1>10. Used' = Used - SizeOf[rows[d].content] + SizeOf[req[r].content]
  BY <1>8, <1>9, UsedNow
<1> QED  BY <1>3, <1>5, <1>10 DEF QuotaInv, QuotaRespected

\* Rows that lose documents, or change status, use no more.
LEMMA FewerRows ==
    ASSUME ResInv, ResInv',
           \A d \in Docs : rows'[d] # None => rows[d] # None /\ rows'[d].content = rows[d].content
    PROVE  Used' <= Used
<1>1. rows \in Rows /\ rows' \in Rows  BY DEF ResInv, ResTypeOK, Rows
<1>2. \A d \in Docs : Weight(rows')[d] <= Weight(rows)[d]
  <2> SUFFICES ASSUME NEW d \in Docs PROVE Weight(rows')[d] <= Weight(rows)[d]
    OBVIOUS
  <2>1. Weight(rows)[d] \in Nat  BY <1>1, Weighs
  <2>2. CASE rows'[d] = None  BY <2>1, <2>2 DEF Weight
  <2>3. CASE rows'[d] # None
    <3>1. Weight(rows')[d] = Weight(rows)[d]  BY <2>3 DEF Weight
    <3> QED  BY <2>1, <3>1
  <2> QED  BY <2>2, <2>3
<1> QED  BY <1>1, <1>2, UsedMonotone, UsedNow

\* A change of status keeps every row and its content.
LEMMA KeepsContent ==
    ASSUME ResInv, ResInv', NEW d \in Docs, rows[d] # None, NEW st,
           rows' = [rows EXCEPT ![d].status = st]
    PROVE  \A e \in Docs : /\ rows'[e] # None => rows[e] # None /\ rows'[e].content = rows[e].content
                           /\ rows[e] # None => rows'[e].content = rows[e].content
<1>1. rows[d] \in Row /\ rows \in Rows  BY DEF ResInv, ResTypeOK, Rows
<1>2. rows'[d] = [rows[d] EXCEPT !.status = st]  BY <1>1 DEF Rows
<1>3. rows'[d].content = rows[d].content  BY <1>1, <1>2 DEF Row
<1>4. \A e \in Docs : e # d => rows'[e] = rows[e]  BY <1>1 DEF Rows
<1> QED  BY <1>3, <1>4

\* The steps of a request.
LEMMA QuotaRequests ==
    ASSUME ResInv, ResInv', QuotaInv, NEW r \in Requests,
           RequestStep(r) \/ CommitFails(r) \/ RefreshFails(r) \/ Abandon(r)
    PROVE  QuotaInv'
<1>1. CASE Reserve(r)
  <2>1. req[r].pc = "staged" /\ req[r].op \in Creating /\ rows' = rows
    BY <1>1 DEF Reserve, At, Creating
  <2>2. CASE End(r)  BY <2>1, <2>2, EndAlone, RowsAlone
  <2>3. CASE ~End(r)
    <3>1. /\ quotaLock = None /\ quotaLock' = r /\ Goto(r, "reserved")
          /\ ~(Used + SizeOf[req[r].content] > Quota)
      BY <1>1, <2>3 DEF Reserve
    <3>2. Used + SizeOf[req[r].content] <= Quota  BY <2>1, <3>1, Sizes
    <3> QED  BY <2>1, <3>1, <3>2, PassesQuota DEF Creating
  <2> QED  BY <2>2, <2>3
<1>2. CASE ReserveReplace(r)
  <2>1. req[r].pc = "locked" /\ req[r].op = "replace" /\ rows' = rows
    BY <1>2 DEF ReserveReplace, At
  <2>2. CASE End(r)  BY <2>1, <2>2, EndAlone, RowsAlone
  <2>3. CASE ~End(r)
    <3>1. /\ quotaLock = None /\ quotaLock' = r /\ Goto(r, "reserved")
          /\ ~(Used - SizeOf[rows[req[r].doc].content] + SizeOf[req[r].content] > Quota)
      BY <1>2, <2>3 DEF ReserveReplace
    <3>2. req[r].doc \in Docs /\ rows[req[r].doc] # None
      BY <2>1 DEF ResInv, Shape, Locking
    <3>3. Used - SizeOf[rows[req[r].doc].content] + SizeOf[req[r].content] <= Quota
      BY <2>1, <3>1, <3>2, Sizes
    <3> QED  BY <2>1, <3>1, <3>3, PassesQuota
  <2> QED  BY <2>2, <2>3
<1>3. CASE Put(r)
  <2>1. /\ req[r].pc = "reserved" /\ rows' = rows /\ quotaLock' = quotaLock
        /\ req' = [req EXCEPT ![r].pc = "stored", ![r].key = nextKey]
    BY <1>3 DEF Put
  <2>2. \A q \in Requests : req'[q].pc \in {"reserved", "stored"} =>
           /\ req[q].pc \in {"reserved", "stored"}
           /\ req'[q].op = req[q].op /\ req'[q].doc = req[q].doc
           /\ req'[q].content = req[q].content
    BY <2>1 DEF ResInv, ResTypeOK, Request
  <2> QED  BY <2>1, <2>2, RowsAlone
<1>4. CASE LockRow(r)
  <2>1. req[r].pc = "staged" /\ req[r].op = "replace" /\ rows' = rows
    BY <1>4 DEF LockRow, At
  <2>2. CASE End(r)  BY <2>1, <2>2, EndAlone, RowsAlone
  <2>3. CASE ~End(r)
    <3>1. Goto(r, "locked") /\ quotaLock' = quotaLock  BY <1>4, <2>3 DEF LockRow
    <3>2. \A q \in Requests : req'[q].pc \in {"reserved", "stored"} => req'[q] = req[q]
      BY <3>1 DEF Goto, ResInv, ResTypeOK, Request
    <3> QED  BY <2>1, <3>1, <3>2, RowsAlone
  <2> QED  BY <2>2, <2>3
<1>5. CASE \/ CreateRejected(r) \/ ReplaceRejected(r) \/ Trim(r)
           \/ CommitFails(r) \/ Refresh(r) \/ RefreshFails(r) \/ Abandon(r)
  <2>1. End(r) /\ rows' = rows
    BY <1>5 DEF CreateRejected, ReplaceRejected, Trim, CommitFails, Refresh, RefreshFails, Abandon
  <2> QED  BY <2>1, EndAlone, RowsAlone
<1>6. ASSUME NEW p \in Requests, DeadlockAbort(r, p) PROVE QuotaInv'
  <2>1. (End(r) \/ End(p)) /\ rows' = rows  BY <1>6 DEF DeadlockAbort
  <2>2. CASE End(r)  BY <2>1, <2>2, EndAlone, RowsAlone
  <2>3. CASE End(p)  BY <2>1, <2>3, EndAlone, RowsAlone
  <2> QED  BY <2>1, <2>2, <2>3
<1>7. CASE RequeueCommit(r)
  <2> PICK d : d = req[r].doc  OBVIOUS
  <2>1. d \in Docs /\ End(r)  BY <1>7 DEF RequeueCommit, At, ResInv, Shape
  <2>2. rows' = rows \/ (rows[d] # None /\ rows' = [rows EXCEPT ![d].status = "live"])
    BY <1>7 DEF RequeueCommit
  <2>3. \A e \in Docs : /\ rows'[e] # None => rows[e] # None /\ rows'[e].content = rows[e].content
                        /\ rows[e] # None => rows'[e].content = rows[e].content
    <3>1. CASE rows' = rows  BY <3>1
    <3>2. CASE rows[d] # None /\ rows' = [rows EXCEPT ![d].status = "live"]
      BY <2>1, <3>2, KeepsContent
    <3> QED  BY <2>2, <3>1, <3>2
  <2>4. Used' <= Used  BY <2>3, FewerRows
  <2>5. \A q \in Requests : req'[q].pc \in {"reserved", "stored"} /\ req[q].op = "replace" =>
           rows'[req[q].doc].content = rows[req[q].doc].content
    BY <2>1, <2>3, EndAlone DEF ResInv, Shape, Locking
  <2> QED  BY <2>1, <2>4, <2>5, EndAlone, NoMoreUsed
<1> QED
  BY <1>1, <1>2, <1>3, <1>4, <1>5, <1>6, <1>7, CreateCommitQuota, ReplaceCommitQuota
  DEF RequestStep

\* Every step keeps the quota.
LEMMA QuotaStep == ResInv /\ ResInv' /\ QuotaInv /\ [ResNext]_resVars => QuotaInv'
<1> SUFFICES ASSUME ResInv, ResInv', QuotaInv, [ResNext]_resVars PROVE QuotaInv'  OBVIOUS
<1>1. CASE UNCHANGED resVars  BY <1>1, RowsAlone DEF resVars
<1>2. ASSUME NEW r \in Requests,
             \/ \E c \in Contents : \/ \E op \in {"upload", "import"} : Begin(r, op, c)
                                    \/ \E d \in Docs : BeginReplace(r, d, c)
             \/ \E d \in Docs : RequeueRead(r, d)
      PROVE QuotaInv'
  <2>1. rows' = rows /\ quotaLock' = quotaLock
    BY <1>2 DEF Begin, BeginReplace, RequeueRead
  <2>2. /\ req'[r].pc \in {"staged", "decided"}
        /\ \A q \in Requests : q # r => req'[q] = req[q]
    <3> DOMAIN req = Requests  BY DEF ResInv, ResTypeOK
    <3>1. ASSUME NEW c \in Contents, NEW op \in {"upload", "import"}, Begin(r, op, c)
          PROVE  /\ req'[r].pc \in {"staged", "decided"}
                 /\ \A p \in Requests : p # r => req'[p] = req[p]
      <4> PICK q : q = [Idle EXCEPT !.op = op, !.pc = "staged", !.content = c]  OBVIOUS
      <4>1. q.pc = "staged"  BY DEF Idle
      <4>2. req' = [req EXCEPT ![r] = q]  BY <3>1 DEF Begin
      <4> QED  BY <4>1, <4>2
    <3>2. ASSUME NEW c \in Contents, NEW d \in Docs, BeginReplace(r, d, c)
          PROVE  /\ req'[r].pc \in {"staged", "decided"}
                 /\ \A p \in Requests : p # r => req'[p] = req[p]
      <4> PICK q : q = [Idle EXCEPT !.op = "replace", !.pc = "staged", !.doc = d, !.content = c]
        OBVIOUS
      <4>1. q.pc = "staged"  BY DEF Idle
      <4>2. req' = [req EXCEPT ![r] = q]  BY <3>2 DEF BeginReplace
      <4> QED  BY <4>1, <4>2
    <3>3. ASSUME NEW d \in Docs, RequeueRead(r, d)
          PROVE  /\ req'[r].pc \in {"staged", "decided"}
                 /\ \A p \in Requests : p # r => req'[p] = req[p]
      <4> PICK q : q = [Idle EXCEPT !.op = "requeue", !.pc = "decided", !.doc = d]  OBVIOUS
      <4>1. q.pc = "decided"  BY DEF Idle
      <4>2. req' = [req EXCEPT ![r] = q]  BY <3>3 DEF RequeueRead
      <4> QED  BY <4>1, <4>2
    <3> QED  BY <1>2, <3>1, <3>2, <3>3
  <2> QED  BY <2>1, <2>2, RowsAlone
<1>3. ASSUME NEW r \in Requests, RequestStep(r) \/ CommitFails(r) \/ RefreshFails(r) \/ Abandon(r) PROVE QuotaInv'
  BY <1>3, QuotaRequests
<1>4. ASSUME NEW d \in Docs, Delete(d) PROVE QuotaInv'
  <2>1. rows[d] # None /\ rows' = [rows EXCEPT ![d].status = "deleting"]
        /\ req' = req /\ quotaLock' = quotaLock
    BY <1>4 DEF Delete
  <2>2. \A e \in Docs : /\ rows'[e] # None => rows[e] # None /\ rows'[e].content = rows[e].content
                        /\ rows[e] # None => rows'[e].content = rows[e].content
    BY <2>1, KeepsContent
  <2>3. Used' <= Used  BY <2>2, FewerRows
  <2>4. \A q \in Requests : req[q].pc \in {"reserved", "stored"} /\ req[q].op = "replace" =>
           rows'[req[q].doc].content = rows[req[q].doc].content
    BY <2>2 DEF ResInv, Shape, Locking
  <2> QED  BY <2>1, <2>3, <2>4, NoMoreUsed
<1>5. CASE DeleteKnowledgeBase
  <2>1. /\ kbLock = None /\ req' = req /\ quotaLock' = quotaLock
        /\ rows' = rows \/ rows' = [d \in Docs |-> None]
    BY <1>5 DEF DeleteKnowledgeBase
  <2>2. Used' <= Used  BY <2>1, FewerRows
  <2>3. \A q \in Requests : ~(req[q].pc \in {"reserved", "stored"} /\ req[q].op = "replace")
    BY <2>1 DEF ResInv, Locking
  <2> QED  BY <2>1, <2>2, <2>3, NoMoreUsed
<1>6. ASSUME NEW j \in jobs, TaskFinish(j) PROVE QuotaInv'
  <2>1. /\ req' = req /\ quotaLock' = quotaLock
        /\ \/ rows' = rows
           \/ /\ rows[j.doc] # None /\ rows[j.doc].status = "deleting"
              /\ rows' = [rows EXCEPT ![j.doc] = None]
    BY <1>6 DEF TaskFinish
  <2>2. \A e \in Docs : \/ rows'[e] = rows[e]
                        \/ rows'[e] = None /\ rows[e].status = "deleting"
    <3>1. DOMAIN rows = Docs  BY DEF ResInv, ResTypeOK
    <3> QED  BY <2>1, <3>1
  <2>3. Used' <= Used  BY <2>2, FewerRows
  <2>4. \A q \in Requests : req[q].pc \in {"reserved", "stored"} /\ req[q].op = "replace" =>
           rows'[req[q].doc].content = rows[req[q].doc].content
    BY <2>2 DEF ResInv, Shape, Locking
  <2> QED  BY <2>1, <2>3, <2>4, NoMoreUsed
<1>7. ASSUME UNCHANGED <<rows, req, quotaLock>> PROVE QuotaInv'  BY <1>7, RowsAlone
<1> QED
  BY <1>1, <1>2, <1>3, <1>4, <1>5, <1>6, <1>7
  DEF ResNext, TaskStep, TaskDelete, Replay, TaskFails, DiscardCleanup, ListForDeletion, Age,
      SweepStep, SweepRead, SweepList, SweepDelete, SweepEnd

\* Nothing is stored at first.
LEMMA QuotaInit == ResInit => QuotaInv
<1> SUFFICES ASSUME ResInit PROVE QuotaInv  OBVIOUS
<1>1. Funded  BY DEF ResInit, Funded, Idle
<1>2. rows \in Rows /\ \A d \in Docs : rows[d] = None  BY DEF ResInit, Rows
<1>3. PICK h : IsTotal(h, Weight(rows), MaxDocs) /\ Used = h[MaxDocs]
  BY <1>2, UsedIsTotal, UsedNow
<1>4. \A d \in 1..MaxDocs : Weight(rows)[d] = 0  BY <1>2 DEF Weight
<1>5. \A k \in 0..MaxDocs : h[k] = 0
  <2> DEFINE G == {k \in 0..MaxDocs : h[k] = 0}
  <2>1. 0 \in G  BY <1>3 DEF IsTotal
  <2>2. ASSUME NEW k \in 1..MaxDocs, k - 1 \in G PROVE k \in G
    <3>1. h[k] = h[k - 1] + Weight(rows)[k] /\ h[k - 1] = 0  BY <1>3, <2>2 DEF IsTotal
    <3>2. h[k] = 0  BY <1>4, <3>1
    <3> QED  BY <3>2
  <2>3. \A k \in 0..MaxDocs : k \in G
    <3> HIDE DEF G
    <3> QED  BY <2>1, <2>2, UpTo
  <2> QED  BY <2>3
<1>6. QuotaRespected  BY <1>3, <1>5 DEF QuotaRespected
<1> QED  BY <1>1, <1>6 DEF QuotaInv

\* The workspace never exceeds its quota.
THEOREM QuotaHolds == ResSpec => []QuotaRespected
<1>1. ResInit => QuotaInv  BY QuotaInit
<1>2. ResInv /\ ResInv' /\ QuotaInv /\ [ResNext]_resVars => QuotaInv'  BY QuotaStep
<1>3. QuotaInv => QuotaRespected  BY DEF QuotaInv
<1> QED  BY <1>1, <1>2, <1>3, ResInvariant, PTL DEF ResSpec

=============================================================================
