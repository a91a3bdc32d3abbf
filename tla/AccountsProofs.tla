--------------------------- MODULE AccountsProofs ----------------------------
(***************************************************************************)
(* Sessions, for any number of requests, tokens, families and crashes:     *)
(* a token with a record was never exchanged; a token issued into a revoked*)
(* family is held by no rotation that passed the check; and every family   *)
(* ever opened is in the index of the user, revoked, or dropped by a change*)
(* of password.  Workspaces, members and the audit log, for any number of  *)
(* workspaces, users, requests and rows.                                   *)
(***************************************************************************)
EXTENDS Sessions, Governance, DataLemmas

-----------------------------------------------------------------------------
(* Sessions.                                                                 *)

\* Tokens not drawn yet have left no trace, and no request holds one.
Undrawn ==
    /\ \A t \in Tokens : t >= nextToken =>
          exchanged[t] = 0 /\ t \notin live /\ t \notin belated
    /\ \A c \in Clients : call[c].pc = "take" => call[c].token \in Tokens /\ call[c].token < nextToken
    /\ \A t \in Issued : t < nextToken
\* Only a revocation under way has families to revoke.
Working ==
    \A c \in Clients : call[c].pc \in {"idle", "issue", "take", "unlist", "list", "clear"} =>
                          call[c].todo = {}
\* What a rotation under way knows of its token.
Rotating ==
    \A c \in Clients :
       /\ call[c].pc = "take" => call[c].op = "refresh" /\ call[c].family \in Families
       /\ call[c].pc \in {"owner", "mark"} => call[c].family \in Families
\* A token is exchanged once, and one with a record has not been.
SpentOnce == \A t \in Tokens : exchanged[t] <= 1 /\ (t \in live => exchanged[t] = 0)
\* A replayed token revokes its family, now or already, unless the request was cut.
Alarmed == \A f \in replayed : f \in revoked \/ Revoking(f) \/ f \in cut
\* A token issued into a revoked family was never exchanged, and no rotation is about to.
Late ==
    \A t \in belated :
       /\ familyOf[t] \in revoked /\ exchanged[t] = 0
       /\ \A c \in Clients : call[c].pc = "take" => call[c].token # t
\* Every family opened is in the index, revoked or dropped.
Listed ==
    /\ Opened \subseteq index \cup revoked \cup unlisted
    /\ \A c \in Clients :
          /\ call[c].pc = "list" => call[c].before \subseteq Opened
          /\ (call[c].op = "change" /\ call[c].pc \in {"members", "owner", "mark"}) =>
                call[c].before \subseteq call[c].todo \cup revoked \cup unlisted
          /\ call[c].pc = "clear" => call[c].before \subseteq revoked \cup unlisted

\* The inductive invariant of the sessions.
SesInv == SesTypeOK /\ Undrawn /\ Working /\ Rotating /\ SpentOnce /\ Alarmed /\ Late /\ Listed

\* The initial states satisfy the invariant.
LEMMA SesInitInv == SesInit => SesInv
  <1> SUFFICES ASSUME SesInit PROVE SesInv
    OBVIOUS
  <1> USE SessionConstants DEF SesInit, Quiet, Tokens, Families
  <1>1. SesTypeOK
    BY DEF SesTypeOK, Call
  <1>2. Undrawn /\ Working /\ Rotating /\ SpentOnce
    BY DEF Undrawn, Working, Rotating, SpentOnce, Issued
  <1>3. Alarmed /\ Late /\ Listed
    BY DEF Alarmed, Late, Listed, Opened
  <1> QED
    BY <1>1, <1>2, <1>3 DEF SesInv

\* A login, refresh, logout or password change that begins.
LEMMA StartKeeps ==
  ASSUME SesInv, NEW c \in Clients,
         \/ Login(c) \/ Change(c) \/ \E t \in Tokens : Check(c, t) \/ Logout(c, t)
  PROVE  SesInv'
  <1> USE SessionConstants DEF SesInv
  <1> DEFINE Next(n) == /\ call' = [call EXCEPT ![c] = n] /\ n \in Call
                        /\ n.pc = "take" => /\ n.token \in Issued /\ familyOf[n.token] \notin revoked
                                            /\ n.op = "refresh" /\ n.family \in Families
                        /\ n.pc \in {"issue", "take", "members", "list"}
                        /\ n.pc \in {"issue", "take", "list"} => n.todo = {}
                        /\ n.pc = "list" => n.before = Opened
                        /\ n.pc = "members" => n.op = "logout"
  <1>0. \E n : Next(n)
    <2>1. CASE Login(c)
      <3> DEFINE n == [Quiet EXCEPT !.op = "login", !.pc = "issue"]
      <3>1. n \in Call /\ n.pc = "issue" /\ n.todo = {}
        BY DEF Quiet, Call
      <3> HIDE DEF n
      <3>2. call' = [call EXCEPT ![c] = n]
        BY <2>1 DEF Login, n
      <3> QED
        BY <3>1, <3>2
    <2>2. CASE Change(c)
      <3> DEFINE n == [Quiet EXCEPT !.op = "change", !.pc = "list", !.before = Opened]
      <3>1. n \in Call /\ n.pc = "list" /\ n.todo = {} /\ n.before = Opened
        BY DEF Quiet, Call, Opened
      <3> HIDE DEF n
      <3>2. call' = [call EXCEPT ![c] = n]
        BY <2>2 DEF Change, n
      <3> QED
        BY <3>1, <3>2
    <2>3. CASE \E t \in Tokens : Check(c, t)
      <3>0. PICK t \in Tokens : Check(c, t)
        BY <2>3
      <3> DEFINE n == [Quiet EXCEPT !.op = "refresh", !.pc = "take", !.token = t,
                                    !.family = familyOf[t]]
      <3>1. n \in Call /\ n.pc = "take" /\ n.todo = {} /\ n.token = t /\ n.op = "refresh"
            /\ n.family \in Families
        BY <3>0 DEF Quiet, Call, Check, Issued, SesTypeOK
      <3> HIDE DEF n
      <3>2. call' = [call EXCEPT ![c] = n]
        BY <3>0 DEF Check, n
      <3> QED
        BY <3>0, <3>1, <3>2 DEF Check
    <2>4. CASE \E t \in Tokens : Logout(c, t)
      <3>0. PICK t \in Tokens : Logout(c, t)
        BY <2>4
      <3> DEFINE n == [Quiet EXCEPT !.op = "logout", !.pc = "members", !.todo = {familyOf[t]}]
      <3>1. n \in Call /\ n.pc = "members" /\ n.op = "logout"
        BY <3>0 DEF Quiet, Call, Logout, Issued, SesTypeOK
      <3> HIDE DEF n
      <3>2. call' = [call EXCEPT ![c] = n]
        BY <3>0 DEF Logout, n
      <3> QED
        BY <3>1, <3>2
    <2> QED
      BY <2>1, <2>2, <2>3, <2>4
  <1> PICK n : Next(n)
    BY <1>0
  <1>3. /\ \A d \in Clients \ {c} : call'[d] = call[d]
        /\ call'[c] = n /\ call' \in [Clients -> Call] /\ starts' \in 0..MaxStarts
        /\ call[c].todo = {} /\ call[c].pc = "idle"
    <2>1. Start(c)
      BY DEF Login, Change, Check, Logout
    <2>2. starts' \in 0..MaxStarts /\ call[c] = Quiet
      BY <2>1 DEF Start, SesTypeOK
    <2> QED
      BY <2>2 DEF SesTypeOK, Quiet
  <1>1. UNCHANGED <<familyOf, live, members, owned, index, revoked, nextToken, nextFamily,
                    crashes, exchanged, replayed, unlisted, belated, cut>>
    BY DEF Login, Change, Check, Logout
  <1>2. SesTypeOK'
    BY <1>1, <1>3 DEF SesTypeOK
  <1>4. Undrawn' /\ Rotating'
    BY <1>1, <1>3 DEF Undrawn, Rotating, Issued
  <1>5. Working' /\ SpentOnce'
    BY <1>1, <1>3 DEF Working, SpentOnce
  <1>6. Alarmed'
    BY <1>1, <1>3 DEF Alarmed, Revoking
  <1>7. Late'
    BY <1>1, <1>3 DEF Late
  <1>8. Listed'
    BY <1>1, <1>3 DEF Listed, Opened
  <1> QED
    BY <1>2, <1>4, <1>5, <1>6, <1>7, <1>8

\* A pair is issued: a new token, and after a login a new family in the index.
LEMMA IssueKeeps ==
  ASSUME SesInv, NEW c \in Clients, Issue(c)
  PROVE  SesInv'
  <1> USE SessionConstants DEF SesInv, Issue
  <1> DEFINE f == IF call[c].op = "login" THEN nextFamily ELSE call[c].family
  <1>0. /\ nextToken \in Tokens /\ f \in Families /\ call[c].todo = {}
        /\ call' = [call EXCEPT ![c] = Quiet]
        /\ nextToken' = nextToken + 1 /\ nextFamily' \in {nextFamily, nextFamily + 1}
        /\ nextFamily' = nextFamily + 1 => f = nextFamily
        /\ familyOf' = [familyOf EXCEPT ![nextToken] = f]
        /\ live' = live \cup {nextToken} /\ index' = index \cup {f}
        /\ belated' = IF f \in revoked THEN belated \cup {nextToken} ELSE belated
        /\ UNCHANGED <<revoked, exchanged, replayed, unlisted, cut, starts, crashes>>
    BY DEF Working, SesTypeOK, Families
  <1>1. SesTypeOK'
    <2>1. Quiet \in Call
      BY DEF Quiet, Call
    <2>2. /\ call' \in [Clients -> Call] /\ familyOf' \in [Tokens -> Families \cup {NoFamily}]
          /\ live' \subseteq Tokens /\ index' \subseteq Families /\ belated' \subseteq Tokens
          /\ revoked' \subseteq Families /\ exchanged' \in [Tokens -> Nat] /\ replayed' \subseteq Families
          /\ unlisted' \subseteq Families /\ cut' \subseteq Families
          /\ starts' \in 0..MaxStarts /\ crashes' \in 0..MaxCrashes
      BY <1>0, <2>1 DEF SesTypeOK
    <2>3. nextToken' \in 1..MaxTokens + 1 /\ nextFamily' \in 1..MaxFamilies + 1
      BY <1>0 DEF SesTypeOK, Tokens, Families
    <2>4. members' \in [Families -> SUBSET Tokens] /\ owned' \subseteq Families
      BY <1>0 DEF SesTypeOK
    <2> QED
      BY <2>2, <2>3, <2>4 DEF SesTypeOK
  <1>2. \A d \in Clients : /\ d # c => call'[d] = call[d]
                           /\ d = c => call'[d].pc = "idle" /\ call'[d].todo = {}
    BY <1>0 DEF SesTypeOK, Quiet
  <1>3. Undrawn'
    BY <1>0, <1>1, <1>2 DEF Undrawn, Issued, Tokens, SesTypeOK
  <1>4. Working' /\ Rotating' /\ SpentOnce'
    BY <1>0, <1>2 DEF Working, Rotating, SpentOnce, Undrawn, Tokens
  <1>5. Alarmed'
    BY <1>0, <1>2 DEF Alarmed, Revoking
  <1>6. Late'
    <2> SUFFICES ASSUME NEW t \in belated'
                 PROVE /\ familyOf'[t] \in revoked /\ exchanged[t] = 0
                       /\ \A d \in Clients : call'[d].pc = "take" => call'[d].token # t
      BY <1>0 DEF Late
    <2>1. CASE t = nextToken
      <3>1. t \notin belated /\ exchanged[t] = 0
        BY <1>0, <2>1 DEF Undrawn, Tokens
      <3>2. f \in revoked
        BY <1>0, <2>1, <3>1
      <3> QED
        BY <1>0, <1>2, <2>1, <3>1, <3>2 DEF Undrawn, SesTypeOK, Tokens
    <2>2. CASE t # nextToken
      BY <1>0, <1>2, <2>2 DEF Late, SesTypeOK
    <2> QED
      BY <2>1, <2>2
  <1>7. Listed'
    <2>1. Opened' \subseteq Opened \cup {f}
      BY <1>0 DEF Opened, Families, SesTypeOK
    <2>2. Opened \subseteq Opened'
      BY <1>0 DEF Opened, Families, SesTypeOK
    <2> QED
      BY <1>0, <1>2, <2>1, <2>2 DEF Listed
  <1> QED
    BY <1>1, <1>3, <1>4, <1>5, <1>6, <1>7

\* The record of a token is consumed, or found missing.
LEMMA TakeKeeps ==
  ASSUME SesInv, NEW c \in Clients, Take(c)
  PROVE  SesInv'
  <1> USE SessionConstants DEF SesInv
  <1> DEFINE t == call[c].token
  <1>0. /\ t \in Tokens /\ call[c].todo = {} /\ call[c].pc = "take"
        /\ \A d \in Clients \ {c} : call'[d] = call[d]
        /\ call'[c].pc \in {"unlist", "members"} /\ call'[c].op = call[c].op
        /\ UNCHANGED <<familyOf, members, owned, index, revoked, nextToken, nextFamily,
                       starts, crashes, unlisted, belated, cut>>
    <2>1. call[c].pc = "take" /\ t \in Tokens /\ call[c].todo = {}
      BY DEF Take, Undrawn, Working
    <2>2. call' = IF t \in live THEN [call EXCEPT ![c].pc = "unlist"]
                  ELSE [call EXCEPT ![c].pc = "members", ![c].todo = {call[c].family}]
      BY DEF Take
    <2>3. call[c] \in Call
      BY DEF SesTypeOK
    <2>4. /\ \A d \in Clients \ {c} : call'[d] = call[d]
          /\ call'[c].pc \in {"unlist", "members"} /\ call'[c].op = call[c].op
      <3>1. call \in [Clients -> Call]
        BY DEF SesTypeOK
      <3>2. CASE t \in live
        BY <2>2, <2>3, <3>1, <3>2 DEF Call
      <3>3. CASE t \notin live
        BY <2>2, <2>3, <3>1, <3>3 DEF Call
      <3> QED
        BY <3>2, <3>3
    <2> QED
      BY <2>1, <2>4 DEF Take
  <1>1. CASE t \in live
    <2>1. /\ live' = live \ {t} /\ exchanged' = [exchanged EXCEPT ![t] = @ + 1]
          /\ call' = [call EXCEPT ![c].pc = "unlist"] /\ UNCHANGED replayed
      BY <1>1 DEF Take
    <2> DEFINE y == [call[c] EXCEPT !.pc = "unlist"]
    <2>a. call \in [Clients -> Call] /\ call' = [call EXCEPT ![c] = y]
      BY <2>1 DEF SesTypeOK
    <2>b. /\ y \in Call /\ y.todo = call[c].todo /\ y.pc = "unlist"
          /\ y.before = call[c].before
      BY <2>a DEF Call
    <2> HIDE DEF y
    <2>c. call' \in [Clients -> Call] /\ call'[c] = y
      BY <2>a, <2>b
    <2>d. live' \subseteq Tokens /\ exchanged' \in [Tokens -> Nat]
      BY <1>0, <2>1 DEF SesTypeOK
    <2>2. SesTypeOK'
      BY <1>0, <2>1, <2>c, <2>d DEF SesTypeOK
    <2>3. call'[c].todo = {} /\ call'[c].pc = "unlist" /\ call'[c].before = call[c].before
      BY <1>0, <2>b, <2>c
    <2>4. Undrawn'
      BY <1>0, <2>1, <2>3 DEF Undrawn, Issued, SesTypeOK, Tokens
    <2>5. Working' /\ Rotating' /\ SpentOnce'
      BY <1>0, <2>1, <2>3, <1>1 DEF Working, Rotating, SpentOnce, SesTypeOK
    <2>6. Alarmed'
      BY <1>0, <2>1 DEF Alarmed, Revoking
    <2>7. Late'
      BY <1>0, <2>1, <2>3 DEF Late, SesTypeOK
    <2>8. Listed'
      BY <1>0, <2>1, <2>3 DEF Listed, Opened
    <2> QED
      BY <2>2, <2>4, <2>5, <2>6, <2>7, <2>8
  <1>2. CASE t \notin live
    <2>1. /\ UNCHANGED <<live, exchanged>>
          /\ call' = [call EXCEPT ![c].pc = "members", ![c].todo = {call[c].family}]
          /\ replayed' \subseteq replayed \cup {call[c].family}
      BY <1>2 DEF Take
    <2>2. call[c].op # "change" /\ call[c].family \in Families
      BY <1>0 DEF Rotating
    <2> DEFINE n == [call[c] EXCEPT !.pc = "members", !.todo = {call[c].family}]
    <2>a. call[c] \in Call
      BY DEF SesTypeOK
    <2>b. /\ n \in Call /\ n.pc = "members" /\ n.todo = {call[c].family}
          /\ n.op # "change"
      BY <2>2, <2>a DEF Call
    <2>c. call' = [call EXCEPT ![c] = n]
      BY <2>1 DEF SesTypeOK
    <2> HIDE DEF n
    <2>3. /\ call'[c].todo = {call[c].family} /\ call'[c].pc = "members"
          /\ call'[c].op # "change" /\ call' \in [Clients -> Call]
      BY <2>b, <2>c DEF SesTypeOK
    <2>4. SesTypeOK'
      BY <1>0, <2>1, <2>2, <2>3 DEF SesTypeOK
    <2>5. Undrawn' /\ Working' /\ Rotating' /\ SpentOnce'
      BY <1>0, <2>1, <2>3 DEF Undrawn, Issued, Working, Rotating, SpentOnce
    <2>6. Alarmed'
      BY <1>0, <2>1, <2>3 DEF Alarmed, Revoking
    <2>7. Late' /\ Listed'
      BY <1>0, <2>1, <2>3 DEF Late, Listed, Opened
    <2> QED
      BY <2>4, <2>5, <2>6, <2>7
  <1> QED
    BY <1>1, <1>2

\* The steps that only move a request on, or change a set no promise speaks of.
LEMMA ReadKeeps ==
  ASSUME SesInv, NEW c \in Clients, Unlist(c) \/ ReadMembers(c) \/ ReadOwner(c)
  PROVE  SesInv'
  <1> USE SessionConstants DEF SesInv
  <1> DEFINE n == call'[c]
  <1>0. call[c] \in Call
    BY DEF SesTypeOK
  <1>1. /\ \A d \in Clients \ {c} : call'[d] = call[d]
        /\ call' \in [Clients -> Call] /\ n.todo = call[c].todo /\ n.op = call[c].op
        /\ n.before = call[c].before
        /\ \/ call[c].pc = "unlist" /\ n.pc = "issue"
           \/ call[c].pc \in {"members", "owner"} /\ n.pc \in {"owner", "mark"} /\ n.family \in Families
    <2>1. CASE Unlist(c)
      BY <1>0, <2>1 DEF Unlist, SesTypeOK, Call
    <2>2. CASE ReadMembers(c)
      <3>1. PICK f \in call[c].todo :
               call' = [call EXCEPT ![c].pc = "owner", ![c].family = f, ![c].seen = members[f]]
        BY <2>2 DEF ReadMembers
      <3>2. f \in Families /\ members[f] \in SUBSET Tokens
        BY <1>0 DEF SesTypeOK, Call
      <3> QED
        BY <1>0, <2>2, <3>1, <3>2 DEF ReadMembers, SesTypeOK, Call
    <2>3. CASE ReadOwner(c)
      <3>1. /\ call[c].pc = "owner" /\ call[c].family \in Families
            /\ call' = [call EXCEPT ![c].pc = "mark", ![c].known = call[c].family \in owned]
        BY <2>3 DEF ReadOwner, Rotating
      <3> DEFINE known == call[c].family \in owned
                 r == [call[c] EXCEPT !.pc = "mark", !.known = known]
      <3>2. r.pc = "mark" /\ r.todo = call[c].todo /\ r.op = call[c].op
            /\ r.before = call[c].before /\ r.family = call[c].family
        BY <1>0 DEF Call
      <3>3. r \in Call
        <4>1. known \in BOOLEAN
          OBVIOUS
        <4> HIDE DEF known
        <4> QED
          BY <1>0, <4>1 DEF Call
      <3>4. call' = [call EXCEPT ![c] = r]
        BY <3>1
      <3> HIDE DEF r
      <3> QED
        BY <3>1, <3>2, <3>3, <3>4 DEF SesTypeOK
    <2> QED
      BY <2>1, <2>2, <2>3
  <1>2. /\ UNCHANGED <<familyOf, live, owned, index, revoked, nextToken, nextFamily,
                       starts, crashes, exchanged, replayed, unlisted, belated, cut>>
        /\ members' \in [Families -> SUBSET Tokens]
    <2>1. CASE Unlist(c)
      BY <2>1 DEF Unlist, SesTypeOK
    <2>2. CASE ReadMembers(c) \/ ReadOwner(c)
      BY <2>2 DEF ReadMembers, ReadOwner, SesTypeOK
    <2> QED
      BY <2>1, <2>2
  <1>3. SesTypeOK'
    BY <1>1, <1>2 DEF SesTypeOK
  <1>4. Undrawn' /\ Working' /\ Rotating' /\ SpentOnce'
    BY <1>1, <1>2 DEF Undrawn, Issued, Working, Rotating, SpentOnce
  <1>5. Alarmed'
    BY <1>1, <1>2 DEF Alarmed, Revoking
  <1>6. Late' /\ Listed'
    BY <1>1, <1>2 DEF Late, Listed, Opened
  <1> QED
    BY <1>3, <1>4, <1>5, <1>6

\* One family is revoked; the request goes on to the next one, to its end, or to the index.
LEMMA MarkKeeps ==
  ASSUME SesInv, NEW c \in Clients, Mark(c)
  PROVE  SesInv'
  <1> USE SessionConstants DEF SesInv
  <1> DEFINE f == call[c].family
             rest == call[c].todo \ {f}
  <1>0. /\ live' \subseteq live /\ index \subseteq index' \cup {f} /\ index' \subseteq index
        /\ revoked' = revoked \cup {f} /\ owned' \subseteq owned
        /\ members' = [members EXCEPT ![f] = {}]
        /\ call[c].pc = "mark"
        /\ UNCHANGED <<familyOf, nextToken, nextFamily, starts, crashes, exchanged, replayed,
                       unlisted, belated, cut>>
    BY DEF Mark
  <1>1. call' = IF rest # {}
                THEN [call EXCEPT ![c].pc = "members", ![c].todo = rest]
                ELSE IF call[c].op = "change"
                     THEN [call EXCEPT ![c].pc = "clear", ![c].todo = {}]
                     ELSE [call EXCEPT ![c] = Quiet]
    BY DEF Mark
  <1>2. call[c] \in Call /\ Quiet \in Call
    BY DEF SesTypeOK, Call, Quiet
  <1>3. /\ \A d \in Clients \ {c} : call'[d] = call[d]
        /\ call' \in [Clients -> Call] /\ call'[c].todo = rest
        /\ \/ call'[c].pc = "members" /\ call'[c].op = call[c].op /\ call'[c].before = call[c].before
           \/ /\ call'[c].pc = "clear" /\ rest = {} /\ call[c].op = "change"
              /\ call'[c].before = call[c].before
           \/ call'[c].pc = "idle" /\ rest = {}
    <2>1. CASE rest # {}
      BY <1>1, <1>2, <2>1 DEF SesTypeOK, Call
    <2>2. CASE rest = {} /\ call[c].op = "change"
      BY <1>1, <1>2, <2>2 DEF SesTypeOK, Call
    <2>3. CASE rest = {} /\ call[c].op # "change"
      BY <1>1, <1>2, <2>3 DEF SesTypeOK, Quiet
    <2> QED
      BY <2>1, <2>2, <2>3
  <1>4. f \in Families
    <2>1. call[c].pc = "mark"
      BY DEF Mark
    <2> QED
      BY <2>1 DEF Rotating
  <1>5. SesTypeOK'
    BY <1>0, <1>3, <1>4 DEF SesTypeOK
  <1>6. Undrawn' /\ Working' /\ Rotating' /\ SpentOnce'
    BY <1>0, <1>3 DEF Undrawn, Issued, Working, Rotating, SpentOnce
  <1>7. Alarmed'
    BY <1>0, <1>3 DEF Alarmed, Revoking
  <1>8. Late' /\ Listed'
    BY <1>0, <1>3 DEF Late, Listed, Opened
  <1> QED
    BY <1>5, <1>6, <1>7, <1>8

\* The index is read, or dropped.
LEMMA IndexKeeps ==
  ASSUME SesInv, NEW c \in Clients, List(c) \/ Clear(c)
  PROVE  SesInv'
  <1> USE SessionConstants DEF SesInv
  <1>0. call[c] \in Call /\ Quiet \in Call
    BY DEF SesTypeOK, Call, Quiet
  <1>1. CASE List(c)
    <2>1. /\ call[c].pc = "list"
          /\ call' = [call EXCEPT ![c].todo = index,
                                  ![c].pc = IF index = {} THEN "clear" ELSE "members"]
          /\ UNCHANGED <<familyOf, live, members, owned, index, revoked, nextToken, nextFamily,
                         starts, crashes, exchanged, replayed, unlisted, belated, cut>>
      BY <1>1 DEF List
    <2>2. /\ \A d \in Clients \ {c} : call'[d] = call[d]
          /\ call' \in [Clients -> Call] /\ call'[c].todo = index
          /\ call'[c].pc = IF index = {} THEN "clear" ELSE "members"
          /\ call'[c].before = call[c].before
      BY <1>0, <2>1 DEF SesTypeOK, Call
    <2>3. SesTypeOK'
      BY <2>1, <2>2 DEF SesTypeOK
    <2>4. Undrawn' /\ Working' /\ Rotating' /\ SpentOnce'
      BY <2>1, <2>2 DEF Undrawn, Issued, Working, Rotating, SpentOnce
    <2>5. Alarmed'
      BY <2>1, <2>2 DEF Alarmed, Revoking, Working
    <2>6. Late' /\ Listed'
      BY <2>1, <2>2 DEF Late, Listed, Opened
    <2> QED
      BY <2>3, <2>4, <2>5, <2>6
  <1>2. CASE Clear(c)
    <2>1. /\ call[c].pc = "clear" /\ call' = [call EXCEPT ![c] = Quiet]
          /\ index' = {} /\ unlisted' = unlisted \cup (index \ revoked)
          /\ UNCHANGED <<familyOf, live, members, owned, revoked, nextToken, nextFamily,
                         starts, crashes, exchanged, replayed, belated, cut>>
      BY <1>2 DEF Clear
    <2>2. /\ \A d \in Clients \ {c} : call'[d] = call[d]
          /\ call' \in [Clients -> Call] /\ call'[c].pc = "idle" /\ call'[c].todo = {}
      BY <1>0, <2>1 DEF SesTypeOK, Quiet
    <2>3. SesTypeOK'
      BY <2>1, <2>2 DEF SesTypeOK
    <2>4. Undrawn' /\ Working' /\ Rotating' /\ SpentOnce'
      BY <2>1, <2>2 DEF Undrawn, Issued, Working, Rotating, SpentOnce
    <2>5. Alarmed'
      BY <2>1, <2>2 DEF Alarmed, Revoking, Working
    <2>6. Late' /\ Listed'
      BY <2>1, <2>2 DEF Late, Listed, Opened
    <2> QED
      BY <2>3, <2>4, <2>5, <2>6
  <1> QED
    BY <1>1, <1>2

\* A request is cut short.
LEMMA CrashKeeps ==
  ASSUME SesInv, NEW c \in Clients, Crash(c)
  PROVE  SesInv'
  <1> USE SessionConstants DEF SesInv
  <1>0. call[c] \in Call /\ Quiet \in Call
    BY DEF SesTypeOK, Call, Quiet
  <1>1. /\ call' = [call EXCEPT ![c] = Quiet] /\ cut' = cut \cup call[c].todo
        /\ crashes < MaxCrashes /\ crashes' = crashes + 1
        /\ UNCHANGED <<familyOf, live, members, owned, index, revoked, nextToken, nextFamily,
                       starts, exchanged, replayed, unlisted, belated>>
    BY DEF Crash
  <1>2. /\ \A d \in Clients \ {c} : call'[d] = call[d]
        /\ call' \in [Clients -> Call] /\ call'[c].pc = "idle" /\ call'[c].todo = {}
    BY <1>0, <1>1 DEF SesTypeOK, Quiet
  <1>3. SesTypeOK'
    <2>1. call[c].todo \subseteq Families
      BY <1>0 DEF Call
    <2> QED
      BY <1>1, <1>2, <2>1 DEF SesTypeOK
  <1>4. Undrawn' /\ Working' /\ Rotating' /\ SpentOnce'
    BY <1>1, <1>2 DEF Undrawn, Issued, Working, Rotating, SpentOnce
  <1>5. Alarmed'
    BY <1>1, <1>2 DEF Alarmed, Revoking
  <1>6. Late' /\ Listed'
    BY <1>1, <1>2 DEF Late, Listed, Opened
  <1> QED
    BY <1>3, <1>4, <1>5, <1>6

\* The invariant of the sessions holds always.
LEMMA SesInvariant == SesSpec => []SesInv
  <1>1. SesInv /\ [SesNext]_sesVars => SesInv'
    <2> SUFFICES ASSUME SesInv, [SesNext]_sesVars PROVE SesInv'
      OBVIOUS
    <2>1. CASE SesNext
      BY <2>1, StartKeeps, IssueKeeps, TakeKeeps, ReadKeeps, MarkKeeps, IndexKeeps, CrashKeeps
         DEF SesNext
    <2>2. CASE UNCHANGED sesVars
      BY <2>2 DEF sesVars, SesInv, SesTypeOK, Undrawn, Issued, Working, Rotating, SpentOnce, Alarmed,
                  Revoking, Late, Listed, Opened
    <2> QED
      BY <2>1, <2>2
  <1> QED
    BY <1>1, SesInitInv, PTL DEF SesSpec

\* A refresh token buys one successor at most, and one that comes back after its exchange
\* ends its family (rotate_refresh_token), for any number of concurrent requests.
THEOREM TokensAreOneTime == SesSpec => []OneTimeTokens
  <1>1. SesInv => OneTimeTokens
    BY DEF SesInv, SpentOnce, Alarmed, OneTimeTokens
  <1> QED
    BY <1>1, SesInvariant, PTL

\* A token issued into a revoked family is never exchanged, and a password change leaves no
\* earlier family behind (revoke_token_family, revoke_all_user_families).
THEOREM RevocationStays == SesSpec => []RevocationIsFinal
  <1>1. SesInv => RevocationIsFinal
    BY DEF SesInv, Late, Listed, RevocationIsFinal
  <1> QED
    BY <1>1, SesInvariant, PTL

-----------------------------------------------------------------------------
(* Workspaces and the audit log.                                             *)

\* A bounded set of numbers has a largest one.
LEMMA MaximumExists ==
  ASSUME NEW N \in Nat, NEW S, S \subseteq 0..N, S # {}
  PROVE  Max(S) \in S
  <1> DEFINE T == {N - s : s \in S}
  <1>1. T \subseteq Nat /\ T # {}
    <2>1. \A s \in S : s \in 0..N
      OBVIOUS
    <2>2. \A m \in 0..N : N - m \in Nat
      OBVIOUS
    <2>3. T \subseteq Nat
      BY <2>1, <2>2
    <2>4. PICK s : s \in S
      OBVIOUS
    <2>5. N - s \in T
      BY <2>4
    <2> QED
      BY <2>3, <2>5
  <1> HIDE DEF T
  <1>2. PICK t \in T : \A u \in T : t <= u
    BY <1>1, NatMin
  <1>3. PICK x \in S : t = N - x
    BY DEF T
  <1>4. ASSUME NEW y \in S PROVE x >= y
    <2>1. t <= N - y
      BY <1>2 DEF T
    <2> QED
      BY <1>3, <2>1
  <1> QED
    BY <1>4 DEF Max

\* The highest row number is one, or 0.
LEMMA HighestIsRow ==
  ASSUME MaxRows \in Nat, NEW rows, rows \subseteq AuditRows
  PROVE  Highest(rows) \in 0..MaxRows
  <1>1. CASE rows = {}
    BY <1>1 DEF Highest
  <1>2. CASE rows # {}
    <2> DEFINE seqs == {r.seq : r \in rows}
    <2>1. seqs \subseteq 0..MaxRows /\ seqs # {}
      BY <1>2 DEF AuditRows
    <2> HIDE DEF seqs
    <2>2. Max(seqs) \in seqs
      BY <2>1, MaximumExists
    <2> QED
      BY <1>2, <2>1, <2>2 DEF Highest, seqs
  <1> QED
    BY <1>1, <1>2

-----------------------------------------------------------------------------
\* What a request holds on its way: its workspace has its founder as owner, the membership
\* it changes is not the founder's unless it creates the workspace, and the row it inserts
\* bears the present time.
Minded(r) ==
    r.pc # "idle" =>
      /\ r.w \in Workspaces /\ r.actor \in Users
      /\ \/ /\ r.op = "create" /\ r.pc # "target"
            /\ r.target = Founder[r.w] /\ r.new = "owner"
         \/ /\ r.op \in {"add", "update", "remove"} /\ role[r.w][Founder[r.w]] = "owner"
            /\ r.pc # "target" => r.target \in Users /\ r.target # Founder[r.w]
\* A request that inserts its row does so at the present time.
Timed(r) == r.pc \in {"link", "commit"} => r.created = clock /\ r.row \in 1..MaxRows
\* All requests under way.
Requests == \A q \in AdminRequests : Minded(request[q]) /\ Timed(request[q])

\* The actor of an insert the policy admitted is a member still, or was removed while it waited.
Admitted(r) ==
    (r.pc \in {"link", "commit"} /\ r.passed) =>
      r.op = "create" \/ role[r.w][r.actor] # "none" \/ r.row \in outpaced
\* A request whose row is linked holds the advisory lock, and the policy admitted its row: a
\* membership can change only by the commit of the holder, so the other inserts wait.
Holding == \A q \in AdminRequests :
    /\ request[q].pc = "commit" => auditLock = q /\ request[q].passed
    /\ Admitted(request[q])

\* The purge deletes nothing it did not read: rows of its past are read, and once it deletes,
\* archived; rows come with the present time, so none is added to its past.
Covered ==
    purge # NoPurge =>
      /\ purge.cutoff <= clock /\ {r \in log : r.created < purge.cutoff} \subseteq purge.rows
      /\ purge.pc = "delete" => \E a \in archives : a.rows = purge.rows

\* The inductive invariant of workspaces and audit log.
GovInv ==
    /\ GovTypeOK /\ OwnerStays /\ ChangesByMembers /\ PurgedRowsArchived
    /\ Requests /\ Holding /\ Covered

\* One request moves on while members, log, purge and archives stay as they are.
LEMMA RequestMoves ==
  ASSUME GovInv, NEW q \in AdminRequests, NEW y \in AdminRequest, Minded(y), Timed(y),
         y.pc = "commit" => auditLock' = q /\ y.passed, Admitted(y),
         request' = [request EXCEPT ![q] = y],
         auditLock' \in AdminRequests \cup {Nobody},
         \A p \in AdminRequests \ {q} : auditLock = p => auditLock' = p,
         nextSeq' \in 1..MaxRows + 1,
         UNCHANGED <<role, log, purge, archives, clock, purged, outsiders, outpaced>>
  PROVE  GovInv'
  <1>1. request' \in [AdminRequests -> AdminRequest]
        /\ \A p \in AdminRequests : request'[p] = IF p = q THEN y ELSE request[p]
    BY DEF GovInv, GovTypeOK
  <1>2. GovTypeOK' /\ OwnerStays' /\ ChangesByMembers' /\ PurgedRowsArchived' /\ Covered'
    BY <1>1 DEF GovInv, GovTypeOK, OwnerStays, Exists, ChangesByMembers, PurgedRowsArchived, Covered
  <1>3. Requests'
    BY <1>1 DEF GovInv, Requests, Minded, Timed
  <1>4. Holding'
    BY <1>1 DEF GovInv, Holding, Admitted
  <1> QED
    BY <1>2, <1>3, <1>4 DEF GovInv

\* There are no requests and no rows at first.
LEMMA GovInitInv == GovernanceConstants /\ GovInit => GovInv
  <1> SUFFICES ASSUME GovernanceConstants, GovInit PROVE GovInv
    OBVIOUS
  <1>1. PICK member \in [Users -> Granted \cup {"none"}] :
          role = [w \in Workspaces |-> [u \in Users |->
                    IF w \notin Founded THEN "none"
                    ELSE IF u = Founder[w] THEN "owner" ELSE member[u]]]
    BY DEF GovInit
  <1>2. role \in [Workspaces -> [Users -> MemberRoles \cup {"none"}]]
    BY <1>1 DEF GovernanceConstants, MemberRoles
  <1>3. OwnerStays
    BY <1>1 DEF GovernanceConstants, OwnerStays, Exists
  <1>4. NoRequest \in AdminRequest
    BY DEF GovernanceConstants, NoRequest, AdminRequest
  <1>5. request \in [AdminRequests -> AdminRequest] /\ Requests /\ Holding
    BY <1>4 DEF GovInit, NoRequest, Requests, Holding, Admitted, Minded, Timed
  <1>6. GovTypeOK
    BY <1>2, <1>5 DEF GovernanceConstants, GovInit, GovTypeOK, NoPurge
  <1> QED
    BY <1>3, <1>5, <1>6
       DEF GovInit, GovInv, ChangesByMembers, PurgedRowsArchived, Covered

\* The steps of a request up to the linking of its row, and its failure.
LEMMA RequestKeeps ==
  ASSUME GovernanceConstants, GovInv, NEW q \in AdminRequests,
         \/ \E op \in {"add", "update", "remove"}, w \in Workspaces, u \in Users : Authorise(q, op, w, u)
         \/ \E w \in Workspaces : CreateWorkspace(q, w)
         \/ \E t \in Users, new \in Granted \cup {"none"} : ReadTarget(q, t, new)
         \/ WriteMembership(q) \/ WriteMembershipRejected(q) \/ LinkRow(q) \/ RequestFails(q)
  PROVE  GovInv'
  <1>0. /\ request[q] \in AdminRequest /\ Minded(request[q]) /\ Timed(request[q])
        /\ role \in [Workspaces -> [Users -> MemberRoles \cup {"none"}]] /\ OwnerStays
        /\ Founder \in [Workspaces -> Users] /\ MaxRows \in Nat /\ clock \in 0..MaxClock
        /\ nextSeq \in 1..MaxRows + 1 /\ auditLock \in AdminRequests \cup {Nobody}
        /\ Nobody \notin AdminRequests
        /\ Admitted(request[q])
    BY DEF GovernanceConstants, GovInv, GovTypeOK, Requests, Holding
  <1>n. NoRequest \in AdminRequest /\ NoRequest.pc = "idle" /\ Admitted(NoRequest)
    BY <1>0 DEF NoRequest, AdminRequest, GovernanceConstants, Admitted
  <1>1. ASSUME NEW op \in {"add", "update", "remove"}, NEW w \in Workspaces, NEW u \in Users,
               Authorise(q, op, w, u)
        PROVE  GovInv'
    <2> DEFINE y == [NoRequest EXCEPT !.pc = "target", !.op = op, !.w = w,
                                      !.actor = u, !.actorRole = role[w][u]]
    <2>1. y \in AdminRequest
      <3>1. role[w][u] \in MemberRoles \cup {"none"}
        BY <1>0
      <3> HIDE DEF MemberRoles
      <3> QED
        BY <1>n, <3>1 DEF AdminRequest
    <2>2. y.pc = "target" /\ y.op = op /\ y.w = w /\ y.actor = u
      BY DEF NoRequest
    <2>3. role[w][Founder[w]] = "owner"
      BY <1>0, <1>1 DEF Authorise, AdminRoles, OwnerStays, Exists
    <2>4. request' = [request EXCEPT ![q] = y]
          /\ UNCHANGED <<role, log, nextSeq, auditLock, purge, archives, clock, purged, outsiders, outpaced>>
      BY <1>1 DEF Authorise
    <2> HIDE DEF y
    <2>5. Minded(y) /\ Timed(y) /\ Admitted(y)
      BY <2>2, <2>3 DEF Minded, Timed, Admitted
    <2> QED
      BY <1>0, <2>1, <2>2, <2>4, <2>5, RequestMoves
  <1>2. ASSUME NEW w \in Workspaces, CreateWorkspace(q, w)
        PROVE  GovInv'
    <2> DEFINE y == [NoRequest EXCEPT !.pc = "write", !.op = "create", !.w = w,
                        !.actor = Founder[w], !.target = Founder[w], !.new = "owner"]
    <2>1. y \in AdminRequest
      <3>1. Founder[w] \in Users
        BY <1>0
      <3>2. "owner" \in MemberRoles \cup {"none"}
        BY DEF MemberRoles
      <3> HIDE DEF MemberRoles
      <3> QED
        BY <1>n, <3>1, <3>2 DEF AdminRequest
    <2>2. /\ y.pc = "write" /\ y.op = "create" /\ y.w = w /\ y.actor = Founder[w]
          /\ y.target = Founder[w] /\ y.new = "owner"
      BY DEF NoRequest
    <2>3. request' = [request EXCEPT ![q] = y]
          /\ UNCHANGED <<role, log, nextSeq, auditLock, purge, archives, clock, purged, outsiders, outpaced>>
      BY <1>2 DEF CreateWorkspace
    <2> HIDE DEF y
    <2>4. Minded(y) /\ Timed(y) /\ Admitted(y)
      BY <1>0, <2>2 DEF Minded, Timed, Admitted
    <2> QED
      BY <1>0, <2>1, <2>2, <2>3, <2>4, RequestMoves
  <1>3. ASSUME NEW t \in Users, NEW new \in Granted \cup {"none"}, ReadTarget(q, t, new)
        PROVE  GovInv'
    <2> DEFINE seen == role[request[q].w][t]
               same == seen = new
               y == [request[q] EXCEPT !.pc = "write", !.actorRole = "none",
                                       !.target = t, !.new = new, !.same = same]
    <2>0. request' = [request EXCEPT ![q] = y]
          /\ UNCHANGED <<role, log, nextSeq, auditLock, purge, archives, clock, purged, outsiders, outpaced>>
      BY <1>3 DEF ReadTarget
    <2>1. same \in BOOLEAN
      OBVIOUS
    <2> HIDE DEF same
    <2>2. new \in MemberRoles \cup {"none"}
      BY DEF GovernanceConstants, MemberRoles
    <2>3. y \in AdminRequest
      BY <1>0, <2>1, <2>2 DEF AdminRequest
    <2>4. /\ y.pc = "write" /\ y.target = t /\ y.op = request[q].op /\ y.w = request[q].w
          /\ y.actor = request[q].actor
      BY <1>0 DEF AdminRequest
    <2> HIDE DEF y
    <2>5. request[q].pc = "target" /\ seen # "owner"
      BY <1>3 DEF ReadTarget
    <2>6. Minded(y) /\ Timed(y) /\ Admitted(y)
      BY <1>0, <2>4, <2>5 DEF Minded, Timed, Admitted
    <2> QED
      BY <1>0, <2>0, <2>3, <2>4, <2>6, RequestMoves
  <1>4. CASE WriteMembership(q)
    <2> DEFINE passed == MayAppend(q)
               y == [request[q] EXCEPT !.pc = "link", !.row = nextSeq, !.created = clock,
                                       !.passed = passed]
    <2>0. /\ request' = [request EXCEPT ![q] = y] /\ request[q].pc = "write"
          /\ nextSeq <= MaxRows /\ nextSeq' = nextSeq + 1
          /\ UNCHANGED <<role, log, auditLock, purge, archives, clock, purged, outsiders, outpaced>>
      BY <1>4 DEF WriteMembership
    <2>p. passed \in BOOLEAN /\ (passed => request[q].op = "create"
                                     \/ role[request[q].w][request[q].actor] # "none")
      BY DEF MayAppend
    <2> HIDE DEF passed
    <2>1. nextSeq \in 1..MaxRows /\ nextSeq' \in 1..MaxRows + 1
      BY <1>0, <2>0
    <2>2. y \in AdminRequest
      <3>1. nextSeq \in 0..MaxRows
        BY <1>0, <2>1
      <3> QED
        BY <1>0, <2>p, <3>1 DEF AdminRequest
    <2>3. /\ y.pc = "link" /\ y.passed = passed /\ y.row = nextSeq /\ y.created = clock /\ y.op = request[q].op
          /\ y.w = request[q].w /\ y.actor = request[q].actor /\ y.target = request[q].target
          /\ y.new = request[q].new
      BY <1>0 DEF AdminRequest
    <2> HIDE DEF y
    <2>4. Minded(y) /\ Timed(y) /\ Admitted(y)
      BY <1>0, <2>0, <2>1, <2>3, <2>p DEF Minded, Timed, Admitted
    <2> QED
      BY <1>0, <2>0, <2>1, <2>2, <2>3, <2>4, RequestMoves
  <1>5. CASE WriteMembershipRejected(q) \/ RequestFails(q)
    <2>1. /\ request' = [request EXCEPT ![q] = NoRequest]
          /\ auditLock' = auditLock \/ (auditLock = q /\ auditLock' = Nobody)
          /\ UNCHANGED <<role, log, nextSeq, purge, archives, clock, purged, outsiders, outpaced>>
      BY <1>5 DEF WriteMembershipRejected, RequestFails
    <2>2. Minded(NoRequest) /\ Timed(NoRequest)
      BY <1>n DEF Minded, Timed
    <2> QED
      BY <1>0, <1>n, <2>1, <2>2, RequestMoves
  <1>6. CASE LinkRow(q)
    <2> DEFINE last == Highest(Visible(request[q].actor))
               y == [request[q] EXCEPT !.pc = "commit", !.prev = last]
    <2>1. last \in 0..MaxRows
      BY <1>0, HighestIsRow DEF GovInv, GovTypeOK, Visible
    <2>2. /\ request' = [request EXCEPT ![q] = y] /\ request[q].pc = "link"
          /\ auditLock = Nobody /\ auditLock' = q /\ request[q].passed
          /\ UNCHANGED <<role, log, nextSeq, purge, archives, clock, purged, outsiders, outpaced>>
      BY <1>6 DEF LinkRow
    <2> HIDE DEF last
    <2>3. y \in AdminRequest
      BY <1>0, <2>1 DEF AdminRequest
    <2>4. /\ y.pc = "commit" /\ y.row = request[q].row /\ y.created = request[q].created
          /\ y.op = request[q].op /\ y.w = request[q].w /\ y.actor = request[q].actor
          /\ y.target = request[q].target /\ y.new = request[q].new
          /\ y.passed = request[q].passed
      BY <1>0 DEF AdminRequest
    <2> HIDE DEF y
    <2>5. Minded(y) /\ Timed(y) /\ Admitted(y)
      BY <1>0, <2>2, <2>4 DEF Minded, Timed, Admitted
    <2> QED
      BY <1>0, <2>2, <2>3, <2>4, <2>5, RequestMoves
  <1> QED
    BY <1>1, <1>2, <1>3, <1>4, <1>5, <1>6

\* The commit is the only step that changes a membership, under the lock of the other rows.
LEMMA CommitKeeps ==
  ASSUME GovernanceConstants, GovInv, NEW q \in AdminRequests, CommitChange(q)
  PROVE  GovInv'
  <1> DEFINE r == request[q]
  <1>0. /\ r \in AdminRequest /\ Minded(r) /\ Timed(r) /\ r.pc = "commit"
        /\ auditLock = q /\ Admitted(r) /\ r.passed
        /\ role \in [Workspaces -> [Users -> MemberRoles \cup {"none"}]] /\ OwnerStays
        /\ Founder \in [Workspaces -> Users] /\ MaxRows \in Nat /\ clock \in 0..MaxClock
    BY DEF GovernanceConstants, GovInv, GovTypeOK, Requests, Holding, CommitChange
  <1>1. /\ role' = IF r.same THEN role ELSE [role EXCEPT ![r.w][r.target] = r.new]
        /\ log' = log \cup {AuditRow(q)}
        /\ outsiders' = IF MayAppend(q) THEN outsiders ELSE outsiders \cup {r.row}
        /\ outpaced' = IF r.new = "none" THEN outpaced \cup Waiting(r.w, r.target) ELSE outpaced
        /\ auditLock' = Nobody
        /\ request' = [request EXCEPT ![q] = NoRequest]
        /\ UNCHANGED <<nextSeq, purge, archives, clock, purged>>
    BY <1>0 DEF CommitChange, NoChange
  <1>2. r.w \in Workspaces /\ r.target \in Users /\ r.new \in MemberRoles \cup {"none"}
        /\ r.actor \in Users
    BY <1>0 DEF Minded, AdminRequest
  <1>3. role' \in [Workspaces -> [Users -> MemberRoles \cup {"none"}]]
    <2> HIDE DEF r
    <2> QED
      BY <1>0, <1>1, <1>2
  <1>4. ASSUME NEW w \in Workspaces, role[w][Founder[w]] = "owner"
        PROVE  role'[w][Founder[w]] = "owner"
    <2>1. r.new = "owner" \/ r.target # Founder[r.w]
      BY <1>0 DEF Minded
    <2> HIDE DEF r
    <2> QED
      BY <1>0, <1>1, <1>2, <1>4, <2>1
  <1>5. OwnerStays'
    <2> SUFFICES ASSUME NEW w \in Workspaces, NEW u \in Users, role'[w][u] # "none"
                 PROVE  role'[w][Founder[w]] = "owner"
      BY DEF OwnerStays, Exists
    <2>1. CASE role[w][u] # "none"
      BY <1>0, <1>4, <2>1 DEF OwnerStays, Exists
    <2>2. CASE role[w][u] = "none"
      <3>1. ~r.same /\ r.w = w
        <4> HIDE DEF r
        <4> QED
          BY <1>0, <1>1, <1>2, <2>2
      <3>2. CASE r.op = "create"
        <4>1. r.target = Founder[w] /\ r.new = "owner"
          BY <1>0, <3>1, <3>2 DEF Minded
        <4> HIDE DEF r
        <4> QED
          BY <1>0, <1>1, <1>2, <3>1, <4>1
      <3>3. CASE r.op # "create"
        <4>1. role[w][Founder[w]] = "owner"
          BY <1>0, <3>1, <3>3 DEF Minded
        <4> QED
          BY <1>4, <4>1
      <3> QED
        BY <3>2, <3>3
    <2> QED
      BY <2>1, <2>2
  <1>6. NoRequest \in AdminRequest /\ NoRequest.pc = "idle"
    BY DEF GovernanceConstants, NoRequest, AdminRequest
  <1>7. /\ request' \in [AdminRequests -> AdminRequest]
        /\ request'[q] = NoRequest /\ \A p \in AdminRequests \ {q} : request'[p] = request[p]
    BY <1>1, <1>6 DEF GovInv, GovTypeOK
  <1>8. Requests'
    <2> SUFFICES ASSUME NEW p \in AdminRequests PROVE Minded(request[p])' /\ Timed(request[p])'
      BY DEF Requests
    <2>1. CASE p = q
      BY <1>6, <1>7, <2>1 DEF Minded, Timed
    <2>2. CASE p # q
      <3>1. request'[p] = request[p] /\ Minded(request[p]) /\ Timed(request[p])
        BY <1>7, <2>2 DEF GovInv, Requests
      <3> QED
        BY <1>1, <1>4, <3>1 DEF Minded, Timed
    <2> QED
      BY <2>1, <2>2
  <1>h. /\ Waiting(r.w, r.target) \subseteq 1..MaxRows /\ outpaced \subseteq outpaced'
        /\ outpaced' \subseteq 1..MaxRows
    <2>1. Waiting(r.w, r.target) \subseteq 1..MaxRows
      BY DEF Waiting, GovInv, Requests, Timed
    <2> QED
      BY <1>1, <2>1 DEF GovInv, GovTypeOK
  <1>o. ChangesByMembers' /\ outsiders' \subseteq 1..MaxRows
    <2>1. MayAppend(q) \/ (r.row \in outpaced /\ r.row \in 1..MaxRows)
      BY <1>0 DEF Admitted, MayAppend, Timed
    <2> HIDE DEF r
    <2> QED
      BY <1>1, <1>h, <2>1 DEF GovInv, GovTypeOK, ChangesByMembers
  <1>9. Holding'
    <2> SUFFICES ASSUME NEW p \in AdminRequests
                 PROVE  /\ request'[p].pc = "commit" => auditLock' = p /\ request'[p].passed
                        /\ Admitted(request[p])'
      BY DEF Holding
    <2>1. CASE p = q
      BY <1>6, <1>7, <2>1 DEF Admitted
    <2>2. CASE p # q
      <3>1. /\ request'[p] = request[p] /\ request[p].pc # "commit" /\ Admitted(request[p])
            /\ Minded(request[p])
        BY <1>0, <1>7, <2>2 DEF GovInv, Holding, Requests
      <3> SUFFICES ASSUME request[p].pc = "link", request[p].passed
                   PROVE  \/ request[p].op = "create"
                          \/ role'[request[p].w][request[p].actor] # "none"
                          \/ request[p].row \in outpaced'
        BY <3>1 DEF Admitted
      <3>2. \/ request[p].op = "create" \/ request[p].row \in outpaced
            \/ role[request[p].w][request[p].actor] # "none"
        BY <3>1 DEF Admitted
      <3>3. CASE role[request[p].w][request[p].actor] # "none"
                 /\ role'[request[p].w][request[p].actor] = "none"
        <4>1. r.new = "none" /\ r.w = request[p].w /\ r.target = request[p].actor
          <5>1. request[p].w \in Workspaces /\ request[p].actor \in Users
            BY <3>1 DEF Minded
          <5> HIDE DEF r
          <5> QED
            BY <1>0, <1>1, <1>2, <3>3, <5>1
        <4>2. request[p].row \in Waiting(r.w, r.target)
          BY <4>1 DEF Waiting
        <4> HIDE DEF r
        <4> QED
          BY <1>1, <4>1, <4>2
      <3> QED
        BY <1>h, <3>2, <3>3
    <2> QED
      BY <2>1, <2>2
  <1>10. AuditRow(q) \in AuditRows /\ AuditRow(q).created = clock
    BY <1>0, <1>2 DEF AuditRow, AuditRows, AdminRequest, Timed
  <1>11. GovTypeOK'
    BY <1>1, <1>3, <1>7, <1>10, <1>h, <1>o DEF GovInv, GovTypeOK
  <1>12. Covered'
    <2> SUFFICES ASSUME purge # NoPurge PROVE Covered'
      BY <1>1 DEF Covered
    <2>1. purge.cutoff <= clock /\ {x \in log : x.created < purge.cutoff} \subseteq purge.rows
      BY DEF GovInv, Covered
    <2>2. purge.cutoff \in 0..MaxClock
      BY DEF GovInv, GovTypeOK
    <2>3. ~(AuditRow(q).created < purge.cutoff)
      BY <1>0, <1>10, <2>1, <2>2
    <2> QED
      BY <1>1, <2>1, <2>3 DEF GovInv, Covered
  <1> QED
    BY <1>1, <1>5, <1>8, <1>9, <1>11, <1>12, <1>o DEF GovInv, PurgedRowsArchived

\* The purge, the sweep of its archives and the passing of a day.
LEMMA PurgeKeeps ==
  ASSUME GovernanceConstants, GovInv,
         PurgeRead \/ PurgeArchive \/ PurgeDelete \/ PurgeFails \/ SweepArchives \/ DayPasses
  PROVE  GovInv'
  <1>0. /\ clock \in 0..MaxClock /\ MaxClock \in Nat /\ RetentionDays \in Nat /\ MaxRows \in Nat
        /\ purge \in [pc : {"idle", "archive", "delete"}, cutoff : 0..MaxClock, rows : SUBSET AuditRows]
        /\ log \subseteq AuditRows /\ archives \subseteq Archive
    BY DEF GovernanceConstants, GovInv, GovTypeOK
  <1>1. UNCHANGED <<role, request, nextSeq, auditLock, outsiders, outpaced>>
    BY DEF PurgeRead, PurgeArchive, PurgeDelete, PurgeFails, SweepArchives, DayPasses
  <1>2. OwnerStays' /\ ChangesByMembers' /\ Holding'
    BY <1>1 DEF GovInv, OwnerStays, Exists, ChangesByMembers, Holding, Admitted
  <1>3. Requests'
    <2>1. CASE clock' = clock
      BY <1>1, <2>1 DEF GovInv, Requests, Minded, Timed
    <2>2. CASE DayPasses
      <3>1. \A q \in AdminRequests : request'[q].pc = "idle"
        BY <1>1, <2>2 DEF DayPasses, NoRequest
      <3> QED
        BY <3>1 DEF Requests, Minded, Timed
    <2> QED
      BY <2>1, <2>2 DEF PurgeRead, PurgeArchive, PurgeDelete, PurgeFails, SweepArchives
  <1> SUFFICES (/\ log \subseteq AuditRows
                /\ purge \in [pc : {"idle", "archive", "delete"}, cutoff : 0..MaxClock,
                              rows : SUBSET AuditRows]
                /\ archives \subseteq Archive /\ purged \subseteq 1..MaxRows
                /\ clock \in 0..MaxClock /\ PurgedRowsArchived /\ Covered)'
    BY <1>1, <1>2, <1>3 DEF GovInv, GovTypeOK
  <1>4. CASE PurgeRead
    <2> DEFINE cutoff == clock - RetentionDays
               expired == {r \in log : r.created < cutoff}
    <2>1. /\ purge' = [pc |-> "archive", cutoff |-> cutoff, rows |-> expired] /\ clock > RetentionDays
          /\ UNCHANGED <<log, archives, clock, purged>>
      BY <1>4 DEF PurgeRead
    <2>2. cutoff \in 0..MaxClock /\ cutoff <= clock /\ expired \subseteq AuditRows
      BY <1>0, <2>1
    <2> QED
      BY <1>0, <2>1, <2>2 DEF GovInv, GovTypeOK, Covered, PurgedRowsArchived
  <1>5. CASE PurgeArchive
    <2> DEFINE new == [rows |-> purge.rows, at |-> clock, kept |-> TRUE]
    <2>1. /\ purge.pc = "archive" /\ purge' = [purge EXCEPT !.pc = "delete"]
          /\ archives' = archives \cup {new} /\ UNCHANGED <<log, clock, purged>>
      BY <1>5 DEF PurgeArchive
    <2>2. new \in Archive /\ new.rows = purge.rows
      BY <1>0 DEF Archive
    <2>3. purge' \in [pc : {"idle", "archive", "delete"}, cutoff : 0..MaxClock, rows : SUBSET AuditRows]
          /\ purge'.cutoff = purge.cutoff /\ purge'.rows = purge.rows /\ purge # NoPurge
      BY <1>0, <2>1 DEF NoPurge
    <2> HIDE DEF new
    <2> QED
      BY <1>0, <2>1, <2>2, <2>3 DEF GovInv, GovTypeOK, Covered, PurgedRowsArchived
  <1>6. CASE PurgeDelete
    <2> DEFINE gone == {r \in log : r.created < purge.cutoff}
    <2>1. /\ purge.pc = "delete" /\ purge' = NoPurge
          /\ log' = log \ gone /\ purged' = purged \cup {r.seq : r \in gone}
          /\ UNCHANGED <<archives, clock>>
      BY <1>6 DEF PurgeDelete
    <2>2. PICK a \in archives : a.rows = purge.rows
      BY <2>1 DEF GovInv, Covered, NoPurge
    <2>3. gone \subseteq a.rows
      BY <2>1, <2>2 DEF GovInv, Covered, NoPurge
    <2>4. gone \subseteq AuditRows /\ {r.seq : r \in gone} \subseteq 1..MaxRows
      BY <1>0 DEF AuditRows
    <2> HIDE DEF gone
    <2>5. PurgedRowsArchived'
      BY <2>1, <2>2, <2>3 DEF GovInv, PurgedRowsArchived
    <2>6. Covered'
      BY <2>1 DEF Covered
    <2>7. NoPurge \in [pc : {"idle", "archive", "delete"}, cutoff : 0..MaxClock, rows : SUBSET AuditRows]
      BY <1>0 DEF NoPurge
    <2> QED
      BY <1>0, <2>1, <2>4, <2>5, <2>6, <2>7 DEF GovInv, GovTypeOK
  <1>7. CASE PurgeFails
    <2>1. purge' = NoPurge /\ UNCHANGED <<log, archives, clock, purged>>
      BY <1>7 DEF PurgeFails
    <2>2. NoPurge \in [pc : {"idle", "archive", "delete"}, cutoff : 0..MaxClock, rows : SUBSET AuditRows]
      BY <1>0 DEF NoPurge
    <2> QED
      BY <1>0, <2>1, <2>2 DEF GovInv, GovTypeOK, Covered, PurgedRowsArchived
  <1>8. CASE SweepArchives
    <2> DEFINE swept(a) == [a EXCEPT !.kept = @ /\ a.at >= clock - GraceDays]
    <2>1. archives' = {swept(a) : a \in archives} /\ UNCHANGED <<log, purge, clock, purged>>
      BY <1>8 DEF SweepArchives
    <2>2. ASSUME NEW a \in archives PROVE swept(a) \in Archive /\ swept(a).rows = a.rows
      <3> DEFINE kept == a.kept /\ a.at >= clock - GraceDays
      <3>1. swept(a) = [a EXCEPT !.kept = kept] /\ kept \in BOOLEAN /\ a \in Archive
        BY <1>0
      <3> HIDE DEF kept, swept
      <3> QED
        BY <3>1 DEF Archive
    <2> HIDE DEF swept
    <2>3. archives' \subseteq Archive /\ \A a \in archives : \E b \in archives' : b.rows = a.rows
      BY <2>1, <2>2
    <2>4. PurgedRowsArchived'
      <3> SUFFICES ASSUME NEW n \in purged' PROVE \E b \in archives' : n \in {r.seq : r \in b.rows}
        BY DEF PurgedRowsArchived
      <3>1. PICK a \in archives : n \in {r.seq : r \in a.rows}
        BY <2>1 DEF GovInv, PurgedRowsArchived
      <3>2. PICK b \in archives' : b.rows = a.rows
        BY <2>3
      <3> QED
        BY <3>1, <3>2
    <2>5. Covered'
      BY <2>1, <2>3 DEF GovInv, Covered
    <2> QED
      BY <1>0, <2>1, <2>3, <2>4, <2>5 DEF GovInv, GovTypeOK
  <1>9. CASE DayPasses
    <2>1. clock' = clock + 1 /\ clock < MaxClock /\ UNCHANGED <<log, purge, archives, purged>>
      BY <1>9 DEF DayPasses
    <2> QED
      BY <1>0, <2>1 DEF GovInv, GovTypeOK, Covered, PurgedRowsArchived
  <1> QED
    BY <1>4, <1>5, <1>6, <1>7, <1>8, <1>9

\* The invariant of workspaces and audit log holds always.
LEMMA GovInvariant == GovSpec => []GovInv
  <1>1. GovInit => GovInv
    BY GovInitInv, GovernanceConstants
  <1>2. GovInv /\ [GovNext]_govVars => GovInv'
    <2> SUFFICES ASSUME GovInv, [GovNext]_govVars PROVE GovInv'
      OBVIOUS
    <2>1. CASE UNCHANGED govVars
      BY <2>1 DEF govVars, GovInv, GovTypeOK, OwnerStays, Exists, ChangesByMembers,
                  PurgedRowsArchived, Requests, Minded, Timed, Holding, Admitted, Covered
    <2>2. CASE GovNext
      BY <2>2, GovernanceConstants, RequestKeeps, CommitKeeps, PurgeKeeps DEF GovNext
    <2> QED
      BY <2>1, <2>2
  <1> QED
    BY <1>1, <1>2, PTL DEF GovSpec

-----------------------------------------------------------------------------
\* No interleaving of member requests, whatever roles they read and when, takes the owner
\* from a workspace.
THEOREM OwnerIsNeverLost == GovSpec => []OwnerStays
  <1>1. GovInv => OwnerStays
    BY DEF GovInv
  <1> QED
    BY <1>1, GovInvariant, PTL

\* A removed member starts no change: what he still commits was being inserted, and waiting
\* for the advisory lock, when his removal was committed.
THEOREM RemovedMembersChangeNothing == GovSpec => []ChangesByMembers
  <1>1. GovInv => ChangesByMembers
    BY DEF GovInv
  <1> QED
    BY <1>1, GovInvariant, PTL

\* The purge deletes only rows some archive was written with, also those added meanwhile.
THEOREM PurgeArchivesFirst == GovSpec => []PurgedRowsArchived
  <1>1. GovInv => PurgedRowsArchived
    BY DEF GovInv
  <1> QED
    BY <1>1, GovInvariant, PTL

\* The tables hold what their columns allow.
THEOREM GovTypeCorrect == GovSpec => []GovTypeOK
  <1>1. GovInv => GovTypeOK
    BY DEF GovInv
  <1> QED
    BY <1>1, GovInvariant, PTL

=============================================================================
