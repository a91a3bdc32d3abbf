------------------------------ MODULE Sessions ------------------------------
(***************************************************************************)
(* The sessions of one user: refresh tokens and their families in Redis.   *)
(* A login opens a family; every refresh consumes the one-time record of a *)
(* token and issues the next token of the family; presenting a token whose *)
(* record is gone revokes the family; logout revokes it as well, and a     *)
(* password change revokes every family of the user.  Each Redis call is a *)
(* step of its own; a pipeline is one step (MULTI/EXEC).  Times to live    *)
(* are longer than a behaviour: nothing expires here.                      *)
(***************************************************************************)
EXTENDS Integers, FiniteSets

CONSTANTS
    Clients,      \* concurrent requests of the user
    MaxTokens,    \* bound: refresh tokens ever issued
    MaxFamilies,  \* bound: logins that got as far as a token
    MaxStarts,    \* bound: requests that are started
    MaxCrashes,   \* bound: requests cut short (process death, Redis failure)
    NoToken, NoFamily

Tokens == 1..MaxTokens
Families == 1..MaxFamilies

ASSUME SessionConstants ==
    /\ MaxTokens \in Nat /\ MaxFamilies \in Nat /\ MaxStarts \in Nat /\ MaxCrashes \in Nat
    /\ NoToken \notin Tokens /\ NoFamily \notin Families

VARIABLES
    familyOf,   \* the signed tokens in existence: their family, or NoFamily
    live,       \* auth:refresh:<jti> records
    members,    \* auth:family:<family>
    owned,      \* families with an auth:family-user record
    index,      \* auth:user-families of the user
    revoked,    \* auth:family-revoked marks
    nextToken, nextFamily,
    call,       \* what each request is doing
    starts, crashes,
    exchanged,  \* history: how often each token was accepted by a rotation
    replayed,   \* history: families one of whose exchanged tokens came back
    unlisted,   \* history: families dropped from the index while not revoked
    belated,    \* history: tokens issued into a family that was already revoked
    cut         \* history: families whose revocation was cut short

sesVars == <<familyOf, live, members, owned, index, revoked, nextToken, nextFamily,
             call, starts, crashes, exchanged, replayed, unlisted, belated, cut>>

Call == [op : {"none", "login", "refresh", "logout", "change"},
         pc : {"idle", "issue", "take", "unlist", "list", "members", "owner", "mark", "clear"},
         token : Tokens \cup {NoToken}, family : Families \cup {NoFamily},
         todo : SUBSET Families,     \* families still to revoke
         seen : SUBSET Tokens, known : BOOLEAN,
         before : SUBSET Families]   \* history: families that existed before the change
Quiet == [op |-> "none", pc |-> "idle", token |-> NoToken, family |-> NoFamily, todo |-> {},
          seen |-> {}, known |-> FALSE, before |-> {}]

Issued == {t \in Tokens : familyOf[t] # NoFamily}
Opened == {f \in Families : f < nextFamily}

SesInit ==
    /\ familyOf = [t \in Tokens |-> NoFamily]
    /\ live = {} /\ owned = {} /\ index = {} /\ revoked = {}
    /\ members = [f \in Families |-> {}]
    /\ nextToken = 1 /\ nextFamily = 1
    /\ call = [c \in Clients |-> Quiet]
    /\ starts = 0 /\ crashes = 0
    /\ exchanged = [t \in Tokens |-> 0]
    /\ replayed = {} /\ unlisted = {} /\ belated = {} /\ cut = {}

\* A request begins.
Start(c) == call[c] = Quiet /\ starts < MaxStarts /\ starts' = starts + 1

\* The password matched; verify_password ran in a thread and others went on meanwhile.
Login(c) ==
    /\ Start(c)
    /\ call' = [call EXCEPT ![c] = [Quiet EXCEPT !.op = "login", !.pc = "issue"]]
    /\ UNCHANGED <<familyOf, live, members, owned, index, revoked, nextToken, nextFamily,
                   crashes, exchanged, replayed, unlisted, belated, cut>>

\* Mutant: the pipeline does not add the family to the index of the user.
IssueUnindexed(c) ==
    /\ call[c].pc = "issue" /\ nextToken \in Tokens
    /\ LET f == IF call[c].op = "login" THEN nextFamily ELSE call[c].family IN
       /\ f \in Families
       /\ familyOf' = [familyOf EXCEPT ![nextToken] = f]
       /\ live' = live \cup {nextToken}
       /\ members' = [members EXCEPT ![f] = @ \cup {nextToken}]
       /\ owned' = owned \cup {f} /\ index' = index
       /\ belated' = IF f \in revoked THEN belated \cup {nextToken} ELSE belated
       /\ nextFamily' = IF call[c].op = "login" THEN nextFamily + 1 ELSE nextFamily
    /\ nextToken' = nextToken + 1
    /\ call' = [call EXCEPT ![c] = Quiet]
    /\ UNCHANGED <<revoked, starts, crashes, exchanged, replayed, unlisted, cut>>

\* issue_token_pair: one pipeline, a new family for a login.
Issue(c) ==
    /\ call[c].pc = "issue" /\ nextToken \in Tokens
    /\ LET f == IF call[c].op = "login" THEN nextFamily ELSE call[c].family IN
       /\ f \in Families
       /\ familyOf' = [familyOf EXCEPT ![nextToken] = f]
       /\ live' = live \cup {nextToken}
       /\ members' = [members EXCEPT ![f] = @ \cup {nextToken}]
       /\ owned' = owned \cup {f} /\ index' = index \cup {f}
       /\ belated' = IF f \in revoked THEN belated \cup {nextToken} ELSE belated
       /\ nextFamily' = IF call[c].op = "login" THEN nextFamily + 1 ELSE nextFamily
    /\ nextToken' = nextToken + 1
    /\ call' = [call EXCEPT ![c] = Quiet]
    /\ UNCHANGED <<revoked, starts, crashes, exchanged, replayed, unlisted, cut>>

\* rotate_refresh_token, first call: tokens of a revoked family are refused.
Check(c, t) ==
    /\ Start(c) /\ t \in Issued /\ familyOf[t] \notin revoked
    /\ call' = [call EXCEPT ![c] = [Quiet EXCEPT !.op = "refresh", !.pc = "take",
                                                 !.token = t, !.family = familyOf[t]]]
    /\ UNCHANGED <<familyOf, live, members, owned, index, revoked, nextToken, nextFamily,
                   crashes, exchanged, replayed, unlisted, belated, cut>>

\* Mutant: a missing record is only refused.
TakeWithoutAlarm(c) ==
    /\ call[c].pc = "take"
    /\ LET t == call[c].token IN
       IF t \in live
       THEN /\ live' = live \ {t} /\ exchanged' = [exchanged EXCEPT ![t] = @ + 1]
            /\ call' = [call EXCEPT ![c].pc = "unlist"]
            /\ UNCHANGED replayed
       ELSE /\ replayed' = IF exchanged[t] > 0 THEN replayed \cup {call[c].family} ELSE replayed
            /\ call' = [call EXCEPT ![c] = Quiet]
            /\ UNCHANGED <<live, exchanged>>
    /\ UNCHANGED <<familyOf, members, owned, index, revoked, nextToken, nextFamily,
                   starts, crashes, unlisted, belated, cut>>

\* GETDEL of the record: it is there, or the family is revoked.
Take(c) ==
    /\ call[c].pc = "take"
    /\ LET t == call[c].token IN
       IF t \in live
       THEN /\ live' = live \ {t} /\ exchanged' = [exchanged EXCEPT ![t] = @ + 1]
            /\ call' = [call EXCEPT ![c].pc = "unlist"]
            /\ UNCHANGED replayed
       ELSE /\ replayed' = IF exchanged[t] > 0 THEN replayed \cup {call[c].family} ELSE replayed
            /\ call' = [call EXCEPT ![c].pc = "members", ![c].todo = {call[c].family}]
            /\ UNCHANGED <<live, exchanged>>
    /\ UNCHANGED <<familyOf, members, owned, index, revoked, nextToken, nextFamily,
                   starts, crashes, unlisted, belated, cut>>

Unlist(c) ==
    /\ call[c].pc = "unlist"
    /\ members' = [members EXCEPT ![call[c].family] = @ \ {call[c].token}]
    /\ call' = [call EXCEPT ![c].pc = "issue"]
    /\ UNCHANGED <<familyOf, live, owned, index, revoked, nextToken, nextFamily,
                   starts, crashes, exchanged, replayed, unlisted, belated, cut>>

\* revoke_refresh_token: any token of the family will do.
Logout(c, t) ==
    /\ Start(c) /\ t \in Issued
    /\ call' = [call EXCEPT ![c] = [Quiet EXCEPT !.op = "logout", !.pc = "members",
                                                 !.todo = {familyOf[t]}]]
    /\ UNCHANGED <<familyOf, live, members, owned, index, revoked, nextToken, nextFamily,
                   crashes, exchanged, replayed, unlisted, belated, cut>>

\* revoke_token_family: two reads and a pipeline.
ReadMembers(c) ==
    /\ call[c].pc = "members"
    /\ \E f \in call[c].todo :
          call' = [call EXCEPT ![c].pc = "owner", ![c].family = f, ![c].seen = members[f]]
    /\ UNCHANGED <<familyOf, live, members, owned, index, revoked, nextToken, nextFamily,
                   starts, crashes, exchanged, replayed, unlisted, belated, cut>>

ReadOwner(c) ==
    /\ call[c].pc = "owner"
    /\ call' = [call EXCEPT ![c].pc = "mark", ![c].known = call[c].family \in owned]
    /\ UNCHANGED <<familyOf, live, members, owned, index, revoked, nextToken, nextFamily,
                   starts, crashes, exchanged, replayed, unlisted, belated, cut>>

\* After the last family a logout or refresh ends, a password change clears the index.
Mark(c) ==
    /\ call[c].pc = "mark"
    /\ LET f == call[c].family
           rest == call[c].todo \ {f} IN
       /\ live' = live \ call[c].seen
       /\ members' = [members EXCEPT ![f] = {}]
       /\ owned' = owned \ {f}
       /\ index' = IF call[c].known THEN index \ {f} ELSE index
       /\ revoked' = revoked \cup {f}
       /\ call' = IF rest # {}
                  THEN [call EXCEPT ![c].pc = "members", ![c].todo = rest]
                  ELSE IF call[c].op = "change"
                       THEN [call EXCEPT ![c].pc = "clear", ![c].todo = {}]
                       ELSE [call EXCEPT ![c] = Quiet]
    /\ UNCHANGED <<familyOf, nextToken, nextFamily, starts, crashes, exchanged, replayed,
                   unlisted, belated, cut>>

\* The new hash is committed; the revocation comes after it.
Change(c) ==
    /\ Start(c)
    /\ call' = [call EXCEPT ![c] = [Quiet EXCEPT !.op = "change", !.pc = "list",
                                                 !.before = Opened]]
    /\ UNCHANGED <<familyOf, live, members, owned, index, revoked, nextToken, nextFamily,
                   crashes, exchanged, replayed, unlisted, belated, cut>>

List(c) ==
    /\ call[c].pc = "list"
    /\ call' = [call EXCEPT ![c].todo = index,
                            ![c].pc = IF index = {} THEN "clear" ELSE "members"]
    /\ UNCHANGED <<familyOf, live, members, owned, index, revoked, nextToken, nextFamily,
                   starts, crashes, exchanged, replayed, unlisted, belated, cut>>

\* The whole index goes, with whatever a login added since it was listed.
Clear(c) ==
    /\ call[c].pc = "clear"
    /\ index' = {}
    /\ unlisted' = unlisted \cup (index \ revoked)
    /\ call' = [call EXCEPT ![c] = Quiet]
    /\ UNCHANGED <<familyOf, live, members, owned, revoked, nextToken, nextFamily,
                   starts, crashes, exchanged, replayed, belated, cut>>

Crash(c) ==
    /\ call[c] # Quiet /\ crashes < MaxCrashes
    /\ crashes' = crashes + 1
    /\ cut' = cut \cup call[c].todo
    /\ call' = [call EXCEPT ![c] = Quiet]
    /\ UNCHANGED <<familyOf, live, members, owned, index, revoked, nextToken, nextFamily,
                   starts, exchanged, replayed, unlisted, belated>>

SesNext ==
    \E c \in Clients :
       \/ Login(c) \/ Issue(c)
       \/ \E t \in Tokens : Check(c, t) \/ Logout(c, t)
       \/ Take(c) \/ Unlist(c) \/ ReadMembers(c) \/ ReadOwner(c) \/ Mark(c)
       \/ Change(c) \/ List(c) \/ Clear(c) \/ Crash(c)

SesSpec == SesInit /\ [][SesNext]_sesVars

-----------------------------------------------------------------------------
SesTypeOK ==
    /\ familyOf \in [Tokens -> Families \cup {NoFamily}]
    /\ live \subseteq Tokens /\ members \in [Families -> SUBSET Tokens]
    /\ owned \subseteq Families /\ index \subseteq Families /\ revoked \subseteq Families
    /\ nextToken \in 1..MaxTokens + 1 /\ nextFamily \in 1..MaxFamilies + 1
    /\ call \in [Clients -> Call]
    /\ starts \in 0..MaxStarts /\ crashes \in 0..MaxCrashes
    /\ exchanged \in [Tokens -> Nat]
    /\ replayed \subseteq Families /\ unlisted \subseteq Families /\ belated \subseteq Tokens /\ cut \subseteq Families

Revoking(f) == \E c \in Clients : f \in call[c].todo
\* A refresh token buys one successor: however many requests present it at the same time,
\* one rotation at most is answered with a new pair, and a token that comes back after it
\* was exchanged ends its family, whoever holds the later tokens: the family is revoked, or
\* a request that is not cut short is about to.
OneTimeTokens ==
    /\ \A t \in Tokens : exchanged[t] <= 1
    /\ \A f \in replayed : f \in revoked \/ Revoking(f) \/ f \in cut

\* Revocation is final.  A rotation that passed the check before its family was revoked
\* still issues a token, with a live record, but no later request is ever answered with a
\* pair for it; and when a password change is over, every family that existed before it is
\* revoked, except one that an earlier change dropped from the index while a login was
\* adding it.
RevocationIsFinal ==
    /\ \A t \in belated : exchanged[t] = 0
    /\ \A c \in Clients : call[c].pc = "clear" => call[c].before \subseteq revoked \cup unlisted

=============================================================================
