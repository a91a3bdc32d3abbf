----------------------------- MODULE Governance -----------------------------
(***************************************************************************)
(* Workspaces, their members and the audit log.  A request reads the role  *)
(* of its actor and the membership it is about, then writes both the       *)
(* membership and one audit row in a transaction; a trigger links the row  *)
(* to the hash chain under an advisory lock that is held until the commit, *)
(* and the row-level policies of the application role apply to what the    *)
(* transaction inserts and to what its trigger sees.  A maintenance task   *)
(* archives and deletes the rows past their retention, and the orphan      *)
(* reconciler finds those archives in the store that holds the documents.  *)
(***************************************************************************)
EXTENDS Integers, FiniteSets, FiniteSetsExt

CONSTANTS
    Users, Workspaces,
    Founded,     \* workspaces that exist when the chain is installed
    Founder,     \* of each workspace: the user who creates it
    OrgOf,       \* of each workspace
    Granted,     \* roles the member endpoints give: admin, editor, viewer, auditor
    AdminRequests,    \* concurrent requests
    RetentionDays,   \* audit_retention_days, in days
    GraceDays,   \* orphan_object_grace_seconds, in days
    MaxRows,     \* bound: audit rows ever inserted
    MaxClock,    \* bound: ticks; no request starts on the last day
    Nobody

ASSUME GovernanceConstants ==
    /\ Founded \subseteq Workspaces /\ Founder \in [Workspaces -> Users]
    /\ DOMAIN OrgOf = Workspaces
    /\ Granted \subseteq {"admin", "editor", "viewer", "auditor"}
    /\ RetentionDays \in Nat /\ GraceDays \in Nat /\ MaxRows \in Nat /\ MaxClock \in Nat
    /\ Nobody \notin Users \cup AdminRequests \cup Workspaces

VARIABLES
    role,       \* workspace_memberships: role per workspace and user, or "none"
    log,        \* audit_logs, committed rows
    request,    \* what each request is doing
    nextSeq,    \* the sequence behind chain_seq
    auditLock,  \* holder of the advisory lock of the trigger
    purge,      \* the purge task
    archives,   \* every archive written to the object store, and whether it is still there
    clock,
    purged,     \* history: rows deleted by the purge
    outsiders,  \* history: rows whose actor was no member when they were committed
    outpaced   \* history: rows being inserted when the removal of their actor was committed

govVars == <<role, log, request, nextSeq, auditLock, purge, archives, clock, purged, outsiders, outpaced>>

MemberRoles == {"owner", "admin", "editor", "viewer", "auditor"}
NoRequest == [pc |-> "idle", op |-> "none", w |-> Nobody, actor |-> Nobody, actorRole |-> "none",
         target |-> Nobody, same |-> FALSE, new |-> "none", row |-> 0, created |-> 0, prev |-> 0,
         passed |-> FALSE]
NoPurge == [pc |-> "idle", cutoff |-> 0, rows |-> {}]
AdminRoles == {"owner", "admin"}
Exists(w) == \E u \in Users : role[w][u] # "none"

GovInit ==
    /\ \E member \in [Users -> Granted \cup {"none"}] :
          role = [w \in Workspaces |-> [u \in Users |->
                    IF w \notin Founded THEN "none"
                    ELSE IF u = Founder[w] THEN "owner" ELSE member[u]]]
    /\ log = {} /\ nextSeq = 1 /\ auditLock = Nobody
    /\ request = [q \in AdminRequests |-> NoRequest]
    /\ purge = NoPurge /\ archives = {} /\ clock = 0
    /\ purged = {} /\ outsiders = {} /\ outpaced = {}

\* _membership: the actor must be an owner or administrator of the workspace now.
Authorise(q, op, w, u) ==
    /\ request[q] = NoRequest /\ nextSeq <= MaxRows /\ clock < MaxClock
    /\ op \in {"add", "update", "remove"} /\ role[w][u] \in AdminRoles
    /\ request' = [request EXCEPT ![q] = [NoRequest EXCEPT !.pc = "target", !.op = op, !.w = w,
                                                      !.actor = u, !.actorRole = role[w][u]]]
    /\ UNCHANGED <<role, log, nextSeq, auditLock, purge, archives, clock, purged, outsiders, outpaced>>

\* A first workspace comes with its organization; a further one takes an owner or
\* administrator of some workspace of the organization.
CreateWorkspace(q, w) ==
    /\ request[q] = NoRequest /\ nextSeq <= MaxRows /\ clock < MaxClock /\ ~Exists(w)
    /\ \A p \in AdminRequests : request[p].w # w
    /\ LET siblings == {v \in Workspaces : OrgOf[v] = OrgOf[w] /\ Exists(v)} IN
       siblings # {} => \E v \in siblings : role[v][Founder[w]] \in AdminRoles
    /\ request' = [request EXCEPT ![q] = [NoRequest EXCEPT !.pc = "write", !.op = "create", !.w = w,
                        !.actor = Founder[w], !.target = Founder[w], !.new = "owner"]]
    /\ UNCHANGED <<role, log, nextSeq, auditLock, purge, archives, clock, purged, outsiders, outpaced>>

\* Mutant: the endpoints do not spare the owner.
ReadTargetOwnerToo(q, t, new) ==
    /\ request[q].pc = "target"
    /\ LET seen == role[request[q].w][t]
           op == request[q].op IN
       /\ IF op = "add" THEN seen = "none" ELSE seen # "none"
       /\ (op # "add" /\ seen = "admin") => request[q].actorRole = "owner"
       /\ IF op = "remove" THEN new = "none" ELSE new \in Granted
       /\ request' = [request EXCEPT ![q].pc = "write", ![q].actorRole = "none",
                            ![q].target = t, ![q].new = new, ![q].same = seen = new]
    /\ UNCHANGED <<role, log, nextSeq, auditLock, purge, archives, clock, purged, outsiders, outpaced>>

\* The membership as the request reads it: a new member must not have one; an owner is left
\* alone; an administrator may be changed by an owner only.
ReadTarget(q, t, new) ==
    /\ request[q].pc = "target"
    /\ LET seen == role[request[q].w][t]
           op == request[q].op IN
       /\ IF op = "add" THEN seen = "none" ELSE seen \notin {"none", "owner"}
       /\ (op # "add" /\ seen = "admin") => request[q].actorRole = "owner"
       /\ IF op = "remove" THEN new = "none" ELSE new \in Granted
       /\ request' = [request EXCEPT ![q].pc = "write", ![q].actorRole = "none",
                            ![q].target = t, ![q].new = new, ![q].same = seen = new]
    /\ UNCHANGED <<role, log, nextSeq, auditLock, purge, archives, clock, purged, outsiders, outpaced>>

\* An assignment of the role it read changes nothing: the session emits no UPDATE.
NoChange(q) == request[q].same
RowWriters(q) == {p \in AdminRequests \ {q} : request[p].pc \in {"link", "commit"} /\ ~NoChange(p)
                                      /\ request[p].w = request[q].w
                                      /\ request[p].target = request[q].target}
\* The membership is there for an update, and not there for an insert.
Applies(q) ==
    LET now == role[request[q].w][request[q].target] IN
    CASE request[q].op \in {"add", "create"} -> now = "none"
      [] request[q].op = "update" -> NoChange(q) \/ now # "none"
      [] OTHER -> TRUE

\* audit_append_policy: the actor is a member of the workspace of the row.
MayAppend(q) == request[q].op = "create" \/ role[request[q].w][request[q].actor] # "none"

\* The membership is flushed, after any other transaction that holds its row; then the
\* audit row starts its insert: the default of chain_seq is drawn before the trigger runs,
\* and the policy, though applied after it, sees the memberships of this moment.
WriteMembership(q) ==
    /\ request[q].pc = "write" /\ Applies(q) /\ nextSeq <= MaxRows
    /\ NoChange(q) \/ RowWriters(q) = {}
    /\ request' = [request EXCEPT ![q].pc = "link", ![q].row = nextSeq, ![q].created = clock,
                                  ![q].passed = MayAppend(q)]
    /\ nextSeq' = nextSeq + 1
    /\ UNCHANGED <<role, log, auditLock, purge, archives, clock, purged, outsiders, outpaced>>

\* A unique violation, or an update that matches no row, rolls the request back.
WriteMembershipRejected(q) ==
    /\ request[q].pc = "write" /\ ~Applies(q) /\ RowWriters(q) = {}
    /\ request' = [request EXCEPT ![q] = NoRequest]
    /\ UNCHANGED <<role, log, nextSeq, auditLock, purge, archives, clock, purged, outsiders, outpaced>>

\* audit_workspace_isolation: rows the actor may see, also in the trigger.
Visible(u) == {r \in log : role[r.w][u] \in {"owner", "admin", "auditor"}}
Highest(rows) == IF rows = {} THEN 0 ELSE Max({r.seq : r \in rows})
\* Mutant: the row is inserted without the policy (the API as owner of the tables).
LinkRowWithoutPolicy(q) ==
    /\ request[q].pc = "link" /\ auditLock = Nobody
    /\ auditLock' = q
    /\ request' = [request EXCEPT ![q].pc = "commit", ![q].prev = Highest(Visible(request[q].actor))]
    /\ UNCHANGED <<role, log, nextSeq, purge, archives, clock, purged, outsiders, outpaced>>

\* audit_logs_hash_chain: the advisory lock, then the visible row of the highest chain_seq,
\* by a query of its own that sees what was committed before the lock came free.
LinkRow(q) ==
    /\ request[q].pc = "link" /\ auditLock = Nobody /\ request[q].passed
    /\ auditLock' = q
    /\ request' = [request EXCEPT ![q].pc = "commit", ![q].prev = Highest(Visible(request[q].actor))]
    /\ UNCHANGED <<role, log, nextSeq, purge, archives, clock, purged, outsiders, outpaced>>

AuditRow(q) == [seq |-> request[q].row, w |-> request[q].w, actor |-> request[q].actor,
           created |-> request[q].created, prev |-> request[q].prev]
\* Rows of a user in a workspace whose insert waits for the advisory lock.
Waiting(w, u) == {request[p].row : p \in {p \in AdminRequests :
                    request[p].pc = "link" /\ request[p].w = w /\ request[p].actor = u}}
CommitChange(q) ==
    /\ request[q].pc = "commit"
    /\ LET r == request[q] IN
       /\ role' = IF NoChange(q) THEN role ELSE [role EXCEPT ![r.w][r.target] = r.new]
       /\ log' = log \cup {AuditRow(q)}
       /\ outsiders' = IF MayAppend(q) THEN outsiders ELSE outsiders \cup {r.row}
       /\ outpaced' = IF r.new = "none" THEN outpaced \cup Waiting(r.w, r.target) ELSE outpaced
    /\ auditLock' = Nobody
    /\ request' = [request EXCEPT ![q] = NoRequest]
    /\ UNCHANGED <<nextSeq, purge, archives, clock, purged>>

\* The insert is refused by the policy, the database fails or the process dies.
RequestFails(q) ==
    /\ request[q].pc \notin {"idle"}
    /\ request' = [request EXCEPT ![q] = NoRequest]
    /\ auditLock' = IF auditLock = q THEN Nobody ELSE auditLock
    /\ UNCHANGED <<role, log, nextSeq, purge, archives, clock, purged, outsiders, outpaced>>

\* purge_expired_audit_logs, whose cutoff is fixed when it starts.
PurgeRead ==
    /\ purge = NoPurge /\ clock > RetentionDays
    /\ LET cutoff == clock - RetentionDays
           expired == {r \in log : r.created < cutoff} IN
       /\ expired # {}
       /\ purge' = [pc |-> "archive", cutoff |-> cutoff, rows |-> expired]
    /\ UNCHANGED <<role, log, request, nextSeq, auditLock, archives, clock, purged, outsiders, outpaced>>

\* A failed upload ends the task before anything is deleted.
PurgeArchive ==
    /\ purge.pc = "archive"
    /\ archives' = archives \cup {[rows |-> purge.rows, at |-> clock, kept |-> TRUE]}
    /\ purge' = [purge EXCEPT !.pc = "delete"]
    /\ UNCHANGED <<role, log, request, nextSeq, auditLock, clock, purged, outsiders, outpaced>>

PurgeDelete ==
    /\ purge.pc = "delete"
    /\ LET gone == {r \in log : r.created < purge.cutoff} IN
       log' = log \ gone /\ purged' = purged \cup {r.seq : r \in gone}
    /\ purge' = NoPurge
    /\ UNCHANGED <<role, request, nextSeq, auditLock, archives, clock, outsiders, outpaced>>

\* Mutant: a failed upload is logged and the purge goes on.
PurgeFailsOpen ==
    /\ purge # NoPurge /\ purge' = [purge EXCEPT !.pc = "delete"]
    /\ UNCHANGED <<role, log, request, nextSeq, auditLock, archives, clock, purged, outsiders, outpaced>>

PurgeFails ==
    /\ purge # NoPurge /\ purge' = NoPurge
    /\ UNCHANGED <<role, log, request, nextSeq, auditLock, archives, clock, purged, outsiders, outpaced>>

\* reconcile_orphan_objects: an archive is named by no document, so it is an orphan as soon
\* as it is older than the grace period.
SweepArchives ==
    /\ \E a \in archives : a.kept /\ a.at < clock - GraceDays
    /\ archives' = {[a EXCEPT !.kept = @ /\ a.at >= clock - GraceDays] : a \in archives}
    /\ UNCHANGED <<role, log, request, nextSeq, auditLock, purge, clock, purged, outsiders, outpaced>>

\* No request takes a day.  Days count from the first row.
DayPasses ==
    /\ clock < MaxClock /\ (log # {} \/ archives # {})
    /\ \A q \in AdminRequests : request[q] = NoRequest
    /\ clock' = clock + 1
    /\ UNCHANGED <<role, log, request, nextSeq, auditLock, purge, archives, purged, outsiders, outpaced>>

GovNext ==
    \/ \E q \in AdminRequests :
         \/ \E op \in {"add", "update", "remove"}, w \in Workspaces, u \in Users : Authorise(q, op, w, u)
         \/ \E w \in Workspaces : CreateWorkspace(q, w)
         \/ \E t \in Users, new \in Granted \cup {"none"} : ReadTarget(q, t, new)
         \/ WriteMembership(q) \/ WriteMembershipRejected(q) \/ LinkRow(q) \/ CommitChange(q) \/ RequestFails(q)
    \/ PurgeRead \/ PurgeArchive \/ PurgeDelete \/ PurgeFails \/ SweepArchives \/ DayPasses

GovSpec == GovInit /\ [][GovNext]_govVars

-----------------------------------------------------------------------------
AuditRows == [seq : 1..MaxRows, w : Workspaces, actor : Users, created : 0..MaxClock,
              prev : 0..MaxRows]
AdminRequest == [pc : {"idle", "target", "write", "link", "commit"},
          op : {"none", "add", "update", "remove", "create"}, w : Workspaces \cup {Nobody},
          actor : Users \cup {Nobody}, actorRole : MemberRoles \cup {"none"},
          target : Users \cup {Nobody}, same : BOOLEAN, new : MemberRoles \cup {"none"},
          row : 0..MaxRows, created : 0..MaxClock, prev : 0..MaxRows,
          passed : BOOLEAN]
Archive == [rows : SUBSET AuditRows, at : 0..MaxClock, kept : BOOLEAN]
GovTypeOK ==
    /\ role \in [Workspaces -> [Users -> MemberRoles \cup {"none"}]]
    /\ log \subseteq AuditRows
    /\ request \in [AdminRequests -> AdminRequest]
    /\ nextSeq \in 1..MaxRows + 1 /\ auditLock \in AdminRequests \cup {Nobody}
    /\ purge \in [pc : {"idle", "archive", "delete"}, cutoff : 0..MaxClock, rows : SUBSET AuditRows]
    /\ archives \subseteq Archive
    /\ purged \subseteq 1..MaxRows /\ outsiders \subseteq 1..MaxRows /\ outpaced \subseteq 1..MaxRows
    /\ clock \in 0..MaxClock

\* A workspace always has the owner who created it, whatever its administrators do to each
\* other and to stale readings: nobody can be locked out of the administration.
OwnerStays == \A w \in Workspaces : Exists(w) => role[w][Founder[w]] = "owner"

\* The role of the actor is checked long before the write, yet a removed member starts no
\* change: the policy checks again when the audit row is inserted.  What he can still finish
\* is an insert that waited for the advisory lock while his removal was committed: the policy
\* judges it by the memberships it saw before it waited.
ChangesByMembers == outsiders \subseteq outpaced

\* A row leaves the table only after an archive with it was written.
PurgedRowsArchived == \A n \in purged : \E a \in archives : n \in {r.seq : r \in a.rows}

\* verify_audit_chain, from the first row it is given: in the order of chain_seq, every row
\* names the one before it.
Verifies(rows) ==
    \A r \in rows : LET before == {s \in rows : s.seq < r.seq} IN
                    before # {} => r.prev = Highest(before)

\* tasks/maintenance.py, lines 200-201: operators can re-verify the hash chain on the archive
\* independently of the live table.  The archive is there, and its rows form a chain.
ArchivesVerify == \A a \in archives : a.kept /\ Verifies(a.rows)

=============================================================================
