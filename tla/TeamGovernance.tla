--------------------------- MODULE TeamGovernance ---------------------------
(***************************************************************************)
(* A governed Agent Team instance (governance-extension.ts).  Its policy   *)
(* (the instance row and the leases of its agents) and its execution state *)
(* (the upstream team and agents, team-store.ts) are two SQLite databases  *)
(* of one process: an operation writes now to one, now to the other, in a  *)
(* fixed order, and the process may die between any two of its writes.     *)
(* The next start reconciles.                                              *)
(*                                                                         *)
(* Rules, template tasks and the audit trail are left out; so is           *)
(* authority, which only refuses.  A write that fails is not modelled.     *)
(* Of the other instances in the same databases the model keeps what can   *)
(* stop the reaper, which takes the leases of all instances in one pass.   *)
(***************************************************************************)
EXTENDS Naturals, FiniteSets, SequencesExt

CONSTANTS
    Name,              \* names of agents
    Template,          \* those the pinned template declares
    MaxAgents, MaxTemporary,
    MaxCrashes         \* bound on the deaths of the process

ASSUME GovernanceAssumption ==
    /\ Template \subseteq Name
    /\ IsFiniteSet(Name)
    /\ MaxAgents \in Nat /\ MaxTemporary \in Nat /\ MaxCrashes \in Nat
    /\ Cardinality(Template) <= MaxAgents

VARIABLES
    db,        \* the two databases
    todo,      \* the writes that the running operation has still to do
    up,        \* the process runs
    asked,     \* what the commands so far allow the team to be (history)
    unleased,  \* agents that a crash left without the lease they were to get (history)
    neighbourLost,  \* another instance, stopped, has a lease that ran out and no upstream team
    crashes

governanceVars == <<db, todo, up, asked, unleased, neighbourLost, crashes>>

Status == {"none", "active", "stopped"}
Kind   == {"none", "template", "custom", "temporary"}

Database ==
    [instance : Status,                                \* the governance row
     team : Status,                                    \* the upstream row
     agent : [Name -> {"none", "live", "stopped"}],    \* the upstream agents
     lease : [Name -> Kind],                           \* the lease that is not recycled
     due : [Name -> {"no", "idle", "ttl"}]]            \* and whether it has run out

\* Rows are well formed, agents need a team and leases an instance.
GovernanceTypeOK ==
    /\ db \in Database
    /\ db.team = "none" => \A a \in Name : db.agent[a] = "none"
    /\ db.instance = "none" => \A a \in Name : db.lease[a] = "none"
    /\ \A a \in Name : db.due[a] # "no" => db.lease[a] = "temporary"
    /\ up \in BOOLEAN /\ (~up => todo = <<>>)
    /\ asked \subseteq Status /\ unleased \subseteq Name /\ neighbourLost \in BOOLEAN
    /\ crashes \in 0..MaxCrashes

GovernanceInit ==
    /\ db = [instance |-> "none", team |-> "none", agent |-> [a \in Name |-> "none"],
             lease |-> [a \in Name |-> "none"], due |-> [a \in Name |-> "no"]]
    /\ todo = <<>>
    /\ up = TRUE
    /\ asked = {"none"}
    /\ unleased = {}
    /\ neighbourLost = FALSE
    /\ crashes = 0

-----------------------------------------------------------------------------
(* The writes.  Each is one transaction of one database.                    *)

SetTeam(status)  == [do |-> "setTeam", to |-> status]
CreateTeam       == [do |-> "createTeam"]
DeleteTeam       == [do |-> "deleteTeam"]
Upsert(a)        == [do |-> "upsert", of |-> a]
Halt(a)          == [do |-> "halt", of |-> a]
Drop(a)          == [do |-> "drop", of |-> a]
InsertRow        == [do |-> "insertRow"]
SetRow(status)   == [do |-> "setRow", to |-> status]
DeleteRow        == [do |-> "deleteRow"]
Lease(a, kind)   == [do |-> "lease", of |-> a, kind |-> kind]
Recycle(S)       == [do |-> "recycle", of |-> S]
Return(status)   == [do |-> "return", to |-> status]   \* the caller gets its answer

NoLease(S) ==
    [db EXCEPT !.lease = [a \in Name |-> IF a \in S THEN "none" ELSE db.lease[a]],
               !.due   = [a \in Name |-> IF a \in S THEN "no" ELSE db.due[a]]]

Written(w) ==
    CASE w.do = "setTeam"    -> IF db.team = "none" THEN db ELSE [db EXCEPT !.team = w.to]
      [] w.do = "createTeam" -> [db EXCEPT !.team = "active"]
      [] w.do = "deleteTeam" -> [db EXCEPT !.team = "none", !.agent = [a \in Name |-> "none"]]
      [] w.do = "upsert"     -> [db EXCEPT !.agent[w.of] = "live"]
      [] w.do = "halt"       -> IF db.agent[w.of] = "none" THEN db
                                ELSE [db EXCEPT !.agent[w.of] = "stopped"]
      [] w.do = "drop"       -> [db EXCEPT !.agent[w.of] = "none"]
      [] w.do = "insertRow"  -> [db EXCEPT !.instance = "active",
                                           !.lease = [a \in Name |-> IF a \in Template
                                                                     THEN "template" ELSE "none"]]
      [] w.do = "setRow"     -> [db EXCEPT !.instance = w.to]
      [] w.do = "deleteRow"  -> [NoLease(Name) EXCEPT !.instance = "none"]   \* cascades
      [] w.do = "lease"      -> [db EXCEPT !.lease[w.of] = w.kind]
      [] w.do = "recycle"    -> NoLease(w.of)
      [] w.do = "return"     -> db

\* An operation is synchronous: nothing else runs before its last write, but it may die.
Perform(writes) ==
    /\ up /\ todo = <<>> /\ writes # <<>>
    /\ db' = Written(Head(writes))
    /\ todo' = Tail(writes)
    /\ UNCHANGED <<up, unleased, neighbourLost, crashes>>

Continue ==
    /\ todo # <<>>
    /\ db' = Written(Head(todo))
    /\ todo' = Tail(todo)
    /\ asked' = IF Head(todo).do = "return" THEN {Head(todo).to} ELSE asked
    /\ unleased' = IF Head(todo).do = "lease" THEN unleased \ {Head(todo).of} ELSE unleased
    /\ UNCHANGED <<up, neighbourLost, crashes>>

-----------------------------------------------------------------------------
(* The instance.                                                            *)

\* upsertAgent is only called for members that are missing.
Members(S) == LET s == SetToSeq(S) IN [i \in DOMAIN s |-> Upsert(s[i])]
Missing == {a \in Template : db.agent[a] = "none"}
RepairMembers == Members(Missing)
FromTemplate == <<CreateTeam>> \o Members(Template)

Leftover == IF db.team # "none" THEN <<DeleteTeam>> ELSE <<>>

Revived ==
    (IF db.team = "none" THEN FromTemplate ELSE <<SetTeam("active")>> \o RepairMembers)
    \o <<SetRow("active"), Return("active")>>

\* resolveInstance: a new instance replaces an upstream team of its name that has no row;
\* a stopped one is reactivated, an active one is returned as it is.
Resolve ==
    /\ db.instance # "active"
    /\ Perform(IF db.instance = "stopped" THEN Revived
               ELSE Leftover \o FromTemplate \o <<InsertRow, Return("active")>>)
    /\ asked' = asked \cup {"active"}

\* reactivateInstance, also of an active instance.
Reactivate ==
    /\ db.instance # "none"
    /\ Perform(Revived)
    /\ asked' = asked \cup {"active"}

StopInstance ==
    /\ db.instance # "none"
    /\ Perform(<<SetTeam("stopped"), SetRow("stopped"), Return("stopped")>>)
    /\ asked' = asked \cup {"stopped"}

Deletion_Bug == <<DeleteTeam, DeleteRow, Return("none")>>
Deletion == <<DeleteRow, DeleteTeam, Return("none")>>

\* A deletion that has begun counts as asked for, although nobody was answered.
DeleteInstance ==
    /\ db.instance # "none"
    /\ Perform(Deletion)
    /\ asked' = {"none"}

-----------------------------------------------------------------------------
(* Its agents.                                                              *)

Live == {a \in Name : db.agent[a] = "live"}
Temporary == {a \in Name : db.lease[a] = "temporary"}

Hiring(a, kind) ==
    (IF db.lease[a] = "none" THEN <<>> ELSE <<Recycle({a})>>) \o <<Upsert(a), Lease(a, kind)>>

CreateAgent(a, kind) ==
    /\ db.instance = "active" /\ db.team # "none"
    /\ Cardinality(Live) < MaxAgents
    /\ kind = "temporary" => Cardinality(Temporary) < MaxTemporary
    /\ db.agent[a] # "live"
    /\ Perform(Hiring(a, kind))
    /\ UNCHANGED asked

Dismissal(a, write) == <<write>> \o (IF db.lease[a] = "none" THEN <<>> ELSE <<Recycle({a})>>)

StopGovernedAgent(a) ==
    /\ db.instance = "active" /\ db.agent[a] # "none"
    /\ Perform(Dismissal(a, Halt(a)))
    /\ UNCHANGED asked

\* The lease is recycled also when there was no agent to delete.
DeleteAgent(a) ==
    /\ db.instance = "active"
    /\ Perform(Dismissal(a, Drop(a)))
    /\ UNCHANGED asked

\* Time: a temporary lease goes idle, is touched by a run of its agent, or reaches its end.
Expire(a) ==
    /\ up /\ todo = <<>> /\ db.lease[a] = "temporary"
    /\ \E how \in {"idle", "ttl"} \ {db.due[a]} :
          /\ db.due[a] # "ttl"
          /\ db' = [db EXCEPT !.due[a] = how]
    /\ UNCHANGED <<todo, up, asked, unleased, neighbourLost, crashes>>

Touch(a) ==
    /\ up /\ todo = <<>> /\ db.due[a] = "idle"
    /\ db' = [db EXCEPT !.due[a] = "no"]
    /\ UNCHANGED <<todo, up, asked, unleased, neighbourLost, crashes>>

\* Whatever the status of the instance.
Due_Bug == IF db.instance = "active" THEN {a \in Name : db.due[a] # "no"} ELSE {}
Due == {a \in Name : db.due[a] # "no"}

Halts(S) == LET s == SetToSeq(S) IN [i \in DOMAIN s |-> Halt(s[i])]

Reaping_Bug(S) == <<Recycle(S)>> \o Halts(S)
Reaping(S) == Halts(S) \o <<Recycle(S)>>

\* listRuns throws for a lease whose upstream team is missing, before anything is written:
\* one such lease, of whatever instance, ends the pass, and the tick with it.
CanReap == db.team # "none" /\ ~neighbourLost

\* reapExpired, at every tick of the supervisor.
Reap ==
    /\ Due # {} /\ CanReap
    /\ Perform(Reaping(Due))
    /\ UNCHANGED asked

-----------------------------------------------------------------------------
(* Crashes and reconciliation.                                              *)

\* createAgent dies between upsertAgent and the insert of the lease.
Unleased == {w.of : w \in {x \in Range(todo) : x.do = "lease" /\ db.agent[x.of] = "live"}}

\* The upstream database may also be lost, or replaced by one without the team.
Crash ==
    /\ up /\ crashes < MaxCrashes
    /\ up' = FALSE
    /\ todo' = <<>>
    /\ \/ UNCHANGED <<db, neighbourLost>>
       \/ db' = Written(DeleteTeam) /\ neighbourLost' \in {TRUE, neighbourLost}
    /\ unleased' = unleased \cup Unleased
    /\ crashes' = crashes + 1
    /\ UNCHANGED asked

\* reconcile, at startup and when the configuration is reloaded.
Reconciliation ==
    CASE db.instance = "active" ->
             IF db.team = "none" THEN FromTemplate
             ELSE (IF db.team = "active" THEN <<>> ELSE <<SetTeam("active")>>) \o RepairMembers
      [] OTHER -> IF db.team = "active" THEN <<SetTeam("stopped")>> ELSE <<>>

StartUp ==
    /\ ~up
    /\ up' = TRUE
    /\ todo' = Reconciliation
    /\ UNCHANGED <<db, asked, unleased, neighbourLost, crashes>>

HotReload ==
    /\ Perform(Reconciliation)
    /\ UNCHANGED asked

\* Somebody reactivates or deletes the other instance.
RestoreNeighbour ==
    /\ up /\ todo = <<>> /\ neighbourLost
    /\ neighbourLost' = FALSE
    /\ UNCHANGED <<db, todo, up, asked, unleased, crashes>>

\* The legacy routes of a team without a governance row: start, stop, delete.
UngovernedRoute ==
    /\ db.instance = "none" /\ db.team # "none"
    /\ \/ \E status \in {"active", "stopped"} :
             Perform(<<SetTeam(status)>>) /\ asked' = {status}
       \/ Perform(<<DeleteTeam>>) /\ asked' = {"none"}

-----------------------------------------------------------------------------

AgentStep(a) ==
    \/ \E kind \in {"custom", "temporary"} : CreateAgent(a, kind)
    \/ StopGovernedAgent(a) \/ DeleteAgent(a) \/ Expire(a) \/ Touch(a)

GovernanceNext ==
    \/ Resolve \/ Reactivate \/ StopInstance \/ DeleteInstance \/ UngovernedRoute
    \/ \E a \in Name : AgentStep(a)
    \/ Reap \/ Continue
    \/ Crash \/ StartUp \/ HotReload \/ RestoreNeighbour

GovernanceSpec == GovernanceInit /\ [][GovernanceNext]_governanceVars

\* An operation goes on, a dead process is started again, and the supervisor's timer comes
\* round between the commands (which run in one turn of the event loop each).
GovernanceFairSpec ==
    GovernanceSpec
      /\ WF_governanceVars(Continue) /\ WF_governanceVars(StartUp) /\ SF_governanceVars(Reap)

-----------------------------------------------------------------------------
(* What must hold.                                                          *)

Idle == up /\ todo = <<>>

\* Between two operations the upstream team is as its governance row says, and it is active
\* only if it may be: whatever was cut short, a team whose stop was confirmed or whose
\* deletion was begun does not run again (the orders of writes in stopInstance,
\* deleteInstance and resolveInstance, reconcile).
HalvesAgree ==
    Idle =>
        /\ db.instance # "none" => db.team \in {db.instance, "none"}
        /\ db.instance = "active" => db.team = "active"
        /\ db.team = "active" => "active" \in asked

\* An agent that was added to an instance lives only under a lease, so that the reaper and
\* the quota know it, unless createAgent was cut short: a crash in reapExpired or in
\* stopAgent leaves a lease without an agent, never an agent without a lease, and a new
\* instance inherits nobody from the one that had its name.
NobodyUnleased ==
    Idle /\ db.instance # "none" =>
        \A a \in Name \ (Template \cup unleased) : db.agent[a] = "live" => db.lease[a] # "none"

\* A temporary agent whose time is over is stopped, across crashes, also of an instance
\* that was stopped meanwhile, unless the upstream team of another instance was lost and the
\* reaper fails on its leases (reapExpired).
EveryGuestLeaves ==
    \A a \in Name :
        (db.agent[a] = "live" /\ db.due[a] = "ttl")
            ~> (db.agent[a] # "live" \/ db.due[a] # "ttl" \/ neighbourLost)
=============================================================================
