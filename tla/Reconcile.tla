----------------------------- MODULE Reconcile -----------------------------
(***************************************************************************)
(* kastor plan, apply and destroy on one module directory and one platform *)
(* target: several command processes, the lock file and the state file     *)
(* they share, the remote platform, the user who edits the module and the  *)
(* remote objects, and operators who delete lock files left by a crash.    *)
(*                                                                         *)
(* A command compiles the module (before it holds the lock), takes the     *)
(* lock, loads the state, plans - one remote read per tracked agent -,     *)
(* executes the plan change by change, saving the whole state file after   *)
(* each one, closes its plugins and removes the lock file. Each remote     *)
(* operation and each comparison is a call to the plugin of the target,    *)
(* with no time limit: a command may wait for its plugin for ever.         *)
(***************************************************************************)
EXTENDS Naturals, Sequences, SequencesExt, FiniteSets, Dependencies

CONSTANTS
    Proc,             \* command processes
    NoProc,           \* no lock file
    Operator,         \* people who delete stale lock files
    Addr,             \* agent addresses
    Config,           \* resolved agent configurations
    Inexpressible,    \* configurations the provider's Diff rejects
    Modules,          \* the contents the module's files may have
    InitModule,       \* what they contain at first
    OrderOf(_, _),    \* depth-first order of addresses under dependencies
    Untracked,        \* an address the state file does not list
    Gone,             \* a remote object that was deleted
    MaxEdits,         \* bound: user edits, out-of-band changes and destroys
    FaultKinds,       \* what may go wrong
    MaxFaults         \* bound: how often it may

Faults == {"crash", "remote", "disk"}

Module == [agents : SUBSET Addr,
           cfg    : [Addr -> Config],
           deps   : [Addr -> SUBSET Addr]]

ASSUME ProcAssumption == NoProc \notin Proc
ASSUME ConfigAssumption == Inexpressible \subseteq Config /\ Gone \notin Config
(* A module that compiles: references resolve and do not go round (graph.Build). *)
ASSUME ModulesAssumption ==
    /\ Modules \subseteq Module /\ InitModule \in Modules
    /\ \A m \in Modules : /\ Acyclic(m.agents, m.deps)
                          /\ \A a \in m.agents : m.deps[a] \subseteq m.agents
ASSUME BoundsAssumption ==
    MaxEdits \in Nat /\ MaxFaults \in Nat /\ FaultKinds \subseteq Faults
ASSUME OrderAssumption ==
    \A S \in SUBSET Addr : \A D \in [Addr -> SUBSET Addr] :
        LET order == OrderOf(S, D)
        IN  order \in Seq(S) /\ Lists(S, order) /\ DependenciesFirst(D, order)

(* What the state file records of one agent, and the state file itself. *)
Entry == [id : Nat, cfg : Config, deps : SUBSET Addr]
StateFile == [serial : Nat, res : [Addr -> Entry \cup {Untracked}]]

ASSUME UntrackedAssumption == Untracked \notin Entry

EmptyFile == [serial |-> 0, res |-> [a \in Addr |-> Untracked]]

Kind == {"plan", "apply", "destroy"}
Action == {"create", "update", "delete", "noop"}
Change == [addr : Addr, action : Action, id : Nat, drift : BOOLEAN]

VARIABLES
    spec,     \* the module's files
    disk,     \* kastor.state.json
    lock,     \* .kastor.state.lock: the process its payload names, or NoProc
    remote,   \* the objects ever created on the platform, by id
    pc,       \* where each command is
    kind,     \* which command it is
    mod,      \* the module as it compiled it
    mem,      \* its *state.File
    todo,     \* agents BuildPlan has still to look at
    plan,     \* changes planned and not yet executed
    judged,   \* operators who found the lock file stale and will delete it
    edits, faults,    \* counters of the bounds
    clean,    \* history: processes since whose Load nothing changed out of band
    foreign   \* history: ids whose content was last written out of band

session == <<kind, mod, mem, todo, plan>>
counters == <<edits, faults>>
history == <<clean, foreign>>
vars == <<spec, disk, lock, remote, pc, session, judged, counters, history>>

InCS(p) ==
    pc[p] \in {"load", "plan", "apply", "save", "done", "failed", "closed"}
Loaded(p) == pc[p] \in {"plan", "apply", "save", "done"}

Tracked(res) == {a \in Addr : res[a] # Untracked}
Live(id) == remote[id] # Gone

(* Dependencies the state records, as provider.reverseDependencyOrder reads them. *)
Recorded(res) ==
    [a \in Addr |-> IF res[a] = Untracked THEN {} ELSE res[a].deps]

Init ==
    /\ spec = InitModule
    /\ disk = EmptyFile
    /\ lock = NoProc
    /\ remote = <<>>
    /\ pc = [p \in Proc |-> "idle"]
    /\ kind = [p \in Proc |-> "plan"]
    /\ mod = [p \in Proc |-> InitModule]
    /\ mem = [p \in Proc |-> EmptyFile]
    /\ todo = [p \in Proc |-> <<>>]
    /\ plan = [p \in Proc |-> <<>>]
    /\ judged = {}
    /\ edits = 0 /\ faults = 0
    /\ clean = {} /\ foreign = {}

-----------------------------------------------------------------------------
(* Helpers for the steps of one process. *)

Goto(p, l) == pc' = [pc EXCEPT ![p] = l]

(* The process is gone, and with it everything it held in memory. *)
Exit(p) ==
    /\ Goto(p, "idle")
    /\ kind' = [kind EXCEPT ![p] = "plan"]
    /\ mod' = [mod EXCEPT ![p] = InitModule]
    /\ mem' = [mem EXCEPT ![p] = EmptyFile]
    /\ todo' = [todo EXCEPT ![p] = <<>>]
    /\ plan' = [plan EXCEPT ![p] = <<>>]

Fault(f) ==
    /\ f \in FaultKinds
    /\ faults < MaxFaults
    /\ faults' = faults + 1
    /\ UNCHANGED edits

Edit == edits < MaxEdits /\ edits' = edits + 1 /\ UNCHANGED faults

-----------------------------------------------------------------------------
(* The front half: preparePlatform. *)

(* compileModule, target selection and provider resolution, before the lock. *)
Start(p, k) ==
    /\ pc[p] = "idle"
    /\ Goto(p, "lock")
    /\ kind' = [kind EXCEPT ![p] = k]
    /\ mod' = [mod EXCEPT ![p] = spec]
    /\ IF k = "destroy" THEN Edit ELSE UNCHANGED counters
    /\ UNCHANGED <<spec, disk, lock, remote, mem, todo, plan, judged, history>>

(* Mutant: the lock file is created without O_EXCL. *)
AcquireLockAnyway(p) ==
    /\ pc[p] = "lock"
    /\ lock' = p
    /\ Goto(p, "load")
    /\ UNCHANGED <<spec, disk, remote, session, judged, counters, history>>

(* O_CREATE|O_EXCL succeeds. *)
AcquireLock(p) ==
    /\ pc[p] = "lock"
    /\ lock = NoProc
    /\ lock' = p
    /\ Goto(p, "load")
    /\ UNCHANGED <<spec, disk, remote, session, judged, counters, history>>

(* Mutant: the deferred release runs after a contention too. *)
LockContendedReleases(p) ==
    /\ pc[p] = "lock"
    /\ lock # NoProc
    /\ Exit(p)
    /\ lock' = NoProc
    /\ UNCHANGED <<spec, disk, remote, judged, counters, history>>

(* The lock file exists: contentionError, exit code 2. The plugins are      *)
(* closed first, in a command that never had the lock.                      *)
LockContended(p) ==
    /\ pc[p] = "lock"
    /\ lock # NoProc
    /\ Exit(p)
    /\ UNCHANGED <<spec, disk, lock, remote, judged, counters, history>>

(* The lock file or its payload cannot be written; what was is removed. *)
LockFails(p) ==
    /\ pc[p] = "lock"
    /\ lock = NoProc
    /\ Fault("disk")
    /\ Exit(p)
    /\ UNCHANGED <<spec, disk, lock, remote, judged, history>>

(* The state file cannot be read: preparePlatform closes the plugins and    *)
(* releases the lock, as the deferred release does later.                   *)
LoadFails(p) ==
    /\ pc[p] = "load"
    /\ Fault("disk")
    /\ Goto(p, "failed")
    /\ UNCHANGED <<spec, disk, lock, remote, session, judged, history>>

(* Mutant: the deletes come in the order of creation. *)
DeleteChangesForward(res, S) ==
    LET order == OrderOf(S, Recorded(res))
    IN  [i \in 1 .. Len(order) |->
            [addr |-> order[i], action |-> "delete",
             id |-> res[order[i]].id, drift |-> FALSE]]

DeleteChanges(res, S) ==
    LET order == Reverse(OrderOf(S, Recorded(res)))
    IN  [i \in 1 .. Len(order) |->
            [addr |-> order[i], action |-> "delete",
             id |-> res[order[i]].id, drift |-> FALSE]]

(* Mutant: destroy deletes only what the module no longer declares. *)
LoadDestroyRemoved(p) ==
    /\ pc[p] = "load"
    /\ mem' = [mem EXCEPT ![p] = disk]
    /\ LET removed == Tracked(disk.res) \ mod[p].agents
       IN  /\ plan' = [plan EXCEPT ![p] = DeleteChanges(disk.res, removed)]
           /\ IF kind[p] = "destroy" THEN UNCHANGED todo
              ELSE todo' = [todo EXCEPT ![p] =
                                OrderOf(mod[p].agents, mod[p].deps)]
    /\ clean' = clean \cup {p}
    /\ Goto(p, "plan")
    /\ UNCHANGED <<spec, disk, lock, remote, kind, mod, judged, counters, foreign>>

(* state.Load, then the part of the plan that reads nothing remote: the     *)
(* deletes. BuildDestroyPlan deletes all that is tracked; BuildPlan deletes *)
(* what the module no longer declares and goes on to its agents.            *)
Load(p) ==
    /\ pc[p] = "load"
    /\ mem' = [mem EXCEPT ![p] = disk]
    /\ LET removed == Tracked(disk.res) \ mod[p].agents
       IN  IF kind[p] = "destroy"
           THEN /\ plan' = [plan EXCEPT ![p] =
                                DeleteChanges(disk.res, Tracked(disk.res))]
                /\ UNCHANGED todo
           ELSE /\ plan' = [plan EXCEPT ![p] = DeleteChanges(disk.res, removed)]
                /\ todo' = [todo EXCEPT ![p] =
                                OrderOf(mod[p].agents, mod[p].deps)]
    /\ clean' = clean \cup {p}
    /\ Goto(p, "plan")
    /\ UNCHANGED <<spec, disk, lock, remote, kind, mod, judged, counters, foreign>>

-----------------------------------------------------------------------------
(* BuildPlan: the agents, one remote read each. *)

PlanChange(p, c) ==
    /\ plan' = [plan EXCEPT ![p] = Append(@, c)]
    /\ todo' = [todo EXCEPT ![p] = Tail(@)]
    /\ UNCHANGED <<spec, disk, lock, remote, pc, kind, mod, mem, judged,
                   counters, history>>

Planning(p) == pc[p] = "plan" /\ todo[p] # <<>>
PlanAddr(p) == Head(todo[p])
PlanEntry(p) == mem[p].res[PlanAddr(p)]
PlanWants(p) == mod[p].cfg[PlanAddr(p)]

(* There is a remote object: it was created, and Read finds it. *)
HasRemote(p) == PlanEntry(p) # Untracked /\ Live(PlanEntry(p).id)

(* Mutant: a create is planned without asking Diff about it. *)
PlanCreateUnchecked(p) ==
    /\ Planning(p)
    /\ ~HasRemote(p)
    /\ PlanChange(p, [addr |-> PlanAddr(p), action |-> "create",
                      id |-> 0, drift |-> FALSE])

PlanCreate(p) ==
    /\ Planning(p)
    /\ PlanWants(p) \notin Inexpressible
    /\ ~HasRemote(p)
    /\ PlanChange(p, [addr |-> PlanAddr(p), action |-> "create",
                      id |-> 0, drift |-> FALSE])

(* Mutant: the last applied configuration decides, not the remote object. *)
PlanCompareApplied(p) ==
    /\ Planning(p)
    /\ PlanWants(p) \notin Inexpressible
    /\ HasRemote(p)
    /\ PlanChange(p, [addr   |-> PlanAddr(p),
                      action |-> IF PlanWants(p) = PlanEntry(p).cfg
                                 THEN "noop" ELSE "update",
                      id     |-> PlanEntry(p).id,
                      drift  |-> PlanEntry(p).cfg # remote[PlanEntry(p).id]])

(* The remote object exists: Diff(desired, remote) decides, and             *)
(* Diff(last applied, remote) reports drift.                                *)
PlanCompare(p) ==
    /\ Planning(p)
    /\ PlanWants(p) \notin Inexpressible
    /\ HasRemote(p)
    /\ LET now == remote[PlanEntry(p).id]
       IN  PlanChange(p, [addr   |-> PlanAddr(p),
                          action |-> IF PlanWants(p) = now THEN "noop" ELSE "update",
                          id     |-> PlanEntry(p).id,
                          drift  |-> PlanEntry(p).cfg # now])

(* Diff cannot render the desired configuration: the plan is abandoned. *)
PlanRejected(p) ==
    /\ Planning(p)
    /\ PlanWants(p) \in Inexpressible
    /\ Goto(p, "failed")
    /\ UNCHANGED <<spec, disk, lock, remote, session, judged, counters, history>>

(* Read fails: the plan is abandoned. *)
PlanReadFails(p) ==
    /\ Planning(p)
    /\ PlanEntry(p) # Untracked
    /\ Fault("remote")
    /\ Goto(p, "failed")
    /\ UNCHANGED <<spec, disk, lock, remote, session, judged, history>>

PlanDone(p) ==
    /\ pc[p] = "plan"
    /\ todo[p] = <<>>
    /\ Goto(p, IF kind[p] = "plan" THEN "done" ELSE "apply")
    /\ UNCHANGED <<spec, disk, lock, remote, session, judged, counters, history>>

-----------------------------------------------------------------------------
(* Apply: one change at a time. *)

Applying(p, action) ==
    pc[p] = "apply" /\ plan[p] # <<>> /\ Head(plan[p]).action = action

Subject(p) == Head(plan[p]).addr
SubjectId(p) == Head(plan[p]).id
Desired(p) == mod[p].cfg[Subject(p)]

(* stateEntry: the id, the configuration applied and the agents it depends  *)
(* on in the module now compiled.                                           *)
StateEntry(p, id) ==
    [id |-> id, cfg |-> Desired(p), deps |-> mod[p].deps[Subject(p)]]

Record(p, e) == mem' = [mem EXCEPT ![p].res[Subject(p)] = e]

Created(p) == Append(remote, Desired(p))
Updated(p) == [remote EXCEPT ![SubjectId(p)] = Desired(p)]
Deleted(p) == [remote EXCEPT ![SubjectId(p)] = Gone]

(* Mutant: the id of the planned change is recorded, not the new object's. *)
ApplyCreatePlannedId(p) ==
    /\ Applying(p, "create")
    /\ remote' = Created(p)
    /\ Record(p, StateEntry(p, SubjectId(p)))
    /\ Goto(p, "save")
    /\ UNCHANGED <<spec, disk, lock, kind, mod, todo, plan, judged, counters, history>>

ApplyCreate(p) ==
    /\ Applying(p, "create")
    /\ remote' = Created(p)
    /\ Record(p, StateEntry(p, Len(remote) + 1))
    /\ Goto(p, "save")
    /\ UNCHANGED <<spec, disk, lock, kind, mod, todo, plan, judged, counters, history>>

(* Mutant: the entry keeps the configuration applied before. *)
ApplyUpdateUnrecorded(p) ==
    /\ Applying(p, "update")
    /\ Live(SubjectId(p))
    /\ remote' = Updated(p)
    /\ foreign' = foreign \ {SubjectId(p)}
    /\ Goto(p, "save")
    /\ UNCHANGED <<spec, disk, lock, kind, mod, mem, todo, plan, judged, counters, clean>>

ApplyUpdate(p) ==
    /\ Applying(p, "update")
    /\ Live(SubjectId(p))
    /\ remote' = Updated(p)
    /\ Record(p, StateEntry(p, SubjectId(p)))
    /\ foreign' = foreign \ {SubjectId(p)}
    /\ Goto(p, "save")
    /\ UNCHANGED <<spec, disk, lock, kind, mod, todo, plan, judged, counters, clean>>

(* Mutant: the entry is marked and not removed. *)
ApplyDeleteMarks(p) ==
    /\ Applying(p, "delete")
    /\ remote' = Deleted(p)
    /\ Record(p, Gone)
    /\ Goto(p, "save")
    /\ UNCHANGED <<spec, disk, lock, kind, mod, todo, plan, judged, counters, history>>

(* Delete of an object already gone succeeds. *)
ApplyDelete(p) ==
    /\ Applying(p, "delete")
    /\ remote' = Deleted(p)
    /\ Record(p, Untracked)
    /\ Goto(p, "save")
    /\ UNCHANGED <<spec, disk, lock, kind, mod, todo, plan, judged, counters, history>>

(* A noop costs nothing unless the object drifted to what the module wants: *)
(* then the entry, recorded with another configuration, is refreshed.       *)
Stale(p) ==
    /\ mem[p].res[Subject(p)] # Untracked
    /\ Desired(p) # mem[p].res[Subject(p)].cfg

(* Mutant: a noop is passed over and stays in the plan. *)
ApplyNoopStays(p) ==
    /\ Applying(p, "noop")
    /\ Head(plan[p]).drift => ~Stale(p)
    /\ UNCHANGED vars

ApplyNoop(p) ==
    /\ Applying(p, "noop")
    /\ Head(plan[p]).drift => ~Stale(p)
    /\ plan' = [plan EXCEPT ![p] = Tail(@)]
    /\ UNCHANGED <<spec, disk, lock, remote, pc, kind, mod, mem, todo, judged,
                   counters, history>>

ApplyRefresh(p) ==
    /\ Applying(p, "noop")
    /\ Head(plan[p]).drift
    /\ Stale(p)
    /\ Record(p, StateEntry(p, mem[p].res[Subject(p)].id))
    /\ Goto(p, "save")
    /\ UNCHANGED <<spec, disk, lock, remote, kind, mod, todo, plan, judged,
                   counters, history>>

(* Update of an object deleted after the plan read it is an error. *)
ApplyUpdateMissing(p) ==
    /\ Applying(p, "update")
    /\ ~Live(SubjectId(p))
    /\ Goto(p, "failed")
    /\ UNCHANGED <<spec, disk, lock, remote, session, judged, counters, history>>

(* The remote call returns an error. The platform may have executed it all  *)
(* the same: the answer, not the request, was lost.                         *)
ApplyRemoteFails(p) ==
    /\ Fault("remote")
    /\ \/ Applying(p, "create") /\ remote' \in {remote, Created(p)} /\ UNCHANGED foreign
       \/ /\ Applying(p, "update") /\ Live(SubjectId(p))
          /\ \/ UNCHANGED <<remote, foreign>>
             \/ remote' = Updated(p) /\ foreign' = foreign \ {SubjectId(p)}
       \/ Applying(p, "delete") /\ remote' \in {remote, Deleted(p)} /\ UNCHANGED foreign
    /\ Goto(p, "failed")
    /\ UNCHANGED <<spec, disk, lock, session, judged, clean>>

(* Mutant: the serial does not move. *)
SaveSameSerial(p) ==
    /\ pc[p] = "save"
    /\ disk' = mem[p]
    /\ plan' = [plan EXCEPT ![p] = Tail(@)]
    /\ Goto(p, "apply")
    /\ UNCHANGED <<spec, lock, remote, kind, mod, mem, todo, judged, counters, history>>

(* File.Write: temporary file and rename; the serials move on success only. *)
Save(p) ==
    /\ pc[p] = "save"
    /\ disk' = [serial |-> mem[p].serial + 1, res |-> mem[p].res]
    /\ mem' = [mem EXCEPT ![p].serial = @ + 1]
    /\ plan' = [plan EXCEPT ![p] = Tail(@)]
    /\ Goto(p, "apply")
    /\ UNCHANGED <<spec, lock, remote, kind, mod, todo, judged, counters, history>>

SaveFails(p) ==
    /\ pc[p] = "save"
    /\ Fault("disk")
    /\ Goto(p, "failed")
    /\ UNCHANGED <<spec, disk, lock, remote, session, judged, history>>

ApplyDone(p) ==
    /\ pc[p] = "apply"
    /\ plan[p] = <<>>
    /\ Goto(p, "done")
    /\ UNCHANGED <<spec, disk, lock, remote, session, judged, counters, history>>

-----------------------------------------------------------------------------
(* The end of a command. *)

(* closePlatformJobs comes first: the lock is held until the plugins are    *)
(* closed, whether that returns an error or not.                            *)
ClosePlugins(p) ==
    /\ pc[p] \in {"done", "failed"}
    /\ Goto(p, "closed")
    /\ UNCHANGED <<spec, disk, lock, remote, session, judged, counters, history>>

(* Then releaseState removes the lock file, whatever process it names. *)
Release(p) ==
    /\ pc[p] = "closed"
    /\ lock' = NoProc
    /\ Exit(p)
    /\ clean' = clean \ {p}
    /\ UNCHANGED <<spec, disk, remote, judged, counters, foreign>>

(* The process dies (also by an interrupt, which no signal handler catches, *)
(* of a command that waits for its plugin), or cannot remove its lock file  *)
(* at the end, and leaves it behind.                                        *)
Crash(p) ==
    /\ InCS(p)
    /\ Fault("crash")
    /\ Exit(p)
    /\ clean' = clean \ {p}
    /\ UNCHANGED <<spec, disk, lock, remote, judged, foreign>>

-----------------------------------------------------------------------------
(* Everybody else. *)

(* Someone confirms that the process the lock file names has stopped ... *)
JudgeStale(o) ==
    /\ o \notin judged
    /\ lock # NoProc
    /\ ~InCS(lock)
    /\ judged' = judged \cup {o}
    /\ UNCHANGED <<spec, disk, lock, remote, pc, session, counters, history>>

(* ... and deletes the lock file, the way contentionError says. *)
DeleteLock(o) ==
    /\ o \in judged
    /\ judged' = judged \ {o}
    /\ lock' = NoProc
    /\ UNCHANGED <<spec, disk, remote, pc, session, counters, history>>

EditModule ==
    /\ Edit
    /\ \E m \in Modules \ {spec} : spec' = m
    /\ UNCHANGED <<disk, lock, remote, pc, session, judged, history>>

(* A remote object is changed or deleted outside Kastor. *)
RemoteEdit(id) ==
    /\ Edit
    /\ Live(id)
    /\ \E c \in (Config \cup {Gone}) \ {remote[id]} :
            remote' = [remote EXCEPT ![id] = c]
    /\ clean' = {}
    /\ foreign' = foreign \cup {id}
    /\ UNCHANGED <<spec, disk, lock, pc, session, judged>>

-----------------------------------------------------------------------------
Plan(p) ==
    \/ PlanCreate(p) \/ PlanCompare(p) \/ PlanRejected(p)
    \/ PlanReadFails(p) \/ PlanDone(p)

Apply(p) ==
    \/ ApplyCreate(p) \/ ApplyUpdate(p) \/ ApplyDelete(p)
    \/ ApplyNoop(p) \/ ApplyRefresh(p) \/ ApplyUpdateMissing(p)
    \/ ApplyRemoteFails(p) \/ Save(p) \/ SaveFails(p) \/ ApplyDone(p)

(* What a running command does by itself. *)
Step(p) ==
    \/ AcquireLock(p) \/ LockContended(p) \/ LockFails(p)
    \/ Load(p) \/ LoadFails(p)
    \/ Plan(p) \/ Apply(p) \/ ClosePlugins(p) \/ Release(p)

Command(p) == (\E k \in Kind : Start(p, k)) \/ Step(p) \/ Crash(p)

Environment ==
    \/ \E o \in Operator : JudgeStale(o) \/ DeleteLock(o)
    \/ EditModule
    \/ \E id \in 1 .. Len(remote) : RemoteEdit(id)

Next == (\E p \in Proc : Command(p)) \/ Environment

Spec == Init /\ [][Next]_vars

(* The command is in a call to its plugin: a Read, Create, Update, Delete   *)
(* or Diff, or Close. Their contexts never end and nothing limits them in   *)
(* time, so while a command is here it may stay here.                       *)
AwaitsPlugin(p) ==
    \/ Planning(p)
    \/ /\ pc[p] = "apply" /\ plan[p] # <<>>
       /\ Head(plan[p]).action = "noop" => Head(plan[p]).drift
    \/ pc[p] \in {"done", "failed"}

(***************************************************************************)
(* Fairness: a command goes on when it is not waiting for its plugin, and  *)
(* operators get round to stale lock files. Nothing is assumed of plugins. *)
(* Contention is an error and not a wait, nothing in the code queues for   *)
(* the lock: so it is the users who are assumed to re-run apply, now and   *)
(* then when nobody holds the lock, until it gets it.                      *)
(***************************************************************************)
Fairness ==
    /\ \A p \in Proc :
          /\ WF_vars(~AwaitsPlugin(p) /\ Step(p))
          /\ SF_vars(lock = NoProc /\ Start(p, "apply"))
          /\ SF_vars(kind[p] = "apply" /\ AcquireLock(p))
    /\ \A o \in Operator : WF_vars(JudgeStale(o)) /\ WF_vars(DeleteLock(o))

FairSpec == Spec /\ Fairness

-----------------------------------------------------------------------------
(* Types. *)

(* The variables range over what the Go types hold: a state entry has a     *)
(* numbered id, a configuration and a set of dependencies; the lock file    *)
(* names a process.                                                         *)
TypeOK ==
    /\ spec \in Modules
    /\ disk \in StateFile
    /\ lock \in Proc \cup {NoProc}
    /\ remote \in Seq(Config \cup {Gone})
    /\ pc \in [Proc -> {"idle", "lock", "load", "plan", "apply", "save",
                        "done", "failed", "closed"}]
    /\ kind \in [Proc -> Kind]
    /\ mod \in [Proc -> Modules]
    /\ mem \in [Proc -> StateFile]
    /\ todo \in [Proc -> Seq(Addr)]
    /\ plan \in [Proc -> Seq(Change)]
    /\ judged \subseteq Operator
    /\ edits \in 0 .. MaxEdits
    /\ faults \in 0 .. MaxFaults
    /\ clean \subseteq Proc
    /\ foreign \subseteq Nat

-----------------------------------------------------------------------------
(* Safety. *)

(* At most one command is between state.Lock and its release: "a local lock *)
(* file while inspecting or mutating state" (SPEC.md:595), crashes and      *)
(* manual removal of stale lock files included.                             *)
MutualExclusion ==
    \A p, q \in Proc : InCS(p) /\ InCS(q) => p = q

(* No lost update: what a command holds of the state file is the file, save *)
(* for the one entry it is about to write. Write itself never compares      *)
(* serials, so only the lock makes this so.                                 *)
SnapshotCurrent ==
    \A p \in Proc : Loaded(p) =>
        /\ mem[p].serial = disk.serial
        /\ \A a \in Addr : mem[p].res[a] # disk.res[a] =>
              pc[p] = "save" /\ plan[p] # <<>> /\ a = Subject(p)

(* No two addresses map to one remote object, in the file or in memory.     *)
IdsUnique ==
    \A f \in {disk} \cup {mem[p] : p \in Proc} : \A a, b \in Tracked(f.res) :
        /\ f.res[a].id \in 1 .. Len(remote)
        /\ a # b => f.res[a].id # f.res[b].id

(* A remote object nobody can find again: alive, not in the state file and  *)
(* not in the memory of a command that is about to save it.                 *)
Orphans ==
    {id \in 1 .. Len(remote) :
        /\ Live(id)
        /\ \A a \in Tracked(disk.res) : disk.res[a].id # id
        /\ ~ \E p \in Proc : /\ pc[p] = "save"
                             /\ \E a \in Tracked(mem[p].res) : mem[p].res[a].id = id}

(* Each crash, lost answer or failed write orphans at most one object, and  *)
(* without one there is no orphan: saving after every change (apply.go:28)  *)
(* bounds the loss.                                                         *)
OrphansBoundedByFaults == Cardinality(Orphans) <= faults

(* Ids in the file stand for one object each, and no object is lost that no *)
(* fault has lost (apply.go:28, :61).                                       *)
ObjectsTracked == IdsUnique /\ OrphansBoundedByFaults

(* What the comparison finds for the agent a of p's module: p's own copy of *)
(* the state, and the remote object, are as the module wants them.          *)
InSync(p, a) ==
    /\ mem[p].res[a] # Untracked
    /\ mem[p].res[a].cfg = mod[p].cfg[a]
    /\ remote[mem[p].res[a].id] = mod[p].cfg[a]

(* A successful apply leaves state file and platform as its module wants    *)
(* them, if nobody changed remote objects meanwhile (apply.go:18,           *)
(* "until the platform matches the spec").                                  *)
ApplyConverges ==
    \A p \in Proc : pc[p] = "done" /\ kind[p] = "apply" /\ p \in clean =>
        /\ mem[p] = disk
        /\ Tracked(disk.res) = mod[p].agents
        /\ \A a \in mod[p].agents : InSync(p, a)

(* Whatever is left of the plan is exactly what is left to do: an agent in  *)
(* sync is never written again, so a second apply is free, and one that is  *)
(* not in sync is still in the plan ("re-running plans only the             *)
(* remainder", apply.go:18).                                                *)
PlanIsRemainder ==
    \A p \in Proc : pc[p] = "apply" /\ kind[p] = "apply" /\ p \in clean =>
        \A a \in Addr :
            LET mine == {i \in 1 .. Len(plan[p]) : plan[p][i].addr = a}
            IN  (\E i \in mine : plan[p][i].action # "noop" \/ plan[p][i].drift)
                <=> IF a \in mod[p].agents THEN ~InSync(p, a)
                    ELSE mem[p].res[a] # Untracked

(* A successful destroy leaves nothing tracked and none of what the state   *)
(* tracked alive, even if objects were changed or deleted meanwhile.        *)
DestroyEmptiesState ==
    \A p \in Proc : pc[p] = "done" /\ kind[p] = "destroy" =>
        /\ Tracked(disk.res) = {}
        /\ Cardinality({id \in 1 .. Len(remote) : Live(id)}) <= faults

(* A command that reports success has done all it was asked for, whatever   *)
(* crashed before it and whatever changed meanwhile (apply.go:18).          *)
SuccessSettles == ApplyConverges /\ DestroyEmptiesState

(* When an agent is created or updated, the agents it depends on are        *)
(* already tracked, and exist if nobody deleted them meanwhile.             *)
DependenciesExist ==
    \A p \in Proc : pc[p] = "save" /\ Head(plan[p]).action # "delete" =>
        \A d \in mod[p].deps[Subject(p)] :
            /\ mem[p].res[d] # Untracked
            /\ p \in clean => Live(mem[p].res[d].id)

(* A planned delete never comes before that of an agent recorded as         *)
(* depending on it, unless the recorded dependencies go round in a circle.  *)
DeletesRespectDependencies ==
    \A p \in Proc : pc[p] = "apply" =>
        \A i, j \in 1 .. Len(plan[p]) :
            /\ i < j
            /\ plan[p][i].action = "delete" /\ plan[p][j].action = "delete"
            /\ plan[p][i].addr \in mem[p].res[plan[p][j].addr].deps
            => ~Acyclic(Tracked(mem[p].res), Recorded(mem[p].res))

(* Agents come after those they depend on, and go before them, through the  *)
(* module's versions and what earlier applies recorded (plan.go:217, :283). *)
DependenciesRespected == DependenciesExist /\ DeletesRespectDependencies

(* Plan does not green-light what apply would reject (plan.go:243): no      *)
(* change is executed for a module with an agent the platform cannot        *)
(* express, not even of its other agents.                                   *)
RejectedModuleUntouched ==
    \A p \in Proc : pc[p] \in {"apply", "save"} /\ kind[p] = "apply" =>
        \A a \in mod[p].agents : mod[p].cfg[a] \notin Inexpressible

(* What a command carries out is what is left to do of a module that can be *)
(* carried out: no change twice, none left out, none of half a module.      *)
PlanIsExact == PlanIsRemainder /\ RejectedModuleUntouched

(* Drift is reported only for an object whose content was indeed written    *)
(* outside Kastor ("remote changed outside kastor", SPEC.md:620). A crash   *)
(* between Update and save breaks it.                                       *)
DriftReportsTrue ==
    \A p \in Proc : pc[p] = "plan" /\ p \in clean =>
        \A i \in 1 .. Len(plan[p]) :
            plan[p][i].drift => plan[p][i].id \in foreign

(* Without faults, every drift report is true (plan.go:99): Kastor never    *)
(* takes its own writes for somebody else's, whatever changed before.       *)
DriftIsForeign == faults = 0 => DriftReportsTrue

-----------------------------------------------------------------------------
(* Refinement. *)

(* The client of the store: the command that is past the lock file. *)
Holder == IF lock # NoProc /\ InCS(lock) THEN lock ELSE NoProc

(* Its operation: executed and recorded in memory, not yet written. *)
Pending ==
    IF Holder # NoProc /\ pc[Holder] = "save"
    THEN [addr |-> Subject(Holder), value |-> mem[Holder].res[Subject(Holder)]]
    ELSE NoProc

Store == INSTANCE StateStore WITH
            Client <- Proc, NoClient <- NoProc,
            Value <- Entry \cup {Untracked}, Blank <- Untracked,
            Nothing <- NoProc,
            file <- disk, holder <- Holder, pending <- Pending

(* The commands implement the store: the file is written one executed       *)
(* change at a time by the one command that is past the lock, each write    *)
(* builds on the file as it is and adds one to the serial (state.go:29),    *)
(* and a crash or a failed write loses one change at most.                  *)
ImplementsStore == Store!Spec

-----------------------------------------------------------------------------
(* Liveness. *)

(* p's plugin answers every call in the end, or p is killed while waiting.  *)
PluginAnswers(p) == []<>~AwaitsPlugin(p)

(* A command that took the lock lets go of it, by releasing it or by dying, *)
(* however its reads, changes and saves went: only a plugin that leaves a   *)
(* call or its Close without an answer keeps the lock (platform.go:80).     *)
LockIsReleased == \A p \in Proc : PluginAnswers(p) => (InCS(p) ~> ~InCS(p))

(* If no plugin keeps a command waiting for ever, re-running apply          *)
(* converges whatever crashes, failures and edits came before: in the end   *)
(* the platform matches the module for good, provided the provider can      *)
(* express it (apply.go:18).                                                *)
EventuallyConverges ==
    (\A p \in Proc : PluginAnswers(p)) =>
        <>[](\/ \E a \in spec.agents : spec.cfg[a] \in Inexpressible
             \/ /\ Tracked(disk.res) = spec.agents
                /\ \A a \in spec.agents : remote[disk.res[a].id] = spec.cfg[a])
=============================================================================
