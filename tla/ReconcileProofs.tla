--------------------------- MODULE ReconcileProofs ---------------------------
(***************************************************************************)
(* Theorems about Reconcile, for any number of processes, addresses, module *)
(* versions, edits and faults. First the state file and its lock, then what *)
(* plan and apply make of the state file and of the platform.              *)
(***************************************************************************)
EXTENDS Reconcile, SequenceTheorems, FiniteSetTheorems, TLAPS

(* The deletes of a plan are a sequence of changes. *)
LEMMA DeleteChangesType ==
    ASSUME NEW f \in StateFile, NEW S \in SUBSET Tracked(f.res)
    PROVE  DeleteChanges(f.res, S) \in Seq(Change)
<1>1. Recorded(f.res) \in [Addr -> SUBSET Addr]
    BY DEF StateFile, Recorded, Entry
<1>2. OrderOf(S, Recorded(f.res)) \in Seq(S)
    BY <1>1, OrderAssumption DEF Tracked
<1> DEFINE order == Reverse(OrderOf(S, Recorded(f.res)))
<1>3. order \in Seq(S)
    BY <1>2 DEF Reverse
<1>4. \A i \in 1 .. Len(order) :
        [addr |-> order[i], action |-> "delete",
         id |-> f.res[order[i]].id, drift |-> FALSE] \in Change
    BY <1>3 DEF Change, Action, Tracked, StateFile, Entry
<1>5. QED
    BY <1>3, <1>4 DEF DeleteChanges

(* A missing state file is an empty one (state.Load). *)
LEMMA EmptyFileType == EmptyFile \in StateFile
    BY DEF EmptyFile, StateFile

(* A process that ends is back to its initial state. *)
LEMMA ExitType ==
    ASSUME TypeOK, NEW p \in Proc, Exit(p)
    PROVE  /\ pc' \in [Proc -> {"idle", "lock", "load", "plan", "apply", "save",
                                "done", "failed", "closed"}]
           /\ kind' \in [Proc -> Kind]
           /\ mod' \in [Proc -> Modules]
           /\ mem' \in [Proc -> StateFile]
           /\ todo' \in [Proc -> Seq(Addr)]
           /\ plan' \in [Proc -> Seq(Change)]
    BY EmptyFileType, ModulesAssumption DEF TypeOK, Exit, Goto, Kind

(* The change at the head of a plan, the one Apply executes next. *)
LEMMA SubjectType ==
    ASSUME TypeOK, NEW p \in Proc, plan[p] # <<>>
    PROVE  /\ Head(plan[p]) \in Change /\ Tail(plan[p]) \in Seq(Change)
           /\ Subject(p) \in Addr
<1>1. plan[p] \in Seq(Change)
    BY DEF TypeOK
<1>2. Head(plan[p]) \in Change /\ Tail(plan[p]) \in Seq(Change)
    BY <1>1, HeadTailProperties
<1>3. QED
    BY <1>2 DEF Subject, Change

(* What Apply records is a state file again. *)
LEMMA RecordType ==
    ASSUME TypeOK, NEW p \in Proc, plan[p] # <<>>,
           NEW e \in Entry \cup {Untracked}, Record(p, e)
    PROVE  mem' \in [Proc -> StateFile]
<1>1. Subject(p) \in Addr
    BY SubjectType
<1>2. mem[p] \in StateFile
    BY DEF TypeOK
<1>3. [mem[p].res EXCEPT ![Subject(p)] = e] \in [Addr -> Entry \cup {Untracked}]
    BY <1>1, <1>2 DEF StateFile
<1>4. [mem[p] EXCEPT !.res = [mem[p].res EXCEPT ![Subject(p)] = e]] \in StateFile
    BY <1>2, <1>3 DEF StateFile
<1>5. QED
    BY <1>4 DEF Record, TypeOK

(* stateEntry makes an entry of the state file. *)
LEMMA StateEntryType ==
    ASSUME TypeOK, NEW p \in Proc, plan[p] # <<>>, NEW id \in Nat
    PROVE  StateEntry(p, id) \in Entry
<1>1. Subject(p) \in Addr
    BY SubjectType
<1>2. mod[p] \in Module
    BY ModulesAssumption DEF TypeOK
<1>3. QED
    BY <1>1, <1>2 DEF StateEntry, Desired, Entry, Module

(* What Apply sends is a configuration of the module. *)
LEMMA DesiredType ==
    ASSUME TypeOK, NEW p \in Proc, plan[p] # <<>>
    PROVE  Desired(p) \in Config
<1>1. Subject(p) \in Addr
    BY SubjectType
<1>2. QED
    BY <1>1, ModulesAssumption DEF TypeOK, Desired, Module

(* What the remote objects may become: again objects. *)
LEMMA RemoteType ==
    ASSUME TypeOK, NEW p \in Proc, plan[p] # <<>>
    PROVE  /\ Created(p) \in Seq(Config \cup {Gone})
           /\ Updated(p) \in Seq(Config \cup {Gone})
           /\ Deleted(p) \in Seq(Config \cup {Gone})
<1>1. remote \in Seq(Config \cup {Gone}) /\ Desired(p) \in Config
    BY DesiredType DEF TypeOK
<1>2. Created(p) \in Seq(Config \cup {Gone})
    BY <1>1 DEF Created
<1>3. ASSUME NEW o, o \in [1 .. Len(remote) -> Config \cup {Gone}]
      PROVE  o \in Seq(Config \cup {Gone})
    BY <1>1, <1>3
<1>4. remote \in [1 .. Len(remote) -> Config \cup {Gone}]
    BY <1>1
<1>5. Updated(p) \in Seq(Config \cup {Gone})
    <2>1. Updated(p) \in [1 .. Len(remote) -> Config \cup {Gone}]
        BY <1>1, <1>4, Zenon DEF Updated
    <2>2. QED
        BY <1>3, <2>1
<1>6. Deleted(p) \in Seq(Config \cup {Gone})
    <2>1. Deleted(p) \in [1 .. Len(remote) -> Config \cup {Gone}]
        BY <1>4, Zenon DEF Deleted
    <2>2. QED
        BY <1>3, <2>1
<1>7. QED
    BY <1>2, <1>5, <1>6

-----------------------------------------------------------------------------
(* TypeOK, action by action. *)

(* The initial state has the right types. *)
LEMMA InitType == Init => TypeOK
    BY EmptyFileType, ModulesAssumption, BoundsAssumption
    DEF Init, TypeOK, Kind, EmptyFile, StateFile

(* Starting a command keeps the types. *)
LEMMA StartType ==
    ASSUME TypeOK, NEW p \in Proc, NEW k \in Kind, Start(p, k)
    PROVE  TypeOK'
    BY BoundsAssumption
    DEF TypeOK, Start, Goto, Edit, counters, history

(* So do the three outcomes of state.Lock, *)
LEMMA LockType ==
    ASSUME TypeOK, NEW p \in Proc,
           AcquireLock(p) \/ LockContended(p) \/ LockFails(p)
    PROVE  TypeOK'
<1>1. CASE AcquireLock(p)
    BY <1>1 DEF AcquireLock, TypeOK, Goto, session, counters, history
<1>2. CASE LockContended(p)
    BY <1>2, ExitType DEF LockContended, TypeOK, counters, history
<1>3. CASE LockFails(p)
    BY <1>3, ExitType, BoundsAssumption DEF LockFails, Fault, TypeOK, history
<1>4. QED
    BY <1>1, <1>2, <1>3

(* state.Load, with the deletes that open a plan, and its failure, *)
LEMMA LoadType ==
    ASSUME TypeOK, NEW p \in Proc, Load(p) \/ LoadFails(p)
    PROVE  TypeOK'
<1>1. mod[p] \in Module /\ disk \in StateFile
    BY ModulesAssumption DEF TypeOK
<1>2. OrderOf(mod[p].agents, mod[p].deps) \in Seq(Addr)
    <2>1. OrderOf(mod[p].agents, mod[p].deps) \in Seq(mod[p].agents)
        BY <1>1, OrderAssumption DEF Module
    <2>2. mod[p].agents \in SUBSET Addr
        BY <1>1 DEF Module
    <2>3. QED
        BY <2>1, <2>2
<1>3. /\ DeleteChanges(disk.res, Tracked(disk.res)) \in Seq(Change)
      /\ DeleteChanges(disk.res, Tracked(disk.res) \ mod[p].agents) \in Seq(Change)
    BY <1>1, DeleteChangesType DEF Tracked
<1>4. CASE Load(p)
    <2>1. todo' \in [Proc -> Seq(Addr)]
        BY <1>2, <1>4 DEF Load, TypeOK
    <2>2. plan' \in [Proc -> Seq(Change)]
        BY <1>3, <1>4 DEF Load, TypeOK
    <2>3. mem' \in [Proc -> StateFile]
        BY <1>1, <1>4 DEF Load, TypeOK
    <2>4. QED
        BY <1>4, <2>1, <2>2, <2>3 DEF Load, TypeOK, Goto, counters
<1>5. CASE LoadFails(p)
    BY <1>5, BoundsAssumption DEF LoadFails, Fault, TypeOK, Goto, session, history
<1>6. QED
    BY <1>4, <1>5

(* a change that BuildPlan appends to the plan, *)
LEMMA PlanChangeType ==
    ASSUME TypeOK, NEW p \in Proc, Planning(p), NEW c \in Change, PlanChange(p, c)
    PROVE  TypeOK'
<1>1. todo[p] \in Seq(Addr) /\ todo[p] # <<>> /\ plan[p] \in Seq(Change)
    BY DEF TypeOK, Planning
<1>2. Tail(todo[p]) \in Seq(Addr)
    BY <1>1, HeadTailProperties
<1>3. Append(plan[p], c) \in Seq(Change)
    BY <1>1
<1>4. QED
    BY <1>2, <1>3 DEF PlanChange, TypeOK, counters, history

(* each outcome of BuildPlan for an agent, *)
LEMMA PlanType ==
    ASSUME TypeOK, NEW p \in Proc, Plan(p)
    PROVE  TypeOK'
<1>1. ASSUME Planning(p)
      PROVE  PlanAddr(p) \in Addr
    BY <1>1, HeadTailProperties DEF TypeOK, Planning, PlanAddr
<1>2. CASE PlanCreate(p)
    <2>1. [addr |-> PlanAddr(p), action |-> "create",
           id |-> 0, drift |-> FALSE] \in Change
        BY <1>1, <1>2 DEF PlanCreate, Change, Action
    <2>2. QED
        BY <1>2, <2>1, PlanChangeType DEF PlanCreate
<1>3. CASE PlanCompare(p)
    <2> DEFINE now == remote[PlanEntry(p).id]
               c == [addr   |-> PlanAddr(p),
                     action |-> IF PlanWants(p) = now THEN "noop" ELSE "update",
                     id     |-> PlanEntry(p).id,
                     drift  |-> PlanEntry(p).cfg # now]
    <2>1. PlanEntry(p).id \in Nat
        <3>1. PlanAddr(p) \in Addr /\ PlanEntry(p) # Untracked
            BY <1>1, <1>3 DEF PlanCompare, HasRemote
        <3>2. QED
            BY <3>1 DEF PlanEntry, TypeOK, StateFile, Entry
    <2>2. c \in Change
        BY <1>1, <1>3, <2>1 DEF PlanCompare, Change, Action
    <2>3. PlanChange(p, c) /\ Planning(p)
        BY <1>3 DEF PlanCompare
    <2>4. QED
        BY <2>2, <2>3, PlanChangeType
<1>4. CASE PlanRejected(p)
    BY <1>4 DEF PlanRejected, TypeOK, Goto, session, counters, history
<1>5. CASE PlanReadFails(p)
    BY <1>5, BoundsAssumption
    DEF PlanReadFails, Fault, TypeOK, Goto, session, history
<1>6. CASE PlanDone(p)
    BY <1>6 DEF PlanDone, TypeOK, Goto, session, counters, history
<1>7. QED
    BY <1>2, <1>3, <1>4, <1>5, <1>6 DEF Plan

(* the creation of an agent, *)
LEMMA ApplyCreateType ==
    ASSUME TypeOK, NEW p \in Proc, ApplyCreate(p)
    PROVE  TypeOK'
<1>1. plan[p] # <<>> /\ Len(remote) + 1 \in Nat
    BY DEF ApplyCreate, Applying, TypeOK
<1>2. mem' \in [Proc -> StateFile]
    BY <1>1, StateEntryType, RecordType DEF ApplyCreate
<1>3. remote' \in Seq(Config \cup {Gone})
    BY <1>1, RemoteType DEF ApplyCreate
<1>4. QED
    BY <1>2, <1>3 DEF ApplyCreate, TypeOK, Goto, counters, history

(* its update, *)
LEMMA ApplyUpdateType ==
    ASSUME TypeOK, NEW p \in Proc, ApplyUpdate(p)
    PROVE  TypeOK'
<1>1. plan[p] # <<>> /\ SubjectId(p) \in Nat
    BY SubjectType DEF ApplyUpdate, Applying, SubjectId, Change
<1>2. mem' \in [Proc -> StateFile]
    BY <1>1, StateEntryType, RecordType DEF ApplyUpdate
<1>3. remote' \in Seq(Config \cup {Gone})
    BY <1>1, RemoteType DEF ApplyUpdate
<1>4. QED
    BY <1>2, <1>3 DEF ApplyUpdate, TypeOK, Goto, counters

(* its deletion, *)
LEMMA ApplyDeleteType ==
    ASSUME TypeOK, NEW p \in Proc, ApplyDelete(p)
    PROVE  TypeOK'
<1>1. plan[p] # <<>>
    BY DEF ApplyDelete, Applying
<1>2. mem' \in [Proc -> StateFile]
    BY <1>1, RecordType DEF ApplyDelete
<1>3. remote' \in Seq(Config \cup {Gone})
    BY <1>1, RemoteType DEF ApplyDelete
<1>4. QED
    BY <1>2, <1>3 DEF ApplyDelete, TypeOK, Goto, counters, history

(* a no-op, whether or not it refreshes the entry, *)
LEMMA ApplyNoopType ==
    ASSUME TypeOK, NEW p \in Proc, ApplyNoop(p) \/ ApplyRefresh(p)
    PROVE  TypeOK'
<1>1. plan[p] # <<>>
    BY DEF ApplyNoop, ApplyRefresh, Applying
<1>2. CASE ApplyNoop(p)
    BY <1>1, <1>2, SubjectType DEF ApplyNoop, TypeOK, counters, history
<1>3. CASE ApplyRefresh(p)
    <2>1. mem[p].res[Subject(p)].id \in Nat
        <3>1. Subject(p) \in Addr /\ mem[p].res[Subject(p)] # Untracked
            BY <1>1, <1>3, SubjectType DEF ApplyRefresh, Stale
        <3>2. QED
            BY <3>1 DEF TypeOK, StateFile, Entry
    <2>2. mem' \in [Proc -> StateFile]
        BY <1>1, <1>3, <2>1, StateEntryType, RecordType DEF ApplyRefresh
    <2>3. QED
        BY <1>3, <2>2 DEF ApplyRefresh, TypeOK, Goto, counters, history
<1>4. QED
    BY <1>2, <1>3

(* a change or a save that fails, *)
LEMMA ApplyFailsType ==
    ASSUME TypeOK, NEW p \in Proc,
           ApplyUpdateMissing(p) \/ ApplyRemoteFails(p) \/ SaveFails(p)
    PROVE  TypeOK'
<1>1. CASE ApplyUpdateMissing(p)
    BY <1>1 DEF ApplyUpdateMissing, TypeOK, Goto, session, counters, history
<1>2. CASE ApplyRemoteFails(p)
    <2>1. plan[p] # <<>>
        BY <1>2 DEF ApplyRemoteFails, Applying
    <2>2. remote' \in Seq(Config \cup {Gone})
        BY <1>2, <2>1, RemoteType DEF ApplyRemoteFails, TypeOK
    <2>3. foreign' \subseteq Nat
        BY <1>2 DEF ApplyRemoteFails, TypeOK
    <2>4. QED
        BY <1>2, <2>2, <2>3, BoundsAssumption
        DEF ApplyRemoteFails, Fault, TypeOK, Goto, session
<1>3. CASE SaveFails(p)
    BY <1>3, BoundsAssumption DEF SaveFails, Fault, TypeOK, Goto, session, history
<1>4. QED
    BY <1>1, <1>2, <1>3

(* File.Write, *)
LEMMA SaveType ==
    ASSUME TypeOK, NEW p \in Proc, plan[p] # <<>>, Save(p)
    PROVE  TypeOK'
<1>1. mem[p] \in StateFile
    BY DEF TypeOK
<1>2. [serial |-> mem[p].serial + 1, res |-> mem[p].res] \in StateFile
    BY <1>1 DEF StateFile
<1>3. [mem[p] EXCEPT !.serial = mem[p].serial + 1] \in StateFile
    BY <1>1 DEF StateFile
<1>4. QED
    BY <1>2, <1>3, SubjectType DEF Save, TypeOK, Goto, counters, history

(* A command about to save has a change to save. *)
Working == \A p \in Proc : pc[p] = "save" => plan[p] # <<>>

(* hence any step of Apply, *)
LEMMA ApplyStepType ==
    ASSUME TypeOK, Working, NEW p \in Proc, Apply(p)
    PROVE  TypeOK'
<1>1. CASE Save(p)
    BY <1>1, SaveType DEF Working, Save
<1>2. CASE ApplyDone(p)
    BY <1>2 DEF ApplyDone, TypeOK, Goto, session, counters, history
<1>3. QED
    BY <1>1, <1>2, ApplyCreateType, ApplyUpdateType, ApplyDeleteType,
       ApplyNoopType, ApplyFailsType DEF Apply

(* the end of a command, *)
LEMMA EndType ==
    ASSUME TypeOK, NEW p \in Proc, ClosePlugins(p) \/ Release(p) \/ Crash(p)
    PROVE  TypeOK'
<1>1. CASE Release(p)
    BY <1>1, ExitType DEF Release, TypeOK, counters
<1>2. CASE Crash(p)
    BY <1>2, ExitType, BoundsAssumption DEF Crash, Fault, TypeOK
<1>3. CASE ClosePlugins(p)
    BY <1>3 DEF ClosePlugins, TypeOK, Goto, session, counters, history
<1>4. QED
    BY <1>1, <1>2, <1>3

(* hence any step of a command, *)
LEMMA CommandType ==
    ASSUME TypeOK, Working, NEW p \in Proc, Command(p)
    PROVE  TypeOK'
    BY StartType, LockType, LoadType, PlanType, ApplyStepType, EndType
    DEF Command, Step

(* and what users, operators and the platform do. *)
LEMMA EnvironmentType ==
    ASSUME TypeOK, Environment
    PROVE  TypeOK'
<1>1. ASSUME NEW o \in Operator, JudgeStale(o) \/ DeleteLock(o)
      PROVE  TypeOK'
    BY <1>1 DEF JudgeStale, DeleteLock, TypeOK, session, counters, history
<1>2. CASE EditModule
    BY <1>2, BoundsAssumption DEF EditModule, Edit, TypeOK, session, history
<1>3. ASSUME NEW id \in 1 .. Len(remote), RemoteEdit(id)
      PROVE  TypeOK'
    <2>1. remote' \in Seq(Config \cup {Gone})
        BY <1>3, ExceptSeq DEF RemoteEdit, TypeOK
    <2>2. id \in Nat
        BY DEF TypeOK
    <2>3. QED
        BY <1>3, <2>1, <2>2, BoundsAssumption
        DEF RemoteEdit, Edit, TypeOK, session
<1>4. QED
    BY <1>1, <1>2, <1>3 DEF Environment

-----------------------------------------------------------------------------
(* A command touches its own session only. *)

(* A command leaves the memory of the others alone. *)
LEMMA CommandFrame ==
    ASSUME TypeOK, NEW p \in Proc, Command(p), NEW q \in Proc \ {p}
    PROVE  /\ pc'[q] = pc[q] /\ kind'[q] = kind[q] /\ mod'[q] = mod[q]
           /\ mem'[q] = mem[q] /\ todo'[q] = todo[q] /\ plan'[q] = plan[q]
<1> USE DEF TypeOK, Goto, Exit, session
<1>1. ASSUME NEW k \in Kind, Start(p, k)
      PROVE  /\ pc'[q] = pc[q] /\ kind'[q] = kind[q] /\ mod'[q] = mod[q]
             /\ mem'[q] = mem[q] /\ todo'[q] = todo[q] /\ plan'[q] = plan[q]
    BY <1>1 DEF Start
<1>2. CASE \/ AcquireLock(p) \/ LockContended(p) \/ LockFails(p)
           \/ Load(p) \/ LoadFails(p) \/ ClosePlugins(p) \/ Release(p) \/ Crash(p)
    BY <1>2 DEF AcquireLock, LockContended, LockFails, Load, LoadFails,
                ClosePlugins, Release, Crash
<1>3. CASE Plan(p)
    BY <1>3 DEF Plan, PlanCreate, PlanCompare, PlanRejected, PlanReadFails,
                PlanDone, PlanChange
<1>4. CASE Apply(p)
    BY <1>4 DEF Apply, ApplyCreate, ApplyUpdate, ApplyDelete, ApplyNoop,
                ApplyRefresh, ApplyUpdateMissing, ApplyRemoteFails, Save,
                SaveFails, ApplyDone, Record
<1>5. QED
    BY <1>1, <1>2, <1>3, <1>4 DEF Command, Step

(* The environment leaves all commands and the state file alone. *)
LEMMA EnvironmentFrame ==
    Environment => UNCHANGED <<pc, session, disk>>
    BY DEF Environment, JudgeStale, DeleteLock, EditModule, RemoteEdit

(* A command that saves is executing a change. *)
LEMMA WorkingStep ==
    ASSUME TypeOK, Working, [Next]_vars
    PROVE  Working'
<1>1. ASSUME NEW p \in Proc, Command(p), pc'[p] = "save"
      PROVE  plan'[p] # <<>>
    <2>1. CASE Apply(p)
        BY <1>1, <2>1
        DEF Apply, ApplyCreate, ApplyUpdate, ApplyDelete, ApplyNoop, ApplyRefresh,
            ApplyUpdateMissing, ApplyRemoteFails, Save, SaveFails, ApplyDone,
            Applying, Goto, TypeOK
    <2>2. CASE Plan(p)
        BY <1>1, <2>2
        DEF Plan, Planning, PlanCreate, PlanCompare, PlanRejected, PlanReadFails,
            PlanDone, PlanChange, Goto, TypeOK
    <2>3. QED
        BY <1>1, <2>1, <2>2
        DEF Command, Step, Start, AcquireLock, LockContended, LockFails, Load,
            LoadFails, ClosePlugins, Release, Crash, Exit, Goto, TypeOK
<1>2. ASSUME NEW p \in Proc, Command(p)
      PROVE  Working'
    BY <1>1, <1>2, CommandFrame DEF Working
<1>3. CASE Environment
    BY <1>3, EnvironmentFrame DEF Working, session
<1>4. CASE UNCHANGED vars
    BY <1>4 DEF vars, session, Working
<1>5. QED
    BY <1>2, <1>3, <1>4 DEF Next

(* The types hold in every state (TypeOK), and with them Working. *)
THEOREM TypeCorrect == Spec => [](TypeOK /\ Working)
<1>1. Init => TypeOK /\ Working
    BY InitType DEF Init, Working
<1>2. TypeOK /\ Working /\ [Next]_vars => TypeOK' /\ Working'
    <2> SUFFICES ASSUME TypeOK, Working, [Next]_vars
                 PROVE  TypeOK' /\ Working'
        OBVIOUS
    <2>1. TypeOK'
        <3>1. CASE UNCHANGED vars
            BY <3>1 DEF vars, session, counters, history, TypeOK
        <3>2. QED
            BY <3>1, CommandType, EnvironmentType DEF Next
    <2>2. QED
        BY <2>1, WorkingStep
<1>3. QED
    BY <1>1, <1>2, PTL DEF Spec

-----------------------------------------------------------------------------
(***************************************************************************)
(* Mutual exclusion. Only the process the lock file names can be past it,  *)
(* and an operator about to delete the file judged it rightly. The second  *)
(* half is what needs a single operator: with two, the first may delete    *)
(* the stale file and a command take the lock before the second deletes.   *)
(***************************************************************************)
SingleOperator == \A o1, o2 \in Operator : o1 = o2

LockInv ==
    /\ \A p \in Proc : InCS(p) => lock = p
    /\ judged # {} => lock # NoProc /\ ~InCS(lock)

(* Nobody is past the lock at first. *)
LEMMA LockInvInit == Init => LockInv
    BY DEF Init, LockInv, InCS

(* Where a step leaves a command, as far as the lock is concerned. *)
LEMMA StepsPastLock ==
    ASSUME TypeOK, NEW p \in Proc, Command(p)
    PROVE  \/ /\ UNCHANGED <<lock, judged>>
              /\ InCS(p)' => InCS(p)
           \/ AcquireLock(p)
           \/ Release(p)
<1> USE DEF TypeOK, Goto, Exit, InCS
<1>1. ASSUME NEW k \in Kind, Start(p, k)
      PROVE  UNCHANGED <<lock, judged>> /\ (InCS(p)' => InCS(p))
    BY <1>1 DEF Start
<1>2. CASE \/ LockContended(p) \/ LockFails(p) \/ Load(p) \/ LoadFails(p)
           \/ ClosePlugins(p) \/ Crash(p)
    BY <1>2 DEF LockContended, LockFails, Load, LoadFails, ClosePlugins, Crash
<1>3. CASE Plan(p)
    BY <1>3 DEF Plan, PlanCreate, PlanCompare, PlanRejected, PlanReadFails,
                PlanDone, PlanChange, Planning
<1>4. CASE Apply(p)
    BY <1>4 DEF Apply, ApplyCreate, ApplyUpdate, ApplyDelete, ApplyNoop,
                ApplyRefresh, ApplyUpdateMissing, ApplyRemoteFails, Save,
                SaveFails, ApplyDone, Applying
<1>5. QED
    BY <1>1, <1>2, <1>3, <1>4 DEF Command, Step

(* Commands keep the lock invariant: O_EXCL lets one past the lock file,   *)
(* and the release and a crash are steps of the one that is.               *)
LEMMA LockInvCommand ==
    ASSUME TypeOK, LockInv, NEW p \in Proc, Command(p)
    PROVE  LockInv'
<1>1. \A q \in Proc \ {p} : InCS(q)' <=> InCS(q)
    BY CommandFrame DEF InCS
<1>2. lock \in Proc \cup {NoProc} /\ NoProc \notin Proc
    BY ProcAssumption DEF TypeOK
<1>3. CASE UNCHANGED <<lock, judged>> /\ (InCS(p)' => InCS(p))
    <2>1. \A q \in Proc : InCS(q)' => InCS(q)
        BY <1>1, <1>3
    <2>2. QED
        BY <1>2, <1>3, <2>1 DEF LockInv
<1>4. CASE AcquireLock(p)
    BY <1>1, <1>2, <1>4 DEF AcquireLock, LockInv, InCS
<1>5. CASE Release(p)
    <2>1. InCS(p) /\ lock = p /\ judged = {}
        BY <1>2, <1>5 DEF Release, LockInv, InCS
    <2>2. ~InCS(p)' /\ judged' = {}
        BY <1>5, <2>1 DEF Release, Exit, Goto, TypeOK, InCS
    <2>3. \A q \in Proc : ~InCS(q)'
        BY <1>1, <2>1, <2>2 DEF LockInv
    <2>4. QED
        BY <2>2, <2>3 DEF LockInv
<1>6. QED
    BY <1>3, <1>4, <1>5, StepsPastLock

(* A single operator keeps it: the lock file judged stale is the one deleted. *)
LEMMA LockInvEnvironment ==
    ASSUME SingleOperator, TypeOK, LockInv, Environment
    PROVE  LockInv'
<1>1. \A q : InCS(q)' <=> InCS(q)
    BY EnvironmentFrame DEF InCS
<1>2. ASSUME NEW o \in Operator, JudgeStale(o)
      PROVE  LockInv'
    BY <1>1, <1>2 DEF JudgeStale, LockInv
<1>3. ASSUME NEW o \in Operator, DeleteLock(o)
      PROVE  LockInv'
    <2>1. \A q \in Proc : ~InCS(q)
        BY <1>3 DEF DeleteLock, LockInv
    <2>2. judged' = {}
        BY <1>3 DEF DeleteLock, SingleOperator, TypeOK
    <2>3. QED
        BY <1>1, <2>1, <2>2 DEF LockInv
<1>4. CASE EditModule
    BY <1>1, <1>4 DEF EditModule, LockInv
<1>5. ASSUME NEW id \in 1 .. Len(remote), RemoteEdit(id)
      PROVE  LockInv'
    BY <1>1, <1>5 DEF RemoteEdit, LockInv
<1>6. QED
    BY <1>2, <1>3, <1>4, <1>5 DEF Environment

(* Hence every step does. *)
LEMMA LockInvStep ==
    ASSUME SingleOperator, TypeOK, LockInv, [Next]_vars
    PROVE  LockInv'
<1>1. CASE UNCHANGED vars
    BY <1>1 DEF vars, LockInv, InCS
<1>2. QED
    BY <1>1, LockInvCommand, LockInvEnvironment DEF Next

(* With one operator to delete stale lock files, at most one command is     *)
(* past the lock at any time (MutualExclusion), whatever crashes.           *)
THEOREM Mutex == SingleOperator => (Spec => []MutualExclusion)
<1> SUFFICES ASSUME SingleOperator
             PROVE  Spec => []MutualExclusion
    OBVIOUS
<1>1. TypeOK /\ LockInv /\ [Next]_vars => LockInv'
    BY LockInvStep
<1>2. LockInv => MutualExclusion
    BY DEF LockInv, MutualExclusion
<1>3. QED
    BY <1>1, <1>2, LockInvInit, TypeCorrect, PTL DEF Spec

-----------------------------------------------------------------------------
(***************************************************************************)
(* No lost update. Given the lock, a command that loaded the state file    *)
(* has it to itself: nobody else is where the file is written.             *)
(***************************************************************************)

(* The steps in which a command changes neither the file nor its copy of it. *)
LEMMA SnapshotKept ==
    ASSUME TypeOK, SnapshotCurrent, NEW p \in Proc,
           UNCHANGED <<disk, mem>>,
           UNCHANGED plan \/ pc[p] # "save",
           \A q \in Proc \ {p} : pc'[q] = pc[q] /\ plan'[q] = plan[q],
           Loaded(p)' => Loaded(p),
           pc[p] = "save" => pc'[p] \in {"save", "failed"}
    PROVE  SnapshotCurrent'
<1> SUFFICES ASSUME NEW q \in Proc, Loaded(q)'
             PROVE  /\ mem[q].serial = disk.serial
                    /\ \A a \in Addr : mem[q].res[a] # disk.res[a] =>
                          pc'[q] = "save" /\ plan'[q] # <<>> /\ a = Subject(q)'
    BY DEF SnapshotCurrent
<1>1. CASE q # p
    BY <1>1 DEF SnapshotCurrent, Loaded, Subject
<1>2. CASE q = p
    BY <1>2 DEF SnapshotCurrent, Loaded, Subject
<1>3. QED
    BY <1>1, <1>2

(* Recording the outcome of a change leaves the rest of the copy alone. *)
LEMMA SnapshotRecorded ==
    ASSUME TypeOK, SnapshotCurrent, NEW p \in Proc, pc[p] = "apply",
           plan[p] # <<>>, NEW e, Record(p, e), Goto(p, "save"),
           UNCHANGED <<disk, plan>>
    PROVE  SnapshotCurrent'
<1> SUFFICES ASSUME NEW q \in Proc, Loaded(q)'
             PROVE  /\ mem'[q].serial = disk.serial
                    /\ \A a \in Addr : mem'[q].res[a] # disk.res[a] =>
                          pc'[q] = "save" /\ plan[q] # <<>> /\ a = Subject(q)
    BY DEF SnapshotCurrent, Subject
<1>1. CASE q # p
    BY <1>1 DEF SnapshotCurrent, Loaded, Record, Goto, TypeOK
<1>2. CASE q = p
    <2>1. /\ mem[p].serial = disk.serial
          /\ \A a \in Addr : mem[p].res[a] = disk.res[a]
        BY DEF SnapshotCurrent, Loaded
    <2>2. mem[p] \in StateFile
        BY DEF TypeOK
    <2>3. mem'[p] = [mem[p] EXCEPT !.res = [mem[p].res EXCEPT ![Subject(p)] = e]]
        BY DEF Record, TypeOK
    <2>4. /\ mem'[p].serial = mem[p].serial
          /\ \A a \in Addr \ {Subject(p)} : mem'[p].res[a] = mem[p].res[a]
        BY <2>2, <2>3 DEF StateFile
    <2>5. pc'[p] = "save"
        BY DEF Goto, TypeOK
    <2>6. QED
        BY <1>2, <2>1, <2>4, <2>5
<1>3. QED
    BY <1>1, <1>2

(* Apply keeps the copy current but for the entry it is about to save. *)
LEMMA SnapshotApply ==
    ASSUME TypeOK, LockInv, SnapshotCurrent, NEW p \in Proc, Apply(p)
    PROVE  SnapshotCurrent'
<1>1. CASE ApplyCreate(p) \/ ApplyUpdate(p) \/ ApplyDelete(p) \/ ApplyRefresh(p)
    BY <1>1, SnapshotRecorded
    DEF ApplyCreate, ApplyUpdate, ApplyDelete, ApplyRefresh, Applying
<1>2. CASE \/ ApplyNoop(p) \/ ApplyUpdateMissing(p) \/ ApplyRemoteFails(p)
           \/ SaveFails(p) \/ ApplyDone(p)
    BY <1>2, SnapshotKept
    DEF ApplyNoop, ApplyUpdateMissing, ApplyRemoteFails, SaveFails, ApplyDone,
        Applying, Goto, TypeOK, Loaded, session
<1>3. CASE Save(p)
    <2>1. \A q \in Proc \ {p} : ~Loaded(q)'
        BY <1>3 DEF Save, LockInv, InCS, Loaded, Goto, TypeOK
    <2>2. /\ mem'[p] = [mem[p] EXCEPT !.serial = mem[p].serial + 1]
          /\ mem[p] \in StateFile
        BY <1>3 DEF Save, TypeOK
    <2>3. mem'[p].serial = disk'.serial /\ mem'[p].res = disk'.res
        BY <1>3, <2>2 DEF Save, StateFile
    <2>4. QED
        BY <2>1, <2>3 DEF SnapshotCurrent
<1>4. QED
    BY <1>1, <1>2, <1>3 DEF Apply

(* Hence every step of a command does, Load by reading the file. *)
LEMMA SnapshotCommand ==
    ASSUME TypeOK, LockInv, SnapshotCurrent, NEW p \in Proc, Command(p)
    PROVE  SnapshotCurrent'
<1>1. CASE (\E k \in Kind : Start(p, k)) \/ AcquireLock(p)
    BY <1>1, SnapshotKept DEF Start, AcquireLock, Goto, TypeOK, Loaded, session
<1>2. CASE \/ LockContended(p) \/ LockFails(p) \/ LoadFails(p)
           \/ ClosePlugins(p) \/ Release(p) \/ Crash(p)
    <2>1. UNCHANGED disk /\ ~Loaded(p)'
        BY <1>2 DEF LockContended, LockFails, LoadFails, ClosePlugins, Release,
                    Crash, Exit, Goto, TypeOK, Loaded
    <2>2. QED
        BY <2>1, CommandFrame DEF SnapshotCurrent, Loaded, Subject
<1>3. CASE Load(p)
    <2>1. mem'[p] = disk /\ UNCHANGED disk
        BY <1>3 DEF Load, TypeOK
    <2>2. QED
        BY <2>1, CommandFrame DEF SnapshotCurrent, Loaded, Subject
<1>4. CASE Plan(p)
    BY <1>4, SnapshotKept
    DEF Plan, PlanCreate, PlanCompare, PlanRejected, PlanReadFails, PlanDone,
        PlanChange, Planning, Goto, TypeOK, Loaded, session
<1>5. QED
    BY <1>1, <1>2, <1>3, <1>4, SnapshotApply DEF Command, Step

(* Nobody else writes the file or a copy of it. *)
LEMMA SnapshotStep ==
    ASSUME TypeOK, LockInv, SnapshotCurrent, [Next]_vars
    PROVE  SnapshotCurrent'
<1>1. CASE Environment
    BY <1>1, EnvironmentFrame DEF session, SnapshotCurrent, Loaded, Subject
<1>2. CASE UNCHANGED vars
    BY <1>2 DEF vars, session, SnapshotCurrent, Loaded, Subject
<1>3. QED
    BY <1>1, <1>2, SnapshotCommand DEF Next

(* What a command holds of the state file is the file, up to the one entry  *)
(* it is about to write: with a single operator, no update is ever lost.    *)
THEOREM NoLostUpdate == SingleOperator => (Spec => []SnapshotCurrent)
<1> SUFFICES ASSUME SingleOperator
             PROVE  Spec => []SnapshotCurrent
    OBVIOUS
<1>1. Init => SnapshotCurrent
    BY DEF Init, SnapshotCurrent, Loaded
<1>2. TypeOK /\ LockInv /\ [Next]_vars => LockInv'
    BY LockInvStep
<1>3. TypeOK /\ LockInv /\ SnapshotCurrent /\ [Next]_vars => SnapshotCurrent'
    BY SnapshotStep
<1>4. QED
    BY <1>1, <1>2, <1>3, LockInvInit, TypeCorrect, PTL DEF Spec

-----------------------------------------------------------------------------
(***************************************************************************)
(* Refinement: the commands implement StateStore. Under LockInv the client *)
(* of the store is the one command that is past the lock.                  *)
(***************************************************************************)

(* The store's holder and its pending operation, read off the commands. *)
LEMMA HolderIs ==
    ASSUME LockInv, NEW p \in Proc, InCS(p)
    PROVE  /\ Holder = p
           /\ pc[p] # "save" => Pending = NoProc
           /\ pc[p] = "save" =>
                 Pending = [addr |-> Subject(p), value |-> mem[p].res[Subject(p)]]
    BY ProcAssumption DEF LockInv, Holder, Pending

(* The same in the next state. *)
LEMMA HolderIsNext ==
    ASSUME LockInv', NEW p \in Proc, InCS(p)'
    PROVE  /\ Holder' = p
           /\ pc'[p] # "save" => Pending' = NoProc
           /\ pc'[p] = "save" =>
                 Pending' = [addr  |-> Subject(p)',
                             value |-> mem'[p].res[Subject(p)']]
    BY ProcAssumption DEF LockInv, Holder, Pending

(* Nobody past the lock: no client of the store. *)
LEMMA NoHolder ==
    ASSUME TypeOK, \A p \in Proc : ~InCS(p)
    PROVE  Holder = NoProc /\ Pending = NoProc
    BY DEF TypeOK, Holder, Pending

(* The same in the next state. *)
LEMMA NoHolderNext ==
    ASSUME TypeOK', \A p \in Proc : ~InCS(p)'
    PROVE  Holder' = NoProc /\ Pending' = NoProc
    BY DEF TypeOK, Holder, Pending

(* A step of a command that stays short of the lock is not seen by the store. *)
LEMMA OutsideStutters ==
    ASSUME TypeOK, LockInv, TypeOK', LockInv', NEW p \in Proc, Command(p),
           UNCHANGED disk, ~InCS(p), ~InCS(p)'
    PROVE  UNCHANGED <<disk, Holder, Pending>>
<1>1. \A q \in Proc \ {p} : /\ InCS(q)' <=> InCS(q)
                            /\ pc'[q] = pc[q] /\ Subject(q)' = Subject(q)
                            /\ mem'[q] = mem[q]
    BY CommandFrame DEF InCS, Subject
<1>2. CASE \A q \in Proc : ~InCS(q)
    BY <1>1, <1>2, NoHolder, NoHolderNext
<1>3. CASE \E q \in Proc : InCS(q)
    <2>1. PICK q \in Proc : InCS(q)
        BY <1>3
    <2>2. q # p /\ InCS(q)'
        BY <1>1, <2>1
    <2>3. QED
        BY <1>1, <2>1, <2>2, HolderIs, HolderIsNext
<1>4. QED
    BY <1>2, <1>3

(* Past the lock, a step that is not about a save is not seen either. *)
LEMMA InsideStutters ==
    ASSUME LockInv, LockInv', NEW p \in Proc, UNCHANGED disk,
           InCS(p), InCS(p)', pc[p] # "save", pc'[p] # "save"
    PROVE  UNCHANGED <<disk, Holder, Pending>>
    BY HolderIs, HolderIsNext

(* Executing a change and recording it is the store's Operate. *)
LEMMA OperateStep ==
    ASSUME TypeOK, Working', LockInv, TypeOK', LockInv', NEW p \in Proc,
           UNCHANGED disk, pc[p] = "apply", pc'[p] = "save"
    PROVE  Store!Operate
<1>1. InCS(p) /\ InCS(p)' /\ pc[p] # "save"
    BY DEF InCS
<1>2. /\ Holder = p /\ Holder' = p /\ Pending = NoProc
      /\ Pending' = [addr |-> Subject(p)', value |-> mem'[p].res[Subject(p)']]
    BY <1>1, HolderIs, HolderIsNext
<1>3. Subject(p)' \in Addr
    <2>1. plan'[p] \in Seq(Change) /\ plan'[p] # <<>>
        BY DEF TypeOK, Working
    <2>2. Head(plan'[p]) \in Change
        BY <2>1, HeadTailProperties
    <2>3. QED
        BY <2>2 DEF Subject, Change
<1>4. mem'[p].res[Subject(p)'] \in Entry \cup {Untracked}
    BY <1>3 DEF TypeOK, StateFile
<1>5. Pending' \in Store!Operation
    BY <1>2, <1>3, <1>4 DEF Store!Operation
<1>6. QED
    BY <1>2, <1>5 DEF Store!Operate

(* Writing the file is the store's Commit: the copy differs from the file   *)
(* in the pending entry only (SnapshotCurrent).                             *)
LEMMA CommitStep ==
    ASSUME TypeOK, Working, LockInv, SnapshotCurrent, LockInv',
           NEW p \in Proc, Save(p)
    PROVE  Store!Commit
<1>1. InCS(p) /\ InCS(p)' /\ pc[p] = "save" /\ pc'[p] # "save" /\ Loaded(p)
    BY DEF Save, InCS, Loaded, Goto, TypeOK
<1>2. /\ Holder = p /\ Holder' = p /\ Pending' = NoProc
      /\ Pending = [addr |-> Subject(p), value |-> mem[p].res[Subject(p)]]
    BY <1>1, HolderIs, HolderIsNext
<1>3. Subject(p) \in Addr
    BY <1>1, SubjectType DEF Working
<1>4. /\ mem[p] \in StateFile /\ disk \in StateFile
      /\ mem[p].res \in [Addr -> Entry \cup {Untracked}]
      /\ disk.res \in [Addr -> Entry \cup {Untracked}]
    BY DEF TypeOK, StateFile
<1>5. Pending \in Store!Operation
    BY <1>2, <1>3, <1>4 DEF Store!Operation
<1>6. mem[p].serial = disk.serial
    BY <1>1 DEF SnapshotCurrent
<1>7. mem[p].res = [disk.res EXCEPT ![Subject(p)] = mem[p].res[Subject(p)]]
    <2>1. \A a \in Addr \ {Subject(p)} : mem[p].res[a] = disk.res[a]
        BY <1>1 DEF SnapshotCurrent
    <2>2. QED
        BY <1>3, <1>4, <2>1
<1>8. disk' = [serial |-> disk.serial + 1,
               res    |-> [disk.res EXCEPT ![Pending.addr] = Pending.value]]
    BY <1>2, <1>6, <1>7 DEF Save
<1>9. QED
    BY <1>2, <1>5, <1>8 DEF Store!Commit

(* Each step of a command is a step of the store or stutters. *)
LEMMA StoreCommand ==
    ASSUME TypeOK, Working, LockInv, SnapshotCurrent,
           TypeOK', Working', LockInv', NEW p \in Proc, Command(p)
    PROVE  Store!Next \/ UNCHANGED <<disk, Holder, Pending>>
<1> USE DEF TypeOK, Goto
<1>1. CASE (\E k \in Kind : Start(p, k)) \/ LockContended(p) \/ LockFails(p)
    <2>1. ~InCS(p) /\ ~InCS(p)' /\ UNCHANGED disk
        BY <1>1 DEF Start, LockContended, LockFails, Exit, InCS
    <2>2. QED
        BY <2>1, OutsideStutters
<1>2. CASE AcquireLock(p)
    <2>1. InCS(p)' /\ pc'[p] # "save" /\ lock = NoProc /\ UNCHANGED disk
        BY <1>2 DEF AcquireLock, InCS
    <2>2. Holder = NoProc /\ Pending = NoProc
        BY <2>1 DEF Holder, Pending
    <2>3. Holder' = p /\ Pending' = NoProc
        BY <2>1, HolderIsNext
    <2>4. Store!Take(p)
        BY <2>1, <2>2, <2>3 DEF Store!Take
    <2>5. QED
        BY <2>4 DEF Store!Next
<1>3. CASE Load(p) \/ LoadFails(p) \/ ClosePlugins(p)
    <2>1. InCS(p) /\ InCS(p)' /\ pc[p] # "save" /\ pc'[p] # "save" /\ UNCHANGED disk
        BY <1>3 DEF Load, LoadFails, ClosePlugins, InCS
    <2>2. QED
        BY <2>1, InsideStutters
<1>4. CASE Plan(p)
    <2>1. InCS(p) /\ InCS(p)' /\ pc[p] # "save" /\ pc'[p] # "save" /\ UNCHANGED disk
        BY <1>4 DEF Plan, PlanCreate, PlanCompare, PlanRejected, PlanReadFails,
                    PlanDone, PlanChange, Planning, InCS
    <2>2. QED
        BY <2>1, InsideStutters
<1>5. CASE ApplyCreate(p) \/ ApplyUpdate(p) \/ ApplyDelete(p) \/ ApplyRefresh(p)
    <2>1. pc[p] = "apply" /\ pc'[p] = "save" /\ UNCHANGED disk
        BY <1>5 DEF ApplyCreate, ApplyUpdate, ApplyDelete, ApplyRefresh, Applying
    <2>2. QED
        BY <2>1, OperateStep DEF Store!Next
<1>6. CASE ApplyNoop(p) \/ ApplyUpdateMissing(p) \/ ApplyRemoteFails(p) \/ ApplyDone(p)
    <2>1. InCS(p) /\ InCS(p)' /\ pc[p] # "save" /\ pc'[p] # "save" /\ UNCHANGED disk
        BY <1>6 DEF ApplyNoop, ApplyUpdateMissing, ApplyRemoteFails, ApplyDone,
                    Applying, InCS
    <2>2. QED
        BY <2>1, InsideStutters
<1>7. CASE Save(p)
    BY <1>7, CommitStep DEF Store!Next
<1>8. CASE SaveFails(p)
    <2>1. InCS(p) /\ InCS(p)' /\ pc'[p] # "save" /\ UNCHANGED disk
        BY <1>8 DEF SaveFails, InCS
    <2>2. Holder = p /\ Holder' = p /\ Pending' = NoProc
        BY <2>1, HolderIs, HolderIsNext
    <2>3. QED
        BY <2>1, <2>2 DEF Store!Next, Store!Lose
<1>9. CASE Release(p) \/ Crash(p)
    <2>1. InCS(p) /\ ~InCS(p)' /\ UNCHANGED disk
        BY <1>9 DEF Release, Crash, Exit, InCS
    <2>2. \A q \in Proc : ~InCS(q)'
        BY <2>1, CommandFrame, ZenonT(60) DEF LockInv, InCS
    <2>3. Holder = p /\ Holder' = NoProc /\ Pending' = NoProc
        BY <2>1, <2>2, HolderIs, NoHolderNext
    <2>4. QED
        BY <2>1, <2>3 DEF Store!Next, Store!Leave
<1>10. QED
    BY <1>1, <1>2, <1>3, <1>4, <1>5, <1>6, <1>7, <1>8, <1>9 DEF Command, Step, Apply

(* The environment is not seen by the store: a lock file is only deleted    *)
(* when nobody is past the lock.                                            *)
LEMMA StoreEnvironment ==
    ASSUME TypeOK, LockInv, TypeOK', LockInv', Environment
    PROVE  UNCHANGED <<disk, Holder, Pending>>
<1>1. UNCHANGED <<disk, pc, mem, plan>> /\ \A q \in Proc : InCS(q)' <=> InCS(q)
    BY EnvironmentFrame DEF session, InCS
<1>2. CASE \A q \in Proc : ~InCS(q)
    BY <1>1, <1>2, NoHolder, NoHolderNext
<1>3. CASE \E q \in Proc : InCS(q)
    <2>1. PICK q \in Proc : InCS(q)
        BY <1>3
    <2>2. InCS(q)' /\ Subject(q)' = Subject(q)
        BY <1>1, <2>1 DEF Subject
    <2>3. QED
        BY <1>1, <2>1, <2>2, HolderIs, HolderIsNext
<1>4. QED
    BY <1>2, <1>3

(* The commands, the crashes and the removal of stale lock files together   *)
(* implement the store (ImplementsStore): with a single operator, the file  *)
(* is only ever moved on by one executed change of the one command that is  *)
(* past the lock.                                                           *)
THEOREM StoreImplemented == SingleOperator => (Spec => ImplementsStore)
<1> SUFFICES ASSUME SingleOperator
             PROVE  Spec => ImplementsStore
    OBVIOUS
<1> DEFINE Inv == TypeOK /\ Working /\ LockInv /\ SnapshotCurrent
<1>1. Init => Store!Init
    BY DEF Init, Store!Init, EmptyFile, Holder, Pending
<1>2. Init => LockInv /\ SnapshotCurrent
    BY LockInvInit DEF Init, SnapshotCurrent, Loaded
<1>3. TypeOK /\ LockInv /\ [Next]_vars => LockInv'
    BY LockInvStep
<1>4. TypeOK /\ LockInv /\ SnapshotCurrent /\ [Next]_vars => SnapshotCurrent'
    BY SnapshotStep
<1>5. Inv /\ Inv' /\ [Next]_vars => [Store!Next]_(Store!vars)
    <2> SUFFICES ASSUME Inv, Inv', [Next]_vars
                 PROVE  Store!Next \/ UNCHANGED <<disk, Holder, Pending>>
        BY DEF Store!vars
    <2>1. CASE UNCHANGED vars
        BY <2>1 DEF vars, session, Holder, Pending, InCS, Subject
    <2>2. QED
        BY <2>1, StoreCommand, StoreEnvironment DEF Next
<1>6. QED
    BY <1>1, <1>2, <1>3, <1>4, <1>5, TypeCorrect, PTL
    DEF Spec, ImplementsStore, Store!Spec
-----------------------------------------------------------------------------
(***************************************************************************)
(* The plan is judged by what is left of it. Whatever command is past the  *)
(* lock: the changes it has not executed name distinct addresses, fit what *)
(* it holds of the state file and, if nobody interfered, what the platform *)
(* holds; each address that needs a change has one left, and each change   *)
(* has what it depends on before it or behind it. Of every step it is      *)
(* shown that the command's own session stays right (...Session), that     *)
(* every object stays accounted for (...Accounted), or both (...Kept).     *)
(***************************************************************************)

Busy(p) == pc[p] \in {"plan", "apply", "save"}

(* The positions in the plan of the changes not executed yet.               *)
Left(p) == IF pc[p] = "save" THEN 2 .. Len(plan[p]) ELSE 1 .. Len(plan[p])

(* The entry that the state holds for the i-th change, and what the module  *)
(* wants there.                                                             *)
Known(p, i) == mem[p].res[plan[p][i].addr]
Wanted(p, i) == mod[p].cfg[plan[p][i].addr]

Counts(c) == c.action # "noop" \/ c.drift

(* An address is looked at once and changed once.                           *)
Distinct(p) ==
    /\ \A i, j \in 1 .. Len(plan[p]) : plan[p][i].addr = plan[p][j].addr => i = j
    /\ \A i, j \in 1 .. Len(todo[p]) : todo[p][i] = todo[p][j] => i = j
    /\ \A i \in 1 .. Len(plan[p]), j \in 1 .. Len(todo[p]) :
          plan[p][i].addr # todo[p][j]
    /\ pc[p] # "plan" \/ kind[p] = "destroy" => todo[p] = <<>>

(* Deletes are of what the module does not declare, the rest of what it     *)
(* does; destroy deletes.                                                   *)
Meant(p) ==
    /\ \A j \in 1 .. Len(todo[p]) : todo[p][j] \in mod[p].agents
    /\ \A i \in 1 .. Len(plan[p]) :
          plan[p][i].action = "delete"
             <=> kind[p] = "destroy" \/ plan[p][i].addr \notin mod[p].agents

(* What has been looked at can be expressed.                                *)
Expressed(p) ==
    kind[p] # "destroy" =>
        \A a \in mod[p].agents :
            \/ mod[p].cfg[a] \notin Inexpressible
            \/ \E j \in 1 .. Len(todo[p]) : todo[p][j] = a

(* A change that is left fits the entry it is about, and a noop the remote  *)
(* object, until somebody changes that.                                     *)
Fits(p, i) ==
    LET c == plan[p][i]
    IN  /\ c.action = "create" =>
              Known(p, i) = Untracked \/ ~Live(Known(p, i).id)
        /\ c.action # "create" =>
              Known(p, i) # Untracked /\ c.id = Known(p, i).id
        /\ c.action = "noop" =>
              /\ remote[c.id] = Wanted(p, i) \/ (p \notin clean /\ c.id \in foreign)
              /\ c.drift => Known(p, i).cfg # Wanted(p, i)

Fitting(p) == \A i \in Left(p) : Fits(p, i)

(* What needs a change has one left, and nothing else has.                  *)
ToLookAt(p, a) == \E j \in 1 .. Len(todo[p]) : todo[p][j] = a
ToChange(p, a) == \E i \in Left(p) : plan[p][i].addr = a /\ Counts(plan[p][i])
NeedsChange(p, a) ==
    IF a \in mod[p].agents THEN ~InSync(p, a) ELSE mem[p].res[a] # Untracked

Exact(p) ==
    IF kind[p] = "destroy"
    THEN \A a \in Tracked(mem[p].res) : \E i \in Left(p) : plan[p][i].addr = a
    ELSE p \in clean =>
            \A a \in Addr : ToLookAt(p, a) \/ (ToChange(p, a) <=> NeedsChange(p, a))

(* An agent's dependencies are settled, or have their change before it.     *)
Settled(p, d) ==
    /\ mem[p].res[d] # Untracked
    /\ p \in clean => Live(mem[p].res[d].id)

AgentsOrdered(p) ==
    /\ \A i \in 1 .. Len(plan[p]) : plan[p][i].action # "delete" =>
          \A d \in mod[p].deps[plan[p][i].addr] :
             Settled(p, d) \/ \E j \in Left(p) : j < i /\ plan[p][j].addr = d
    /\ \A i \in 1 .. Len(todo[p]) : \A d \in mod[p].deps[todo[p][i]] :
          \/ \E j \in 1 .. Len(plan[p]) : plan[p][j].addr = d
          \/ \E j \in 1 .. Len(todo[p]) : j < i /\ todo[p][j] = d

(* A delete comes before that of an agent that depends on it only in a      *)
(* circle, all of which is still to be deleted.                             *)
DeletesOrdered(p) ==
    \A i, j \in Left(p) :
        /\ i < j
        /\ plan[p][i].action = "delete" /\ plan[p][j].action = "delete"
        /\ plan[p][i].addr \in Known(p, j).deps
        => ~Acyclic({plan[p][k].addr : k \in i .. j}, Recorded(mem[p].res))

(* The entry about to be saved stands for the object that the one in the    *)
(* file stood for, or that object is gone.                                  *)
Replaces(p) ==
    pc[p] = "save" =>
        LET old == disk.res[Subject(p)]
            new == mem[p].res[Subject(p)]
        IN  \/ old = Untracked
            \/ ~Live(old.id)
            \/ new # Untracked /\ new.id = old.id

Finished(p) ==
    pc[p] = "done" =>
        /\ kind[p] = "destroy" => Tracked(mem[p].res) = {}
        /\ kind[p] = "apply" /\ p \in clean =>
              \A a \in Addr : ~NeedsChange(p, a)

(* An entry tells what Kastor wrote last, unless somebody has written since. *)
Accurate(e) == remote[e.id] = e.cfg \/ e.id \in foreign

Truthful ==
    faults = 0 =>
        /\ \A p \in Proc : Loaded(p) =>
              \A a \in Tracked(mem[p].res) : Accurate(mem[p].res[a])
        /\ \A a \in Tracked(disk.res) :
              Accurate(disk.res[a]) \/ \E p \in Proc : pc[p] = "save" /\ a = Subject(p)

Session(p) ==
    /\ pc[p] \in {"idle", "lock", "load"} => plan[p] = <<>> /\ todo[p] = <<>>
    /\ Busy(p) =>
          /\ Distinct(p) /\ Meant(p) /\ Expressed(p) /\ Fitting(p) /\ Exact(p)
          /\ AgentsOrdered(p) /\ DeletesOrdered(p) /\ Replaces(p)
    /\ Finished(p)

(* Nobody but the holder of the lock can spoil any of this.                 *)
Holding == TypeOK /\ Working /\ LockInv /\ SnapshotCurrent

Accounted == IdsUnique /\ OrphansBoundedByFaults /\ Truthful /\ DriftIsForeign

IInv == Holding /\ (\A p \in Proc : Session(p)) /\ Accounted

-----------------------------------------------------------------------------
(* What the variables of a command hold. *)

(* The changes planned and the agents not looked at yet. *)
LEMMA PlanIs ==
    ASSUME TypeOK, NEW p \in Proc
    PROVE  /\ plan[p] \in Seq(Change) /\ Len(plan[p]) \in Nat
           /\ \A i \in 1 .. Len(plan[p]) :
                 /\ plan[p][i] \in Change /\ plan[p][i].addr \in Addr
                 /\ plan[p][i].id \in Nat /\ plan[p][i].action \in Action
           /\ todo[p] \in Seq(Addr) /\ Len(todo[p]) \in Nat
           /\ \A i \in 1 .. Len(todo[p]) : todo[p][i] \in Addr
<1>1. plan[p] \in Seq(Change) /\ todo[p] \in Seq(Addr)
    BY DEF TypeOK
<1>2. /\ Len(plan[p]) \in Nat /\ \A i \in 1 .. Len(plan[p]) : plan[p][i] \in Change
      /\ Len(todo[p]) \in Nat /\ \A i \in 1 .. Len(todo[p]) : todo[p][i] \in Addr
    BY <1>1
<1>3. QED
    BY <1>1, <1>2 DEF Change

(* A module: its references resolve and do not go round. *)
LEMMA ModIs ==
    ASSUME TypeOK, NEW p \in Proc
    PROVE  /\ mod[p].agents \subseteq Addr
           /\ mod[p].cfg \in [Addr -> Config]
           /\ mod[p].deps \in [Addr -> SUBSET Addr]
           /\ Acyclic(mod[p].agents, mod[p].deps)
           /\ \A a \in mod[p].agents : mod[p].deps[a] \subseteq mod[p].agents
    BY ModulesAssumption DEF TypeOK, Module

(* A state file: its entries, and the dependencies it records. *)
LEMMA FileIs ==
    ASSUME NEW f \in StateFile
    PROVE  /\ f.res \in [Addr -> Entry \cup {Untracked}]
           /\ Tracked(f.res) \subseteq Addr
           /\ \A a \in Addr : f.res[a] # Untracked =>
                 /\ a \in Tracked(f.res)
                 /\ f.res[a] \in Entry /\ f.res[a].id \in Nat
                 /\ f.res[a].cfg \in Config /\ f.res[a].deps \subseteq Addr
           /\ \A a \in Tracked(f.res) : a \in Addr /\ f.res[a] # Untracked
           /\ Recorded(f.res) \in [Addr -> SUBSET Addr]
           /\ \A a \in Addr : Recorded(f.res)[a] =
                                 IF f.res[a] = Untracked THEN {} ELSE f.res[a].deps
<1>1. f.res \in [Addr -> Entry \cup {Untracked}]
    BY DEF StateFile
<1>2. \A a \in Addr : f.res[a] # Untracked =>
          /\ f.res[a] \in Entry /\ f.res[a].id \in Nat
          /\ f.res[a].cfg \in Config /\ f.res[a].deps \subseteq Addr
    BY <1>1 DEF Entry
<1>3. QED
    BY <1>1, <1>2 DEF Tracked, Recorded

(* An entry that Apply makes. *)
LEMMA EntryIs ==
    ASSUME TypeOK, NEW p \in Proc, plan[p] # <<>>, NEW id \in Nat
    PROVE  /\ StateEntry(p, id) \in Entry
           /\ StateEntry(p, id) # Untracked
           /\ StateEntry(p, id).id = id /\ StateEntry(p, id).cfg = Desired(p)
    BY StateEntryType, UntrackedAssumption DEF StateEntry

(* Whether dependencies go round depends on those of the addresses concerned. *)
LEMMA AcyclicCongruence ==
    ASSUME NEW S, NEW D, NEW E, \A x \in S : D[x] = E[x]
    PROVE  Acyclic(S, D) <=> Acyclic(S, E)
    BY DEF Acyclic

(* What depends on something is all that can go round. *)
LEMMA AcyclicPart ==
    ASSUME NEW S, NEW D, NEW T, \A x \in T : x \in S \/ D[x] = {}, Acyclic(S, D)
    PROVE  Acyclic(T, D)
<1> SUFFICES ASSUME NEW X \in SUBSET T, X # {}
             PROVE  \E x \in X : D[x] \cap X = {}
    BY DEF Acyclic
<1>1. CASE X \subseteq S
    BY <1>1 DEF Acyclic
<1>2. CASE ~(X \subseteq S)
    <2>1. PICK x \in X : D[x] = {}
        BY <1>2
    <2>2. QED
        BY <2>1
<1>3. QED
    BY <1>1, <1>2

-----------------------------------------------------------------------------
(* The commands that do not hold the lock. *)

(* What others do does not concern one whose session and platform are as they were. *)
LEMMA SessionFrame ==
    ASSUME NEW q, Session(q), UNCHANGED <<disk, remote, foreign>>,
           UNCHANGED <<pc[q], kind[q], mod[q], mem[q], todo[q], plan[q]>>,
           (q \in clean)' <=> q \in clean
    PROVE  Session(q)'
<1>1. UNCHANGED <<Busy(q), Left(q)>>
    BY DEF Busy, Left
<1>2. \A i : UNCHANGED <<Known(q, i), Wanted(q, i), plan[q][i]>>
    BY DEF Known, Wanted
<1>3. UNCHANGED <<Distinct(q), Meant(q), Expressed(q)>>
    BY DEF Distinct, Meant, Expressed
<1>4. UNCHANGED Fitting(q)
    <2>1. \A i : Fits(q, i)' <=> Fits(q, i)
        BY <1>2 DEF Fits, Live
    <2>2. QED
        BY <1>1, <2>1 DEF Fitting
<1>5. \A a : /\ UNCHANGED <<ToLookAt(q, a), ToChange(q, a)>>
             /\ UNCHANGED NeedsChange(q, a)
    BY <1>1, <1>2 DEF ToLookAt, ToChange, NeedsChange, Counts, InSync
<1>6. UNCHANGED Exact(q)
    BY <1>1, <1>5 DEF Exact, Tracked
<1>7. AgentsOrdered(q) => AgentsOrdered(q)'
    <2> SUFFICES ASSUME AgentsOrdered(q)
                 PROVE  AgentsOrdered(q)'
        OBVIOUS
    <2>1. \A d : Settled(q, d) => Settled(q, d)'
        BY DEF Settled, Live
    <2>2. ASSUME NEW i \in 1 .. Len(plan[q]), plan[q][i].action # "delete",
                 NEW d \in mod[q].deps[plan[q][i].addr]
          PROVE  Settled(q, d)' \/ \E j \in Left(q) : j < i /\ plan[q][j].addr = d
        BY <2>1, <2>2 DEF AgentsOrdered
    <2>3. \A i \in 1 .. Len(todo[q]) : \A d \in mod[q].deps[todo[q][i]] :
              \/ \E j \in 1 .. Len(plan[q]) : plan[q][j].addr = d
              \/ \E j \in 1 .. Len(todo[q]) : j < i /\ todo[q][j] = d
        BY DEF AgentsOrdered
    <2>4. QED
        BY <1>1, <2>2, <2>3 DEF AgentsOrdered
<1>8. UNCHANGED DeletesOrdered(q)
    BY <1>1, <1>2 DEF DeletesOrdered
<1>9. UNCHANGED <<Replaces(q), Finished(q)>>
    BY <1>5 DEF Replaces, Finished, Subject, Live, Tracked
<1>10. QED
    BY <1>1, <1>3, <1>4, <1>6, <1>7, <1>8, <1>9 DEF Session

(* Whoever holds the lock, nobody else has a session. *)
LEMMA AloneIs ==
    ASSUME LockInv, NEW p \in Proc, InCS(p)
    PROVE  lock = p /\ lock # NoProc /\ \A q \in Proc \ {p} : ~InCS(q)
    BY ProcAssumption DEF LockInv

(* What a command does before it has the lock. *)
LEMMA OutsideActs ==
    ASSUME NEW p, Command(p), ~InCS(p)
    PROVE  /\ \/ \E k \in Kind : Start(p, k)
              \/ AcquireLock(p) \/ LockContended(p) \/ LockFails(p)
           /\ UNCHANGED <<disk, remote, clean, foreign>>
<1>1. \/ \E k \in Kind : Start(p, k)
      \/ AcquireLock(p) \/ LockContended(p) \/ LockFails(p)
    <2>1. ~Plan(p)
        BY DEF InCS, Plan, PlanCreate, PlanCompare, PlanRejected, PlanReadFails,
               PlanDone, Planning
    <2>2. ~Apply(p)
        BY DEF InCS, Apply, ApplyCreate, ApplyUpdate, ApplyDelete, ApplyNoop,
               ApplyRefresh, ApplyUpdateMissing, ApplyRemoteFails, Save, SaveFails,
               ApplyDone, Applying
    <2>3. ~Load(p) /\ ~LoadFails(p) /\ ~ClosePlugins(p) /\ ~Release(p) /\ ~Crash(p)
        BY DEF InCS, Load, LoadFails, ClosePlugins, Release, Crash
    <2>4. QED
        BY <2>1, <2>2, <2>3 DEF Command, Step
<1>2. QED
    BY <1>1 DEF Start, AcquireLock, LockContended, LockFails, history

(* The step of a command leaves the sessions of the others right. *)
LEMMA OthersKept ==
    ASSUME TypeOK, LockInv, NEW p \in Proc, Command(p), NEW q \in Proc \ {p}, Session(q)
    PROVE  Session(q)'
<1>1. UNCHANGED <<pc[q], kind[q], mod[q], mem[q], todo[q], plan[q]>>
    BY CommandFrame
<1>2. CASE InCS(q)
    <2>1. ~InCS(p)
        BY <1>2, AloneIs
    <2>2. UNCHANGED <<disk, remote, foreign>> /\ ((q \in clean)' <=> q \in clean)
        BY <2>1, OutsideActs
    <2>3. QED
        BY <1>1, <2>2, SessionFrame
<1>3. CASE ~InCS(q)
    <2>1. pc[q] \in {"idle", "lock"}
        BY <1>3 DEF TypeOK, InCS
    <2>2. plan[q] = <<>> /\ todo[q] = <<>>
        BY <2>1 DEF Session
    <2>3. QED
        BY <1>1, <2>1, <2>2 DEF Session, Busy, Finished
<1>4. QED
    BY <1>2, <1>3

-----------------------------------------------------------------------------
(* Counting the objects that nobody can find. *)

(* There are finitely many. *)
LEMMA OrphansFinite ==
    ASSUME remote \in Seq(Config \cup {Gone})
    PROVE  IsFiniteSet(Orphans) /\ Cardinality(Orphans) \in Nat
<1>1. Len(remote) \in Nat
    OBVIOUS
<1>2. IsFiniteSet(1 .. Len(remote))
    BY <1>1, FS_Interval
<1>3. Orphans \subseteq 1 .. Len(remote)
    BY DEF Orphans
<1>4. IsFiniteSet(Orphans)
    BY <1>2, <1>3, FS_Subset
<1>5. QED
    BY <1>4, FS_CardinalityType

(* A step that loses none keeps the bound; so does a fault that loses one. *)
LEMMA OrphansKept ==
    ASSUME TypeOK, TypeOK', OrphansBoundedByFaults,
           \/ Orphans' \subseteq Orphans /\ faults' >= faults
           \/ faults' = faults + 1 /\ \E lost : Orphans' \subseteq Orphans \cup {lost}
    PROVE  OrphansBoundedByFaults'
<1>1. IsFiniteSet(Orphans) /\ Cardinality(Orphans) \in Nat
    BY OrphansFinite DEF TypeOK
<1>2. faults \in Nat /\ faults' \in Nat
    BY BoundsAssumption DEF TypeOK
<1>3. CASE Orphans' \subseteq Orphans /\ faults' >= faults
    <2>1. Cardinality(Orphans') \in Nat /\ Cardinality(Orphans') <= Cardinality(Orphans)
        BY <1>1, <1>3, FS_Subset, FS_CardinalityType
    <2>2. QED
        BY <1>1, <1>2, <1>3, <2>1 DEF OrphansBoundedByFaults
<1>4. CASE faults' = faults + 1 /\ \E lost : Orphans' \subseteq Orphans \cup {lost}
    <2>1. PICK lost : Orphans' \subseteq Orphans \cup {lost}
        BY <1>4
    <2>2. /\ IsFiniteSet(Orphans \cup {lost})
          /\ Cardinality(Orphans \cup {lost}) \in Nat
          /\ Cardinality(Orphans \cup {lost}) <= Cardinality(Orphans) + 1
        <3>1. /\ IsFiniteSet(Orphans \cup {lost})
              /\ Cardinality(Orphans \cup {lost}) =
                    IF lost \in Orphans THEN Cardinality(Orphans) ELSE Cardinality(Orphans) + 1
            BY <1>1, FS_AddElement, Zenon
        <3>2. QED
            BY <1>1, <3>1
    <2>3. Cardinality(Orphans') \in Nat /\ Cardinality(Orphans') <= Cardinality(Orphans) + 1
        BY <1>1, <2>1, <2>2, FS_Subset, FS_CardinalityType
    <2>4. QED
        BY <1>1, <1>2, <1>4, <2>3 DEF OrphansBoundedByFaults
<1>5. QED
    BY <1>3, <1>4

-----------------------------------------------------------------------------
(* The steps that take a command out of its session, or not yet into one. *)

Leaving(p) ==
    \/ \E k \in Kind : Start(p, k)
    \/ AcquireLock(p) \/ LockContended(p) \/ LockFails(p) \/ LoadFails(p)
    \/ PlanRejected(p) \/ PlanReadFails(p) \/ ApplyUpdateMissing(p)
    \/ SaveFails(p) \/ ClosePlugins(p) \/ Release(p) \/ Crash(p)

LEMMA LeavingIs ==
    ASSUME TypeOK, NEW p \in Proc, Session(p), Leaving(p)
    PROVE  /\ UNCHANGED <<disk, remote, foreign>>
           /\ \/ pc'[p] \in {"idle", "lock", "load"} /\ plan'[p] = <<>> /\ todo'[p] = <<>>
              \/ pc'[p] \in {"failed", "closed"}
           /\ mem'[p] \in {mem[p], EmptyFile}
           /\ \A q \in Proc \ {p} : (q \in clean)' <=> q \in clean
           /\ \/ faults' = faults /\ pc[p] # "save"
              \/ faults' = faults + 1
<1> USE DEF TypeOK, Goto, counters, history
<1>1. ASSUME NEW k \in Kind, Start(p, k)
      PROVE  /\ UNCHANGED <<disk, remote, foreign, mem, clean, faults>>
             /\ pc'[p] = "lock" /\ plan'[p] = <<>> /\ todo'[p] = <<>>
             /\ pc[p] # "save"
    BY <1>1 DEF Start, Session, Edit
<1>2. CASE AcquireLock(p)
    BY <1>2 DEF AcquireLock, Session, session
<1>3. CASE LockContended(p) \/ LockFails(p)
    BY <1>3 DEF LockContended, LockFails, Exit, Fault
<1>4. CASE LoadFails(p) \/ PlanReadFails(p) \/ SaveFails(p)
    BY <1>4 DEF LoadFails, PlanReadFails, SaveFails, Fault, session
<1>5. CASE PlanRejected(p) \/ ApplyUpdateMissing(p)
    BY <1>5 DEF PlanRejected, ApplyUpdateMissing, Planning, Applying, session
<1>6. CASE Release(p) \/ Crash(p)
    BY <1>6 DEF Release, Crash, Exit, Fault
<1>7. CASE ClosePlugins(p)
    BY <1>7 DEF ClosePlugins, session
<1>8. QED
    BY <1>1, <1>2, <1>3, <1>4, <1>5, <1>6, <1>7 DEF Leaving

(* A file that says nothing tracks nothing. *)
LEMMA EmptyTracksNothing == Tracked(EmptyFile.res) = {}
    BY DEF Tracked, EmptyFile

(* Leaving loses what was about to be saved, at most, and by a fault only. *)
LEMMA LeavingOrphans ==
    ASSUME Holding, TypeOK', OrphansBoundedByFaults, NEW p \in Proc,
           Command(p), Session(p), Leaving(p)
    PROVE  OrphansBoundedByFaults'
<1>1. /\ UNCHANGED <<disk, remote>> /\ pc'[p] # "save"
      /\ \/ faults' = faults /\ pc[p] # "save"
         \/ faults' = faults + 1
    BY LeavingIs DEF Holding
<1>2. \A q \in Proc \ {p} : pc'[q] = pc[q] /\ mem'[q] = mem[q]
    BY CommandFrame DEF Holding
<1> DEFINE lost == mem[p].res[Subject(p)].id
<1>3. ASSUME NEW id \in Orphans', id \notin Orphans
      PROVE  pc[p] = "save" /\ id = lost
    <2>1. /\ id \in 1 .. Len(remote) /\ Live(id)
          /\ \A a \in Tracked(disk.res) : disk.res[a].id # id
        BY <1>1, <1>3 DEF Orphans, Live
    <2>2. PICK q \in Proc : /\ pc[q] = "save"
                            /\ \E a \in Tracked(mem[q].res) : mem[q].res[a].id = id
        BY <1>3, <2>1 DEF Orphans
    <2>3. q = p
        BY <1>2, <1>3, <2>2 DEF Orphans
    <2>4. PICK a \in Tracked(mem[p].res) : mem[p].res[a].id = id
        BY <2>2, <2>3
    <2>5. CASE a # Subject(p)
        <3>1. disk.res[a] = mem[p].res[a]
            BY <2>2, <2>3, <2>4, <2>5 DEF Holding, SnapshotCurrent, Loaded, Tracked
        <3>2. a \in Tracked(disk.res) /\ disk.res[a].id = id
            BY <2>4, <3>1 DEF Tracked
        <3>3. QED
            BY <2>1, <3>2
    <2>6. QED
        BY <2>2, <2>3, <2>4, <2>5
<1>4. CASE faults' = faults /\ pc[p] # "save"
    <2>1. Orphans' \subseteq Orphans /\ faults' >= faults
        BY <1>3, <1>4, BoundsAssumption DEF Holding, TypeOK
    <2>2. QED
        BY <2>1, OrphansKept DEF Holding
<1>5. CASE faults' = faults + 1
    <2>1. Orphans' \subseteq Orphans \cup {lost}
        BY <1>3
    <2>2. QED
        BY <1>5, <2>1, OrphansKept DEF Holding
<1>6. QED
    BY <1>1, <1>4, <1>5

(* So everything stays accounted for, and the session is over. *)
LEMMA LeavingKept ==
    ASSUME Holding, TypeOK', Accounted, NEW p \in Proc,
           Command(p), Session(p), Leaving(p)
    PROVE  Session(p)' /\ Accounted'
<1>1. /\ UNCHANGED <<disk, remote, foreign>>
      /\ \/ pc'[p] \in {"idle", "lock", "load"} /\ plan'[p] = <<>> /\ todo'[p] = <<>>
         \/ pc'[p] \in {"failed", "closed"}
      /\ mem'[p] \in {mem[p], EmptyFile}
      /\ \A q \in Proc \ {p} : (q \in clean)' <=> q \in clean
      /\ \/ faults' = faults /\ pc[p] # "save"
         \/ faults' = faults + 1
    BY LeavingIs DEF Holding
<1>2. \A q \in Proc \ {p} : /\ pc'[q] = pc[q] /\ mem'[q] = mem[q] /\ plan'[q] = plan[q]
                            /\ Loaded(q)' <=> Loaded(q)
    BY CommandFrame DEF Holding, Loaded
<1>3. ~Loaded(p)' /\ pc'[p] # "plan"
    BY <1>1 DEF Loaded
<1>4. Session(p)'
    BY <1>1 DEF Session, Busy, Finished
<1>5. IdsUnique'
    <2>1. \A q \in Proc : mem'[q] \in {mem[q], EmptyFile}
        BY <1>1, <1>2
    <2>2. QED
        BY <1>1, <2>1, EmptyTracksNothing DEF Accounted, IdsUnique
<1>6. faults \in Nat /\ (faults' = 0 => faults = 0 /\ pc[p] # "save")
    BY <1>1, BoundsAssumption DEF Holding, TypeOK
<1>7. Truthful'
    <2>1. ASSUME faults' = 0, NEW q \in Proc, Loaded(q)', NEW a \in Tracked(mem'[q].res)
          PROVE  Accurate(mem[q].res[a])'
        BY <1>1, <1>2, <1>3, <1>6, <2>1 DEF Accounted, Truthful, Accurate
    <2>2. ASSUME faults' = 0, NEW a \in Tracked(disk.res)
          PROVE  Accurate(disk.res[a])' \/ \E q \in Proc : pc'[q] = "save" /\ a = Subject(q)'
        BY <1>1, <1>2, <1>6, <2>2 DEF Accounted, Truthful, Accurate, Subject
    <2>3. QED
        BY <1>1, <2>1, <2>2 DEF Truthful
<1>8. DriftIsForeign'
    BY <1>1, <1>2, <1>3, <1>6 DEF Accounted, DriftIsForeign, DriftReportsTrue
<1>9. QED
    BY <1>4, <1>5, <1>7, <1>8, LeavingOrphans DEF Accounted

-----------------------------------------------------------------------------
(* state.Load and the deletes that open a plan. *)

(* What a sequence s of changes is that deletes the addresses S: each once, *)
(* with its id, before those it depends on unless they depend on it in turn. *)
DeletesAre(res, S, s) ==
    /\ s \in Seq(Change) /\ Len(s) \in Nat
    /\ \A i \in 1 .. Len(s) :
          /\ s[i].addr \in S /\ s[i].action = "delete"
          /\ s[i].id = res[s[i].addr].id /\ ~s[i].drift
    /\ \A a \in S : \E i \in 1 .. Len(s) : s[i].addr = a
    /\ \A i, j \in 1 .. Len(s) : s[i].addr = s[j].addr => i = j
    /\ \A i, j \in 1 .. Len(s) :
          i < j /\ s[i].addr \in Recorded(res)[s[j].addr]
          => ~Acyclic({s[k].addr : k \in i .. j}, Recorded(res))

(* DeleteChanges makes one. *)
LEMMA DeleteChangesAre ==
    ASSUME NEW f \in StateFile, NEW S \in SUBSET Tracked(f.res)
    PROVE  DeletesAre(f.res, S, DeleteChanges(f.res, S))
<1> DEFINE D == Recorded(f.res)
           order == OrderOf(S, D)
           n == Len(order)
           s == DeleteChanges(f.res, S)
<1>1. D \in [Addr -> SUBSET Addr] /\ S \in SUBSET Addr
    BY FileIs
<1>2. order \in Seq(S) /\ Lists(S, order) /\ DependenciesFirst(D, order)
    BY <1>1, OrderAssumption
<1>3. /\ n \in Nat /\ \A i \in 1 .. n : order[i] \in S
      /\ Len(Reverse(order)) = n
      /\ \A i \in 1 .. n : n - i + 1 \in 1 .. n /\ Reverse(order)[i] = order[n - i + 1]
    BY <1>2 DEF Reverse
<1> HIDE DEF order, D, s
<1>4. s \in Seq(Change)
    BY DeleteChangesType DEF s
<1>5. /\ Len(s) = n
      /\ \A i \in 1 .. n : s[i] = [addr |-> order[n - i + 1], action |-> "delete",
                                   id |-> f.res[order[n - i + 1]].id, drift |-> FALSE]
    <2> DEFINE back == Reverse(order)
    <2>1. s = [i \in 1 .. Len(back) |->
                  [addr |-> back[i], action |-> "delete",
                   id |-> f.res[back[i]].id, drift |-> FALSE]]
        BY DEF DeleteChanges, order, D, s
    <2> HIDE DEF back
    <2>2. Len(back) = n /\ \A i \in 1 .. n : back[i] = order[n - i + 1]
        BY <1>3 DEF back
    <2>3. DOMAIN s = 1 .. n
        BY <2>1, <2>2
    <2>4. Len(s) = n
        BY <1>3, <1>4, <2>3
    <2>5. QED
        BY <2>1, <2>2, <2>4
<1>6. \A i \in 1 .. n :
          /\ s[i].addr = order[n - i + 1] /\ s[i].addr \in S /\ s[i].action = "delete"
          /\ s[i].id = f.res[s[i].addr].id /\ ~s[i].drift
    <2> SUFFICES ASSUME NEW i \in 1 .. n
                 PROVE  /\ s[i].addr = order[n - i + 1] /\ s[i].addr \in S
                        /\ s[i].action = "delete"
                        /\ s[i].id = f.res[s[i].addr].id /\ ~s[i].drift
        OBVIOUS
    <2>1. order[n - i + 1] \in S
        BY <1>3
    <2>2. s[i] = [addr |-> order[n - i + 1], action |-> "delete",
                  id |-> f.res[order[n - i + 1]].id, drift |-> FALSE]
        BY <1>5
    <2>3. QED
        BY <2>1, <2>2
<1>7. ASSUME NEW a \in S
      PROVE  \E i \in 1 .. n : s[i].addr = a
    <2>1. PICK k \in 1 .. n : order[k] = a
        BY <1>2 DEF Lists
    <2>2. n - k + 1 \in 1 .. n /\ n - (n - k + 1) + 1 = k
        BY <1>3
    <2>3. QED
        BY <1>6, <2>1, <2>2
<1>8. ASSUME NEW i \in 1 .. n, NEW j \in 1 .. n, s[i].addr = s[j].addr
      PROVE  i = j
    <2>1. order[n - i + 1] = order[n - j + 1] /\ n - i + 1 \in 1 .. n /\ n - j + 1 \in 1 .. n
        BY <1>3, <1>6, <1>8
    <2>2. n - i + 1 = n - j + 1
        BY <1>2, <2>1 DEF Lists
    <2>3. QED
        BY <1>3, <2>2
<1>9. ASSUME NEW i \in 1 .. n, NEW j \in 1 .. n, i < j, s[i].addr \in D[s[j].addr]
      PROVE  ~Acyclic({s[k].addr : k \in i .. j}, D)
    <2>1. /\ n - j + 1 \in 1 .. n /\ n - i + 1 \in 1 .. n
          /\ n - j + 1 <= n - i + 1
          /\ order[n - i + 1] \in D[order[n - j + 1]]
        BY <1>3, <1>6, <1>9
    <2>2. ~Acyclic({order[k] : k \in (n - j + 1) .. (n - i + 1)}, D)
        BY <1>2, <2>1 DEF DependenciesFirst
    <2>3. \A k \in i .. j : /\ n - k + 1 \in (n - j + 1) .. (n - i + 1)
                            /\ k \in 1 .. n
        BY <1>3
    <2>4. \A k \in (n - j + 1) .. (n - i + 1) :
              /\ n - k + 1 \in i .. j /\ n - k + 1 \in 1 .. n /\ n - (n - k + 1) + 1 = k
        BY <1>3
    <2>5. ASSUME NEW k \in i .. j
          PROVE  s[k].addr \in {order[l] : l \in (n - j + 1) .. (n - i + 1)}
        BY <1>6, <2>3
    <2>6. ASSUME NEW k \in (n - j + 1) .. (n - i + 1)
          PROVE  order[k] \in {s[l].addr : l \in i .. j}
        <3>1. s[n - k + 1].addr = order[k] /\ n - k + 1 \in i .. j
            <4>1. n - k + 1 \in 1 .. n /\ n - (n - k + 1) + 1 = k /\ n - k + 1 \in i .. j
                BY <2>4
            <4>2. s[n - k + 1].addr = order[n - (n - k + 1) + 1]
                BY <1>6, <4>1
            <4>3. QED
                BY <4>1, <4>2
        <3>2. QED
            BY <3>1
    <2>7. {order[k] : k \in (n - j + 1) .. (n - i + 1)} = {s[k].addr : k \in i .. j}
        BY <2>5, <2>6
    <2>8. QED
        BY <2>2, <2>7
<1>10. QED
    BY <1>3, <1>4, <1>5, <1>6, <1>7, <1>8, <1>9 DEF D, s, DeletesAre

(* The agents of the module: each once, after those it depends on. *)
LEMMA AgentsAre ==
    ASSUME TypeOK, NEW p \in Proc, NEW s, s = OrderOf(mod[p].agents, mod[p].deps)
    PROVE  /\ s \in Seq(Addr) /\ Len(s) \in Nat
           /\ \A i \in 1 .. Len(s) : s[i] \in mod[p].agents
           /\ \A a \in mod[p].agents : \E i \in 1 .. Len(s) : s[i] = a
           /\ \A i, j \in 1 .. Len(s) : s[i] = s[j] => i = j
           /\ \A i \in 1 .. Len(s) : \A d \in mod[p].deps[s[i]] :
                 \E j \in 1 .. Len(s) : j < i /\ s[j] = d
<1> DEFINE S == mod[p].agents
           D == mod[p].deps
<1>1. /\ S \in SUBSET Addr /\ D \in [Addr -> SUBSET Addr]
      /\ Acyclic(S, D) /\ \A a \in S : D[a] \subseteq S
    BY ModIs
<1> HIDE DEF S, D
<1>2. s \in Seq(S) /\ Lists(S, s) /\ DependenciesFirst(D, s)
    BY <1>1, OrderAssumption DEF S, D
<1>3. /\ s \in Seq(Addr) /\ Len(s) \in Nat
      /\ \A i \in 1 .. Len(s) : s[i] \in S
    BY <1>1, <1>2
<1>4. /\ \A a \in S : \E i \in 1 .. Len(s) : s[i] = a
      /\ \A i, j \in 1 .. Len(s) : s[i] = s[j] => i = j
    BY <1>2 DEF Lists
<1>5. ASSUME NEW i \in 1 .. Len(s), NEW d \in D[s[i]]
      PROVE  \E j \in 1 .. Len(s) : j < i /\ s[j] = d
    <2>1. PICK j \in 1 .. Len(s) : s[j] = d
        BY <1>1, <1>3, <1>4
    <2>2. CASE i <= j
        <3>1. ~Acyclic({s[k] : k \in i .. j}, D)
            BY <1>2, <2>1, <2>2 DEF DependenciesFirst
        <3>2. {s[k] : k \in i .. j} \subseteq S
            BY <1>3
        <3>3. QED
            BY <1>1, <3>1, <3>2, AcyclicPart
    <2>3. QED
        BY <1>3, <2>1, <2>2
<1>6. QED
    BY <1>3, <1>4, <1>5 DEF S, D

(* The session begins: nothing is executed, nothing but deletes is planned. *)
LEMMA LoadSession ==
    ASSUME Holding, NEW p \in Proc, Session(p), Load(p)
    PROVE  Session(p)'
<1> DEFINE gone == IF kind[p] = "destroy" THEN Tracked(disk.res)
                   ELSE Tracked(disk.res) \ mod[p].agents
           D == Recorded(disk.res)
           s == plan'[p]
           t == todo'[p]
<1>1. TypeOK /\ disk \in StateFile
    BY DEF Holding, TypeOK
<1>2. /\ UNCHANGED <<disk, remote, kind, mod>>
      /\ pc'[p] = "plan" /\ mem'[p] = disk
    BY <1>1 DEF Load, Goto, TypeOK
<1>3. /\ s = DeleteChanges(disk.res, gone)
      /\ kind[p] = "destroy" => t = <<>>
      /\ kind[p] # "destroy" => t = OrderOf(mod[p].agents, mod[p].deps)
    BY <1>1 DEF Load, Session, TypeOK
<1>4. /\ s \in Seq(Change) /\ Len(s) \in Nat
      /\ \A i \in 1 .. Len(s) : /\ s[i].addr \in gone /\ s[i].action = "delete"
                                /\ s[i].id = disk.res[s[i].addr].id
      /\ \A a \in gone : \E i \in 1 .. Len(s) : s[i].addr = a
      /\ \A i, j \in 1 .. Len(s) : s[i].addr = s[j].addr => i = j
      /\ \A i, j \in 1 .. Len(s) :
            i < j /\ s[i].addr \in D[s[j].addr]
            => ~Acyclic({s[k].addr : k \in i .. j}, D)
    <2>1. gone \in SUBSET Tracked(disk.res)
        OBVIOUS
    <2>2. s = DeleteChanges(disk.res, gone)
        BY <1>3
    <2>3. DeletesAre(disk.res, gone, s)
        BY <1>1, <2>1, <2>2, DeleteChangesAre
    <2> HIDE DEF gone, s
    <2>4. QED
        BY <2>3 DEF DeletesAre
<1>5. ASSUME kind[p] # "destroy"
      PROVE  /\ t \in Seq(Addr) /\ Len(t) \in Nat
             /\ \A i \in 1 .. Len(t) : t[i] \in mod[p].agents
             /\ \A a \in mod[p].agents : \E i \in 1 .. Len(t) : t[i] = a
             /\ \A i, j \in 1 .. Len(t) : t[i] = t[j] => i = j
             /\ \A i \in 1 .. Len(t) : \A d \in mod[p].deps[t[i]] :
                   \E j \in 1 .. Len(t) : j < i /\ t[j] = d
    BY <1>1, <1>3, <1>5, AgentsAre
<1>6. kind[p] = "destroy" => Len(t) = 0
    BY <1>3
<1>7. /\ \A a \in gone : a \in Addr /\ disk.res[a] # Untracked
      /\ \A a \in Addr : D[a] = IF disk.res[a] = Untracked THEN {} ELSE disk.res[a].deps
    BY <1>1, FileIs
<1>8. Left(p)' = 1 .. Len(s)
    BY <1>2 DEF Left
<1> HIDE DEF D
<1>9. Distinct(p)'
    <2>1. kind[p] # "destroy" => \A i \in 1 .. Len(s) : s[i].addr \notin mod[p].agents
        BY <1>4
    <2>2. \A i, j \in 1 .. Len(t) : t[i] = t[j] => i = j
        BY <1>5, <1>6
    <2>3. \A i \in 1 .. Len(s), j \in 1 .. Len(t) : s[i].addr # t[j]
        BY <1>5, <1>6, <2>1
    <2>4. kind'[p] = "destroy" => t = <<>>
        BY <1>2, <1>3
    <2>5. QED
        BY <1>2, <1>4, <2>2, <2>3, <2>4 DEF Distinct
<1>10. Meant(p)'
    <2>1. kind[p] # "destroy" => \A i \in 1 .. Len(s) : s[i].addr \notin mod[p].agents
        BY <1>4
    <2>2. QED
        BY SMTT(30), <1>2, <1>4, <1>5, <1>6, <2>1 DEF Meant
<1>11. Expressed(p)'
    BY <1>2, <1>5 DEF Expressed
<1>12. Fitting(p)'
    <2>1. ASSUME NEW i \in 1 .. Len(s)
          PROVE  Fits(p, i)'
        BY <1>2, <1>4, <1>7, <2>1 DEF Fits, Known
    <2>2. QED
        BY <1>8, <2>1 DEF Fitting
<1>13. Exact(p)'
    <2>1. CASE kind[p] = "destroy"
        <3>1. \A a \in Tracked(disk.res) : \E i \in 1 .. Len(s) : s[i].addr = a
            BY <1>4, <2>1
        <3>2. QED
            BY <1>2, <1>8, <2>1, <3>1 DEF Exact
    <2>2. CASE kind[p] # "destroy"
        <3>1. ASSUME NEW a \in Addr
              PROVE  ToLookAt(p, a)' \/ (ToChange(p, a)' <=> NeedsChange(p, a)')
            <4>1. CASE a \in mod[p].agents
                BY <1>5, <2>2, <4>1 DEF ToLookAt
            <4>2. CASE a \notin mod[p].agents
                <5>1. NeedsChange(p, a)' <=> disk.res[a] # Untracked
                    BY <1>2, <4>2 DEF NeedsChange
                <5>2. ToChange(p, a)' <=> \E i \in 1 .. Len(s) : s[i].addr = a
                    BY <1>4, <1>8 DEF ToChange, Counts
                <5>3. a \in gone <=> disk.res[a] # Untracked
                    BY <2>2, <4>2 DEF Tracked
                <5>4. QED
                    BY <1>4, <5>1, <5>2, <5>3
            <4>3. QED
                BY <4>1, <4>2
        <3>2. QED
            BY <1>2, <2>2, <3>1 DEF Exact
    <2>3. QED
        BY <2>1, <2>2
<1>14. AgentsOrdered(p)'
    <2>1. \A i \in 1 .. Len(s) : s[i].action = "delete"
        BY <1>4
    <2>2. \A i \in 1 .. Len(t) : \A d \in mod[p].deps[t[i]] :
              \E j \in 1 .. Len(t) : j < i /\ t[j] = d
        <3>1. CASE kind[p] = "destroy"
            BY <1>6, <3>1
        <3>2. CASE kind[p] # "destroy"
            BY <1>5, <3>2
        <3>3. QED
            BY <3>1, <3>2
    <2>3. QED
        BY <1>2, <2>1, <2>2 DEF AgentsOrdered
<1>15. DeletesOrdered(p)'
    <2>1. Recorded(mem'[p].res) = D
        BY <1>2 DEF D
    <2>2. \A j \in 1 .. Len(s) : Known(p, j)'.deps = D[s[j].addr]
        BY <1>2, <1>4, <1>7 DEF Known
    <2>3. QED
        BY <1>4, <1>8, <2>1, <2>2 DEF DeletesOrdered
<1>16. Replaces(p)' /\ Finished(p)'
    BY <1>2 DEF Replaces, Finished
<1>17. QED
    BY <1>2, <1>9, <1>10, <1>11, <1>12, <1>13, <1>14, <1>15, <1>16 DEF Session

(* Loading reads only what is accounted for. *)
LEMMA LoadAccounted ==
    ASSUME Holding, TypeOK', Accounted, NEW p \in Proc, Command(p), Load(p)
    PROVE  Accounted'
<1>1. TypeOK /\ disk \in StateFile /\ LockInv
    BY DEF Holding, TypeOK
<1>2. /\ UNCHANGED <<disk, remote, foreign, faults>>
      /\ pc[p] = "load" /\ pc'[p] = "plan" /\ mem'[p] = disk
    BY <1>1 DEF Load, Goto, TypeOK, counters
<1>3. \A q \in Proc \ {p} : /\ pc'[q] = pc[q] /\ mem'[q] = mem[q]
                            /\ Loaded(q)' <=> Loaded(q)
    BY <1>1, CommandFrame DEF Loaded
<1>4. \A q \in Proc \ {p} : pc[q] \notin {"plan", "apply", "save", "done"}
    BY <1>1, <1>2, AloneIs DEF InCS
<1>5. IdsUnique'
    BY <1>2, <1>3 DEF Accounted, IdsUnique
<1>6. OrphansBoundedByFaults'
    <2>1. Orphans' \subseteq Orphans
        BY <1>2, <1>3 DEF Orphans, Live
    <2>2. faults' >= faults
        BY <1>1, <1>2, BoundsAssumption DEF TypeOK
    <2>3. QED
        BY <1>1, <2>1, <2>2, OrphansKept DEF Accounted
<1>7. Truthful'
    <2>1. faults = 0 => \A a \in Tracked(disk.res) : Accurate(disk.res[a])
        BY <1>2, <1>4 DEF Accounted, Truthful
    <2>2. \A q \in Proc : Loaded(q)' => q = p
        BY <1>3, <1>4 DEF Loaded
    <2>3. QED
        BY <1>2, <2>1, <2>2 DEF Truthful, Accurate
<1>8. DriftIsForeign'
    <2>1. \A i \in 1 .. Len(plan'[p]) : ~plan'[p][i].drift
        <3>1. PICK S \in SUBSET Tracked(disk.res) : plan'[p] = DeleteChanges(disk.res, S)
            BY <1>1 DEF Load, TypeOK
        <3>2. QED
            BY <1>1, <3>1, DeleteChangesAre DEF DeletesAre
    <2>2. \A q \in Proc : pc'[q] = "plan" => q = p
        BY <1>3, <1>4
    <2>3. QED
        BY <2>1, <2>2 DEF DriftIsForeign, DriftReportsTrue
<1>9. QED
    BY <1>5, <1>6, <1>7, <1>8 DEF Accounted

-----------------------------------------------------------------------------
(* BuildPlan: one more agent is looked at. *)

LEMMA PlanChangeSession ==
    ASSUME TypeOK, NEW p \in Proc, Session(p), Planning(p),
           NEW c \in Change, PlanChange(p, c), c.addr = PlanAddr(p),
           PlanWants(p) \notin Inexpressible,
           \/ c.action = "create" /\ ~HasRemote(p)
           \/ /\ HasRemote(p) /\ c.id = PlanEntry(p).id
              /\ c.action = (IF PlanWants(p) = remote[c.id] THEN "noop" ELSE "update")
              /\ c.drift <=> PlanEntry(p).cfg # remote[c.id]
    PROVE  Session(p)'
<1>0. PICK s \in Seq(Change), t \in Seq(Addr), n \in Nat, m \in Nat, a \in Addr,
          e \in Entry \cup {Untracked} :
         /\ s = plan[p] /\ t = todo[p] /\ n = Len(s) /\ m = Len(t)
         /\ a = t[1] /\ e = mem[p].res[a]
    <2>1. PlanAddr(p) = todo[p][1] /\ PlanAddr(p) \in Addr
        BY HeadTailProperties DEF TypeOK, Planning, PlanAddr
    <2>2. mem[p].res[PlanAddr(p)] \in Entry \cup {Untracked}
        BY <2>1, FileIs DEF TypeOK
    <2>3. QED
        BY <2>1, <2>2, PlanIs
<1>a. /\ plan[p] = s /\ Len(plan[p]) = n /\ todo[p] = t /\ Len(todo[p]) = m
      /\ mem[p].res[a] = e
    BY <1>0
<1>1. /\ n \in Nat /\ m \in Nat /\ \A i \in 1 .. n : s[i] \in Change
      /\ t # <<>> /\ pc[p] = "plan"
    BY <1>0 DEF Planning
<1>2. /\ UNCHANGED <<disk, remote, pc, kind, mod, mem, clean, foreign>>
      /\ plan'[p] = Append(s, c) /\ todo'[p] = Tail(t)
    BY <1>0 DEF PlanChange, TypeOK, history
<1>3. /\ Len(plan'[p]) = n + 1
      /\ \A i \in 1 .. n : plan'[p][i] = s[i]
      /\ plan'[p][n + 1] = c
      /\ \A i \in 1 .. n + 1 : i \in 1 .. n \/ i = n + 1
    BY <1>0, <1>2
<1>4. /\ m >= 1 /\ PlanAddr(p) = a
      /\ Len(todo'[p]) = m - 1
      /\ \A i \in 1 .. m - 1 : todo'[p][i] = t[i + 1]
    BY <1>0, <1>1, <1>2 DEF PlanAddr
<1>5. /\ Distinct(p) /\ Meant(p) /\ Expressed(p) /\ Fitting(p) /\ Exact(p)
      /\ AgentsOrdered(p) /\ DeletesOrdered(p)
    BY <1>1 DEF Session, Busy
<1>6. kind[p] # "destroy" /\ a \in mod[p].agents
    BY <1>0, <1>1, <1>4, <1>5 DEF Distinct, Meant
<1>7. Left(p) = 1 .. n /\ Left(p)' = 1 .. n + 1
    BY <1>0, <1>1, <1>2, <1>3 DEF Left
<1>8. /\ PlanEntry(p) = e /\ PlanWants(p) = mod[p].cfg[a] /\ c.addr = a
      /\ mod[p].cfg[a] \notin Inexpressible
    BY <1>0, <1>4 DEF PlanEntry, PlanWants
<1>9. \/ c.action = "create" /\ (e = Untracked \/ remote[e.id] = Gone)
      \/ /\ e # Untracked /\ remote[e.id] # Gone /\ c.id = e.id
         /\ c.action = (IF mod[p].cfg[a] = remote[c.id] THEN "noop" ELSE "update")
         /\ c.drift <=> e.cfg # remote[c.id]
    BY <1>0, <1>8 DEF HasRemote, Live
<1>10. \A i \in 1 .. n : s[i].addr # a
    BY <1>0, <1>1, <1>4, <1>5 DEF Distinct
<1>11. \A j \in 2 .. m : t[j] # a
    BY <1>0, <1>1, <1>4, <1>5 DEF Distinct
<1>12. mod[p].cfg[a] \in Config /\ mod[p].cfg[a] # Gone
    BY <1>0, ModIs, ConfigAssumption
<1>13. Distinct(p)'
    <2>1. /\ \A i, j \in 1 .. n : s[i].addr = s[j].addr => i = j
          /\ \A i, j \in 1 .. m : t[i] = t[j] => i = j
          /\ \A i \in 1 .. n, j \in 1 .. m : s[i].addr # t[j]
        BY <1>a, <1>5 DEF Distinct
    <2>2. \A i, j \in 1 .. n + 1 : plan'[p][i].addr = plan'[p][j].addr => i = j
        <3> SUFFICES ASSUME NEW i \in 1 .. n + 1, NEW j \in 1 .. n + 1,
                            plan'[p][i].addr = plan'[p][j].addr
                     PROVE  i = j
            OBVIOUS
        <3>1. CASE i \in 1 .. n /\ j \in 1 .. n
            BY <1>3, <2>1, <3>1
        <3>2. CASE i \in 1 .. n /\ j = n + 1
            BY <1>3, <1>8, <1>10, <3>2
        <3>3. CASE i = n + 1 /\ j \in 1 .. n
            BY <1>3, <1>8, <1>10, <3>3
        <3>4. QED
            BY <1>3, <3>1, <3>2, <3>3
    <2>3. \A i, j \in 1 .. m - 1 : todo'[p][i] = todo'[p][j] => i = j
        <3> SUFFICES ASSUME NEW i \in 1 .. m - 1, NEW j \in 1 .. m - 1, t[i + 1] = t[j + 1]
                     PROVE  i = j
            BY <1>4
        <3>1. i + 1 \in 1 .. m /\ j + 1 \in 1 .. m
            BY <1>1
        <3>2. i + 1 = j + 1
            BY <2>1, <3>1
        <3>3. QED
            BY <1>1, <3>2
    <2>4. \A i \in 1 .. n + 1, j \in 1 .. m - 1 : plan'[p][i].addr # todo'[p][j]
        <3> SUFFICES ASSUME NEW i \in 1 .. n + 1, NEW j \in 1 .. m - 1
                     PROVE  plan'[p][i].addr # t[j + 1]
            BY <1>4
        <3>1. j + 1 \in 1 .. m /\ j + 1 \in 2 .. m
            BY <1>1
        <3>2. CASE i \in 1 .. n
            <4>1. plan'[p][i] = s[i]
                BY <1>3, <3>2
            <4>2. s[i].addr # t[j + 1]
                BY <2>1, <3>1, <3>2
            <4>3. QED
                BY <4>1, <4>2
        <3>3. CASE i = n + 1
            BY <1>3, <1>8, <1>11, <3>1, <3>3
        <3>4. QED
            BY <1>3, <3>2, <3>3
    <2>5. QED
        BY <1>1, <1>2, <1>3, <1>4, <1>6, <2>2, <2>3, <2>4 DEF Distinct
<1>14. Meant(p)'
    <2>1. /\ \A j \in 1 .. m : t[j] \in mod[p].agents
          /\ \A i \in 1 .. n : s[i].action = "delete"
                <=> kind[p] = "destroy" \/ s[i].addr \notin mod[p].agents
        BY <1>a, <1>5 DEF Meant
    <2>2. \A j \in 1 .. m - 1 : todo'[p][j] \in mod[p].agents
        BY <1>1, <1>4, <2>1
    <2>3. \A i \in 1 .. n + 1 : plan'[p][i].action = "delete"
              <=> kind[p] = "destroy" \/ plan'[p][i].addr \notin mod[p].agents
        BY <1>1, <1>3, <1>6, <1>8, <1>9, <2>1
    <2>4. QED
        BY <1>2, <1>3, <1>4, <2>2, <2>3 DEF Meant
<1>15. Expressed(p)'
    <2>1. ASSUME NEW b \in mod[p].agents, mod[p].cfg[b] \in Inexpressible
          PROVE  \E j \in 1 .. m - 1 : todo'[p][j] = b
        <3>1. PICK j \in 1 .. m : t[j] = b
            BY <1>0, <1>5, <1>6, <2>1 DEF Expressed
        <3>2. j # 1
            BY <1>0, <1>8, <2>1, <3>1
        <3>3. j - 1 \in 1 .. m - 1 /\ (j - 1) + 1 = j
            BY <1>1, <3>2
        <3>4. QED
            BY <1>4, <3>1, <3>3
    <2>2. QED
        BY <1>2, <1>4, <2>1 DEF Expressed
<1>16. Fitting(p)'
    <2>1. ASSUME NEW i \in 1 .. n
          PROVE  Fits(p, i)'
        <3>1. Fits(p, i) /\ plan'[p][i] = plan[p][i]
            BY <1>0, <1>3, <1>5, <1>7 DEF Fitting
        <3>2. QED
            BY <1>2, <3>1 DEF Fits, Known, Wanted, Live
    <2>2. Fits(p, n + 1)'
        <3>1. /\ plan'[p][n + 1] = c /\ Known(p, n + 1)' = e
              /\ Wanted(p, n + 1)' = mod[p].cfg[a]
            BY <1>0, <1>2, <1>3, <1>8 DEF Known, Wanted
        <3>2. QED
            BY <1>2, <1>9, <3>1 DEF Fits, Live
    <2>3. QED
        BY <1>3, <1>7, <2>1, <2>2 DEF Fitting
<1>17. Exact(p)'
    <2>1. ASSUME p \in clean, NEW b \in Addr, b # a
          PROVE  ToLookAt(p, b)' \/ (ToChange(p, b)' <=> NeedsChange(p, b)')
        <3>1. ToLookAt(p, b) \/ (ToChange(p, b) <=> NeedsChange(p, b))
            BY <1>5, <1>6, <2>1 DEF Exact
        <3>2. UNCHANGED NeedsChange(p, b)
            BY <1>2 DEF NeedsChange, InSync
        <3>3. ToChange(p, b)' <=> ToChange(p, b)
            <4>1. ToChange(p, b) <=> \E i \in 1 .. n : s[i].addr = b /\ Counts(s[i])
                BY <1>a, <1>7 DEF ToChange
            <4>2. ToChange(p, b)' <=>
                     \E i \in 1 .. n + 1 : plan'[p][i].addr = b /\ Counts(plan'[p][i])
                BY <1>7 DEF ToChange, Counts
            <4>3. \A i \in 1 .. n : i \in 1 .. n + 1
                BY <1>1
            <4>4. QED
                BY <1>3, <1>8, <2>1, <4>1, <4>2, <4>3
        <3>4. ASSUME ToLookAt(p, b)
              PROVE  ToLookAt(p, b)'
            <4>1. PICK j \in 1 .. m : t[j] = b
                BY <1>0, <3>4 DEF ToLookAt
            <4>2. j - 1 \in 1 .. m - 1 /\ (j - 1) + 1 = j
                BY <1>0, <1>1, <2>1, <4>1
            <4>3. QED
                <5>1. j - 1 \in 1 .. Len(todo'[p]) /\ todo'[p][j - 1] = b
                    BY <1>4, <4>1, <4>2
                <5>2. QED
                    BY <5>1 DEF ToLookAt
        <3>5. QED
            BY <3>1, <3>2, <3>3, <3>4
    <2>2. ToChange(p, a)' <=> NeedsChange(p, a)'
        <3>1. ToChange(p, a)' <=> Counts(c)
            <4>1. n + 1 \in Left(p)' /\ plan'[p][n + 1] = c /\ c.addr = a
                BY <1>1, <1>3, <1>7, <1>8
            <4>2. \A i \in Left(p)' : i = n + 1 \/ plan'[p][i].addr # a
                BY <1>3, <1>7, <1>10
            <4>3. QED
                BY <4>1, <4>2 DEF ToChange, Counts
        <3>2. NeedsChange(p, a)' <=> ~(/\ e # Untracked /\ e.cfg = mod[p].cfg[a]
                                       /\ remote[e.id] = mod[p].cfg[a])
            BY <1>0, <1>2, <1>6 DEF NeedsChange, InSync
        <3>3. QED
            BY <1>9, <1>12, <3>1, <3>2 DEF Counts
    <2>3. QED
        BY <1>2, <1>6, <2>1, <2>2 DEF Exact
<1>18. AgentsOrdered(p)'
    <2>1. \A d : UNCHANGED Settled(p, d)
        BY <1>2 DEF Settled, Live
    <2>2. /\ \A i \in 1 .. n : s[i].action # "delete" =>
                \A d \in mod[p].deps[s[i].addr] :
                   Settled(p, d) \/ \E j \in 1 .. n : j < i /\ s[j].addr = d
          /\ \A i \in 1 .. m : \A d \in mod[p].deps[t[i]] :
                \/ \E j \in 1 .. n : s[j].addr = d
                \/ \E j \in 1 .. m : j < i /\ t[j] = d
        BY <1>a, <1>5, <1>7 DEF AgentsOrdered
    <2>3. ASSUME NEW i \in 1 .. n + 1, plan'[p][i].action # "delete",
                 NEW d \in mod[p].deps[plan'[p][i].addr]
          PROVE  Settled(p, d)' \/ \E j \in 1 .. n + 1 : j < i /\ plan'[p][j].addr = d
        <3>1. CASE i \in 1 .. n
            <4>1. Settled(p, d) \/ \E j \in 1 .. n : j < i /\ s[j].addr = d
                <5>1. plan'[p][i] = s[i]
                    BY <1>3, <3>1
                <5>2. QED
                    BY <2>2, <2>3, <3>1, <5>1
            <4>2. QED
                BY <1>1, <1>3, <2>1, <4>1
        <3>2. CASE i = n + 1
            <4>1. d \in mod[p].deps[t[1]] /\ 1 \in 1 .. m
                BY <1>0, <1>1, <1>3, <1>4, <1>8, <2>3, <3>2
            <4>2. \/ \E j \in 1 .. n : s[j].addr = d
                  \/ \E j \in 1 .. m : j < 1 /\ t[j] = d
                BY <2>2, <4>1
            <4>3. \A j \in 1 .. m : ~(j < 1)
                BY <1>1
            <4>4. PICK j \in 1 .. n : s[j].addr = d
                BY <4>2, <4>3
            <4>5. QED
                <5>1. j \in 1 .. n + 1 /\ j < i /\ plan'[p][j].addr = d
                    BY <1>1, <1>3, <3>2, <4>4
                <5>2. QED
                    BY <5>1
        <3>3. QED
            BY <1>1, <3>1, <3>2
    <2>4. ASSUME NEW i \in 1 .. m - 1, NEW d \in mod[p].deps[todo'[p][i]]
          PROVE  \/ \E j \in 1 .. n + 1 : plan'[p][j].addr = d
                 \/ \E j \in 1 .. m - 1 : j < i /\ todo'[p][j] = d
        <3>1. i + 1 \in 1 .. m /\ d \in mod[p].deps[t[i + 1]]
            BY <1>1, <1>4
        <3>2. CASE \E j \in 1 .. n : s[j].addr = d
            BY <1>1, <1>3, <3>2
        <3>3. ASSUME NEW j \in 1 .. m, j < i + 1, t[j] = d
              PROVE  \/ \E k \in 1 .. n + 1 : plan'[p][k].addr = d
                     \/ \E k \in 1 .. m - 1 : k < i /\ todo'[p][k] = d
            <4>1. CASE j = 1
                BY SMTT(30), <1>0, <1>1, <1>3, <1>8, <3>3, <4>1
            <4>2. CASE j # 1
                <5>1. j - 1 \in 1 .. m - 1 /\ j - 1 < i /\ (j - 1) + 1 = j
                    BY <1>1, <3>1, <3>3, <4>2
                <5>2. QED
                    BY <1>4, <3>3, <5>1
            <4>3. QED
                BY <4>1, <4>2
        <3>4. QED
            BY SMTT(30), <2>2, <3>1, <3>2, <3>3
    <2>5. QED
        <3>1. ASSUME NEW i \in 1 .. Len(plan'[p]), plan'[p][i].action # "delete",
                     NEW d \in mod'[p].deps[plan'[p][i].addr]
              PROVE  Settled(p, d)' \/ \E j \in Left(p)' : j < i /\ plan'[p][j].addr = d
            <4>1. i \in 1 .. n + 1 /\ d \in mod[p].deps[plan'[p][i].addr]
                BY <1>2, <1>3, <3>1
            <4>2. QED
                BY SMTT(30), <1>7, <2>3, <3>1, <4>1
        <3>2. ASSUME NEW i \in 1 .. Len(todo'[p]), NEW d \in mod'[p].deps[todo'[p][i]]
              PROVE  \/ \E j \in 1 .. Len(plan'[p]) : plan'[p][j].addr = d
                     \/ \E j \in 1 .. Len(todo'[p]) : j < i /\ todo'[p][j] = d
            <4>1. i \in 1 .. m - 1 /\ d \in mod[p].deps[todo'[p][i]]
                BY <1>2, <1>4, <3>2
            <4>2. Len(plan'[p]) = n + 1 /\ Len(todo'[p]) = m - 1
                BY <1>3, <1>4
            <4>3. \/ \E j \in 1 .. n + 1 : plan'[p][j].addr = d
                  \/ \E j \in 1 .. m - 1 : j < i /\ todo'[p][j] = d
                BY <2>4, <4>1
            <4>4. QED
                BY <4>2, <4>3
        <3>3. QED
            BY <3>1, <3>2 DEF AgentsOrdered
<1>19. DeletesOrdered(p)'
    <2> SUFFICES ASSUME NEW i \in 1 .. n + 1, NEW j \in 1 .. n + 1, i < j,
                        plan'[p][i].action = "delete", plan'[p][j].action = "delete",
                        plan'[p][i].addr \in Known(p, j)'.deps
                 PROVE  ~Acyclic({plan'[p][k].addr : k \in i .. j}, Recorded(mem'[p].res))
        BY <1>7 DEF DeletesOrdered
    <2>1. i \in 1 .. n /\ j \in 1 .. n
        BY <1>1, <1>3, <1>9
    <2>2. \A k \in i .. j : k \in 1 .. n /\ plan'[p][k] = s[k]
        BY <1>1, <1>3, <2>1
    <2>3. {plan'[p][k].addr : k \in i .. j} = {s[k].addr : k \in i .. j}
        BY <2>2
    <2>4. ~Acyclic({s[k].addr : k \in i .. j}, Recorded(mem[p].res))
        <3>1. plan'[p][i] = s[i] /\ plan'[p][j] = s[j]
            BY <1>3, <2>1
        <3>2. Known(p, j)' = Known(p, j)
            BY <1>a, <1>2, <3>1 DEF Known
        <3>3. QED
            BY SMTT(30), <1>a, <1>5, <1>7, <2>1, <3>1, <3>2 DEF DeletesOrdered
    <2>5. QED
        BY <1>2, <2>3, <2>4
<1>20. Replaces(p)' /\ Finished(p)'
    BY <1>1, <1>2 DEF Replaces, Finished
<1>21. QED
    BY <1>1, <1>2, <1>13, <1>14, <1>15, <1>16, <1>17, <1>18, <1>19, <1>20 DEF Session

(* The end of BuildPlan: every agent has been looked at. *)
LEMMA PlanDoneSession ==
    ASSUME TypeOK, NEW p \in Proc, Session(p), PlanDone(p)
    PROVE  Session(p)'
<1>1. /\ UNCHANGED <<disk, remote, kind, mod, mem, todo, plan, clean, foreign>>
      /\ pc[p] = "plan" /\ todo[p] = <<>>
      /\ pc'[p] = IF kind[p] = "plan" THEN "done" ELSE "apply"
    BY DEF PlanDone, Goto, TypeOK, session, history
<1>2. CASE pc'[p] = "done"
    BY <1>1, <1>2 DEF Session, Busy, Finished
<1>3. CASE pc'[p] = "apply"
    <2>1. /\ Distinct(p) /\ Meant(p) /\ Expressed(p) /\ Fitting(p) /\ Exact(p)
          /\ AgentsOrdered(p) /\ DeletesOrdered(p)
        BY <1>1 DEF Session, Busy
    <2>2. Left(p)' = Left(p) /\ \A i : UNCHANGED <<Known(p, i), Wanted(p, i)>>
        BY <1>1, <1>3 DEF Left, Known, Wanted
    <2>3. Distinct(p)' /\ Meant(p)' /\ Expressed(p)'
        BY <1>1, <1>3, <2>1 DEF Distinct, Meant, Expressed
    <2>4. Fitting(p)'
        <3>1. \A i : Fits(p, i)' <=> Fits(p, i)
            BY <1>1, <2>2 DEF Fits, Live
        <3>2. QED
            BY <2>1, <2>2, <3>1 DEF Fitting
    <2>5. Exact(p)'
        <3>1. \A a : UNCHANGED <<ToLookAt(p, a), ToChange(p, a), NeedsChange(p, a)>>
            BY <1>1, <2>2 DEF ToLookAt, ToChange, NeedsChange, Counts, InSync
        <3>2. QED
            BY <1>1, <2>1, <2>2, <3>1 DEF Exact, Tracked
    <2>6. AgentsOrdered(p)'
        <3>1. \A d : UNCHANGED Settled(p, d)
            BY <1>1 DEF Settled, Live
        <3>2. QED
            BY <1>1, <2>1, <2>2, <3>1 DEF AgentsOrdered
    <2>7. DeletesOrdered(p)'
        BY <1>1, <2>1, <2>2 DEF DeletesOrdered, Recorded
    <2>8. QED
        BY <1>3, <2>3, <2>4, <2>5, <2>6, <2>7 DEF Session, Replaces, Finished
<1>4. QED
    BY <1>1, <1>2, <1>3

(* Any step of BuildPlan that goes on. *)
LEMMA PlanSession ==
    ASSUME TypeOK, NEW p \in Proc, Session(p),
           PlanCreate(p) \/ PlanCompare(p) \/ PlanDone(p)
    PROVE  Session(p)'
<1>1. ASSUME Planning(p)
      PROVE  PlanAddr(p) \in Addr
    BY <1>1, HeadTailProperties DEF TypeOK, Planning, PlanAddr
<1>2. CASE PlanCreate(p)
    <2> DEFINE c == [addr |-> PlanAddr(p), action |-> "create", id |-> 0, drift |-> FALSE]
    <2>1. Planning(p) /\ ~HasRemote(p) /\ PlanWants(p) \notin Inexpressible /\ PlanChange(p, c)
        BY <1>2 DEF PlanCreate
    <2>2. c \in Change /\ c.addr = PlanAddr(p) /\ c.action = "create"
        BY <1>1, <2>1 DEF Change, Action
    <2> HIDE DEF c
    <2>3. QED
        BY <2>1, <2>2, PlanChangeSession
<1>3. CASE PlanCompare(p)
    <2> DEFINE now == remote[PlanEntry(p).id]
               c == [addr   |-> PlanAddr(p),
                     action |-> IF PlanWants(p) = now THEN "noop" ELSE "update",
                     id     |-> PlanEntry(p).id,
                     drift  |-> PlanEntry(p).cfg # now]
    <2>1. Planning(p) /\ HasRemote(p) /\ PlanWants(p) \notin Inexpressible /\ PlanChange(p, c)
        BY <1>3 DEF PlanCompare
    <2>2. PlanEntry(p).id \in Nat
        BY <1>1, <2>1, FileIs DEF HasRemote, PlanEntry, TypeOK
    <2>3. /\ c \in Change /\ c.addr = PlanAddr(p) /\ c.id = PlanEntry(p).id
          /\ c.action = IF PlanWants(p) = remote[c.id] THEN "noop" ELSE "update"
          /\ c.drift <=> PlanEntry(p).cfg # remote[c.id]
        BY <1>1, <2>1, <2>2 DEF Change, Action
    <2> HIDE DEF c
    <2>4. QED
        BY <2>1, <2>3, PlanChangeSession
<1>4. QED
    BY <1>2, <1>3, PlanDoneSession

-----------------------------------------------------------------------------
(* Steps that change neither the state file nor the platform. *)

LEMMA QuietAccounted ==
    ASSUME Holding, TypeOK', Accounted, NEW p \in Proc, Command(p),
           UNCHANGED <<disk, remote, mem, clean, foreign, faults>>,
           pc[p] \in {"plan", "apply"}, pc'[p] \in {"plan", "apply", "done"},
           faults = 0 /\ pc'[p] = "plan" /\ p \in clean =>
              \A i \in 1 .. Len(plan'[p]) : plan'[p][i].drift => plan'[p][i].id \in foreign
    PROVE  Accounted'
<1>1. /\ \A q \in Proc \ {p} : pc'[q] = pc[q] /\ plan'[q] = plan[q]
      /\ \A q \in Proc : /\ Loaded(q)' <=> Loaded(q)
                         /\ pc'[q] = "save" <=> pc[q] = "save"
                         /\ pc[q] = "save" => plan'[q] = plan[q]
    BY CommandFrame DEF Holding, Loaded
<1>2. IdsUnique'
    BY DEF Accounted, IdsUnique
<1>3. OrphansBoundedByFaults'
    BY <1>1 DEF Accounted, OrphansBoundedByFaults, Orphans, Live
<1>4. Truthful'
    BY <1>1 DEF Accounted, Truthful, Accurate, Subject
<1>5. DriftIsForeign'
    BY <1>1 DEF Accounted, DriftIsForeign, DriftReportsTrue
<1>6. QED
    BY <1>2, <1>3, <1>4, <1>5 DEF Accounted

(* What a comparison reports as drift somebody else has written. *)
LEMMA DriftFound ==
    ASSUME Holding, Accounted, NEW p \in Proc, PlanCompare(p), faults = 0,
           PlanEntry(p).cfg # remote[PlanEntry(p).id]
    PROVE  PlanEntry(p).id \in foreign
<1>1. PlanAddr(p) \in Tracked(mem[p].res) /\ Loaded(p)
    <2>1. PlanAddr(p) \in Addr
        BY HeadTailProperties DEF Holding, TypeOK, PlanCompare, Planning, PlanAddr
    <2>2. QED
        BY <2>1 DEF PlanCompare, Planning, HasRemote, PlanEntry, Loaded, Tracked
<1>2. QED
    BY <1>1 DEF Accounted, Truthful, Accurate, PlanEntry

LEMMA PlanAccounted ==
    ASSUME Holding, TypeOK', Accounted, NEW p \in Proc, Command(p),
           PlanCreate(p) \/ PlanCompare(p) \/ PlanDone(p)
    PROVE  Accounted'
<1>1. CASE PlanDone(p)
    BY <1>1, QuietAccounted
    DEF PlanDone, Holding, TypeOK, Goto, session, counters, history, Accounted,
        DriftIsForeign, DriftReportsTrue
<1>2. ASSUME NEW c \in Change, Planning(p), PlanChange(p, c),
             c.drift /\ faults = 0 => c.id \in foreign
      PROVE  Accounted'
    <2>1. plan[p] \in Seq(Change) /\ plan'[p] = Append(plan[p], c)
        BY <1>2 DEF PlanChange, Holding, TypeOK
    <2>2. \A i \in 1 .. Len(plan'[p]) :
              plan'[p][i] = c \/ (i \in 1 .. Len(plan[p]) /\ plan'[p][i] = plan[p][i])
        BY <2>1
    <2>3. /\ UNCHANGED <<disk, remote, mem, clean, foreign, faults, pc>>
          /\ pc[p] = "plan"
        BY <1>2 DEF PlanChange, Planning, counters, history
    <2>4. faults = 0 /\ p \in clean =>
              \A i \in 1 .. Len(plan'[p]) : plan'[p][i].drift => plan'[p][i].id \in foreign
        BY <1>2, <2>2, <2>3 DEF Accounted, DriftIsForeign, DriftReportsTrue
    <2>5. QED
        BY <2>3, <2>4, QuietAccounted
<1>3. ASSUME Planning(p)
      PROVE  PlanAddr(p) \in Addr
    BY <1>3, HeadTailProperties DEF Holding, TypeOK, Planning, PlanAddr
<1>4. CASE PlanCreate(p)
    <2>1. [addr |-> PlanAddr(p), action |-> "create", id |-> 0, drift |-> FALSE] \in Change
        BY <1>3, <1>4 DEF PlanCreate, Change, Action
    <2>2. QED
        BY <1>2, <1>4, <2>1 DEF PlanCreate
<1>5. CASE PlanCompare(p)
    <2> DEFINE now == remote[PlanEntry(p).id]
               c == [addr   |-> PlanAddr(p),
                     action |-> IF PlanWants(p) = now THEN "noop" ELSE "update",
                     id     |-> PlanEntry(p).id,
                     drift  |-> PlanEntry(p).cfg # now]
    <2>1. Planning(p) /\ HasRemote(p) /\ PlanChange(p, c)
        BY <1>5 DEF PlanCompare
    <2>2. PlanEntry(p).id \in Nat
        BY <1>3, <2>1, FileIs DEF HasRemote, PlanEntry, Holding, TypeOK
    <2>3. c \in Change
        BY <1>3, <2>1, <2>2 DEF Change, Action
    <2>4. c.drift /\ faults = 0 => c.id \in foreign
        BY <1>5, DriftFound
    <2> HIDE DEF c
    <2>5. QED
        BY <1>2, <2>1, <2>3, <2>4
<1>6. QED
    BY <1>1, <1>4, <1>5

-----------------------------------------------------------------------------
(* One change is executed and its outcome recorded. *)

(* What an executed change leaves of the objects of the other agents: all.  *)
OthersUntouched(p) ==
    \A b \in Tracked(mem[p].res) \ {Subject(p)} :
        LET id == mem[p].res[b].id
        IN  remote'[id] = remote[id] /\ (id \in foreign' <=> id \in foreign)

LEMMA ExecutedSession ==
    ASSUME TypeOK, SnapshotCurrent, NEW p \in Proc, Session(p),
           pc[p] = "apply", plan[p] # <<>>,
           NEW e \in Entry \cup {Untracked}, Record(p, e), Goto(p, "save"),
           UNCHANGED <<disk, kind, mod, todo, plan, clean>>,
           OthersUntouched(p),
           Head(plan[p]).action = "delete" => e = Untracked,
           Head(plan[p]).action # "delete" =>
              /\ e # Untracked /\ e.cfg = Desired(p)
              /\ p \in clean => remote'[e.id] = Desired(p),
           LET old == disk.res[Subject(p)]
           IN  \/ old = Untracked
               \/ remote'[old.id] = Gone
               \/ e # Untracked /\ e.id = old.id
    PROVE  Session(p)'
<1>0. PICK s \in Seq(Change), n \in Nat, a \in Addr, r \in [Addr -> Entry \cup {Untracked}] :
          /\ plan[p] = s /\ n = Len(s) /\ a = Subject(p) /\ r = mem[p].res
    BY PlanIs, SubjectType DEF TypeOK, StateFile
<1>1. /\ s # <<>> /\ n >= 1 /\ s[1] = Head(s) /\ s[1].addr = a
      /\ Len(plan[p]) = n /\ \A i \in 1 .. n : s[i].addr \in Addr
    <2>1. s # <<>> /\ n >= 1 /\ s[1] = Head(s)
        BY <1>0, HeadTailProperties
    <2>2. \A i \in 1 .. n : s[i].addr \in Addr
        BY <1>0, PlanIs
    <2>3. QED
        BY <1>0, <2>1, <2>2 DEF Subject
<1>2. /\ UNCHANGED <<disk, kind, mod, todo, clean>>
      /\ plan'[p] = s /\ Len(plan'[p]) = n /\ pc'[p] = "save" /\ Subject(p)' = a
    BY <1>0, <1>1 DEF Goto, TypeOK, Subject
<1>3. /\ mem'[p].res[a] = e
      /\ \A b \in Addr \ {a} : mem'[p].res[b] = r[b]
    <2>1. mem'[p] = [mem[p] EXCEPT !.res = [mem[p].res EXCEPT ![a] = e]]
        BY <1>0 DEF Record, TypeOK
    <2>2. mem'[p].res = [r EXCEPT ![a] = e]
        BY <1>0, <2>1 DEF TypeOK, StateFile
    <2>3. QED
        BY <1>0, <2>2
<1>4. \A b \in Addr \ {a} : r[b] # Untracked =>
          /\ remote'[r[b].id] = remote[r[b].id]
          /\ r[b].id \in foreign' <=> r[b].id \in foreign
    <2> SUFFICES ASSUME NEW b \in Addr \ {a}, r[b] # Untracked
                 PROVE  /\ remote'[r[b].id] = remote[r[b].id]
                        /\ r[b].id \in foreign' <=> r[b].id \in foreign
        BY <1>0
    <2>1. b \in Tracked(mem[p].res) \ {Subject(p)} /\ mem[p].res[b] = r[b]
        BY <1>0 DEF Tracked
    <2>2. QED
        BY <2>1 DEF OthersUntouched
<1>5. /\ s[1].action = "delete" => e = Untracked
      /\ s[1].action # "delete" =>
            /\ e # Untracked /\ e.cfg = mod[p].cfg[a]
            /\ p \in clean => remote'[e.id] = mod[p].cfg[a]
    BY <1>0, <1>1 DEF Desired
<1>6. /\ Distinct(p) /\ Meant(p) /\ Expressed(p) /\ Fitting(p) /\ Exact(p)
      /\ AgentsOrdered(p) /\ DeletesOrdered(p)
    BY DEF Session, Busy
<1>7. /\ \A i, j \in 1 .. n : s[i].addr = s[j].addr => i = j
      /\ todo[p] = <<>> /\ todo'[p] = <<>>
      /\ \A i \in 1 .. n : s[i].action = "delete"
            <=> kind[p] = "destroy" \/ s[i].addr \notin mod[p].agents
    BY <1>0, <1>1, <1>2, <1>6 DEF Distinct, Meant
<1>8. /\ Left(p) = 1 .. n /\ Left(p)' = 2 .. n
      /\ \A i \in 2 .. n : i \in 1 .. n /\ s[i].addr # a /\ s[i].addr \in Addr
      /\ 1 \in 1 .. n
    <2>1. Left(p) = 1 .. n /\ Left(p)' = 2 .. n
        BY <1>1, <1>2 DEF Left
    <2>2. \A i \in 2 .. n : i \in 1 .. n /\ i # 1 /\ 1 \in 1 .. n
        BY <1>0
    <2>3. QED
        BY <1>0, <1>1, <1>7, <2>1, <2>2
<1>9. \A i \in 2 .. n : /\ Known(p, i) = r[s[i].addr] /\ Known(p, i)' = r[s[i].addr]
                        /\ Wanted(p, i)' = Wanted(p, i)
    BY <1>0, <1>2, <1>3, <1>8 DEF Known, Wanted
<1>10. Distinct(p)' /\ Meant(p)' /\ Expressed(p)'
    BY <1>0, <1>2, <1>6, <1>7 DEF Distinct, Meant, Expressed
<1>11. Fitting(p)'
    <2>1. ASSUME NEW i \in 2 .. n
          PROVE  Fits(p, i)'
        <3>1. Fits(p, i) /\ plan[p][i] = s[i] /\ plan'[p][i] = s[i]
            BY <1>0, <1>2, <1>6, <1>8 DEF Fitting
        <3>2. Known(p, i) # Untracked =>
                  /\ remote'[Known(p, i).id] = remote[Known(p, i).id]
                  /\ (Known(p, i).id \in foreign' <=> Known(p, i).id \in foreign)
            BY <1>4, <1>8, <1>9
        <3>3. Known(p, i)' = Known(p, i) /\ Wanted(p, i)' = Wanted(p, i)
            BY <1>9
        <3>4. QED
            BY <1>2, <3>1, <3>2, <3>3 DEF Fits, Live
    <2>2. QED
        BY <1>8, <2>1 DEF Fitting
<1>12. ASSUME NEW b \in Addr, b # a
       PROVE  /\ NeedsChange(p, b)' <=> NeedsChange(p, b)
              /\ ToChange(p, b)' <=> ToChange(p, b)
              /\ Settled(p, b)' <=> Settled(p, b)
    <2>1. mem'[p].res[b] = mem[p].res[b]
        BY <1>0, <1>3, <1>12
    <2>2. mem[p].res[b] # Untracked => remote'[mem[p].res[b].id] = remote[mem[p].res[b].id]
        BY <1>0, <1>4, <1>12
    <2>3. NeedsChange(p, b)' <=> NeedsChange(p, b)
        BY <1>2, <2>1, <2>2 DEF NeedsChange, InSync
    <2>4. ToChange(p, b)' <=> ToChange(p, b)
        <3>1. ToChange(p, b) <=> \E i \in 1 .. n : s[i].addr = b /\ Counts(s[i])
            BY <1>0, <1>8 DEF ToChange
        <3>2. ToChange(p, b)' <=> \E i \in 2 .. n : s[i].addr = b /\ Counts(s[i])
            BY <1>2, <1>8 DEF ToChange, Counts
        <3>3. \A i \in 1 .. n : s[i].addr = b => i \in 2 .. n
            BY <1>1, <1>12
        <3>4. QED
            BY <1>8, <3>1, <3>2, <3>3
    <2>5. Settled(p, b)' <=> Settled(p, b)
        BY <1>2, <2>1, <2>2 DEF Settled, Live
    <2>6. QED
        BY <2>3, <2>4, <2>5
<1>13. Exact(p)'
    <2>1. CASE kind[p] = "destroy"
        <3>1. s[1].action = "delete"
            BY <1>7, <1>8, <2>1
        <3>2. ASSUME NEW b \in Tracked(mem'[p].res)
              PROVE  \E i \in 2 .. n : s[i].addr = b
            <4>1. PICK c \in Addr : c = b /\ c # a /\ r[c] # Untracked
                BY <1>3, <1>5, <3>1, <3>2 DEF Tracked
            <4>2. PICK i \in 1 .. n : s[i].addr = c
                BY <1>0, <1>6, <1>8, <2>1, <4>1 DEF Exact, Tracked
            <4>3. i \in 2 .. n
                BY <1>1, <4>1, <4>2
            <4>4. QED
                BY <4>1, <4>2, <4>3
        <3>3. QED
            BY <1>2, <1>8, <2>1, <3>2 DEF Exact
    <2>2. CASE kind[p] # "destroy"
        <3>1. ~ToLookAt(p, a)' /\ \A b : ~ToLookAt(p, b)
            BY <1>7 DEF ToLookAt
        <3>2. ASSUME p \in clean, NEW b \in Addr, b # a
              PROVE  ToChange(p, b)' <=> NeedsChange(p, b)'
            BY <1>6, <1>12, <2>2, <3>1, <3>2 DEF Exact
        <3>3. ~ToChange(p, a)'
            BY <1>2, <1>8 DEF ToChange
        <3>4. p \in clean => ~NeedsChange(p, a)'
            <4>1. CASE s[1].action = "delete"
                BY <1>1, <1>2, <1>3, <1>5, <1>7, <1>8, <2>2, <4>1 DEF NeedsChange
            <4>2. CASE s[1].action # "delete"
                BY <1>1, <1>2, <1>3, <1>5, <1>7, <1>8, <4>2 DEF NeedsChange, InSync
            <4>3. QED
                BY <4>1, <4>2
        <3>5. QED
            BY <1>2, <2>2, <3>2, <3>3, <3>4 DEF Exact
    <2>3. QED
        BY <2>1, <2>2
<1>14. AgentsOrdered(p)'
    <2>1. ASSUME NEW i \in 1 .. n, s[i].action # "delete", NEW d \in mod[p].deps[s[i].addr]
          PROVE  Settled(p, d)' \/ \E j \in 2 .. n : j < i /\ s[j].addr = d
        <3>1. /\ s[i].addr \in mod[p].agents /\ kind[p] # "destroy"
              /\ d \in mod[p].agents /\ d \in Addr
            BY <1>7, <2>1, ModIs
        <3>2. CASE d = a
            <4>1. s[1].action # "delete"
                BY <1>1, <1>7, <1>8, <3>1, <3>2
            <4>2. mod[p].cfg[a] # Gone
                BY <1>0, ModIs, ConfigAssumption
            <4>3. Settled(p, a)'
                BY <1>2, <1>3, <1>5, <4>1, <4>2 DEF Settled, Live
            <4>4. QED
                BY <3>2, <4>3
        <3>3. CASE d # a
            <4>1. Settled(p, d) \/ \E j \in 1 .. n : j < i /\ s[j].addr = d
                BY <1>0, <1>1, <1>6, <1>8, <2>1 DEF AgentsOrdered
            <4>2. \A j \in 1 .. n : s[j].addr = d => j \in 2 .. n
                BY <1>1, <3>3
            <4>3. QED
                BY <1>12, <3>1, <3>3, <4>1, <4>2
        <3>4. QED
            BY <3>2, <3>3
    <2>2. ASSUME NEW i \in 1 .. Len(plan'[p]), plan'[p][i].action # "delete",
                 NEW d \in mod'[p].deps[plan'[p][i].addr]
          PROVE  Settled(p, d)' \/ \E j \in Left(p)' : j < i /\ plan'[p][j].addr = d
        <3>1. i \in 1 .. n /\ s[i].action # "delete" /\ d \in mod[p].deps[s[i].addr]
            BY <1>2, <2>2
        <3>2. Settled(p, d)' \/ \E j \in 2 .. n : j < i /\ s[j].addr = d
            BY <2>1, <3>1
        <3>3. QED
            BY <1>2, <1>8, <3>2
    <2>3. QED
        BY <1>7, <2>2 DEF AgentsOrdered
<1>15. DeletesOrdered(p)'
    <2> SUFFICES ASSUME NEW i \in Left(p)', NEW j \in Left(p)', i < j,
                        plan'[p][i].action = "delete", plan'[p][j].action = "delete",
                        plan'[p][i].addr \in Known(p, j)'.deps
                 PROVE  ~Acyclic({plan'[p][k].addr : k \in i .. j}, Recorded(mem'[p].res))
        BY DEF DeletesOrdered
    <2>0. /\ i \in 2 .. n /\ j \in 2 .. n /\ i \in 1 .. n /\ j \in 1 .. n
          /\ Known(p, j)' = Known(p, j) /\ plan'[p] = s /\ plan[p] = s
        BY <1>0, <1>2, <1>8, <1>9
    <2>1. ~Acyclic({s[k].addr : k \in i .. j}, Recorded(mem[p].res))
        BY <1>6, <1>8, <2>0 DEF DeletesOrdered
    <2>2. \A k \in i .. j : k \in 2 .. n
        BY <1>0, <2>0
    <2>3. \A x \in {s[k].addr : k \in i .. j} : x \in Addr /\ x # a
        BY <1>8, <2>2
    <2>4. \A x \in Addr \ {a} : Recorded(mem'[p].res)[x] = Recorded(mem[p].res)[x]
        BY <1>0, <1>3 DEF Recorded
    <2>5. \A x \in {s[k].addr : k \in i .. j} :
              Recorded(mem'[p].res)[x] = Recorded(mem[p].res)[x]
        BY <2>3, <2>4
    <2>6. QED
        BY <2>0, <2>1, <2>5, AcyclicCongruence
<1>16. Replaces(p)' /\ Finished(p)'
    BY <1>0, <1>2, <1>3 DEF Replaces, Finished, Live
<1>17. QED
    BY <1>2, <1>10, <1>11, <1>13, <1>14, <1>15, <1>16 DEF Session

(* Nor is an object lost: a new one is where the entry says it is.          *)
LEMMA ExecutedAccounted ==
    ASSUME Holding, TypeOK', Accounted, NEW p \in Proc, Command(p),
           pc[p] = "apply", plan[p] # <<>>,
           NEW e \in Entry \cup {Untracked}, Record(p, e), Goto(p, "save"),
           UNCHANGED <<disk, plan, faults>>,
           OthersUntouched(p), Len(remote') >= Len(remote),
           e # Untracked =>
              /\ e.id \in 1 .. Len(remote')
              /\ \A b \in Tracked(mem[p].res) \ {Subject(p)} : mem[p].res[b].id # e.id
              /\ remote'[e.id] = e.cfg \/ e.id \in foreign',
           \A id \in 1 .. Len(remote') : remote'[id] # Gone =>
              \/ id \in 1 .. Len(remote) /\ remote[id] # Gone
              \/ e # Untracked /\ e.id = id
    PROVE  Accounted'
<1>0. PICK a \in Addr, r \in [Addr -> Entry \cup {Untracked}] :
          a = Subject(p) /\ r = mem[p].res
    BY SubjectType DEF Holding, TypeOK, StateFile
<1>1. /\ \A q \in Proc \ {p} : pc'[q] = pc[q] /\ mem'[q] = mem[q] /\ ~InCS(q)
      /\ pc'[p] = "save" /\ Subject(p)' = a /\ InCS(p)
      /\ Len(remote) \in Nat /\ Len(remote') \in Nat
    <2>1. InCS(p) /\ TypeOK /\ LockInv
        BY DEF InCS, Holding
    <2>2. \A q \in Proc \ {p} : pc'[q] = pc[q] /\ mem'[q] = mem[q] /\ ~InCS(q)
        BY <2>1, CommandFrame, AloneIs
    <2>3. pc'[p] = "save" /\ Subject(p)' = a
        BY <1>0, <2>1 DEF TypeOK, Goto, Subject
    <2>4. Len(remote) \in Nat /\ Len(remote') \in Nat
        BY <2>1 DEF TypeOK
    <2>5. QED
        BY <2>1, <2>2, <2>3, <2>4
<1>2. /\ mem'[p].res[a] = e
      /\ \A b \in Addr \ {a} : mem'[p].res[b] = r[b]
    <2>1. mem'[p] = [mem[p] EXCEPT !.res = [mem[p].res EXCEPT ![a] = e]]
        BY <1>0 DEF Record, Holding, TypeOK
    <2>2. mem'[p].res = [r EXCEPT ![a] = e]
        BY <1>0, <2>1 DEF Holding, TypeOK, StateFile
    <2>3. QED
        BY <1>0, <2>2
<1>3. /\ Tracked(mem'[p].res) \subseteq Addr /\ Tracked(r) \subseteq Addr
      /\ \A b \in Tracked(mem'[p].res) \ {a} : b \in Tracked(r) /\ mem'[p].res[b] = r[b]
      /\ a \in Tracked(mem'[p].res) <=> e # Untracked
    BY <1>0, <1>2 DEF Tracked
<1>4. ASSUME NEW b \in Tracked(r), b # a
      PROVE  /\ remote'[r[b].id] = remote[r[b].id]
             /\ r[b].id \in foreign' <=> r[b].id \in foreign
             /\ e # Untracked => r[b].id # e.id
    <2>1. b \in Tracked(mem[p].res) \ {Subject(p)} /\ mem[p].res[b] = r[b]
        BY <1>0, <1>4
    <2>2. e # Untracked => r[b].id # e.id
        BY <2>1
    <2>3. QED
        BY <2>1, <2>2 DEF OthersUntouched
<1>5. IdsUnique'
    <2>1. ASSUME NEW b \in Tracked(mem'[p].res), NEW c \in Tracked(mem'[p].res)
          PROVE  /\ mem'[p].res[b].id \in 1 .. Len(remote')
                 /\ b # c => mem'[p].res[b].id # mem'[p].res[c].id
        <3>1. \A x, y \in Tracked(r) : /\ r[x].id \in 1 .. Len(remote)
                                       /\ x # y => r[x].id # r[y].id
            BY <1>0 DEF Accounted, IdsUnique
        <3>2. \A x \in 1 .. Len(remote) : x \in 1 .. Len(remote')
            BY <1>1
        <3>3. CASE b = a
            BY <1>2, <1>3, <1>4, <2>1, <3>3
        <3>4. CASE b # a
            BY <1>2, <1>3, <1>4, <2>1, <3>1, <3>2, <3>4
        <3>5. QED
            BY <3>3, <3>4
    <2>2. ASSUME NEW f, f = disk \/ \E q \in Proc \ {p} : f = mem[q],
                 NEW b \in Tracked(f.res), NEW c \in Tracked(f.res)
          PROVE  /\ f.res[b].id \in 1 .. Len(remote')
                 /\ b # c => f.res[b].id # f.res[c].id
        <3>1. f.res[b].id \in 1 .. Len(remote) /\ (b # c => f.res[b].id # f.res[c].id)
            BY <2>2 DEF Accounted, IdsUnique
        <3>2. QED
            BY <1>1, <3>1
    <2>3. QED
        BY <1>1, <2>1, <2>2 DEF IdsUnique
<1>6. OrphansBoundedByFaults'
    <2>1. ASSUME NEW id \in Orphans'
          PROVE  id \in Orphans
        <3>1. /\ id \in 1 .. Len(remote') /\ remote'[id] # Gone
              /\ \A b \in Tracked(disk.res) : disk.res[b].id # id
              /\ \A q \in Proc : pc'[q] = "save" =>
                    \A b \in Tracked(mem'[q].res) : mem'[q].res[b].id # id
            BY <2>1 DEF Orphans, Live
        <3>2. ~(e # Untracked /\ e.id = id)
            BY <1>1, <1>2, <1>3, <3>1
        <3>3. id \in 1 .. Len(remote) /\ Live(id)
            BY <3>1, <3>2 DEF Live
        <3>4. \A q \in Proc : pc[q] # "save"
            BY <1>1 DEF InCS
        <3>5. QED
            BY <3>1, <3>3, <3>4 DEF Orphans
    <2>2. Orphans' \subseteq Orphans /\ faults' >= faults
        BY SMTT(30), <2>1, BoundsAssumption DEF Holding, TypeOK
    <2>3. QED
        BY <2>2, OrphansKept DEF Holding, Accounted
<1>7. Truthful'
    <2> SUFFICES ASSUME faults = 0
                 PROVE  /\ \A q \in Proc : Loaded(q)' =>
                              \A b \in Tracked(mem'[q].res) : Accurate(mem[q].res[b])'
                        /\ \A b \in Tracked(disk.res) :
                              \/ Accurate(disk.res[b])'
                              \/ \E q \in Proc : pc'[q] = "save" /\ b = Subject(q)'
        BY DEF Truthful
    <2>1. \A b \in Tracked(r) : remote[r[b].id] = r[b].cfg \/ r[b].id \in foreign
        BY <1>0 DEF Accounted, Truthful, Accurate, Loaded
    <2>2. \A b \in Tracked(r) \ {a} : remote'[r[b].id] = r[b].cfg \/ r[b].id \in foreign'
        BY <1>4, <2>1
    <2>3. \A q \in Proc : Loaded(q)' => q = p
        BY <1>1 DEF Loaded, InCS
    <2>4. \A b \in Tracked(mem'[p].res) : Accurate(mem[p].res[b])'
        BY <1>2, <1>3, <2>2 DEF Accurate
    <2>5. ASSUME NEW b \in Tracked(disk.res), b # a
          PROVE  Accurate(disk.res[b])'
        <3>1. disk.res[b] = r[b] /\ b \in Tracked(r)
            BY <1>0, <2>5 DEF Holding, SnapshotCurrent, Loaded, Tracked
        <3>2. QED
            BY <2>2, <2>5, <3>1 DEF Accurate
    <2>6. QED
        BY <1>1, <2>3, <2>4, <2>5
<1>8. DriftIsForeign'
    <2>1. \A q \in Proc : pc'[q] # "plan"
        BY <1>1 DEF InCS
    <2>2. QED
        BY <2>1 DEF DriftIsForeign, DriftReportsTrue
<1>9. QED
    BY <1>5, <1>6, <1>7, <1>8 DEF Accounted

(* The change to execute fits the entry in the file and the object there.   *)
LEMMA HeadFits ==
    ASSUME Holding, NEW p \in Proc, Session(p), pc[p] = "apply", plan[p] # <<>>
    PROVE  LET h == Head(plan[p])
               x == mem[p].res[Subject(p)]
           IN  /\ Subject(p) \in Addr /\ SubjectId(p) \in Nat
               /\ disk.res[Subject(p)] = x
               /\ h.action = "create" => x = Untracked \/ remote[x.id] = Gone
               /\ h.action # "create" =>
                     /\ x # Untracked /\ SubjectId(p) = x.id
                     /\ Subject(p) \in Tracked(mem[p].res)
               /\ h.action = "noop" =>
                     /\ remote[x.id] = Desired(p) \/ (p \notin clean /\ x.id \in foreign)
                     /\ h.drift => x.cfg # Desired(p)
<1>1. /\ Subject(p) \in Addr /\ Head(plan[p]) \in Change
      /\ 1 \in Left(p) /\ plan[p][1] = Head(plan[p])
    <2>1. Subject(p) \in Addr /\ Head(plan[p]) \in Change
        BY SubjectType DEF Holding
    <2>2. Len(plan[p]) \in Nat /\ Len(plan[p]) > 0 /\ plan[p][1] = Head(plan[p])
        BY HeadTailProperties DEF Holding, TypeOK
    <2>3. QED
        BY <2>1, <2>2 DEF Left
<1>2. Fits(p, 1)
    BY <1>1 DEF Session, Busy, Fitting
<1>3. disk.res[Subject(p)] = mem[p].res[Subject(p)]
    BY <1>1 DEF Holding, SnapshotCurrent, Loaded
<1>4. QED
    BY <1>1, <1>2, <1>3
    DEF Fits, Known, Wanted, Live, Subject, SubjectId, Desired, Change, Tracked

(* The ids that a command holds are of objects, of one each. *)
LEMMA IdsAre ==
    ASSUME IdsUnique, NEW p \in Proc
    PROVE  \A b, c \in Tracked(mem[p].res) :
              /\ mem[p].res[b].id \in 1 .. Len(remote)
              /\ b # c => mem[p].res[b].id # mem[p].res[c].id
    BY DEF IdsUnique

(* What the platform holds after a change of one object. *)
LEMMA RemoteIs ==
    ASSUME TypeOK, NEW p \in Proc, plan[p] # <<>>
    PROVE  /\ Len(remote) \in Nat
           /\ Len(Created(p)) = Len(remote) + 1
           /\ Created(p)[Len(remote) + 1] = Desired(p)
           /\ \A id \in 1 .. Len(remote) : Created(p)[id] = remote[id]
           /\ Len(Updated(p)) = Len(remote) /\ Len(Deleted(p)) = Len(remote)
           /\ \A id \in 1 .. Len(remote) :
                 /\ Updated(p)[id] = IF id = SubjectId(p) THEN Desired(p) ELSE remote[id]
                 /\ Deleted(p)[id] = IF id = SubjectId(p) THEN Gone ELSE remote[id]
<1>1. remote \in Seq(Config \cup {Gone}) /\ Desired(p) \in Config
    BY DesiredType DEF TypeOK
<1>2. /\ Len(Created(p)) = Len(remote) + 1
      /\ Created(p)[Len(remote) + 1] = Desired(p)
      /\ \A id \in 1 .. Len(remote) : Created(p)[id] = remote[id]
    BY <1>1 DEF Created
<1>3. /\ Len(Updated(p)) = Len(remote)
      /\ \A id \in 1 .. Len(remote) :
            Updated(p)[id] = IF id = SubjectId(p) THEN Desired(p) ELSE remote[id]
    BY <1>1, ExceptSeq DEF Updated
<1>4. /\ Len(Deleted(p)) = Len(remote)
      /\ \A id \in 1 .. Len(remote) :
            Deleted(p)[id] = IF id = SubjectId(p) THEN Gone ELSE remote[id]
    BY <1>1, ExceptSeq DEF Deleted
<1>5. QED
    BY <1>1, <1>2, <1>3, <1>4

(* Hence the four ways to execute a change keep the session right and       *)
(* everything accounted for: Create,                                        *)
LEMMA CreateKept ==
    ASSUME Holding, TypeOK', Accounted, NEW p \in Proc, Session(p),
           Command(p), ApplyCreate(p)
    PROVE  Session(p)' /\ Accounted'
<1> DEFINE h == Head(plan[p])
           e == StateEntry(p, Len(remote) + 1)
           x == mem[p].res[Subject(p)]
<1>1. /\ pc[p] = "apply" /\ plan[p] # <<>> /\ h.action = "create"
      /\ remote' = Created(p) /\ Record(p, e) /\ Goto(p, "save")
      /\ UNCHANGED <<disk, kind, mod, todo, plan, clean, foreign, faults>>
    BY DEF ApplyCreate, Applying, counters, history
<1>2. TypeOK /\ SnapshotCurrent /\ IdsUnique
    BY DEF Holding, Accounted
<1>3. /\ Len(remote) \in Nat /\ Len(remote') = Len(remote) + 1
      /\ remote'[Len(remote) + 1] = Desired(p)
      /\ \A id \in 1 .. Len(remote) : remote'[id] = remote[id]
    BY <1>1, <1>2, RemoteIs
<1>4. /\ e \in Entry /\ e # Untracked /\ e.id = Len(remote) + 1 /\ e.cfg = Desired(p)
    BY <1>1, <1>2, <1>3, EntryIs
<1>5. /\ disk.res[Subject(p)] = x
      /\ x = Untracked \/ remote[x.id] = Gone
    BY <1>1, HeadFits
<1>6. \A b, c \in Tracked(mem[p].res) : mem[p].res[b].id \in 1 .. Len(remote)
    BY <1>2, IdsAre
<1>7. OthersUntouched(p)
    BY <1>1, <1>3, <1>6 DEF OthersUntouched
<1>8. x = Untracked \/ remote'[x.id] = Gone
    <2>1. x # Untracked => x.id \in 1 .. Len(remote)
        BY <1>1, <1>2, <1>6, SubjectType DEF Tracked
    <2>2. QED
        BY <1>3, <1>5, <2>1
<1> HIDE DEF e, h, x
<1>9. Session(p)'
    <2>1. /\ h.action # "delete"
          /\ disk.res[Subject(p)] = Untracked \/ remote'[disk.res[Subject(p)].id] = Gone
        BY <1>1, <1>5, <1>8
    <2>2. remote'[e.id] = Desired(p)
        BY <1>3, <1>4
    <2>3. QED
        BY <1>1, <1>2, <1>4, <1>7, <2>1, <2>2, ExecutedSession DEF h
<1>10. Accounted'
    <2>1. \A b \in Tracked(mem[p].res) \ {Subject(p)} : mem[p].res[b].id # e.id
        BY <1>3, <1>4, <1>6
    <2>2. /\ Len(remote') >= Len(remote)
          /\ e.id \in 1 .. Len(remote') /\ remote'[e.id] = e.cfg
          /\ \A id \in 1 .. Len(remote') : id \in 1 .. Len(remote) \/ e.id = id
        BY <1>3, <1>4
    <2>3. \A id \in 1 .. Len(remote') : remote'[id] # Gone =>
              \/ id \in 1 .. Len(remote) /\ remote[id] # Gone
              \/ e # Untracked /\ e.id = id
        BY <1>3, <1>4, <2>2
    <2>4. QED
        BY <1>1, <1>4, <1>7, <2>1, <2>2, <2>3, ExecutedAccounted
<1>11. QED
    BY <1>9, <1>10

(* Update, *)
LEMMA UpdateKept ==
    ASSUME Holding, TypeOK', Accounted, NEW p \in Proc, Session(p),
           Command(p), ApplyUpdate(p)
    PROVE  Session(p)' /\ Accounted'
<1> DEFINE h == Head(plan[p])
           e == StateEntry(p, SubjectId(p))
           x == mem[p].res[Subject(p)]
<1>1. /\ pc[p] = "apply" /\ plan[p] # <<>> /\ h.action = "update" /\ Live(SubjectId(p))
      /\ remote' = Updated(p) /\ Record(p, e) /\ Goto(p, "save")
      /\ foreign' = foreign \ {SubjectId(p)}
      /\ UNCHANGED <<disk, kind, mod, todo, plan, clean, faults>>
    BY DEF ApplyUpdate, Applying, counters
<1>2. TypeOK /\ SnapshotCurrent /\ IdsUnique
    BY DEF Holding, Accounted
<1>3. /\ disk.res[Subject(p)] = x /\ x # Untracked /\ SubjectId(p) = x.id
      /\ Subject(p) \in Tracked(mem[p].res) /\ SubjectId(p) \in Nat
    BY <1>1, HeadFits
<1>4. /\ e \in Entry /\ e # Untracked /\ e.id = x.id /\ e.cfg = Desired(p)
    BY <1>1, <1>2, <1>3, EntryIs
<1>5. \A b, c \in Tracked(mem[p].res) : /\ mem[p].res[b].id \in 1 .. Len(remote)
                                        /\ b # c => mem[p].res[b].id # mem[p].res[c].id
    BY <1>2, IdsAre
<1> HIDE DEF e, h
<1>6. x.id \in 1 .. Len(remote) /\ remote[x.id] # Gone
    BY <1>1, <1>3, <1>5 DEF Live
<1>7. /\ Len(remote) \in Nat /\ Len(remote') = Len(remote)
      /\ remote'[x.id] = Desired(p)
      /\ \A id \in 1 .. Len(remote) : id # x.id => remote'[id] = remote[id]
    BY <1>1, <1>2, <1>3, <1>6, RemoteIs
<1>8. \A b \in Tracked(mem[p].res) \ {Subject(p)} :
          mem[p].res[b].id \in 1 .. Len(remote) /\ mem[p].res[b].id # x.id
    BY <1>3, <1>5
<1> HIDE DEF x
<1>9. OthersUntouched(p)
    BY <1>1, <1>3, <1>7, <1>8 DEF OthersUntouched
<1>10. Session(p)'
    <2>1. h.action # "delete" /\ e.id = disk.res[Subject(p)].id /\ remote'[e.id] = Desired(p)
        BY <1>1, <1>3, <1>4, <1>7
    <2>2. QED
        BY <1>1, <1>2, <1>4, <1>9, <2>1, ExecutedSession DEF h
<1>11. Accounted'
    <2>1. \A b \in Tracked(mem[p].res) \ {Subject(p)} : mem[p].res[b].id # e.id
        BY <1>4, <1>8
    <2>2. /\ Len(remote') >= Len(remote)
          /\ e.id \in 1 .. Len(remote') /\ remote'[e.id] = e.cfg
        BY <1>4, <1>6, <1>7
    <2>3. \A id \in 1 .. Len(remote') : remote'[id] # Gone =>
              \/ id \in 1 .. Len(remote) /\ remote[id] # Gone
              \/ e # Untracked /\ e.id = id
        BY <1>4, <1>7
    <2>4. QED
        BY <1>1, <1>4, <1>9, <2>1, <2>2, <2>3, ExecutedAccounted
<1>12. QED
    BY <1>10, <1>11

(* Delete, *)
LEMMA DeleteKept ==
    ASSUME Holding, TypeOK', Accounted, NEW p \in Proc, Session(p),
           Command(p), ApplyDelete(p)
    PROVE  Session(p)' /\ Accounted'
<1> DEFINE h == Head(plan[p])
           x == mem[p].res[Subject(p)]
<1>1. /\ pc[p] = "apply" /\ plan[p] # <<>> /\ h.action = "delete"
      /\ remote' = Deleted(p) /\ Record(p, Untracked) /\ Goto(p, "save")
      /\ UNCHANGED <<disk, kind, mod, todo, plan, clean, foreign, faults>>
    BY DEF ApplyDelete, Applying, counters, history
<1>2. TypeOK /\ SnapshotCurrent /\ IdsUnique
    BY DEF Holding, Accounted
<1>3. /\ disk.res[Subject(p)] = x /\ x # Untracked /\ SubjectId(p) = x.id
      /\ Subject(p) \in Tracked(mem[p].res)
    BY <1>1, HeadFits
<1>4. \A b, c \in Tracked(mem[p].res) : /\ mem[p].res[b].id \in 1 .. Len(remote)
                                        /\ b # c => mem[p].res[b].id # mem[p].res[c].id
    BY <1>2, IdsAre
<1> HIDE DEF h
<1>5. x.id \in 1 .. Len(remote)
    BY <1>3, <1>4
<1>6. /\ Len(remote) \in Nat /\ Len(remote') = Len(remote)
      /\ remote'[x.id] = Gone
      /\ \A id \in 1 .. Len(remote) : id # x.id => remote'[id] = remote[id]
    BY <1>1, <1>2, <1>3, <1>5, RemoteIs
<1>7. \A b \in Tracked(mem[p].res) \ {Subject(p)} :
          mem[p].res[b].id \in 1 .. Len(remote) /\ mem[p].res[b].id # x.id
    BY <1>3, <1>4
<1> HIDE DEF x
<1>8. OthersUntouched(p)
    BY <1>1, <1>3, <1>6, <1>7 DEF OthersUntouched
<1>9. Session(p)'
    <2>1. remote'[disk.res[Subject(p)].id] = Gone
        BY <1>3, <1>6
    <2>2. QED
        BY <1>1, <1>2, <1>8, <2>1, ExecutedSession DEF h
<1>10. Accounted'
    <2>1. \A id \in 1 .. Len(remote') : remote'[id] # Gone =>
              id \in 1 .. Len(remote) /\ remote[id] # Gone
        BY <1>6
    <2>2. Len(remote') >= Len(remote)
        BY <1>6
    <2>3. QED
        BY <1>1, <1>8, <2>1, <2>2, ExecutedAccounted
<1>11. QED
    BY <1>9, <1>10

(* and the refresh of an entry. *)
LEMMA RefreshKept ==
    ASSUME Holding, TypeOK', Accounted, NEW p \in Proc, Session(p),
           Command(p), ApplyRefresh(p)
    PROVE  Session(p)' /\ Accounted'
<1> DEFINE h == Head(plan[p])
           x == mem[p].res[Subject(p)]
           e == StateEntry(p, x.id)
<1>1. /\ pc[p] = "apply" /\ plan[p] # <<>> /\ h.action = "noop"
      /\ Record(p, e) /\ Goto(p, "save")
      /\ UNCHANGED <<disk, remote, kind, mod, todo, plan, clean, foreign, faults>>
    BY DEF ApplyRefresh, Applying, counters, history
<1>2. TypeOK /\ SnapshotCurrent /\ IdsUnique
    BY DEF Holding, Accounted
<1>3. /\ disk.res[Subject(p)] = x /\ x # Untracked /\ SubjectId(p) = x.id
      /\ Subject(p) \in Tracked(mem[p].res) /\ SubjectId(p) \in Nat
      /\ remote[x.id] = Desired(p) \/ (p \notin clean /\ x.id \in foreign)
    BY <1>1, HeadFits
<1>4. /\ e \in Entry /\ e # Untracked /\ e.id = x.id /\ e.cfg = Desired(p)
    BY <1>1, <1>2, <1>3, EntryIs
<1>5. \A b, c \in Tracked(mem[p].res) : /\ mem[p].res[b].id \in 1 .. Len(remote)
                                        /\ b # c => mem[p].res[b].id # mem[p].res[c].id
    BY <1>2, IdsAre
<1> HIDE DEF e, h
<1>6. x.id \in 1 .. Len(remote) /\ Len(remote) \in Nat
    BY <1>2, <1>3, <1>5 DEF TypeOK
<1>7. \A b \in Tracked(mem[p].res) \ {Subject(p)} : mem[p].res[b].id # x.id
    BY <1>3, <1>5
<1> HIDE DEF x
<1>8. OthersUntouched(p)
    BY <1>1 DEF OthersUntouched
<1>9. Session(p)'
    <2>1. /\ h.action # "delete" /\ e.id = disk.res[Subject(p)].id
          /\ p \in clean => remote'[e.id] = Desired(p)
        BY <1>1, <1>3, <1>4
    <2>2. QED
        BY <1>1, <1>2, <1>4, <1>8, <2>1, ExecutedSession DEF h
<1>10. Accounted'
    <2>1. \A b \in Tracked(mem[p].res) \ {Subject(p)} : mem[p].res[b].id # e.id
        BY <1>4, <1>7
    <2>2. /\ Len(remote') >= Len(remote) /\ e.id \in 1 .. Len(remote')
          /\ remote'[e.id] = e.cfg \/ e.id \in foreign'
        BY <1>1, <1>3, <1>4, <1>6
    <2>3. \A id \in 1 .. Len(remote') : remote'[id] # Gone =>
              id \in 1 .. Len(remote) /\ remote[id] # Gone
        BY <1>1
    <2>4. QED
        BY <1>1, <1>4, <1>8, <2>1, <2>2, <2>3, ExecutedAccounted
<1>11. QED
    BY <1>9, <1>10

-----------------------------------------------------------------------------
(* The plan gets shorter: a change is saved, or there was nothing to do. *)

LEMMA DroppedSession ==
    ASSUME TypeOK, NEW p \in Proc, Session(p), plan[p] # <<>>,
           pc[p] \in {"apply", "save"}, pc'[p] = "apply", plan'[p] = Tail(plan[p]),
           mem'[p].res = mem[p].res,
           UNCHANGED <<remote, kind, mod, todo, clean, foreign>>,
           pc[p] = "apply" =>
              /\ kind[p] # "destroy"
              /\ ~Counts(Head(plan[p])) /\ Settled(p, Subject(p))
    PROVE  Session(p)'
<1>0. PICK s \in Seq(Change), n \in Nat :
          s = plan[p] /\ n = Len(s) /\ n > 0 /\ Head(s) = s[1]
    BY PlanIs, HeadTailProperties
<1>1. plan[p] = s /\ Len(plan[p]) = n /\ Head(plan[p]) = s[1] /\ Subject(p) = s[1].addr
    BY <1>0 DEF Subject
<1>2. /\ Len(plan'[p]) = n - 1 /\ n - 1 \in Nat
      /\ \A i \in 1 .. n - 1 : plan'[p][i] = s[i + 1] /\ i + 1 \in 2 .. n /\ i + 1 \in 1 .. n
      /\ \A i \in 2 .. n : i - 1 \in 1 .. n - 1 /\ (i - 1) + 1 = i /\ i \in 1 .. n
    BY <1>0
<1>3. /\ Distinct(p) /\ Meant(p) /\ Expressed(p) /\ Fitting(p) /\ Exact(p)
      /\ AgentsOrdered(p) /\ DeletesOrdered(p)
    BY DEF Session, Busy
<1>4. todo[p] = <<>> /\ Len(todo[p]) = 0 /\ Len(todo'[p]) = 0
    BY <1>3 DEF Distinct
<1>5. /\ Left(p)' = 1 .. n - 1
      /\ \A i \in Left(p) : i \in 1 .. n
      /\ \A i \in 2 .. n : i \in Left(p)
      /\ pc[p] = "save" => Left(p) = 2 .. n
    BY <1>0, <1>1, <1>2 DEF Left
<1>6. \A i \in 1 .. n - 1 :
          /\ Known(p, i)' = Known(p, i + 1) /\ Wanted(p, i)' = Wanted(p, i + 1)
          /\ i + 1 \in Left(p)
    BY <1>1, <1>2, <1>5 DEF Known, Wanted
<1>7. Distinct(p)'
    <2>1. \A i, j \in 1 .. n : s[i].addr = s[j].addr => i = j
        BY <1>1, <1>3 DEF Distinct
    <2>2. ASSUME NEW i \in 1 .. n - 1, NEW j \in 1 .. n - 1,
                 plan'[p][i].addr = plan'[p][j].addr
          PROVE  i = j
        <3>1. i + 1 = j + 1
            BY <1>2, <2>1, <2>2
        <3>2. QED
            BY <1>0, <3>1
    <2>3. QED
        BY <1>2, <1>4, <2>2 DEF Distinct
<1>8. Meant(p)'
    <2>1. \A i \in 1 .. n : s[i].action = "delete"
              <=> kind[p] = "destroy" \/ s[i].addr \notin mod[p].agents
        BY <1>1, <1>3 DEF Meant
    <2>2. \A i \in 1 .. n - 1 : plan'[p][i].action = "delete"
              <=> kind[p] = "destroy" \/ plan'[p][i].addr \notin mod[p].agents
        BY <1>2, <2>1
    <2>3. QED
        BY <1>2, <1>4, <2>2 DEF Meant
<1>9. Expressed(p)'
    BY <1>3 DEF Expressed
<1>10. Fitting(p)'
    <2>1. ASSUME NEW i \in 1 .. n - 1
          PROVE  Fits(p, i)'
        <3>1. Fits(p, i + 1) /\ plan'[p][i] = plan[p][i + 1]
            BY <1>1, <1>2, <1>3, <1>6 DEF Fitting
        <3>2. Known(p, i)' = Known(p, i + 1) /\ Wanted(p, i)' = Wanted(p, i + 1)
            BY <1>6
        <3>3. QED
            BY <3>1, <3>2 DEF Fits, Live
    <2>2. QED
        BY <1>5, <2>1 DEF Fitting
<1>11. \A a : pc[p] = "save" \/ kind[p] = "destroy" \/ s[1].addr # a \/ ~Counts(s[1])
    BY <1>1
<1>12. ASSUME NEW a
       PROVE  /\ ToChange(p, a)' <=> ToChange(p, a)
              /\ kind[p] = "destroy" =>
                    ((\E i \in Left(p) : s[i].addr = a) =>
                        \E i \in 1 .. n - 1 : plan'[p][i].addr = a)
    <2>1. ToChange(p, a) <=> \E i \in Left(p) : s[i].addr = a /\ Counts(s[i])
        BY <1>1 DEF ToChange
    <2>2. ToChange(p, a)' <=>
              \E i \in 1 .. n - 1 : plan'[p][i].addr = a /\ Counts(plan'[p][i])
        BY <1>5 DEF ToChange, Counts
    <2>3. ASSUME NEW i \in Left(p), i # 1
          PROVE  i - 1 \in 1 .. n - 1 /\ plan'[p][i - 1] = s[i]
        <3>1. i \in 2 .. n
            BY <1>0, <1>5, <2>3
        <3>2. QED
            BY <1>2, <3>1
    <2>4. ASSUME 1 \in Left(p)
          PROVE  kind[p] # "destroy" /\ ~Counts(s[1])
        <3>1. pc[p] = "apply"
            BY <1>0, <1>5, <2>4
        <3>2. QED
            BY <1>1, <3>1
    <2>5. ToChange(p, a) => ToChange(p, a)'
        BY <2>1, <2>2, <2>3, <2>4
    <2>6. ToChange(p, a)' => ToChange(p, a)
        BY <1>2, <1>6, <2>1, <2>2
    <2>7. QED
        BY <2>3, <2>4, <2>5, <2>6
<1>13. Exact(p)'
    <2>1. CASE kind[p] = "destroy"
        <3>1. \A a \in Tracked(mem[p].res) : \E i \in Left(p) : s[i].addr = a
            BY <1>1, <1>3, <2>1 DEF Exact
        <3>2. \A a \in Tracked(mem[p].res) : \E i \in 1 .. n - 1 : plan'[p][i].addr = a
            BY <1>12, <2>1, <3>1
        <3>3. QED
            BY <1>5, <2>1, <3>2 DEF Exact
    <2>2. CASE kind[p] # "destroy" /\ p \in clean
        <3>1. \A a \in Addr : ToLookAt(p, a) \/ (ToChange(p, a) <=> NeedsChange(p, a))
            BY <1>3, <2>2 DEF Exact
        <3>2. \A a : UNCHANGED <<ToLookAt(p, a), NeedsChange(p, a)>>
            BY DEF ToLookAt, NeedsChange, InSync
        <3>3. QED
            BY <1>12, <2>2, <3>1, <3>2 DEF Exact
    <2>3. QED
        BY <2>1, <2>2 DEF Exact
<1>14. AgentsOrdered(p)'
    <2>1. \A d : UNCHANGED Settled(p, d)
        BY DEF Settled, Live
    <2>2. \A i \in 1 .. n : s[i].action # "delete" =>
              \A d \in mod[p].deps[s[i].addr] :
                 Settled(p, d) \/ \E j \in Left(p) : j < i /\ s[j].addr = d
        BY <1>1, <1>3 DEF AgentsOrdered
    <2>3. ASSUME NEW i \in 1 .. n - 1, plan'[p][i].action # "delete",
                 NEW d \in mod[p].deps[plan'[p][i].addr]
          PROVE  Settled(p, d)' \/ \E j \in 1 .. n - 1 : j < i /\ plan'[p][j].addr = d
        <3>1. plan'[p][i] = s[i + 1] /\ i + 1 \in 1 .. n
            BY <1>2
        <3>2. Settled(p, d) \/ \E j \in Left(p) : j < i + 1 /\ s[j].addr = d
            BY <2>2, <2>3, <3>1
        <3>3. ASSUME NEW j \in Left(p), j < i + 1, s[j].addr = d
              PROVE  Settled(p, d)' \/ \E k \in 1 .. n - 1 : k < i /\ plan'[p][k].addr = d
            <4>1. CASE j = 1
                <5>1. pc[p] = "apply"
                    BY <1>0, <1>5, <4>1
                <5>2. QED
                    BY <1>1, <2>1, <3>3, <4>1, <5>1
            <4>2. CASE j # 1
                <5>1. j \in 2 .. n
                    BY <1>0, <1>5, <4>2
                <5>2. j - 1 < i
                    BY <1>0, <3>3, <5>1
                <5>3. j - 1 \in 1 .. n - 1 /\ plan'[p][j - 1] = s[j]
                    BY <1>2, <5>1
                <5>4. QED
                    BY <3>3, <5>2, <5>3
            <4>3. QED
                BY <4>1, <4>2
        <3>4. QED
            BY <2>1, <3>2, <3>3
    <2>4. ASSUME NEW i \in 1 .. Len(plan'[p]), plan'[p][i].action # "delete",
                 NEW d \in mod'[p].deps[plan'[p][i].addr]
          PROVE  Settled(p, d)' \/ \E j \in Left(p)' : j < i /\ plan'[p][j].addr = d
        <3>1. i \in 1 .. n - 1 /\ d \in mod[p].deps[plan'[p][i].addr]
            BY <1>2, <2>4
        <3>2. QED
            BY <1>5, <2>3, <2>4, <3>1
    <2>5. \A i : i \notin 1 .. Len(todo'[p])
        BY <1>4
    <2>6. QED
        BY <2>4, <2>5 DEF AgentsOrdered
<1>15. DeletesOrdered(p)'
    <2> SUFFICES ASSUME NEW i \in 1 .. n - 1, NEW j \in 1 .. n - 1, i < j,
                        plan'[p][i].action = "delete", plan'[p][j].action = "delete",
                        plan'[p][i].addr \in Known(p, j)'.deps
                 PROVE  ~Acyclic({plan'[p][k].addr : k \in i .. j}, Recorded(mem'[p].res))
        BY <1>5 DEF DeletesOrdered
    <2>1. /\ plan'[p][i] = s[i + 1] /\ plan'[p][j] = s[j + 1]
          /\ i + 1 \in Left(p) /\ j + 1 \in Left(p) /\ i + 1 < j + 1
          /\ Known(p, j)' = Known(p, j + 1)
        BY <1>0, <1>2, <1>6
    <2>2. ~Acyclic({s[k].addr : k \in i + 1 .. j + 1}, Recorded(mem[p].res))
        BY <1>1, <1>3, <2>1 DEF DeletesOrdered
    <2>3. ASSUME NEW k \in i .. j
          PROVE  plan'[p][k].addr \in {s[l].addr : l \in i + 1 .. j + 1}
        <3>1. k \in 1 .. n - 1 /\ k + 1 \in i + 1 .. j + 1
            BY <1>0
        <3>2. QED
            BY <1>2, <3>1
    <2>4. ASSUME NEW l \in i + 1 .. j + 1
          PROVE  s[l].addr \in {plan'[p][k].addr : k \in i .. j}
        <3>1. l \in 2 .. n /\ l - 1 \in i .. j
            BY <1>0
        <3>2. plan'[p][l - 1] = s[l]
            BY <1>2, <3>1
        <3>3. QED
            BY <3>1, <3>2
    <2>5. {plan'[p][k].addr : k \in i .. j} = {s[l].addr : l \in i + 1 .. j + 1}
        BY <2>3, <2>4
    <2>6. QED
        BY <2>2, <2>5
<1>16. QED
    BY <1>7, <1>8, <1>9, <1>10, <1>13, <1>14, <1>15 DEF Session, Replaces, Finished

(* A noop: the object is as the module wants it, and the entry too. *)
LEMMA NoopKept ==
    ASSUME Holding, TypeOK', Accounted, NEW p \in Proc, Session(p),
           Command(p), ApplyNoop(p)
    PROVE  Session(p)' /\ Accounted'
<1>1. /\ pc[p] = "apply" /\ plan[p] # <<>> /\ Head(plan[p]).action = "noop"
      /\ Head(plan[p]).drift => ~Stale(p)
      /\ plan'[p] = Tail(plan[p])
      /\ UNCHANGED <<disk, remote, pc, kind, mod, mem, todo, clean, foreign, faults>>
    BY DEF ApplyNoop, Applying, counters, history, Holding, TypeOK
<1>2. /\ Subject(p) \in Addr
      /\ mem[p].res[Subject(p)] # Untracked
      /\ \/ remote[mem[p].res[Subject(p)].id] = Desired(p)
         \/ p \notin clean
      /\ Head(plan[p]).drift => mem[p].res[Subject(p)].cfg # Desired(p)
    BY <1>1, HeadFits
<1>3. ~Counts(Head(plan[p]))
    BY <1>1, <1>2 DEF Counts, Stale
<1>4. Settled(p, Subject(p))
    <2>1. Desired(p) # Gone
        BY <1>1, DesiredType, ConfigAssumption DEF Holding
    <2>2. QED
        BY <1>2, <2>1 DEF Settled, Live
<1>5. kind[p] # "destroy"
    <2>1. 1 \in 1 .. Len(plan[p]) /\ plan[p][1] = Head(plan[p])
        BY <1>1, HeadTailProperties, PlanIs DEF Holding
    <2>2. QED
        BY <1>1, <2>1 DEF Session, Busy, Meant
<1>6. Session(p)'
    BY <1>1, <1>3, <1>4, <1>5, DroppedSession DEF Holding
<1>7. Accounted'
    BY <1>1, QuietAccounted
<1>8. QED
    BY <1>6, <1>7

(* The write of the state file makes the file what the command holds. *)
LEMMA SaveKept ==
    ASSUME Holding, TypeOK', Accounted, NEW p \in Proc, Session(p),
           Command(p), Save(p)
    PROVE  Session(p)' /\ Accounted'
<1>1. /\ pc[p] = "save" /\ pc'[p] = "apply" /\ plan'[p] = Tail(plan[p])
      /\ disk'.res = mem[p].res /\ mem'[p].res = mem[p].res
      /\ UNCHANGED <<remote, kind, mod, todo, clean, foreign, faults>>
    <2>1. mem[p] \in StateFile /\ mem' \in [Proc -> StateFile]
        BY DEF Holding, TypeOK
    <2>2. mem'[p].res = mem[p].res
        BY <2>1 DEF Save, Holding, TypeOK, StateFile
    <2>3. QED
        BY <2>2 DEF Save, Goto, Holding, TypeOK, counters, history
<1>2. plan[p] # <<>> /\ InCS(p)
    BY <1>1 DEF Holding, Working, InCS
<1>3. \A q \in Proc \ {p} : pc'[q] = pc[q] /\ mem'[q] = mem[q] /\ ~InCS(q)
    BY <1>2, CommandFrame, AloneIs DEF Holding
<1>4. Session(p)'
    BY <1>1, <1>2, DroppedSession DEF Holding
<1>5. IdsUnique'
    <2>1. ASSUME NEW f, f = mem[p] \/ \E q \in Proc : f = mem[q],
                 NEW b \in Tracked(f.res), NEW c \in Tracked(f.res)
          PROVE  /\ f.res[b].id \in 1 .. Len(remote)
                 /\ b # c => f.res[b].id # f.res[c].id
        BY <2>1, IdsAre DEF Accounted
    <2>2. ASSUME NEW f, f = disk' \/ \E q \in Proc : f = mem'[q]
          PROVE  \E q \in Proc : f.res = mem[q].res
        BY <1>1, <1>3, <2>2
    <2>3. QED
        BY <1>1, <2>1, <2>2 DEF IdsUnique
<1>6. \A a \in Addr : a # Subject(p) => disk.res[a] = mem[p].res[a]
    BY <1>1 DEF Holding, SnapshotCurrent, Loaded
<1>7. Orphans' \subseteq Orphans
    <2> SUFFICES ASSUME NEW id \in Orphans'
                 PROVE  id \in Orphans
        OBVIOUS
    <2>1. /\ id \in 1 .. Len(remote) /\ Live(id)
          /\ \A a \in Tracked(mem[p].res) : mem[p].res[a].id # id
        BY <1>1 DEF Orphans, Live
    <2>2. ASSUME NEW a \in Tracked(disk.res), disk.res[a].id = id
          PROVE  FALSE
        <3>1. CASE a # Subject(p)
            BY <1>6, <2>1, <2>2, <3>1 DEF Tracked
        <3>2. CASE a = Subject(p)
            <4>1. mem[p].res[a] # Untracked /\ mem[p].res[a].id = id
                BY <1>1, <2>1, <2>2, <3>2 DEF Session, Busy, Replaces, Tracked
            <4>2. QED
                BY <2>1, <2>2, <4>1 DEF Tracked
        <3>3. QED
            BY <3>1, <3>2
    <2>3. \A q \in Proc : pc[q] = "save" => q = p
        BY <1>3 DEF InCS
    <2>4. QED
        BY <2>1, <2>2, <2>3 DEF Orphans
<1>8. OrphansBoundedByFaults'
    BY <1>1, <1>7, OrphansKept, BoundsAssumption
    DEF Holding, Accounted, TypeOK
<1>9. Truthful'
    <2> SUFFICES ASSUME faults = 0
                 PROVE  /\ \A q \in Proc : Loaded(q)' =>
                              \A b \in Tracked(mem'[q].res) : Accurate(mem[q].res[b])'
                        /\ \A b \in Tracked(mem[p].res) : Accurate(disk.res[b])'
        BY <1>1 DEF Truthful
    <2>1. \A b \in Tracked(mem[p].res) :
              remote[mem[p].res[b].id] = mem[p].res[b].cfg \/ mem[p].res[b].id \in foreign
        BY <1>1 DEF Accounted, Truthful, Accurate, Loaded
    <2>2. \A q \in Proc : Loaded(q)' => q = p
        BY <1>3 DEF Loaded, InCS
    <2>3. QED
        BY <1>1, <2>1, <2>2 DEF Accurate
<1>10. DriftIsForeign'
    BY <1>1, <1>3 DEF InCS, DriftIsForeign, DriftReportsTrue
<1>11. QED
    BY <1>4, <1>5, <1>8, <1>9, <1>10 DEF Accounted

(* The end of Apply: nothing is left of the plan, so nothing is left to do. *)
LEMMA ApplyDoneKept ==
    ASSUME Holding, TypeOK', Accounted, NEW p \in Proc, Session(p),
           Command(p), ApplyDone(p)
    PROVE  Session(p)' /\ Accounted'
<1>1. /\ pc[p] = "apply" /\ plan[p] = <<>> /\ pc'[p] = "done"
      /\ UNCHANGED <<disk, remote, kind, mod, mem, todo, plan, clean, foreign, faults>>
    BY DEF ApplyDone, Goto, Holding, TypeOK, session, counters, history
<1>2. todo[p] = <<>> /\ Exact(p)
    BY <1>1 DEF Session, Busy, Distinct
<1>3. (\A i : i \notin Left(p)) /\ (\A j : j \notin 1 .. Len(todo[p]))
    BY <1>1, <1>2 DEF Left
<1>4. Finished(p)'
    <2>1. kind[p] = "destroy" => Tracked(mem[p].res) = {}
        BY <1>2, <1>3 DEF Exact
    <2>2. ASSUME kind[p] = "apply", p \in clean, NEW a \in Addr
          PROVE  ~NeedsChange(p, a)
        BY <1>2, <1>3, <2>2 DEF Exact, ToLookAt, ToChange
    <2>3. \A a : UNCHANGED NeedsChange(p, a)
        BY <1>1 DEF NeedsChange, InSync
    <2>4. QED
        BY <1>1, <2>1, <2>2, <2>3 DEF Finished, Tracked
<1>5. Session(p)'
    BY <1>1, <1>4 DEF Session, Busy
<1>6. Accounted'
    BY <1>1, QuietAccounted
<1>7. QED
    BY <1>5, <1>6

(* A remote call whose answer is lost may have made one object nobody knows. *)
LEMMA RemoteFailsKept ==
    ASSUME Holding, TypeOK', Accounted, NEW p \in Proc, Session(p),
           Command(p), ApplyRemoteFails(p)
    PROVE  Session(p)' /\ Accounted'
<1>1. /\ pc[p] = "apply" /\ plan[p] # <<>> /\ pc'[p] = "failed"
      /\ UNCHANGED <<disk, kind, mod, mem, todo, plan, clean>>
      /\ faults' = faults + 1
    BY DEF ApplyRemoteFails, Applying, Fault, Goto, Holding, TypeOK, session
<1>1a. \/ remote' \in {remote, Created(p), Deleted(p)}
       \/ remote' = Updated(p) /\ Live(SubjectId(p))
    BY DEF ApplyRemoteFails
<1>2. /\ Len(remote) \in Nat /\ Len(remote') \in Nat /\ Len(remote') >= Len(remote)
      /\ Len(remote') <= Len(remote) + 1
      /\ \A id \in 1 .. Len(remote) : remote'[id] # Gone => remote[id] # Gone
    <2>1. TypeOK
        BY DEF Holding
    <2>2. Len(remote) \in Nat
        BY <2>1 DEF TypeOK
    <2>3. CASE remote' = remote
        BY <2>2, <2>3
    <2>4. CASE remote' = Created(p)
        BY <1>1, <2>1, <2>4, RemoteIs
    <2>5. CASE remote' = Updated(p) /\ Live(SubjectId(p))
        BY <1>1, <2>1, <2>5, RemoteIs DEF Live
    <2>6. CASE remote' = Deleted(p)
        BY <1>1, <2>1, <2>6, RemoteIs
    <2>7. QED
        BY <1>1a, <2>3, <2>4, <2>5, <2>6
<1>3. Session(p)'
    BY <1>1 DEF Session, Busy, Finished
<1>4. IdsUnique'
    <2>1. \A id \in 1 .. Len(remote) : id \in 1 .. Len(remote')
        BY <1>2
    <2>2. QED
        BY <1>1, <2>1 DEF Accounted, IdsUnique
<1>5. \A q \in Proc : pc[q] # "save"
    <2>1. InCS(p)
        BY <1>1 DEF InCS
    <2>2. QED
        BY <1>1, <2>1, AloneIs DEF InCS, Holding
<1>6. OrphansBoundedByFaults'
    <2>1. ASSUME NEW id \in Orphans', id # Len(remote) + 1
          PROVE  id \in Orphans
        <3>1. /\ id \in 1 .. Len(remote') /\ remote'[id] # Gone
              /\ \A a \in Tracked(disk.res) : disk.res[a].id # id
            BY <1>1 DEF Orphans, Live
        <3>2. id \in 1 .. Len(remote) /\ Live(id)
            BY <1>2, <2>1, <3>1 DEF Live
        <3>3. QED
            BY <1>5, <3>1, <3>2 DEF Orphans
    <2>2. \E lost : Orphans' \subseteq Orphans \cup {lost}
        <3>1. Orphans' \subseteq Orphans \cup {Len(remote) + 1}
            BY <2>1
        <3>2. QED
            BY <3>1
    <2>3. QED
        BY <1>1, <2>2, OrphansKept DEF Holding, Accounted
<1>7. faults' # 0
    BY <1>1, BoundsAssumption DEF Holding, TypeOK
<1>8. QED
    BY <1>3, <1>4, <1>6, <1>7 DEF Accounted, Truthful, DriftIsForeign

-----------------------------------------------------------------------------
(* Everybody else. *)

(* A remote object is changed or deleted outside Kastor: from then on no    *)
(* session counts on what it read, and what it read differs for that only.  *)
LEMMA RemoteEditSession ==
    ASSUME TypeOK, Working, IdsUnique, NEW id \in 1 .. Len(remote), RemoteEdit(id),
           NEW q \in Proc, Session(q)
    PROVE  Session(q)'
<1>1. /\ UNCHANGED <<disk, pc, kind, mod, mem, todo, plan>>
      /\ clean' = {} /\ foreign' = foreign \cup {id} /\ remote[id] # Gone
    BY DEF RemoteEdit, Live, session
<1>2. /\ Len(remote) \in Nat /\ Len(remote') = Len(remote)
      /\ \A x \in 1 .. Len(remote) : x # id => remote'[x] = remote[x]
    BY ExceptSeq DEF RemoteEdit, TypeOK
<1>3. /\ Left(q)' = Left(q) /\ (Busy(q)' <=> Busy(q))
      /\ \A i : UNCHANGED <<Known(q, i), Wanted(q, i), plan[q][i]>>
      /\ \A i \in Left(q) : i \in 1 .. Len(plan[q])
    <2>1. Len(plan[q]) \in Nat
        BY PlanIs
    <2>2. QED
        BY <1>1, <2>1 DEF Left, Known, Wanted, Busy
<1>4. /\ \A a \in Addr : mem[q].res[a] # Untracked => mem[q].res[a].id \in 1 .. Len(remote)
      /\ \A a \in Addr : disk.res[a] # Untracked => disk.res[a].id \in 1 .. Len(remote)
    BY DEF IdsUnique, Tracked
<1>5. ASSUME Busy(q)
      PROVE  /\ Distinct(q)' /\ Meant(q)' /\ Expressed(q)' /\ Fitting(q)' /\ Exact(q)'
             /\ AgentsOrdered(q)' /\ DeletesOrdered(q)' /\ Replaces(q)'
    <2>1. /\ Distinct(q) /\ Meant(q) /\ Expressed(q) /\ Fitting(q) /\ Exact(q)
          /\ AgentsOrdered(q) /\ DeletesOrdered(q) /\ Replaces(q)
        BY <1>5 DEF Session
    <2>2. Distinct(q)' /\ Meant(q)' /\ Expressed(q)'
        <3>1. Distinct(q)'
            BY <1>1, <1>3, <2>1 DEF Distinct
        <3>2. Meant(q)'
            BY <1>1, <1>3, <2>1 DEF Meant
        <3>3. Expressed(q)'
            BY <1>1, <1>3, <2>1 DEF Expressed
        <3>4. QED
            BY <3>1, <3>2, <3>3
    <2>3. ASSUME NEW i \in Left(q)
          PROVE  Fits(q, i)'
        <3>1. Fits(q, i) /\ plan[q][i].addr \in Addr
            BY <1>3, <2>1, PlanIs DEF Fitting
        <3>2. Known(q, i) # Untracked => Known(q, i).id \in 1 .. Len(remote)
            BY <1>4, <3>1 DEF Known
        <3>3. Known(q, i) # Untracked /\ remote[Known(q, i).id] = Gone
                 => remote'[Known(q, i).id] = Gone
            BY <1>1, <1>2, <3>2
        <3>4. Known(q, i) # Untracked /\ remote[Known(q, i).id] = Wanted(q, i)
                 => \/ remote'[Known(q, i).id] = Wanted(q, i)
                    \/ Known(q, i).id \in foreign'
            BY <1>1, <1>2, <3>2
        <3>5. QED
            BY <1>1, <1>3, <3>1, <3>3, <3>4 DEF Fits, Live
    <2>4. Fitting(q)'
        BY <1>3, <2>3 DEF Fitting
    <2>5. Exact(q)'
        BY <1>1, <1>3, <2>1 DEF Exact, Tracked
    <2>6. AgentsOrdered(q)'
        <3>1. \A d : Settled(q, d) => Settled(q, d)'
            BY <1>1 DEF Settled
        <3>2. ASSUME NEW i \in 1 .. Len(plan[q]), plan[q][i].action # "delete",
                     NEW d \in mod[q].deps[plan[q][i].addr]
              PROVE  Settled(q, d)' \/ \E j \in Left(q) : j < i /\ plan[q][j].addr = d
            BY <2>1, <3>1, <3>2 DEF AgentsOrdered
        <3>3. \A i \in 1 .. Len(todo[q]) : \A d \in mod[q].deps[todo[q][i]] :
                  \/ \E j \in 1 .. Len(plan[q]) : plan[q][j].addr = d
                  \/ \E j \in 1 .. Len(todo[q]) : j < i /\ todo[q][j] = d
            BY <2>1 DEF AgentsOrdered
        <3>4. QED
            BY SMTT(30), <1>1, <1>3, <3>2, <3>3 DEF AgentsOrdered
    <2>7. DeletesOrdered(q)'
        BY <1>1, <1>3, <2>1 DEF DeletesOrdered
    <2>8. Replaces(q)'
        <3> SUFFICES ASSUME pc[q] = "save",
                            disk.res[Subject(q)] # Untracked,
                            remote[disk.res[Subject(q)].id] = Gone
                     PROVE  remote'[disk.res[Subject(q)].id] = Gone
            BY <1>1, <2>1 DEF Replaces, Subject, Live
        <3>1. disk.res[Subject(q)].id \in 1 .. Len(remote)
            BY <1>4, SubjectType DEF Working
        <3>2. QED
            BY <1>1, <1>2, <3>1
    <2>9. QED
        BY <2>2, <2>4, <2>5, <2>6, <2>7, <2>8
<1>6. Finished(q)'
    BY <1>1 DEF Session, Finished, Tracked
<1>7. QED
    BY <1>1, <1>3, <1>5, <1>6 DEF Session

(* It loses no object, and is remembered as somebody else's. *)
LEMMA RemoteEditAccounted ==
    ASSUME TypeOK, TypeOK', Accounted, NEW id \in 1 .. Len(remote), RemoteEdit(id)
    PROVE  Accounted'
<1>1. /\ UNCHANGED <<disk, pc, mem, plan, faults>>
      /\ clean' = {} /\ foreign' = foreign \cup {id} /\ remote[id] # Gone
    BY DEF RemoteEdit, Live, session, Edit
<1>2. /\ Len(remote) \in Nat /\ Len(remote') = Len(remote)
      /\ \A x \in 1 .. Len(remote) : x # id => remote'[x] = remote[x]
    BY ExceptSeq DEF RemoteEdit, TypeOK
<1>3. IdsUnique'
    BY <1>1, <1>2 DEF Accounted, IdsUnique
<1>4. OrphansBoundedByFaults'
    <2>1. Orphans' \subseteq Orphans
        BY <1>1, <1>2 DEF Orphans, Live
    <2>2. QED
        BY <1>1, <2>1, OrphansKept, BoundsAssumption DEF Accounted, TypeOK
<1>5. Truthful'
    <2>1. ASSUME NEW f, f = disk \/ \E q \in Proc : f = mem[q],
                 NEW a \in Tracked(f.res),
                 remote[f.res[a].id] = f.res[a].cfg \/ f.res[a].id \in foreign
          PROVE  remote'[f.res[a].id] = f.res[a].cfg \/ f.res[a].id \in foreign'
        <3>1. f.res[a].id \in 1 .. Len(remote)
            BY <2>1 DEF Accounted, IdsUnique
        <3>2. QED
            BY <1>1, <1>2, <2>1, <3>1
    <2>2. ASSUME NEW q \in Proc, NEW a \in Tracked(mem[q].res), Accurate(mem[q].res[a])
          PROVE  Accurate(mem[q].res[a])'
        BY <1>1, <2>1, <2>2 DEF Accurate
    <2>3. ASSUME NEW a \in Tracked(disk.res), Accurate(disk.res[a])
          PROVE  Accurate(disk.res[a])'
        BY <1>1, <2>1, <2>3 DEF Accurate
    <2>4. QED
        BY <1>1, <2>2, <2>3 DEF Accounted, Truthful, Loaded, Subject
<1>6. DriftIsForeign'
    BY <1>1 DEF DriftIsForeign, DriftReportsTrue
<1>7. QED
    BY <1>3, <1>4, <1>5, <1>6 DEF Accounted

(* The rest of what happens around the commands touches neither the state   *)
(* file nor the platform, and no session.                                   *)
LEMMA AroundKept ==
    ASSUME UNCHANGED <<disk, remote, pc, session, history, faults>>
    PROVE  /\ Accounted => Accounted'
           /\ \A q : Session(q) => Session(q)'
<1>1. UNCHANGED <<disk, remote, pc, kind, mod, mem, todo, plan, clean, foreign, faults>>
    BY DEF session, history
<1>2. /\ UNCHANGED <<IdsUnique, Orphans>>
      /\ OrphansBoundedByFaults => OrphansBoundedByFaults'
    BY <1>1 DEF IdsUnique, OrphansBoundedByFaults, Orphans, Live
<1>3. (Truthful => Truthful') /\ (DriftIsForeign => DriftIsForeign')
    BY <1>1 DEF Truthful, Accurate, Loaded, Subject, DriftIsForeign, DriftReportsTrue
<1>4. \A q : Session(q) => Session(q)'
    BY <1>1, SessionFrame
<1>5. QED
    BY <1>2, <1>3, <1>4 DEF Accounted

LEMMA EnvironmentKept ==
    ASSUME TypeOK, TypeOK', Working, Accounted, \A q \in Proc : Session(q), Environment
    PROVE  (\A q \in Proc : Session(q)') /\ Accounted'
<1>1. ASSUME NEW o \in Operator, JudgeStale(o) \/ DeleteLock(o)
      PROVE  UNCHANGED <<disk, remote, pc, session, history, faults>>
    BY <1>1 DEF JudgeStale, DeleteLock, counters
<1>2. CASE EditModule
    <2>1. UNCHANGED <<disk, remote, pc, session, history, faults>>
        BY <1>2 DEF EditModule, Edit
    <2>2. QED
        BY <2>1, AroundKept
<1>3. ASSUME NEW id \in 1 .. Len(remote), RemoteEdit(id)
      PROVE  (\A q \in Proc : Session(q)') /\ Accounted'
    BY <1>3, RemoteEditSession, RemoteEditAccounted DEF Accounted
<1>4. QED
    BY <1>1, <1>2, <1>3, AroundKept DEF Environment

-----------------------------------------------------------------------------
(* The invariant. *)

LEMMA SessionCommand ==
    ASSUME Holding, TypeOK', Accounted, NEW p \in Proc, Command(p), Session(p)
    PROVE  Session(p)' /\ Accounted'
<1>1. CASE Leaving(p)
    BY <1>1, LeavingKept
<1>2. CASE Load(p)
    BY <1>2, LoadSession, LoadAccounted
<1>3. CASE PlanCreate(p) \/ PlanCompare(p) \/ PlanDone(p)
    BY <1>3, PlanSession, PlanAccounted DEF Holding
<1>4. CASE ApplyCreate(p) \/ ApplyUpdate(p) \/ ApplyDelete(p) \/ ApplyRefresh(p)
    BY <1>4, CreateKept, UpdateKept, DeleteKept, RefreshKept
<1>5. CASE ApplyNoop(p) \/ Save(p) \/ ApplyDone(p) \/ ApplyRemoteFails(p)
    BY <1>5, NoopKept, SaveKept, ApplyDoneKept, RemoteFailsKept
<1>6. QED
    BY <1>1, <1>2, <1>3, <1>4, <1>5 DEF Command, Step, Plan, Apply, Leaving

LEMMA IInvInit == Init => IInv
<1> SUFFICES ASSUME Init
             PROVE  IInv
    OBVIOUS
<1>1. Holding
    BY InitType, LockInvInit DEF Init, Holding, Working, SnapshotCurrent, Loaded
<1>2. ASSUME NEW p \in Proc
      PROVE  Session(p)
    BY DEF Init, Session, Busy, Finished
<1>3. IdsUnique /\ Truthful /\ DriftIsForeign
    BY EmptyTracksNothing
    DEF Init, IdsUnique, Truthful, Loaded, DriftIsForeign, DriftReportsTrue
<1>4. OrphansBoundedByFaults
    <2>1. Orphans = {}
        BY DEF Init, Orphans
    <2>2. QED
        BY <2>1, FS_EmptySet DEF Init, OrphansBoundedByFaults
<1>5. QED
    BY <1>1, <1>2, <1>3, <1>4 DEF IInv, Accounted

LEMMA IInvStep ==
    ASSUME SingleOperator, IInv, [Next]_vars
    PROVE  IInv'
<1>1. Holding /\ Accounted /\ \A p \in Proc : Session(p)
    BY DEF IInv
<1>2. TypeOK'
    <2>1. CASE UNCHANGED vars
        BY <1>1, <2>1 DEF Holding, vars, session, counters, history, TypeOK
    <2>2. QED
        BY <1>1, <2>1, CommandType, EnvironmentType DEF Holding, Next
<1>3. Holding'
    BY <1>1, <1>2, WorkingStep, LockInvStep, SnapshotStep DEF Holding
<1>4. CASE UNCHANGED vars
    BY <1>1, <1>3, <1>4, AroundKept DEF IInv, vars, counters
<1>5. CASE Environment
    BY <1>1, <1>2, <1>3, <1>5, EnvironmentKept DEF IInv, Holding
<1>6. ASSUME NEW p \in Proc, Command(p)
      PROVE  IInv'
    <2>1. Session(p)' /\ Accounted'
        BY <1>1, <1>2, <1>6, SessionCommand
    <2>2. \A q \in Proc \ {p} : Session(q)'
        BY <1>1, <1>6, OthersKept DEF Holding
    <2>3. QED
        BY <1>3, <2>1, <2>2 DEF IInv
<1>7. QED
    BY <1>4, <1>5, <1>6 DEF Next

LEMMA IInvAlways == SingleOperator => (Spec => []IInv)
<1> SUFFICES ASSUME SingleOperator
             PROVE  Spec => []IInv
    OBVIOUS
<1>1. IInv /\ [Next]_vars => IInv'
    BY IInvStep
<1>2. QED
    BY <1>1, IInvInit, PTL DEF Spec

-----------------------------------------------------------------------------
(* What follows from it. *)

(* Every id in the state file stands for one object, and no object is lost  *)
(* that a crash, a lost answer or a failed write has not lost.              *)
THEOREM ObjectsAreTracked == SingleOperator => (Spec => []ObjectsTracked)
<1> SUFFICES ASSUME SingleOperator
             PROVE  Spec => []ObjectsTracked
    OBVIOUS
<1>1. IInv => ObjectsTracked
    BY DEF IInv, Accounted, ObjectsTracked
<1>2. QED
    BY <1>1, IInvAlways, PTL

(* A drift report that no fault explains is about an object that somebody   *)
(* else wrote: Kastor never takes its own writes for foreign ones.          *)
THEOREM DriftIsTrue == SingleOperator => (Spec => []DriftIsForeign)
<1> SUFFICES ASSUME SingleOperator
             PROVE  Spec => []DriftIsForeign
    OBVIOUS
<1>1. IInv => DriftIsForeign
    BY DEF IInv, Accounted
<1>2. QED
    BY <1>1, IInvAlways, PTL

(* The end of an apply that nobody disturbed. *)
LEMMA AppliedConverged ==
    ASSUME IInv, NEW p \in Proc, pc[p] = "done", kind[p] = "apply", p \in clean
    PROVE  /\ mem[p] = disk
           /\ Tracked(disk.res) = mod[p].agents
           /\ \A a \in mod[p].agents : InSync(p, a)
<1>1. /\ mem[p] \in StateFile /\ disk \in StateFile
      /\ mem[p].serial = disk.serial /\ \A a \in Addr : mem[p].res[a] = disk.res[a]
    BY DEF IInv, Holding, TypeOK, SnapshotCurrent, Loaded
<1>2. mem[p].res = disk.res
    BY <1>1 DEF StateFile
<1>3. mem[p] = disk
    BY <1>1, <1>2 DEF StateFile
<1>4. \A a \in Addr : IF a \in mod[p].agents THEN InSync(p, a)
                      ELSE mem[p].res[a] = Untracked
    BY DEF IInv, Session, Finished, NeedsChange
<1>5. mod[p].agents \subseteq Addr
    BY ModIs DEF IInv, Holding
<1>6. QED
    BY <1>3, <1>4, <1>5 DEF InSync, Tracked

(* The end of a destroy. *)
LEMMA DestroyedEmpty ==
    ASSUME IInv, NEW p \in Proc, pc[p] = "done", kind[p] = "destroy"
    PROVE  /\ Tracked(disk.res) = {}
           /\ Cardinality({id \in 1 .. Len(remote) : Live(id)}) <= faults
<1>1. Tracked(mem[p].res) = {}
    BY DEF IInv, Session, Finished
<1>2. \A a \in Addr : mem[p].res[a] = disk.res[a]
    BY DEF IInv, Holding, SnapshotCurrent, Loaded
<1>3. Tracked(disk.res) = {}
    BY <1>1, <1>2 DEF Tracked
<1>4. \A q \in Proc : pc[q] # "save"
    <2>1. InCS(p)
        BY DEF InCS
    <2>2. QED
        BY <2>1, AloneIs DEF IInv, Holding, InCS
<1>5. {id \in 1 .. Len(remote) : Live(id)} = Orphans
    BY <1>3, <1>4 DEF Orphans
<1>6. QED
    BY <1>3, <1>5 DEF IInv, Accounted, OrphansBoundedByFaults

(* A command that reports success has done all it was asked for: apply      *)
(* leaves file and platform as its module wants them, destroy leaves        *)
(* nothing of what was tracked.                                             *)
THEOREM SuccessIsSettled == SingleOperator => (Spec => []SuccessSettles)
<1> SUFFICES ASSUME SingleOperator
             PROVE  Spec => []SuccessSettles
    OBVIOUS
<1>1. IInv => SuccessSettles
    BY AppliedConverged, DestroyedEmpty
    DEF SuccessSettles, ApplyConverges, DestroyEmptiesState
<1>2. QED
    BY <1>1, IInvAlways, PTL

(* While apply is at work, what is left of the plan is what is left to do,  *)
(* and the module is one that the platform can express.                     *)
THEOREM PlansAreExact == SingleOperator => (Spec => []PlanIsExact)
<1> SUFFICES ASSUME SingleOperator
             PROVE  Spec => []PlanIsExact
    OBVIOUS
<1>1. ASSUME IInv, NEW p \in Proc, pc[p] \in {"apply", "save"}, kind[p] = "apply"
      PROVE  /\ Exact(p) /\ \A a : ~ToLookAt(p, a)
             /\ \A a \in mod[p].agents : mod[p].cfg[a] \notin Inexpressible
    <2>1. Exact(p) /\ Expressed(p) /\ todo[p] = <<>>
        BY <1>1 DEF IInv, Session, Busy, Distinct
    <2>2. \A j : j \notin 1 .. Len(todo[p])
        BY <2>1
    <2>3. QED
        BY <1>1, <2>1, <2>2 DEF Expressed, ToLookAt
<1>2. ASSUME IInv, NEW p \in Proc, pc[p] = "apply", kind[p] = "apply", p \in clean,
             NEW a \in Addr
      PROVE  (\E i \in 1 .. Len(plan[p]) :
                 plan[p][i].addr = a /\ (plan[p][i].action # "noop" \/ plan[p][i].drift))
             <=> IF a \in mod[p].agents THEN ~InSync(p, a)
                 ELSE mem[p].res[a] # Untracked
    BY <1>1, <1>2 DEF Exact, ToChange, NeedsChange, Counts, Left
<1>3. IInv => PlanIsRemainder
    <2> SUFFICES ASSUME IInv, NEW p \in Proc,
                        pc[p] = "apply", kind[p] = "apply", p \in clean, NEW a \in Addr
                 PROVE  (\E i \in {i \in 1 .. Len(plan[p]) : plan[p][i].addr = a} :
                            plan[p][i].action # "noop" \/ plan[p][i].drift)
                        <=> IF a \in mod[p].agents THEN ~InSync(p, a)
                            ELSE mem[p].res[a] # Untracked
        BY DEF PlanIsRemainder
    <2>1. (\E i \in {i \in 1 .. Len(plan[p]) : plan[p][i].addr = a} :
              plan[p][i].action # "noop" \/ plan[p][i].drift)
          <=> (\E i \in 1 .. Len(plan[p]) :
                  plan[p][i].addr = a /\ (plan[p][i].action # "noop" \/ plan[p][i].drift))
        OBVIOUS
    <2>2. QED
        BY <1>2, <2>1
<1>4. IInv => RejectedModuleUntouched
    BY <1>1 DEF RejectedModuleUntouched
<1>5. IInv => PlanIsExact
    BY <1>3, <1>4 DEF PlanIsExact
<1>6. QED
    BY <1>5, IInvAlways, PTL

(* An agent is written after what it depends on, and deleted before it,     *)
(* unless the recorded dependencies go round.                               *)
THEOREM OrderIsRespected == SingleOperator => (Spec => []DependenciesRespected)
<1> SUFFICES ASSUME SingleOperator
             PROVE  Spec => []DependenciesRespected
    OBVIOUS
<1>1. ASSUME IInv, NEW p \in Proc, pc[p] = "save", Head(plan[p]).action # "delete",
             NEW d \in mod[p].deps[Subject(p)]
      PROVE  mem[p].res[d] # Untracked /\ (p \in clean => Live(mem[p].res[d].id))
    <2>1. 1 \in 1 .. Len(plan[p]) /\ plan[p][1] = Head(plan[p])
        BY <1>1, HeadTailProperties, PlanIs DEF IInv, Holding, Working, TypeOK
    <2>2. \A j \in Left(p) : ~(j < 1)
        BY <1>1 DEF Left
    <2>3. AgentsOrdered(p)
        BY <1>1 DEF IInv, Session, Busy
    <2>4. Settled(p, d)
        BY <1>1, <2>1, <2>2, <2>3 DEF AgentsOrdered, Subject
    <2>5. QED
        BY <2>4 DEF Settled
<1>2. ASSUME IInv, NEW p \in Proc, pc[p] = "apply",
             NEW i \in 1 .. Len(plan[p]), NEW j \in 1 .. Len(plan[p]), i < j,
             plan[p][i].action = "delete", plan[p][j].action = "delete",
             plan[p][i].addr \in mem[p].res[plan[p][j].addr].deps
      PROVE  ~Acyclic(Tracked(mem[p].res), Recorded(mem[p].res))
    <2> DEFINE D == Recorded(mem[p].res)
    <2>1. DeletesOrdered(p)
        BY <1>2 DEF IInv, Session, Busy
    <2>2. ~Acyclic({plan[p][k].addr : k \in i .. j}, D)
        BY <1>2, <2>1 DEF DeletesOrdered, Left, Known
    <2>3. ASSUME NEW x \in {plan[p][k].addr : k \in i .. j}
          PROVE  x \in Tracked(mem[p].res) \/ D[x] = {}
        <3>1. Len(plan[p]) \in Nat /\ \A k \in 1 .. Len(plan[p]) : plan[p][k].addr \in Addr
            BY PlanIs, <1>2 DEF IInv, Holding
        <3>2. x \in Addr
            BY <3>1
        <3>3. QED
            BY <3>2 DEF Tracked, Recorded
    <2> HIDE DEF D
    <2>4. ~Acyclic(Tracked(mem[p].res), D)
        BY <2>2, <2>3, AcyclicPart
    <2>5. QED
        BY <2>4 DEF D
<1>3. IInv => DependenciesRespected
    BY <1>1, <1>2
    DEF DependenciesRespected, DependenciesExist, DeletesRespectDependencies
<1>4. QED
    BY <1>3, IInvAlways, PTL
=============================================================================
