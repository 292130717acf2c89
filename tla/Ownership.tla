----------------------------- MODULE Ownership -----------------------------
(***************************************************************************)
(* Which plugin owns what the state file tracks. A module has several      *)
(* platform targets, each run by an implementation identified by its       *)
(* source; the state file records, per target, the implementation that     *)
(* owns the target's resources. Files of format 1 recorded no owner; they  *)
(* are read, bound to the owners the module declares, and written as       *)
(* format 2 with the first change, or at the end of an apply that had      *)
(* nothing else to write.                                                  *)
(*                                                                         *)
(* Reconcile models one target in detail; here an operation is any create, *)
(* update or delete of one of the target's resources, and the lock does    *)
(* what Reconcile shows of it: one command at a time is past it.           *)
(***************************************************************************)
EXTENDS Naturals, FiniteSets

CONSTANTS
    Proc, NoProc,
    Target,          \* labels of platform targets
    Rank,            \* their place in the alphabetical order
    MemoryLabel,     \* target "memory"
    ClaudeLabel,     \* target "claude_agents"
    Source,          \* plugin sources
    Legacy,          \* source of the in-process implementation of a label
    Version,         \* versions of installed plugins
    InitVersion,     \* the one installed at first
    Builtin,         \* version of an in-process implementation
    Res,             \* resources a target may have
    Absent,          \* not declared as a platform target
    Implicit,        \* declared without a plugin
    NoOwner,         \* no identity recorded
    NoObject,        \* no remote object
    Unknown,         \* an object of format 1 whose creator nothing tells
    MaxEdits, MaxFaults

ASSUME NamesAssumption ==
    /\ NoProc \notin Proc
    /\ Legacy \in [Target -> Source]
    /\ Implicit \notin Source /\ Absent \notin Source \cup {Implicit}
    /\ Builtin \notin Version /\ InitVersion \in Version
    /\ NoObject \notin Source \cup {Unknown} /\ Unknown \notin Source
    /\ IsFiniteSet(Target) /\ Rank \in [Target -> Nat]
    /\ \A t, u \in Target : Rank[t] = Rank[u] => t = u

Identity == [source : Source, version : Version \cup {Builtin}]
ASSUME NoOwnerAssumption == NoOwner \notin Identity
ASSUME BoundsAssumption == MaxEdits \in Nat /\ MaxFaults \in Nat

Declaration == [Target -> Source \cup {Implicit, Absent}]
StateFile == [version : {1, 2},
              res     : [Target -> SUBSET Res],
              plugin  : [Target -> Identity \cup {NoOwner}]]
Kind == {"plan", "apply", "destroy"}

VARIABLES
    decl,        \* the targets as the module declares them
    installed,   \* the version of each source's plugin
    disk,        \* kastor.state.json
    lock,
    pc,
    cmd,         \* the sessions of the commands
    obj,         \* remote objects: the source that created each
    edits, faults

vars == <<decl, installed, disk, lock, pc, cmd, obj, edits, faults>>

EmptyFile == [version |-> 2,
              res     |-> [t \in Target |-> {}],
              plugin  |-> [t \in Target |-> NoOwner]]

Managed(f) == {t \in Target : f.res[t] # {}}

(* declaredStateSource: the source a declaration selects. *)
DeclaredSource(d, t) == IF d[t] = Implicit THEN Legacy[t] ELSE d[t]

(* resolvedIdentity of the implementation that runs a declared target. *)
Resolved(d, t) ==
    [source  |-> DeclaredSource(d, t),
     version |-> IF d[t] = Implicit THEN Builtin ELSE installed[d[t]]]

NoSession ==
    [kind |-> "plan", decl |-> [t \in Target |-> Absent], ids |-> [t \in {} |-> NoOwner],
     mem |-> EmptyFile, loaded |-> EmptyFile, jobs |-> {},
     pending |-> FALSE, wrote |-> FALSE]

(* No state file, or one of format 1 left by an older version: what a       *)
(* reserved label tracks was created by its in-process implementation.      *)
Init ==
    /\ decl \in Declaration
    /\ installed = [s \in Source |-> InitVersion]
    /\ \/ /\ disk = EmptyFile
          /\ obj = [t \in Target |-> [r \in Res |-> NoObject]]
       \/ \E tracked \in [Target -> SUBSET Res] :
             /\ disk = [EmptyFile EXCEPT !.version = 1, !.res = tracked]
             /\ obj = [t \in Target |-> [r \in Res |->
                          IF r \notin tracked[t] THEN NoObject
                          ELSE IF t \in {MemoryLabel, ClaudeLabel} THEN Legacy[t]
                          ELSE Unknown]]
    /\ lock = NoProc
    /\ pc = [p \in Proc |-> "idle"]
    /\ cmd = [p \in Proc |-> NoSession]
    /\ edits = 0 /\ faults = 0

Goto(p, l) == pc' = [pc EXCEPT ![p] = l]
Fault == faults < MaxFaults /\ faults' = faults + 1 /\ UNCHANGED edits
Edit == edits < MaxEdits /\ edits' = edits + 1 /\ UNCHANGED faults
Exit(p) == Goto(p, "idle") /\ cmd' = [cmd EXCEPT ![p] = NoSession]

-----------------------------------------------------------------------------
(* preparePlatform. *)

(* Compile the module and open the plugins of the selected targets: the one *)
(* that is named, or all of them.                                           *)
Compile(p, k) ==
    LET declared == {t \in Target : decl[t] # Absent}
    IN  /\ pc[p] = "idle"
        /\ \E selected \in {{t} : t \in declared} \cup ({declared} \ {{}}) :
              cmd' = [cmd EXCEPT ![p] =
                         [NoSession EXCEPT
                             !.kind = k, !.decl = decl,
                             !.ids = [t \in selected |-> Resolved(decl, t)],
                             !.jobs = selected]]
        /\ Goto(p, "lock")
        /\ UNCHANGED <<decl, installed, disk, lock, obj, edits, faults>>

Contended(p) ==
    /\ pc[p] = "lock"
    /\ lock # NoProc
    /\ Exit(p)
    /\ UNCHANGED <<decl, installed, disk, lock, obj, edits, faults>>

(* Mutant: a reserved label of a file of format 1 may be given to any source. *)
AcceptedUnreserved(d, f, t) ==
    /\ d[t] # Absent
    /\ IF f.version = 1 THEN d[t] = Implicit => t = MemoryLabel
       ELSE f.plugin[t].source = DeclaredSource(d, t)

(* Mutant: the declared source is not compared with the recorded owner. *)
AcceptedDeclared(d, f, t) == d[t] # Absent

(* bindStateOwnership: what must hold of a managed target's declaration. *)
Accepted(d, f, t) ==
    /\ d[t] # Absent
    /\ IF f.version = 1
       THEN /\ d[t] = Implicit => t = MemoryLabel
            /\ t \in {MemoryLabel, ClaudeLabel} => DeclaredSource(d, t) = Legacy[t]
       ELSE f.plugin[t].source = DeclaredSource(d, t)

(* The owners to bind: the selected targets' as resolved before the lock,   *)
(* the others' as recorded, or as resolved now when none is.                *)
Owners(p) ==
    LET c == cmd[p]
        selected == DOMAIN c.ids
    IN  [t \in selected \cup Managed(disk) |->
            IF t \in selected THEN c.ids[t]
            ELSE IF disk.version = 1 THEN Resolved(c.decl, t)
            ELSE disk.plugin[t]]

(* File.Bind, in memory. *)
Bound(f, owners) ==
    [f EXCEPT !.plugin = [t \in Target |->
        IF t \in DOMAIN owners THEN owners[t] ELSE f.plugin[t]]]

(* Mutant: only a change of format is pending, not one of version. *)
PendingFormat(f, owners) == f.version = 1

(* Ownership metadata to write with the next change. *)
Pending(f, owners) ==
    \/ f.version = 1
    \/ \E t \in Managed(f) : f.plugin[t] # owners[t]

(* Mutant: the owner of a target that tracks nothing any more is kept. *)
WrittenAll(f) == [f EXCEPT !.version = 2]

(* File.Write: format 2, without the owners of targets that track nothing. *)
Written(f) ==
    [version |-> 2, res |-> f.res,
     plugin  |-> [t \in Target |-> IF t \in Managed(f) THEN f.plugin[t] ELSE NoOwner]]

(* Mutant: a file is migrated as soon as its owners are known. *)
BindMigrates(p) ==
    /\ pc[p] = "lock"
    /\ lock = NoProc
    /\ \A t \in Managed(disk) : Accepted(cmd[p].decl, disk, t)
    /\ lock' = p
    /\ disk' = Written(Bound(disk, Owners(p)))
    /\ cmd' = [cmd EXCEPT ![p].mem = Bound(disk, Owners(p)),
                          ![p].loaded = disk]
    /\ Goto(p, "run")
    /\ UNCHANGED <<decl, installed, obj, edits, faults>>

(* Mutant: the lock is not looked at. *)
BindUnlocked(p) ==
    /\ pc[p] = "lock"
    /\ \A t \in Managed(disk) : Accepted(cmd[p].decl, disk, t)
    /\ lock' = p
    /\ cmd' = [cmd EXCEPT ![p].mem = Bound(disk, Owners(p)),
                          ![p].loaded = disk,
                          ![p].pending = Pending(disk, Owners(p))]
    /\ Goto(p, "run")
    /\ UNCHANGED <<decl, installed, disk, obj, edits, faults>>

(* Take the lock, load the state, bind the owners. *)
Bind(p) ==
    /\ pc[p] = "lock"
    /\ lock = NoProc
    /\ \A t \in Managed(disk) : Accepted(cmd[p].decl, disk, t)
    /\ lock' = p
    /\ cmd' = [cmd EXCEPT ![p].mem = Bound(disk, Owners(p)),
                          ![p].loaded = disk,
                          ![p].pending = Pending(disk, Owners(p))]
    /\ Goto(p, "run")
    /\ UNCHANGED <<decl, installed, disk, obj, edits, faults>>

(* Ownership is ambiguous or differs: the lock is released again. *)
BindRejected(p) ==
    /\ pc[p] = "lock"
    /\ lock = NoProc
    /\ \E t \in Managed(disk) : ~Accepted(cmd[p].decl, disk, t)
    /\ Exit(p)
    /\ UNCHANGED <<decl, installed, disk, lock, obj, edits, faults>>

-----------------------------------------------------------------------------
(* The jobs, one per selected target, in the order of the labels. *)

Job(p, t) ==
    /\ pc[p] = "run" /\ t \in cmd[p].jobs
    /\ \A u \in cmd[p].jobs : Rank[t] <= Rank[u]

(* One change of the job's target: what it makes of the platform, and what  *)
(* is tracked afterwards.                                                   *)
Changes(p, t) ==
    LET tracked == cmd[p].mem.res[t]
        create(r) == [objects |-> [obj EXCEPT ![t][r] = cmd[p].ids[t].source],
                      tracked |-> tracked \cup {r}]
        update == [objects |-> obj, tracked |-> tracked]
        delete(r) == [objects |-> [obj EXCEPT ![t][r] = NoObject],
                      tracked |-> tracked \ {r}]
    IN  CASE cmd[p].kind = "plan" -> {}
          [] cmd[p].kind = "apply" -> {create(r) : r \in Res \ tracked}
                                      \cup {update : r \in tracked}
                                      \cup {delete(r) : r \in tracked}
          [] cmd[p].kind = "destroy" -> {delete(r) : r \in tracked}

Operate(p, t) ==
    /\ Job(p, t)
    /\ \E c \in Changes(p, t) :
          /\ obj' = c.objects
          /\ cmd' = [cmd EXCEPT ![p].mem.res[t] = c.tracked]
    /\ Goto(p, "save")
    /\ UNCHANGED <<decl, installed, disk, lock, edits, faults>>

(* The change, or planning, fails; the platform may have executed it. *)
OperateFails(p, t) ==
    /\ Job(p, t)
    /\ Fault
    /\ obj' \in {obj} \cup {c.objects : c \in Changes(p, t)}
    /\ Goto(p, "failed")
    /\ UNCHANGED <<decl, installed, disk, lock, cmd>>

(* The plan is executed: a destroy left nothing. A target that needed no    *)
(* change may still have metadata to commit - but not on a destroy.         *)
FinishJob(p, t) ==
    /\ Job(p, t)
    /\ cmd[p].kind = "destroy" => cmd[p].mem.res[t] = {}
    /\ cmd' = [cmd EXCEPT ![p].jobs = @ \ {t}]
    /\ IF cmd[p].kind = "apply" /\ cmd[p].pending THEN Goto(p, "commit")
       ELSE UNCHANGED pc
    /\ UNCHANGED <<decl, installed, disk, lock, obj, edits, faults>>

Save(p) ==
    /\ pc[p] \in {"save", "commit"}
    /\ disk' = Written(cmd[p].mem)
    /\ cmd' = [cmd EXCEPT
                 ![p].mem.version = 2,
                 ![p].pending = FALSE,
                 ![p].wrote = @ \/ pc[p] = "save"]
    /\ Goto(p, "run")
    /\ UNCHANGED <<decl, installed, lock, obj, edits, faults>>

SaveFails(p) ==
    /\ pc[p] \in {"save", "commit"}
    /\ Fault
    /\ Goto(p, "failed")
    /\ UNCHANGED <<decl, installed, disk, lock, cmd, obj>>

(* The plugins are closed, then the lock file is removed: of the two, only  *)
(* the second changes anything here.                                        *)
Release(p) ==
    /\ pc[p] = "failed" \/ (pc[p] = "run" /\ cmd[p].jobs = {})
    /\ lock' = NoProc
    /\ Exit(p)
    /\ UNCHANGED <<decl, installed, disk, obj, edits, faults>>

Crash(p) ==
    /\ pc[p] \in {"run", "save", "commit", "failed"}
    /\ Fault
    /\ Exit(p)
    /\ UNCHANGED <<decl, installed, disk, lock, obj>>

-----------------------------------------------------------------------------
(* The users. *)

EditTarget ==
    /\ Edit
    /\ \E t \in Target : \E d \in (Source \cup {Implicit, Absent}) \ {decl[t]} :
          decl' = [decl EXCEPT ![t] = d]
    /\ UNCHANGED <<installed, disk, lock, pc, cmd, obj>>

Upgrade ==
    /\ Edit
    /\ \E s \in Source : \E v \in Version \ {installed[s]} :
          installed' = [installed EXCEPT ![s] = v]
    /\ UNCHANGED <<decl, disk, lock, pc, cmd, obj>>

DeleteStaleLock ==
    /\ lock # NoProc /\ pc[lock] \in {"idle", "lock"}
    /\ lock' = NoProc
    /\ UNCHANGED <<decl, installed, disk, pc, cmd, obj, edits, faults>>

Command(p) ==
    \/ \E k \in Kind : Compile(p, k)
    \/ Contended(p) \/ Bind(p) \/ BindRejected(p)
    \/ \E t \in Target : Operate(p, t) \/ OperateFails(p, t) \/ FinishJob(p, t)
    \/ Save(p) \/ SaveFails(p) \/ Release(p) \/ Crash(p)

Next ==
    \/ \E p \in Proc : Command(p)
    \/ EditTarget \/ Upgrade \/ DeleteStaleLock

Spec == Init /\ [][Next]_vars

-----------------------------------------------------------------------------
PastLock(p) == pc[p] \in {"run", "save", "commit", "failed"}

Session ==
    [kind : Kind, decl : Declaration,
     ids : UNION {[S -> Identity] : S \in SUBSET Target},
     mem : StateFile, loaded : StateFile, jobs : SUBSET Target,
     pending : BOOLEAN, wrote : BOOLEAN]

(* The variables range over what the Go types hold; in particular only the  *)
(* formats 1 and 2 exist, and a session's owners are whole identities.      *)
TypeOK ==
    /\ decl \in Declaration
    /\ installed \in [Source -> Version]
    /\ disk \in StateFile
    /\ lock \in Proc \cup {NoProc}
    /\ pc \in [Proc -> {"idle", "lock", "run", "save", "commit", "failed"}]
    /\ cmd \in [Proc -> Session]
    /\ obj \in [Target -> [Res -> Source \cup {NoObject, Unknown}]]
    /\ edits \in 0 .. MaxEdits
    /\ faults \in 0 .. MaxFaults

(* A command past the lock only handles objects of its own: the source that *)
(* runs a selected target is the recorded owner and created what is tracked *)
(* there - or nothing tells who did, and the user asserted it when the file *)
(* was migrated (STATE_MIGRATION.md:71).                                    *)
OwnersMatch ==
    \A p \in Proc : PastLock(p) =>
        /\ \A t \in DOMAIN cmd[p].ids : cmd[p].mem.plugin[t] = cmd[p].ids[t]
        /\ \A t \in Managed(cmd[p].mem) : \A r \in cmd[p].mem.res[t] :
              obj[t][r] \in {cmd[p].mem.plugin[t].source, Unknown, NoObject}

(* A file of format 2 names a whole owner for each target with resources    *)
(* and for no other; one of format 1 names none (state.go:137, :165).       *)
OwnersRecorded ==
    \A t \in Target :
        (disk.plugin[t] \in Identity) <=> disk.version = 2 /\ t \in Managed(disk)

(* An apply of any selection that succeeds leaves a file of format 2 with   *)
(* the owners it resolved for its targets; others keep the owner they had.  *)
ApplyCommitsOwnership ==
    \A p \in Proc :
        PastLock(p) /\ pc[p] = "run" /\ cmd[p].jobs = {} /\ cmd[p].kind = "apply" =>
            /\ disk.version = 2
            /\ \A t \in Managed(disk) :
                  IF t \in DOMAIN cmd[p].ids THEN disk.plugin[t] = cmd[p].ids[t]
                  ELSE cmd[p].loaded.version = 2 =>
                          disk.plugin[t] = cmd[p].loaded.plugin[t]

(* A command leaves the resources of the targets it was not asked to work   *)
(* on alone, although every write replaces the whole file.                  *)
OthersKept ==
    \A p \in Proc : PastLock(p) =>
        \A t \in Target \ DOMAIN cmd[p].ids : disk.res[t] = cmd[p].loaded.res[t]

(* "Plan or doctor: leave file and serial unchanged" and "Destroy: nothing  *)
(* managed: no write" (STATE_MIGRATION.md:88, :95): pending metadata alone  *)
(* does not make such a command write.                                      *)
NoWriteWithoutCause ==
    \A p \in Proc : PastLock(p) =>
        \/ cmd[p].kind = "apply"
        \/ cmd[p].kind = "destroy" /\ DOMAIN cmd[p].ids \cap Managed(cmd[p].loaded) # {}
        \/ disk = cmd[p].loaded

(* "first operation fails without a successful state mutation: original     *)
(* state remains unchanged" (STATE_MIGRATION.md:92), for a command on one   *)
(* target: metadata is committed with its first change or not at all. On    *)
(* several targets the first that is in sync commits that of all.           *)
FailedTargetKeepsState ==
    \A p \in Proc :
        pc[p] = "failed" /\ ~cmd[p].wrote /\ Cardinality(DOMAIN cmd[p].ids) = 1 =>
            disk = cmd[p].loaded

(* The file changes for a reason only: for an operation that was carried    *)
(* out, or for the owners an apply commits with its first target in sync.   *)
WritesHaveCause == NoWriteWithoutCause /\ FailedTargetKeepsState

(* While a target has resources its owner does not change, not even through *)
(* a command that compiled the module before somebody edited it; nor does a *)
(* file go back to format 1.                                                *)
OwnerIsFrozen ==
    [][/\ disk.version = 2 => disk'.version = 2
       /\ \A t \in Managed(disk) \cap Managed(disk') :
             disk.plugin[t] # NoOwner => disk'.plugin[t].source = disk.plugin[t].source]_disk

=============================================================================
