--------------------------- MODULE OwnershipProofs ---------------------------
(***************************************************************************)
(* Theorems about Ownership, for any processes, targets, sources, versions *)
(* and resources.                                                          *)
(***************************************************************************)
EXTENDS Ownership, FiniteSetTheorems, TLAPS

(* What a session knows from its compilation on: the identities are those   *)
(* of declared targets, and the jobs are on selected targets.               *)
Compiled(p) ==
    /\ \A t \in DOMAIN cmd[p].ids :
          /\ cmd[p].decl[t] # Absent
          /\ cmd[p].ids[t].source = DeclaredSource(cmd[p].decl, t)
    /\ cmd[p].jobs \subseteq DOMAIN cmd[p].ids
    /\ pc[p] = "lock" => cmd[p].jobs # {}

(* The session's copy of the file: its owners are the selected identities,  *)
(* whole, and made what is tracked.                                         *)
CopyOwned(p) ==
    /\ \A t \in DOMAIN cmd[p].ids : cmd[p].mem.plugin[t] = cmd[p].ids[t]
    /\ \A t \in Managed(cmd[p].mem) :
          /\ cmd[p].mem.plugin[t] \in Identity
          /\ \A r \in cmd[p].mem.res[t] :
                obj[t][r] \in {cmd[p].mem.plugin[t].source, Unknown, NoObject}

(* The copy, the file as loaded and the file now: the targets that were not *)
(* selected are as loaded, and no recorded owner differs in its source.     *)
CopyCurrent(p) ==
    /\ \A t \in Target \ DOMAIN cmd[p].ids :
          /\ cmd[p].mem.res[t] = cmd[p].loaded.res[t]
          /\ disk.res[t] = cmd[p].loaded.res[t]
          /\ cmd[p].loaded.version = 2 /\ t \in Managed(cmd[p].loaded) =>
                cmd[p].mem.plugin[t] = cmd[p].loaded.plugin[t]
    /\ pc[p] \in {"run", "commit"} => disk.res = cmd[p].mem.res
    /\ \A t \in Managed(disk) \cap Managed(cmd[p].mem) :
          disk.plugin[t] # NoOwner =>
              disk.plugin[t].source = cmd[p].mem.plugin[t].source

(* What is pending: nothing, once the file has the owners of the copy, and  *)
(* an apply that is through with its jobs has seen to that.                 *)
Committed(p) ==
    /\ ~cmd[p].pending =>
          /\ disk.version = 2
          /\ \A t \in Managed(disk) : disk.plugin[t] = cmd[p].mem.plugin[t]
    /\ pc[p] = "run" /\ cmd[p].kind = "apply" /\ cmd[p].jobs = {} => ~cmd[p].pending

HasWork(p) == DOMAIN cmd[p].ids \cap Managed(cmd[p].loaded) # {}

(* Why the file is, or is about to be, other than it was loaded.            *)
Caused(p) ==
    /\ cmd[p].kind = "plan" => pc[p] \notin {"save", "commit"} /\ disk = cmd[p].loaded
    /\ cmd[p].kind = "destroy" =>
          /\ pc[p] # "commit"
          /\ pc[p] = "save" \/ disk # cmd[p].loaded => HasWork(p)
          /\ \A t \in Target : cmd[p].mem.res[t] \subseteq cmd[p].loaded.res[t]
    /\ \A t \in Target : DOMAIN cmd[p].ids = {t} /\ ~cmd[p].wrote =>
          /\ disk # cmd[p].loaded => pc[p] = "run" /\ cmd[p].jobs = {}
          /\ pc[p] = "commit" => cmd[p].jobs = {}

(* Whoever is past the lock holds it.                                       *)
Holder(p) == lock = p

PastLockInv(p) ==
    Holder(p) /\ CopyOwned(p) /\ CopyCurrent(p) /\ Committed(p) /\ Caused(p)

(* What the file tracks was made by the owner it records, or by the source  *)
(* that had the label before owners were recorded, or nothing tells by whom.*)
DiskOwned ==
    \A t \in Target : \A r \in disk.res[t] :
        obj[t][r] \in
            IF disk.version = 2 THEN {disk.plugin[t].source, Unknown, NoObject}
            ELSE IF t \in {MemoryLabel, ClaudeLabel} THEN {Legacy[t], NoObject}
            ELSE {Unknown, NoObject}

IInv ==
    /\ OwnersRecorded
    /\ DiskOwned
    /\ \A p \in Proc :
          /\ pc[p] # "idle" => Compiled(p)
          /\ PastLock(p) => PastLockInv(p)
-----------------------------------------------------------------------------
(* Types. *)

(* A missing state file is a state file, and a process that ends is back to *)
(* its initial session.                                                     *)
LEMMA NoSessionType == EmptyFile \in StateFile /\ NoSession \in Session
<1>1. EmptyFile \in StateFile
    BY DEF EmptyFile, StateFile
<1>2. [t \in Target |-> Absent] \in Declaration
    BY DEF Declaration
<1>3. [t \in {} |-> NoOwner] \in [{} -> Identity]
    OBVIOUS
<1>4. [t \in {} |-> NoOwner] \in UNION {[S -> Identity] : S \in SUBSET Target}
    BY <1>3
<1>5. QED
    BY <1>1, <1>2, <1>4 DEF NoSession, Session, Kind

(* The identity of an implementation of a declared target is whole.         *)
LEMMA ResolvedType ==
    ASSUME TypeOK, NEW d \in Declaration, NEW t \in Target, d[t] # Absent
    PROVE  /\ Resolved(d, t) \in Identity
           /\ Resolved(d, t).source = DeclaredSource(d, t)
<1>1. d[t] \in Source \/ d[t] = Implicit
    BY DEF Declaration
<1>2. DeclaredSource(d, t) \in Source
    BY <1>1, NamesAssumption DEF DeclaredSource
<1>3. (IF d[t] = Implicit THEN Builtin ELSE installed[d[t]]) \in Version \cup {Builtin}
    BY <1>1 DEF TypeOK
<1>4. QED
    BY <1>2, <1>3 DEF Resolved, Identity

(* The owners of what a command selected or finds tracked are whole when    *)
(* the declarations of what is tracked are accepted.                        *)
LEMMA OwnersType ==
    ASSUME TypeOK, OwnersRecorded, NEW p \in Proc,
           \A t \in Managed(disk) : Accepted(cmd[p].decl, disk, t)
    PROVE  /\ DOMAIN Owners(p) = DOMAIN cmd[p].ids \cup Managed(disk)
           /\ DOMAIN Owners(p) \subseteq Target
           /\ \A t \in DOMAIN Owners(p) : Owners(p)[t] \in Identity
<1>1. cmd[p] \in Session /\ disk \in StateFile
    BY DEF TypeOK
<1>2. /\ cmd[p].decl \in Declaration
      /\ cmd[p].ids \in UNION {[S -> Identity] : S \in SUBSET Target}
    BY <1>1 DEF Session
<1>3. PICK S \in SUBSET Target : cmd[p].ids \in [S -> Identity]
    BY <1>2
<1>4. DOMAIN Owners(p) = DOMAIN cmd[p].ids \cup Managed(disk)
    BY DEF Owners
<1>5. Managed(disk) \subseteq Target
    BY DEF Managed
<1>6. ASSUME NEW t \in DOMAIN Owners(p)
      PROVE  Owners(p)[t] \in Identity
    <2>1. CASE t \in DOMAIN cmd[p].ids
        BY <1>3, <1>4, <2>1 DEF Owners
    <2>2. CASE t \notin DOMAIN cmd[p].ids
        <3>1. t \in Managed(disk) /\ t \in Target
            BY <1>4, <1>5, <1>6, <2>2
        <3>2. cmd[p].decl[t] # Absent
            BY <3>1 DEF Accepted
        <3>3. disk.version # 1 => disk.plugin[t] \in Identity
            BY <1>1, <3>1 DEF OwnersRecorded, StateFile
        <3>4. QED
            BY <1>2, <1>4, <1>6, <2>2, <3>1, <3>2, <3>3, ResolvedType DEF Owners
    <2>3. QED
        BY <2>1, <2>2
<1>7. QED
    BY <1>3, <1>4, <1>5, <1>6

(* Binding owners makes a state file of a state file.                       *)
LEMMA BoundType ==
    ASSUME NEW f \in StateFile, NEW owners, DOMAIN owners \subseteq Target,
           \A t \in DOMAIN owners : owners[t] \in Identity
    PROVE  /\ Bound(f, owners) \in StateFile
           /\ Bound(f, owners).res = f.res
           /\ Bound(f, owners).version = f.version
           /\ \A t \in Target : Bound(f, owners).plugin[t] =
                  IF t \in DOMAIN owners THEN owners[t] ELSE f.plugin[t]
    BY DEF Bound, StateFile

(* So does writing one, in format 2 and with the owners of what is tracked. *)
LEMMA WrittenType ==
    ASSUME NEW f \in StateFile
    PROVE  /\ Written(f) \in StateFile
           /\ Written(f).version = 2 /\ Written(f).res = f.res
           /\ Managed(Written(f)) = Managed(f)
           /\ \A t \in Target : Written(f).plugin[t] =
                  IF t \in Managed(f) THEN f.plugin[t] ELSE NoOwner
    BY DEF Written, StateFile, Managed

(* What a change makes of the platform, and of what is tracked: nothing but *)
(* the target's objects differ, and those of one resource of it.            *)
LEMMA ChangesType ==
    ASSUME TypeOK, NEW p \in Proc, NEW t \in DOMAIN cmd[p].ids, NEW c \in Changes(p, t)
    PROVE  /\ c.objects \in [Target -> [Res -> Source \cup {NoObject, Unknown}]]
           /\ c.tracked \subseteq Res
           /\ cmd[p].kind # "plan"
           /\ cmd[p].kind = "destroy" =>
                 cmd[p].mem.res[t] # {} /\ c.tracked \subseteq cmd[p].mem.res[t]
           /\ \A u \in Target : \A r \in Res :
                 \/ c.objects[u][r] = obj[u][r]
                 \/ c.objects[u][r] = NoObject
                 \/ /\ u = t /\ r \notin cmd[p].mem.res[t]
                    /\ c.objects[u][r] = cmd[p].ids[t].source
           /\ \A r \in c.tracked :
                 r \in cmd[p].mem.res[t] \/ c.objects[t][r] = cmd[p].ids[t].source
<1>1. cmd[p] \in Session /\ obj \in [Target -> [Res -> Source \cup {NoObject, Unknown}]]
    BY DEF TypeOK
<1>2. PICK S \in SUBSET Target : cmd[p].ids \in [S -> Identity]
    BY <1>1 DEF Session
<1>3. t \in Target /\ cmd[p].ids[t].source \in Source
    BY <1>2 DEF Identity
<1>4. cmd[p].mem.res[t] \subseteq Res
    BY <1>1, <1>3 DEF Session, StateFile
<1> DEFINE tracked == cmd[p].mem.res[t]
           made(r, o) == [obj EXCEPT ![t][r] = o]
<1>5. ASSUME NEW r \in Res, NEW o \in Source \cup {NoObject}
      PROVE  /\ made(r, o) \in [Target -> [Res -> Source \cup {NoObject, Unknown}]]
             /\ made(r, o)[t][r] = o
             /\ \A u \in Target : \A q \in Res :
                   made(r, o)[u][q] = obj[u][q] \/ (u = t /\ q = r)
    BY <1>1, <1>3
<1>6. \/ /\ cmd[p].kind = "apply"
         /\ \E r \in Res \ tracked : c = [objects |-> made(r, cmd[p].ids[t].source),
                                          tracked |-> tracked \cup {r}]
      \/ /\ cmd[p].kind = "apply" /\ tracked # {}
         /\ c = [objects |-> obj, tracked |-> tracked]
      \/ /\ cmd[p].kind \in {"apply", "destroy"}
         /\ \E r \in tracked : c = [objects |-> made(r, NoObject),
                                    tracked |-> tracked \ {r}]
    BY <1>1 DEF Changes, Session, Kind
<1>7. CASE \E r \in Res \ tracked : c = [objects |-> made(r, cmd[p].ids[t].source),
                                         tracked |-> tracked \cup {r}]
    <2>1. PICK r \in Res \ tracked : c = [objects |-> made(r, cmd[p].ids[t].source),
                                          tracked |-> tracked \cup {r}]
        BY <1>7
    <2>2. cmd[p].kind = "apply"
        BY <1>4, <1>6, <2>1
    <2>3. c.objects = made(r, cmd[p].ids[t].source) /\ c.tracked = tracked \cup {r}
        BY <2>1
    <2>4. QED
        BY <1>3, <1>4, <1>5, <2>2, <2>3
<1>8. CASE \E r \in tracked : c = [objects |-> made(r, NoObject),
                                   tracked |-> tracked \ {r}]
    <2>1. PICK r \in tracked : c = [objects |-> made(r, NoObject),
                                    tracked |-> tracked \ {r}]
        BY <1>8
    <2>2. cmd[p].kind \in {"apply", "destroy"}
        BY <1>6
    <2>3. c.objects = made(r, NoObject) /\ c.tracked = tracked \ {r} /\ r \in Res
        BY <1>4, <2>1
    <2>4. QED
        BY <1>3, <1>4, <1>5, <2>2, <2>3
<1>9. CASE cmd[p].kind = "apply" /\ c = [objects |-> obj, tracked |-> tracked]
    BY <1>1, <1>4, <1>9
<1>10. QED
    BY <1>6, <1>7, <1>8, <1>9

(* The initial state has the right types. *)
LEMMA InitType == Init => TypeOK
<1> SUFFICES ASSUME Init PROVE TypeOK
    OBVIOUS
<1>1. disk \in StateFile /\ obj \in [Target -> [Res -> Source \cup {NoObject, Unknown}]]
    <2>1. CASE disk = EmptyFile /\ obj = [t \in Target |-> [r \in Res |-> NoObject]]
        BY <2>1, NoSessionType
    <2>2. ASSUME NEW tracked \in [Target -> SUBSET Res],
                 disk = [EmptyFile EXCEPT !.version = 1, !.res = tracked],
                 obj = [t \in Target |-> [r \in Res |->
                            IF r \notin tracked[t] THEN NoObject
                            ELSE IF t \in {MemoryLabel, ClaudeLabel} THEN Legacy[t]
                            ELSE Unknown]]
          PROVE  /\ disk \in StateFile
                 /\ obj \in [Target -> [Res -> Source \cup {NoObject, Unknown}]]
        <3>1. disk \in StateFile
            BY <2>2, NoSessionType DEF StateFile
        <3>2. \A t \in Target : Legacy[t] \in Source
            BY NamesAssumption
        <3>3. QED
            BY <2>2, <3>1, <3>2
    <2>3. QED
        BY <2>1, <2>2 DEF Init
<1>2. decl \in Declaration /\ installed \in [Source -> Version]
    BY NamesAssumption DEF Init
<1>3. cmd \in [Proc -> Session]
    BY NoSessionType DEF Init
<1>4. /\ lock \in Proc \cup {NoProc} /\ edits \in 0 .. MaxEdits
      /\ faults \in 0 .. MaxFaults
      /\ pc \in [Proc -> {"idle", "lock", "run", "save", "commit", "failed"}]
    <2>1. /\ lock = NoProc /\ edits = 0 /\ faults = 0
          /\ pc = [p \in Proc |-> "idle"]
        BY Zenon DEF Init
    <2>2. QED
        BY <2>1, BoundsAssumption
<1>5. QED
    BY <1>1, <1>2, <1>3, <1>4 DEF TypeOK

(* A command that starts. *)
LEMMA CompileType ==
    ASSUME TypeOK, NEW p \in Proc, NEW k \in Kind, Compile(p, k)
    PROVE  /\ TypeOK'
           /\ cmd'[p].decl = decl
           /\ cmd'[p].jobs = DOMAIN cmd'[p].ids /\ cmd'[p].jobs # {}
           /\ \A t \in DOMAIN cmd'[p].ids :
                 decl[t] # Absent /\ cmd'[p].ids[t].source = DeclaredSource(decl, t)
<1> DEFINE declared == {t \in Target : decl[t] # Absent}
           ids(S) == [t \in S |-> Resolved(decl, t)]
           session(S) == [NoSession EXCEPT !.kind = k, !.decl = decl,
                                           !.ids = ids(S), !.jobs = S]
<1>1. PICK S : /\ S \subseteq declared /\ S # {}
               /\ cmd' = [cmd EXCEPT ![p] = session(S)]
    BY DEF Compile
<1>2. decl \in Declaration
    BY DEF TypeOK
<1>3. \A t \in S : /\ Resolved(decl, t) \in Identity
                   /\ Resolved(decl, t).source = DeclaredSource(decl, t)
    BY <1>1, <1>2, ResolvedType
<1>4. ids(S) \in UNION {[U -> Identity] : U \in SUBSET Target}
    BY <1>1, <1>3
<1>5. /\ session(S) \in Session
      /\ session(S).decl = decl /\ session(S).ids = ids(S) /\ session(S).jobs = S
    <2>1. NoSession \in Session
        BY NoSessionType
    <2>2. QED
        BY <1>1, <1>2, <1>4, <2>1 DEF Session
<1>6. cmd'[p] = session(S) /\ cmd' \in [Proc -> Session]
    BY <1>1, <1>5 DEF TypeOK
<1>7. TypeOK'
    BY <1>6 DEF TypeOK, Compile, Goto
<1>8. QED
    BY <1>1, <1>3, <1>5, <1>6, <1>7

(* A command whose owners are bound. *)
LEMMA BindType ==
    ASSUME TypeOK, OwnersRecorded, NEW p \in Proc, Bind(p)
    PROVE  /\ TypeOK'
           /\ cmd'[p].kind = cmd[p].kind /\ cmd'[p].decl = cmd[p].decl
           /\ cmd'[p].ids = cmd[p].ids /\ cmd'[p].jobs = cmd[p].jobs
           /\ cmd'[p].wrote = cmd[p].wrote
           /\ cmd'[p].mem = Bound(disk, Owners(p)) /\ cmd'[p].loaded = disk
           /\ cmd'[p].pending = Pending(disk, Owners(p))
<1>1. cmd[p] \in Session /\ disk \in StateFile
    BY DEF TypeOK
<1>2. Bound(disk, Owners(p)) \in StateFile
    BY <1>1, OwnersType, BoundType DEF Bind
<1>3. Pending(disk, Owners(p)) \in BOOLEAN
    BY DEF Pending
<1> DEFINE session == [cmd[p] EXCEPT !.mem = Bound(disk, Owners(p)), !.loaded = disk,
                                     !.pending = Pending(disk, Owners(p))]
<1>4. cmd' = [cmd EXCEPT ![p] = session]
    BY DEF Bind
<1>5. /\ session \in Session
      /\ session.kind = cmd[p].kind /\ session.decl = cmd[p].decl
      /\ session.ids = cmd[p].ids /\ session.jobs = cmd[p].jobs
      /\ session.wrote = cmd[p].wrote
      /\ session.mem = Bound(disk, Owners(p)) /\ session.loaded = disk
      /\ session.pending = Pending(disk, Owners(p))
    BY <1>1, <1>2, <1>3 DEF Session
<1>6. cmd'[p] = session /\ cmd' \in [Proc -> Session]
    BY <1>4, <1>5 DEF TypeOK
<1>7. TypeOK'
    BY <1>6 DEF TypeOK, Bind, Goto
<1>8. QED
    BY <1>5, <1>6, <1>7

(* An operation that is carried out. *)
LEMMA OperateKind ==
    ASSUME TypeOK, NEW p \in Proc, Compiled(p), pc[p] # "idle",
           NEW t \in Target, Operate(p, t)
    PROVE  /\ TypeOK'
           /\ t \in DOMAIN cmd[p].ids
           /\ cmd'[p].kind = cmd[p].kind /\ cmd'[p].decl = cmd[p].decl
           /\ cmd'[p].ids = cmd[p].ids /\ cmd'[p].jobs = cmd[p].jobs
           /\ cmd'[p].wrote = cmd[p].wrote /\ cmd'[p].loaded = cmd[p].loaded
           /\ cmd'[p].pending = cmd[p].pending
           /\ cmd'[p].mem.plugin = cmd[p].mem.plugin
           /\ cmd'[p].mem.version = cmd[p].mem.version
           /\ \E c \in Changes(p, t) :
                 /\ obj' = c.objects
                 /\ \A u \in Target : cmd'[p].mem.res[u] =
                       IF u = t THEN c.tracked ELSE cmd[p].mem.res[u]
<1>1. cmd[p] \in Session /\ t \in DOMAIN cmd[p].ids
    BY DEF TypeOK, Compiled, Operate, Job
<1>2. PICK c \in Changes(p, t) :
          obj' = c.objects /\ cmd' = [cmd EXCEPT ![p].mem.res[t] = c.tracked]
    BY DEF Operate
<1>3. /\ c.tracked \subseteq Res
      /\ c.objects \in [Target -> [Res -> Source \cup {NoObject, Unknown}]]
    BY <1>1, ChangesType
<1> DEFINE res == [cmd[p].mem.res EXCEPT ![t] = c.tracked]
           mem == [cmd[p].mem EXCEPT !.res = res]
           session == [cmd[p] EXCEPT !.mem = mem]
<1>4. cmd[p].mem \in StateFile
    BY <1>1 DEF Session
<1>5. /\ res \in [Target -> SUBSET Res]
      /\ \A u \in Target : res[u] = IF u = t THEN c.tracked ELSE cmd[p].mem.res[u]
    BY <1>3, <1>4 DEF StateFile
<1>6. /\ mem \in StateFile /\ mem.res = res
      /\ mem.plugin = cmd[p].mem.plugin /\ mem.version = cmd[p].mem.version
    BY <1>4, <1>5 DEF StateFile
<1>7. /\ session \in Session /\ session.mem = mem
      /\ session.kind = cmd[p].kind /\ session.decl = cmd[p].decl
      /\ session.ids = cmd[p].ids /\ session.jobs = cmd[p].jobs
      /\ session.wrote = cmd[p].wrote /\ session.loaded = cmd[p].loaded
      /\ session.pending = cmd[p].pending
    BY <1>1, <1>6 DEF Session
<1>8. cmd' = [cmd EXCEPT ![p] = session]
    BY <1>2
<1>9. cmd'[p] = session /\ cmd' \in [Proc -> Session]
    BY <1>7, <1>8 DEF TypeOK
<1>10. TypeOK'
    BY <1>2, <1>3, <1>9 DEF TypeOK, Operate, Goto
<1>11. QED
    BY <1>1, <1>2, <1>5, <1>6, <1>7, <1>9, <1>10

(* A job that is done. *)
LEMMA FinishJobType ==
    ASSUME TypeOK, NEW p \in Proc, NEW t \in Target, FinishJob(p, t)
    PROVE  /\ TypeOK'
           /\ cmd'[p].kind = cmd[p].kind /\ cmd'[p].decl = cmd[p].decl
           /\ cmd'[p].ids = cmd[p].ids /\ cmd'[p].jobs = cmd[p].jobs \ {t}
           /\ cmd'[p].wrote = cmd[p].wrote /\ cmd'[p].loaded = cmd[p].loaded
           /\ cmd'[p].pending = cmd[p].pending /\ cmd'[p].mem = cmd[p].mem
<1> DEFINE session == [cmd[p] EXCEPT !.jobs = @ \ {t}]
<1>1. cmd' = [cmd EXCEPT ![p] = session]
    BY DEF FinishJob
<1>2. /\ session \in Session /\ session.jobs = cmd[p].jobs \ {t}
      /\ session.kind = cmd[p].kind /\ session.decl = cmd[p].decl
      /\ session.ids = cmd[p].ids /\ session.mem = cmd[p].mem
      /\ session.wrote = cmd[p].wrote /\ session.loaded = cmd[p].loaded
      /\ session.pending = cmd[p].pending
    BY DEF TypeOK, Session
<1>3. cmd'[p] = session /\ cmd' \in [Proc -> Session]
    BY <1>1, <1>2 DEF TypeOK
<1>4. TypeOK'
    BY <1>3 DEF TypeOK, FinishJob, Goto
<1>5. QED
    BY <1>2, <1>3, <1>4

(* A state file that is written. *)
LEMMA SaveType ==
    ASSUME TypeOK, NEW p \in Proc, Save(p)
    PROVE  /\ TypeOK'
           /\ cmd'[p].kind = cmd[p].kind /\ cmd'[p].decl = cmd[p].decl
           /\ cmd'[p].ids = cmd[p].ids /\ cmd'[p].jobs = cmd[p].jobs
           /\ cmd'[p].wrote = (cmd[p].wrote \/ pc[p] = "save")
           /\ cmd'[p].loaded = cmd[p].loaded /\ cmd'[p].pending = FALSE
           /\ cmd'[p].mem.res = cmd[p].mem.res
           /\ cmd'[p].mem.plugin = cmd[p].mem.plugin
<1>1. cmd[p] \in Session /\ cmd[p].mem \in StateFile
    BY DEF TypeOK, Session
<1> DEFINE mem == [cmd[p].mem EXCEPT !.version = 2]
           session == [cmd[p] EXCEPT !.mem = mem, !.pending = FALSE,
                                     !.wrote = @ \/ pc[p] = "save"]
<1>2. /\ mem \in StateFile /\ mem.res = cmd[p].mem.res
      /\ mem.plugin = cmd[p].mem.plugin
    BY <1>1 DEF StateFile
<1>3. (cmd[p].wrote \/ pc[p] = "save") \in BOOLEAN
    OBVIOUS
<1>4. /\ session \in Session /\ session.mem = mem
      /\ session.kind = cmd[p].kind /\ session.decl = cmd[p].decl
      /\ session.ids = cmd[p].ids /\ session.jobs = cmd[p].jobs
      /\ session.wrote = (cmd[p].wrote \/ pc[p] = "save")
      /\ session.loaded = cmd[p].loaded /\ session.pending = FALSE
    BY <1>1, <1>2, <1>3 DEF Session
<1>5. cmd' = [cmd EXCEPT ![p] = session]
    BY DEF Save
<1>6. cmd'[p] = session /\ cmd' \in [Proc -> Session]
    BY <1>4, <1>5 DEF TypeOK
<1>7. Written(cmd[p].mem) \in StateFile
    BY <1>1, WrittenType
<1>8. TypeOK'
    BY <1>6, <1>7 DEF TypeOK, Save, Goto
<1>9. QED
    BY <1>2, <1>4, <1>6, <1>8

(* The steps that change no session but to end it. *)
LEMMA OtherSteps ==
    ASSUME TypeOK, NEW p \in Proc,
           \/ Contended(p) \/ BindRejected(p) \/ SaveFails(p)
           \/ Release(p) \/ Crash(p)
    PROVE  TypeOK'
<1>1. /\ disk' = disk /\ obj' = obj /\ decl' = decl /\ installed' = installed
      /\ lock' \in {lock, NoProc} /\ edits' = edits
      /\ faults' \in {faults, faults + 1} /\ (faults' # faults => faults < MaxFaults)
    BY DEF Contended, BindRejected, SaveFails, Release, Crash, Fault
<1>2. \/ Exit(p)
      \/ Goto(p, "failed") /\ cmd' = cmd
    BY DEF Contended, BindRejected, SaveFails, Release, Crash
<1>3. /\ pc' \in [Proc -> {"idle", "lock", "run", "save", "commit", "failed"}]
      /\ cmd' \in [Proc -> Session]
    BY <1>2, NoSessionType DEF TypeOK, Exit, Goto
<1>4. faults' \in 0 .. MaxFaults
    BY <1>1, BoundsAssumption DEF TypeOK
<1>5. QED
    BY <1>1, <1>3, <1>4 DEF TypeOK

(* An operation that fails. *)
LEMMA OperateFailsType ==
    ASSUME TypeOK, NEW p \in Proc, Compiled(p), pc[p] # "idle",
           NEW t \in Target, OperateFails(p, t)
    PROVE  TypeOK' /\ t \in DOMAIN cmd[p].ids
<1>1. t \in DOMAIN cmd[p].ids
    BY DEF Compiled, OperateFails, Job
<1>2. obj' \in [Target -> [Res -> Source \cup {NoObject, Unknown}]]
    BY <1>1, ChangesType DEF TypeOK, OperateFails
<1>3. faults' \in 0 .. MaxFaults
    BY BoundsAssumption DEF TypeOK, OperateFails, Fault
<1>4. QED
    BY <1>1, <1>2, <1>3 DEF TypeOK, OperateFails, Fault, Goto

(* What people do. *)
LEMMA UsersType ==
    ASSUME TypeOK, EditTarget \/ Upgrade \/ DeleteStaleLock
    PROVE  TypeOK'
<1>1. CASE EditTarget
    <2>1. decl' \in Declaration
        BY <1>1 DEF TypeOK, EditTarget, Declaration
    <2>2. QED
        BY <1>1, <2>1, BoundsAssumption DEF TypeOK, EditTarget, Edit
<1>2. CASE Upgrade
    BY <1>2, BoundsAssumption DEF TypeOK, Upgrade, Edit
<1>3. CASE DeleteStaleLock
    BY <1>3 DEF TypeOK, DeleteStaleLock
<1>4. QED
    BY <1>1, <1>2, <1>3
-----------------------------------------------------------------------------
(* The invariant, action by action: what an action of p has to keep. *)

Kept(p) ==
    /\ OwnersRecorded' /\ DiskOwned'
    /\ pc'[p] # "idle" => Compiled(p)'
    /\ PastLock(p)' => PastLockInv(p)'

(* A file with no owners, of either format. *)
LEMMA InitInv == Init => IInv
<1> SUFFICES ASSUME Init PROVE IInv
    OBVIOUS
<1>1. \A p \in Proc : pc[p] = "idle"
    BY Zenon DEF Init
<1>2. OwnersRecorded /\ DiskOwned
    <2>1. CASE disk = EmptyFile
        BY <2>1, NoOwnerAssumption DEF EmptyFile, OwnersRecorded, DiskOwned, Managed
    <2>2. ASSUME NEW tracked \in [Target -> SUBSET Res],
                 disk = [EmptyFile EXCEPT !.version = 1, !.res = tracked],
                 obj = [t \in Target |-> [r \in Res |->
                            IF r \notin tracked[t] THEN NoObject
                            ELSE IF t \in {MemoryLabel, ClaudeLabel} THEN Legacy[t]
                            ELSE Unknown]]
          PROVE  OwnersRecorded /\ DiskOwned
        <3>1. disk.version = 1 /\ disk.res = tracked /\ disk.plugin = EmptyFile.plugin
            BY <2>2 DEF EmptyFile
        <3>2. OwnersRecorded
            BY <3>1, NoOwnerAssumption DEF EmptyFile, OwnersRecorded
        <3>3. DiskOwned
            BY <2>2, <3>1 DEF DiskOwned
        <3>4. QED
            BY <3>2, <3>3
    <2>3. QED
        BY <2>1, <2>2, Zenon DEF Init
<1>3. QED
    BY <1>1, <1>2 DEF IInv, PastLock

(* No action of one command touches the session of another, and none        *)
(* touches the file or the platform while the other is past the lock.       *)
LEMMA OthersUndisturbed ==
    ASSUME TypeOK, IInv, NEW p \in Proc, NEW q \in Proc, q # p, Command(p)
    PROVE  /\ pc'[q] # "idle" => Compiled(q)'
           /\ PastLock(q)' => PastLockInv(q)'
<1>1. pc'[q] = pc[q] /\ cmd'[q] = cmd[q]
    BY DEF TypeOK, Command, Compile, Contended, Bind, BindRejected, Operate,
           OperateFails, FinishJob, Save, SaveFails, Release, Crash, Goto, Exit
<1>2. pc'[q] # "idle" => Compiled(q)'
    BY <1>1 DEF IInv, Compiled, DeclaredSource
<1>3. ASSUME PastLock(q)
      PROVE  disk' = disk /\ obj' = obj /\ lock' = lock
    <2>1. lock = q /\ q # NoProc
        BY <1>3, NamesAssumption DEF IInv, PastLockInv, Holder
    <2>2. ~PastLock(p)
        BY <2>1 DEF IInv, PastLockInv, Holder
    <2>3. (\E k \in Kind : Compile(p, k)) \/ Contended(p) \/ BindRejected(p)
        BY <2>1, <2>2 DEF Command, PastLock, Bind, Operate, OperateFails, FinishJob,
                          Job, Save, SaveFails, Release, Crash
    <2>4. QED
        BY <2>3 DEF Compile, Contended, BindRejected
<1>4. PastLock(q)' => PastLockInv(q)'
    BY <1>1, <1>3 DEF IInv, PastLock, PastLockInv, Holder, CopyOwned, CopyCurrent,
                      Committed, Caused, HasWork, Managed
<1>5. QED
    BY <1>2, <1>4

(* A command that starts knows its declared targets. *)
LEMMA CompileKeeps ==
    ASSUME TypeOK, IInv, NEW p \in Proc, NEW k \in Kind, Compile(p, k)
    PROVE  Kept(p)
<1>1. pc'[p] = "lock" /\ disk' = disk /\ obj' = obj
    BY DEF Compile, Goto, TypeOK
<1>2. OwnersRecorded' /\ DiskOwned'
    BY <1>1 DEF IInv, OwnersRecorded, DiskOwned, Managed
<1>3. Compiled(p)'
    BY CompileType DEF Compiled, DeclaredSource
<1>4. QED
    BY <1>1, <1>2, <1>3 DEF Kept, PastLock

(* A command that ends leaves the file and the platform as they are; so     *)
(* does one whose save fails.                                               *)
LEMMA OtherStepsKeep ==
    ASSUME TypeOK, IInv, NEW p \in Proc,
           \/ Contended(p) \/ BindRejected(p) \/ SaveFails(p)
           \/ Release(p) \/ Crash(p)
    PROVE  Kept(p)
<1>1. disk' = disk /\ obj' = obj
    BY DEF Contended, BindRejected, SaveFails, Release, Crash
<1>2. OwnersRecorded' /\ DiskOwned'
    BY <1>1 DEF IInv, OwnersRecorded, DiskOwned, Managed
<1>3. CASE pc'[p] = "idle"
    BY <1>2, <1>3 DEF Kept, PastLock
<1>4. CASE pc'[p] # "idle"
    <2>1. SaveFails(p)
        BY <1>4 DEF TypeOK, Contended, BindRejected, Release, Crash, Exit, Goto
    <2>2. /\ pc[p] \in {"save", "commit"} /\ pc'[p] = "failed"
          /\ cmd' = cmd /\ lock' = lock
        BY <2>1 DEF SaveFails, Goto, TypeOK
    <2>3. Compiled(p)' /\ PastLock(p)
        BY <2>2 DEF IInv, Compiled, DeclaredSource, PastLock
    <2>4. CopyOwned(p)' /\ CopyCurrent(p)' /\ Committed(p)' /\ Holder(p)'
        BY <1>1, <2>2, <2>3 DEF IInv, PastLockInv, CopyOwned, CopyCurrent, Committed,
                                Holder, Managed
    <2>5. Caused(p)'
        BY <1>1, <2>2, <2>3 DEF IInv, PastLockInv, Caused, HasWork, Managed
    <2>6. QED
        BY <1>2, <2>3, <2>4, <2>5 DEF Kept, PastLockInv
<1>5. QED
    BY <1>3, <1>4

(* What is accepted at the lock: the source that is to run a tracked target *)
(* is the owner that is recorded, or had the label when none was.           *)
LEMMA AcceptedOwner ==
    ASSUME TypeOK, IInv, NEW p \in Proc, Bind(p), NEW t \in Managed(disk)
    PROVE  /\ t \in Target /\ t \in DOMAIN Owners(p)
           /\ Owners(p)[t] \in Identity
           /\ disk.version = 2 => Owners(p)[t].source = disk.plugin[t].source
           /\ disk.version = 2 /\ t \notin DOMAIN cmd[p].ids =>
                 Owners(p)[t] = disk.plugin[t]
           /\ disk.version = 1 /\ t \in {MemoryLabel, ClaudeLabel} =>
                 Owners(p)[t].source = Legacy[t]
<1>1. cmd[p] \in Session /\ disk \in StateFile
    BY DEF TypeOK
<1>2. /\ t \in Target /\ Compiled(p) /\ Accepted(cmd[p].decl, disk, t)
      /\ cmd[p].decl \in Declaration /\ disk.version \in {1, 2}
    BY <1>1 DEF Managed, Bind, IInv, Session, StateFile
<1>3. t \in DOMAIN Owners(p) /\ Owners(p)[t] \in Identity
    BY OwnersType DEF Bind, IInv
<1>4. Owners(p)[t] = IF t \in DOMAIN cmd[p].ids THEN cmd[p].ids[t]
                     ELSE IF disk.version = 1 THEN Resolved(cmd[p].decl, t)
                     ELSE disk.plugin[t]
    BY <1>3 DEF Owners
<1>5. cmd[p].decl[t] # Absent
    BY <1>2 DEF Accepted
<1>6. Resolved(cmd[p].decl, t).source = DeclaredSource(cmd[p].decl, t)
    BY <1>2, <1>5, ResolvedType
<1>7. t \in DOMAIN cmd[p].ids =>
          cmd[p].ids[t].source = DeclaredSource(cmd[p].decl, t)
    BY <1>2 DEF Compiled
<1>8. disk.version = 2 => disk.plugin[t].source = DeclaredSource(cmd[p].decl, t)
    BY <1>2 DEF Accepted
<1>9. disk.version = 1 /\ t \in {MemoryLabel, ClaudeLabel} =>
          DeclaredSource(cmd[p].decl, t) = Legacy[t]
    BY <1>2 DEF Accepted
<1>10. QED
    BY <1>2, <1>3, <1>4, <1>6, <1>7, <1>8, <1>9

(* Binding makes the copy one that its owners made. *)
LEMMA BindKeeps ==
    ASSUME TypeOK, IInv, NEW p \in Proc, Bind(p)
    PROVE  Kept(p)
<1>1. cmd[p] \in Session /\ disk \in StateFile
    BY DEF TypeOK
<1>2. /\ pc'[p] = "run" /\ disk' = disk /\ obj' = obj /\ lock' = p
      /\ cmd[p].jobs # {} /\ Compiled(p) /\ OwnersRecorded
    BY DEF Bind, Goto, TypeOK, IInv, Compiled
<1>3. OwnersRecorded' /\ DiskOwned'
    BY <1>2 DEF IInv, OwnersRecorded, DiskOwned, Managed
<1>4. /\ cmd'[p].kind = cmd[p].kind /\ cmd'[p].decl = cmd[p].decl
      /\ cmd'[p].ids = cmd[p].ids /\ cmd'[p].jobs = cmd[p].jobs
      /\ cmd'[p].loaded = disk /\ cmd'[p].mem = Bound(disk, Owners(p))
      /\ cmd'[p].pending = Pending(disk, Owners(p))
    BY <1>2, BindType
<1>5. /\ DOMAIN Owners(p) = DOMAIN cmd[p].ids \cup Managed(disk)
      /\ DOMAIN Owners(p) \subseteq Target
      /\ \A t \in DOMAIN Owners(p) : Owners(p)[t] \in Identity
    BY <1>2, OwnersType DEF Bind
<1>6. /\ cmd'[p].mem.res = disk.res
      /\ \A t \in Target : cmd'[p].mem.plugin[t] =
            IF t \in DOMAIN Owners(p) THEN Owners(p)[t] ELSE disk.plugin[t]
      /\ Managed(cmd'[p].mem) = Managed(disk)
    BY <1>1, <1>4, <1>5, BoundType DEF Managed
<1>7. \A t \in DOMAIN cmd[p].ids : cmd'[p].mem.plugin[t] = cmd[p].ids[t]
    BY <1>5, <1>6 DEF Owners
<1>8. ASSUME NEW t \in Managed(disk)
      PROVE  /\ cmd'[p].mem.plugin[t] = Owners(p)[t]
             /\ cmd'[p].mem.plugin[t] \in Identity
             /\ disk.plugin[t] # NoOwner =>
                   disk.plugin[t].source = cmd'[p].mem.plugin[t].source
             /\ \A r \in disk.res[t] :
                   obj[t][r] \in {cmd'[p].mem.plugin[t].source, Unknown, NoObject}
    <2>1. t \in Target /\ cmd'[p].mem.plugin[t] = Owners(p)[t]
        BY <1>6, AcceptedOwner
    <2>2. disk.version \in {1, 2}
        BY <1>1 DEF StateFile
    <2>3. disk.version = 1 => disk.plugin[t] = NoOwner
        BY <1>1, <1>2, <2>1 DEF OwnersRecorded, StateFile
    <2>4. \A r \in disk.res[t] : obj[t][r] \in {Owners(p)[t].source, Unknown, NoObject}
        <3> SUFFICES ASSUME NEW r \in disk.res[t]
                     PROVE  obj[t][r] \in {Owners(p)[t].source, Unknown, NoObject}
            OBVIOUS
        <3>1. obj[t][r] \in
                  IF disk.version = 2 THEN {disk.plugin[t].source, Unknown, NoObject}
                  ELSE IF t \in {MemoryLabel, ClaudeLabel} THEN {Legacy[t], NoObject}
                  ELSE {Unknown, NoObject}
            BY <2>1 DEF IInv, DiskOwned
        <3>2. CASE disk.version = 2
            BY <2>1, <3>1, <3>2, AcceptedOwner
        <3>3. CASE disk.version = 1
            BY <2>1, <3>1, <3>3, AcceptedOwner
        <3>4. QED
            BY <2>2, <3>2, <3>3
    <2>5. QED
        BY <2>1, <2>2, <2>3, <2>4, AcceptedOwner
<1>9. CopyOwned(p)'
    BY <1>2, <1>4, <1>6, <1>7, <1>8 DEF CopyOwned, Managed
<1>10. CopyCurrent(p)'
    BY <1>2, <1>4, <1>6, <1>8, AcceptedOwner DEF CopyCurrent, Managed
<1>11. Committed(p)'
    <2>1. ~Pending(disk, Owners(p)) =>
              disk.version = 2 /\ \A t \in Managed(disk) : disk.plugin[t] = Owners(p)[t]
        BY <1>1 DEF Pending, StateFile
    <2>2. QED
        BY <1>2, <1>4, <1>8, <2>1 DEF Committed, Managed
<1>12. Caused(p)'
    BY <1>2, <1>4, <1>6 DEF Caused, HasWork
<1>13. QED
    BY <1>2, <1>3, <1>4, <1>9, <1>10, <1>11, <1>12
    DEF Kept, PastLockInv, Holder, Compiled, DeclaredSource

(* An operation makes objects of its owner's only. *)
LEMMA OperateKeeps ==
    ASSUME TypeOK, IInv, NEW p \in Proc, NEW t \in Target, Operate(p, t)
    PROVE  Kept(p)
<1>1. cmd[p] \in Session /\ disk \in StateFile /\ pc[p] = "run"
    BY DEF TypeOK, Operate, Job
<1>2. /\ Compiled(p) /\ PastLockInv(p) /\ OwnersRecorded /\ DiskOwned
      /\ pc'[p] = "save" /\ disk' = disk /\ lock' = lock
    BY <1>1 DEF IInv, PastLock, Operate, Goto, TypeOK
<1>3. /\ t \in DOMAIN cmd[p].ids
      /\ cmd'[p].kind = cmd[p].kind /\ cmd'[p].decl = cmd[p].decl
      /\ cmd'[p].ids = cmd[p].ids /\ cmd'[p].jobs = cmd[p].jobs
      /\ cmd'[p].wrote = cmd[p].wrote /\ cmd'[p].loaded = cmd[p].loaded
      /\ cmd'[p].pending = cmd[p].pending
      /\ cmd'[p].mem.plugin = cmd[p].mem.plugin
    BY <1>1, <1>2, OperateKind
<1>4. PICK c \in Changes(p, t) :
          /\ obj' = c.objects
          /\ \A u \in Target : cmd'[p].mem.res[u] =
                IF u = t THEN c.tracked ELSE cmd[p].mem.res[u]
    BY <1>1, <1>2, OperateKind
<1>5. /\ cmd[p].kind # "plan"
      /\ cmd[p].kind = "destroy" =>
            cmd[p].mem.res[t] # {} /\ c.tracked \subseteq cmd[p].mem.res[t]
      /\ \A u \in Target : \A r \in Res :
            \/ c.objects[u][r] = obj[u][r]
            \/ c.objects[u][r] = NoObject
            \/ u = t /\ r \notin cmd[p].mem.res[t] /\ c.objects[u][r] = cmd[p].ids[t].source
      /\ \A r \in c.tracked :
            r \in cmd[p].mem.res[t] \/ c.objects[t][r] = cmd[p].ids[t].source
      /\ c.tracked \subseteq Res
    BY <1>3, ChangesType
<1>6. disk.res = cmd[p].mem.res /\ disk.res \in [Target -> SUBSET Res]
    BY <1>1, <1>2 DEF PastLockInv, CopyCurrent, StateFile
<1>7. DiskOwned'
    <2>1. ASSUME NEW u \in Target, NEW r \in disk.res[u]
          PROVE  c.objects[u][r] \in {obj[u][r], NoObject}
        BY <1>5, <1>6
    <2>2. QED
        <3> SUFFICES ASSUME NEW u \in Target, NEW r \in disk.res[u]
                     PROVE  c.objects[u][r] \in
                        IF disk.version = 2 THEN {disk.plugin[u].source, Unknown, NoObject}
                        ELSE IF u \in {MemoryLabel, ClaudeLabel}
                             THEN {Legacy[u], NoObject}
                        ELSE {Unknown, NoObject}
            BY <1>2, <1>4 DEF DiskOwned
        <3>1. obj[u][r] \in
                  IF disk.version = 2 THEN {disk.plugin[u].source, Unknown, NoObject}
                  ELSE IF u \in {MemoryLabel, ClaudeLabel} THEN {Legacy[u], NoObject}
                  ELSE {Unknown, NoObject}
            BY <1>2 DEF DiskOwned
        <3>2. CASE c.objects[u][r] = obj[u][r]
            BY <3>1, <3>2
        <3>3. CASE c.objects[u][r] = NoObject
            BY <3>3
        <3>4. QED
            BY <2>1, <3>2, <3>3
<1>8. OwnersRecorded'
    BY <1>2 DEF OwnersRecorded, Managed
<1>9. cmd[p].mem.plugin[t] = cmd[p].ids[t] /\ cmd[p].ids[t] \in Identity
    BY <1>1, <1>2, <1>3 DEF PastLockInv, CopyOwned, Session
<1>10. CopyOwned(p)'
    <2>1. ASSUME NEW u \in Target, cmd'[p].mem.res[u] # {}
          PROVE  /\ cmd[p].mem.plugin[u] \in Identity
                 /\ \A r \in cmd'[p].mem.res[u] :
                       c.objects[u][r] \in {cmd[p].mem.plugin[u].source, Unknown, NoObject}
        <3>1. CASE u = t
            BY <1>2, <1>4, <1>5, <1>9, <2>1, <3>1 DEF PastLockInv, CopyOwned, Managed
        <3>2. CASE u # t
            BY <1>2, <1>4, <1>5, <1>6, <2>1, <3>2 DEF PastLockInv, CopyOwned, Managed
        <3>3. QED
            BY <3>1, <3>2
    <2>2. \A u \in DOMAIN cmd[p].ids : cmd[p].mem.plugin[u] = cmd[p].ids[u]
        BY <1>2 DEF PastLockInv, CopyOwned
    <2>3. QED
        BY <1>3, <1>4, <2>1, <2>2 DEF CopyOwned, Managed
<1>11. CopyCurrent(p)'
    BY <1>2, <1>3, <1>4, <1>6 DEF PastLockInv, CopyCurrent, Managed
<1>12. Committed(p)'
    BY <1>2, <1>3 DEF PastLockInv, Committed, Managed
<1>13. Caused(p)'
    <2>1. cmd[p].kind = "destroy" => t \in DOMAIN cmd[p].ids \cap Managed(cmd[p].loaded)
        BY <1>2, <1>3, <1>5 DEF PastLockInv, Caused, Managed
    <2>2. \A u \in Target : cmd'[p].mem.res[u] \subseteq Res
        BY <1>4, <1>5, <1>6
    <2>3. ASSUME NEW u \in Target, DOMAIN cmd[p].ids = {u}, ~cmd[p].wrote
          PROVE  disk = cmd[p].loaded
        <3>1. cmd[p].jobs # {}
            BY DEF Operate, Job
        <3>2. QED
            BY <1>1, <1>2, <2>3, <3>1 DEF PastLockInv, Caused
    <2>4. cmd[p].kind = "destroy" =>
              \A u \in Target : cmd'[p].mem.res[u] \subseteq cmd[p].loaded.res[u]
        BY <1>2, <1>4, <1>5 DEF PastLockInv, Caused
    <2>5. QED
        BY <1>2, <1>3, <1>5, <2>1, <2>3, <2>4 DEF Caused, HasWork
<1>14. QED
    BY <1>2, <1>3, <1>7, <1>8, <1>10, <1>11, <1>12, <1>13
    DEF Kept, PastLockInv, Holder, Compiled, DeclaredSource

(* An operation that fails may have had its effect, but not on the copy. *)
LEMMA OperateFailsKeeps ==
    ASSUME TypeOK, IInv, NEW p \in Proc, NEW t \in Target, OperateFails(p, t)
    PROVE  Kept(p)
<1>1. disk \in StateFile /\ pc[p] = "run"
    BY DEF TypeOK, OperateFails, Job
<1>2. /\ Compiled(p) /\ PastLockInv(p) /\ OwnersRecorded /\ DiskOwned
      /\ pc'[p] = "failed" /\ disk' = disk /\ lock' = lock /\ cmd' = cmd
      /\ t \in cmd[p].jobs /\ t \in DOMAIN cmd[p].ids
    BY <1>1 DEF IInv, PastLock, OperateFails, Job, Goto, TypeOK, Compiled
<1>3. disk.res = cmd[p].mem.res /\ disk.res \in [Target -> SUBSET Res]
    BY <1>1, <1>2 DEF PastLockInv, CopyCurrent, StateFile
<1>4. ASSUME NEW u \in Target, NEW r \in disk.res[u]
      PROVE  obj'[u][r] \in {obj[u][r], NoObject}
    <2>1. CASE obj' = obj
        BY <2>1
    <2>2. ASSUME NEW c \in Changes(p, t), obj' = c.objects
          PROVE  obj'[u][r] \in {obj[u][r], NoObject}
        BY <1>2, <1>3, <2>2, ChangesType
    <2>3. QED
        BY <2>1, <2>2 DEF OperateFails
<1>5. OwnersRecorded' /\ DiskOwned'
    BY <1>2, <1>4 DEF OwnersRecorded, DiskOwned, Managed
<1>6. CopyOwned(p)'
    BY <1>2, <1>3, <1>4 DEF PastLockInv, CopyOwned, Managed
<1>7. CopyCurrent(p)' /\ Committed(p)'
    BY <1>2 DEF PastLockInv, CopyCurrent, Committed, Managed
<1>8. Caused(p)'
    BY <1>1, <1>2 DEF PastLockInv, Caused, HasWork, Managed
<1>9. QED
    BY <1>2, <1>5, <1>6, <1>7, <1>8
    DEF Kept, PastLockInv, Holder, Compiled, DeclaredSource

(* A job is done: only an apply goes on to commit, and a command on one     *)
(* target has no job left then.                                             *)
LEMMA FinishJobKeeps ==
    ASSUME TypeOK, IInv, NEW p \in Proc, NEW t \in Target, FinishJob(p, t)
    PROVE  Kept(p)
<1>1. pc[p] = "run" /\ t \in cmd[p].jobs
    BY DEF FinishJob, Job
<1>2. /\ Compiled(p) /\ PastLockInv(p) /\ OwnersRecorded /\ DiskOwned
      /\ disk' = disk /\ obj' = obj /\ lock' = lock
      /\ pc'[p] = IF cmd[p].kind = "apply" /\ cmd[p].pending THEN "commit" ELSE "run"
    BY <1>1 DEF IInv, PastLock, FinishJob, Goto, TypeOK
<1>3. /\ cmd'[p].kind = cmd[p].kind /\ cmd'[p].decl = cmd[p].decl
      /\ cmd'[p].ids = cmd[p].ids /\ cmd'[p].jobs = cmd[p].jobs \ {t}
      /\ cmd'[p].wrote = cmd[p].wrote /\ cmd'[p].loaded = cmd[p].loaded
      /\ cmd'[p].pending = cmd[p].pending /\ cmd'[p].mem = cmd[p].mem
    BY FinishJobType
<1>4. OwnersRecorded' /\ DiskOwned'
    BY <1>2 DEF OwnersRecorded, DiskOwned, Managed
<1>5. CopyOwned(p)' /\ CopyCurrent(p)'
    <2>1. CopyOwned(p)'
        BY <1>2, <1>3 DEF PastLockInv, CopyOwned, Managed
    <2>2. CopyCurrent(p)'
        BY <1>1, <1>2, <1>3 DEF PastLockInv, CopyCurrent, Managed
    <2>3. QED
        BY <2>1, <2>2
<1>6. Committed(p)'
    BY <1>2, <1>3 DEF PastLockInv, Committed, Managed
<1>7. Caused(p)'
    <2>1. \A u \in Target : DOMAIN cmd[p].ids = {u} => cmd[p].jobs \ {t} = {}
        BY <1>1, <1>2 DEF Compiled
    <2>2. \A u \in Target : DOMAIN cmd[p].ids = {u} /\ ~cmd[p].wrote =>
              disk = cmd[p].loaded
        BY <1>1, <1>2 DEF PastLockInv, Caused
    <2>3. QED
        BY <1>1, <1>2, <1>3, <2>1, <2>2 DEF PastLockInv, Caused, HasWork, Managed
<1>8. QED
    BY <1>2, <1>3, <1>4, <1>5, <1>6, <1>7
    DEF Kept, PastLockInv, Holder, Compiled, DeclaredSource

(* What is written is the copy with its owners. *)
LEMMA SaveKeeps ==
    ASSUME TypeOK, IInv, NEW p \in Proc, Save(p)
    PROVE  Kept(p)
<1>1. pc[p] \in {"save", "commit"} /\ pc'[p] = "run" /\ cmd[p].mem \in StateFile
    BY DEF Save, Goto, TypeOK, Session
<1>2. /\ Compiled(p) /\ PastLockInv(p) /\ OwnersRecorded
      /\ obj' = obj /\ lock' = lock
    BY <1>1 DEF IInv, PastLock, Save
<1>3. /\ disk'.version = 2 /\ disk'.res = cmd[p].mem.res
      /\ Managed(disk') = Managed(cmd[p].mem)
      /\ \A t \in Target : disk'.plugin[t] =
            IF t \in Managed(cmd[p].mem) THEN cmd[p].mem.plugin[t] ELSE NoOwner
    BY <1>1, WrittenType DEF Save
<1>4. /\ cmd'[p].kind = cmd[p].kind /\ cmd'[p].decl = cmd[p].decl
      /\ cmd'[p].ids = cmd[p].ids /\ cmd'[p].jobs = cmd[p].jobs
      /\ cmd'[p].wrote = (cmd[p].wrote \/ pc[p] = "save")
      /\ cmd'[p].loaded = cmd[p].loaded /\ cmd'[p].pending = FALSE
      /\ cmd'[p].mem.res = cmd[p].mem.res
      /\ cmd'[p].mem.plugin = cmd[p].mem.plugin
    BY SaveType
<1>5. Managed(cmd'[p].mem) = Managed(cmd[p].mem)
    BY <1>4 DEF Managed
<1>6. CopyOwned(p)
    BY <1>2 DEF PastLockInv
<1>7. OwnersRecorded'
    BY <1>3, <1>6, NoOwnerAssumption DEF OwnersRecorded, CopyOwned
<1>8. DiskOwned'
    BY <1>2, <1>3, <1>6 DEF DiskOwned, CopyOwned, Managed
<1>9. CopyOwned(p)'
    BY <1>2, <1>4, <1>5, <1>6 DEF CopyOwned
<1>10. CopyCurrent(p)'
    BY <1>2, <1>3, <1>4, <1>5 DEF PastLockInv, CopyCurrent, Managed
<1>11. Committed(p)'
    BY <1>3, <1>4 DEF Committed, Managed
<1>12. Caused(p)'
    <2>1. cmd[p].kind # "plan" /\ (cmd[p].kind = "destroy" => HasWork(p))
        BY <1>1, <1>2 DEF PastLockInv, Caused
    <2>2. \A t \in Target : DOMAIN cmd[p].ids = {t} /\ ~cmd'[p].wrote =>
              cmd[p].jobs = {}
        BY <1>1, <1>2, <1>4 DEF PastLockInv, Caused
    <2>3. cmd[p].kind = "destroy" =>
              \A t \in Target : cmd'[p].mem.res[t] \subseteq cmd[p].loaded.res[t]
        BY <1>2, <1>4 DEF PastLockInv, Caused
    <2>4. QED
        BY <1>1, <1>4, <2>1, <2>2, <2>3 DEF Caused, HasWork
<1>13. Compiled(p)'
    BY <1>1, <1>2, <1>4 DEF Compiled, DeclaredSource
<1>14. Holder(p)'
    BY <1>2 DEF PastLockInv, Holder
<1>15. QED
    BY <1>7, <1>8, <1>9, <1>10, <1>11, <1>12, <1>13, <1>14 DEF Kept, PastLockInv

(* A step that changes neither a session nor the file nor the platform, and *)
(* that leaves the lock to whoever holds it.                                *)
LEMMA QuietStep ==
    ASSUME IInv, disk' = disk, obj' = obj, pc' = pc, cmd' = cmd,
           \A p \in Proc : PastLock(p) => lock' = p
    PROVE  IInv'
<1>1. OwnersRecorded' /\ DiskOwned'
    BY DEF IInv, OwnersRecorded, DiskOwned, Managed
<1>2. ASSUME NEW p \in Proc, PastLock(p)'
      PROVE  PastLockInv(p)'
    <2>1. PastLock(p) /\ PastLockInv(p)
        BY <1>2 DEF IInv, PastLock
    <2>2. CopyOwned(p)' /\ CopyCurrent(p)' /\ Committed(p)'
        BY <2>1 DEF PastLockInv, CopyOwned, CopyCurrent, Committed, Managed
    <2>3. Caused(p)' /\ Holder(p)'
        BY <2>1 DEF PastLockInv, Caused, HasWork, Managed, Holder
    <2>4. QED
        BY <2>2, <2>3 DEF PastLockInv
<1>3. \A p \in Proc : pc'[p] # "idle" => Compiled(p)'
    BY DEF IInv, Compiled, DeclaredSource
<1>4. QED
    BY <1>1, <1>2, <1>3 DEF IInv

(* What people do disturbs no session and no file. *)
LEMMA UsersKeep ==
    ASSUME TypeOK, IInv, EditTarget \/ Upgrade \/ DeleteStaleLock
    PROVE  IInv'
<1>1. disk' = disk /\ obj' = obj /\ pc' = pc /\ cmd' = cmd
    BY DEF EditTarget, Upgrade, DeleteStaleLock
<1>2. \A p \in Proc : PastLock(p) => lock' = p
    BY DEF IInv, PastLockInv, Holder, EditTarget, Upgrade, DeleteStaleLock, PastLock
<1>3. QED
    BY <1>1, <1>2, QuietStep


(* A step of a command keeps the types and the invariant. *)
LEMMA CommandKeeps ==
    ASSUME TypeOK, IInv, NEW p \in Proc, Command(p)
    PROVE  TypeOK' /\ Kept(p)
<1>1. ASSUME NEW k \in Kind, Compile(p, k)
      PROVE  TypeOK' /\ Kept(p)
    BY <1>1, CompileType, CompileKeeps
<1>2. CASE Bind(p)
    BY <1>2, BindType, BindKeeps DEF IInv
<1>3. CASE \/ Contended(p) \/ BindRejected(p) \/ SaveFails(p)
           \/ Release(p) \/ Crash(p)
    BY <1>3, OtherSteps, OtherStepsKeep
<1>4. ASSUME NEW t \in Target, Operate(p, t)
      PROVE  TypeOK' /\ Kept(p)
    <2>1. pc[p] # "idle" /\ Compiled(p)
        BY <1>4 DEF Operate, Job, IInv
    <2>2. QED
        BY <1>4, <2>1, OperateKind, OperateKeeps
<1>5. ASSUME NEW t \in Target, OperateFails(p, t)
      PROVE  TypeOK' /\ Kept(p)
    <2>1. pc[p] # "idle" /\ Compiled(p)
        BY <1>5 DEF OperateFails, Job, IInv
    <2>2. QED
        BY <1>5, <2>1, OperateFailsType, OperateFailsKeeps
<1>6. ASSUME NEW t \in Target, FinishJob(p, t)
      PROVE  TypeOK' /\ Kept(p)
    BY <1>6, FinishJobType, FinishJobKeeps
<1>7. CASE Save(p)
    BY <1>7, SaveType, SaveKeeps
<1>8. QED
    BY <1>1, <1>2, <1>3, <1>4, <1>5, <1>6, <1>7 DEF Command

(* So does every step. *)
LEMMA NextKeeps == TypeOK /\ IInv /\ [Next]_vars => TypeOK' /\ IInv'
<1> SUFFICES ASSUME TypeOK, IInv, [Next]_vars PROVE TypeOK' /\ IInv'
    OBVIOUS
<1>1. ASSUME NEW p \in Proc, Command(p)
      PROVE  TypeOK' /\ IInv'
    <2>1. TypeOK' /\ Kept(p)
        BY <1>1, CommandKeeps
    <2>2. ASSUME NEW q \in Proc
          PROVE  /\ pc'[q] # "idle" => Compiled(q)'
                 /\ PastLock(q)' => PastLockInv(q)'
        <3>1. CASE q = p
            BY <2>1, <3>1 DEF Kept
        <3>2. CASE q # p
            BY <1>1, <3>2, OthersUndisturbed
        <3>3. QED
            BY <3>1, <3>2
    <2>3. QED
        BY <2>1, <2>2 DEF IInv, Kept
<1>2. CASE EditTarget \/ Upgrade \/ DeleteStaleLock
    BY <1>2, UsersType, UsersKeep
<1>3. CASE UNCHANGED vars
    <2>1. \A p \in Proc : PastLock(p) => lock' = p
        BY <1>3 DEF vars, IInv, PastLockInv, Holder
    <2>2. IInv'
        BY <1>3, <2>1, QuietStep DEF vars
    <2>3. QED
        BY <1>3, <2>2 DEF vars, TypeOK
<1>4. QED
    BY <1>1, <1>2, <1>3 DEF Next

-----------------------------------------------------------------------------
(* The theorems. *)

(* The variables keep their types, and the invariant holds. *)
THEOREM TypeCorrect == Spec => [](TypeOK /\ IInv)
<1>1. Init => TypeOK /\ IInv
    BY InitType, InitInv
<1>2. TypeOK /\ IInv /\ [Next]_vars => TypeOK' /\ IInv'
    BY NextKeeps
<1>3. QED
    BY <1>1, <1>2, PTL DEF Spec

(* What a command past the lock handles was made by the source it runs, or  *)
(* nothing tells by whom (bindStateOwnership).                              *)
THEOREM OwnersAreRight == Spec => []OwnersMatch
<1>1. TypeOK /\ IInv => OwnersMatch
    BY DEF IInv, PastLockInv, CopyOwned, OwnersMatch
<1>2. QED
    BY <1>1, TypeCorrect, PTL

(* A file of format 2 names an owner for what it tracks and for nothing     *)
(* else (File.Write, Load).                                                 *)
THEOREM OwnersAreRecorded == Spec => []OwnersRecorded
<1>1. TypeOK /\ IInv => OwnersRecorded
    BY DEF IInv
<1>2. QED
    BY <1>1, TypeCorrect, PTL

(* The resources of targets that were not selected stay as they were when   *)
(* the command loaded the file, although it writes the whole file.          *)
THEOREM OthersAreKept == Spec => []OthersKept
<1>1. TypeOK /\ IInv => OthersKept
    BY DEF IInv, PastLockInv, CopyCurrent, OthersKept
<1>2. QED
    BY <1>1, TypeCorrect, PTL

(* An apply that is through has committed the owners it resolved.           *)
THEOREM ApplyCommits == Spec => []ApplyCommitsOwnership
<1> SUFFICES ASSUME TypeOK, IInv PROVE ApplyCommitsOwnership
    BY TypeCorrect, PTL
<1> SUFFICES ASSUME NEW p \in Proc, PastLock(p), pc[p] = "run",
                    cmd[p].jobs = {}, cmd[p].kind = "apply"
             PROVE  /\ disk.version = 2
                    /\ \A t \in Managed(disk) :
                          IF t \in DOMAIN cmd[p].ids
                          THEN disk.plugin[t] = cmd[p].ids[t]
                          ELSE cmd[p].loaded.version = 2 =>
                                  disk.plugin[t] = cmd[p].loaded.plugin[t]
    BY DEF ApplyCommitsOwnership
<1>1. PastLockInv(p)
    BY DEF IInv
<1>2. disk.version = 2 /\ \A t \in Managed(disk) : disk.plugin[t] = cmd[p].mem.plugin[t]
    BY <1>1 DEF PastLockInv, Committed
<1>3. ASSUME NEW t \in Managed(disk), t \notin DOMAIN cmd[p].ids,
             cmd[p].loaded.version = 2
      PROVE  cmd[p].mem.plugin[t] = cmd[p].loaded.plugin[t]
    BY <1>1, <1>3 DEF PastLockInv, CopyCurrent, Managed
<1>4. QED
    BY <1>1, <1>2, <1>3 DEF PastLockInv, CopyOwned

(* The file is written for an operation that was carried out, or by an      *)
(* apply for the owners it commits (apply, Bind).                           *)
THEOREM WritesAreCaused == Spec => []WritesHaveCause
<1> SUFFICES ASSUME TypeOK, IInv PROVE WritesHaveCause
    BY TypeCorrect, PTL
<1>1. NoWriteWithoutCause
    <2>1. ASSUME NEW p \in Proc, PastLock(p)
          PROVE  \/ cmd[p].kind = "apply"
                 \/ cmd[p].kind = "destroy" /\ HasWork(p)
                 \/ disk = cmd[p].loaded
        <3>1. cmd[p].kind \in Kind
            BY DEF TypeOK, Session
        <3>2. QED
            BY <2>1, <3>1 DEF IInv, PastLockInv, Caused, Kind
    <2>2. QED
        BY <2>1 DEF NoWriteWithoutCause, HasWork
<1>2. FailedTargetKeepsState
    <2>1. ASSUME NEW p \in Proc, pc[p] = "failed", ~cmd[p].wrote,
                 Cardinality(DOMAIN cmd[p].ids) = 1
          PROVE  disk = cmd[p].loaded
        <3>1. PICK S \in SUBSET Target : cmd[p].ids \in [S -> Identity]
            <4>1. cmd[p] \in Session
                BY DEF TypeOK
            <4>2. QED
                BY <4>1 DEF Session
        <3>2. Compiled(p) /\ Caused(p)
            BY <2>1 DEF IInv, PastLock, PastLockInv
        <3>3. IsFiniteSet(DOMAIN cmd[p].ids)
            BY <3>1, FS_Subset, NamesAssumption
        <3>4. PICK t : DOMAIN cmd[p].ids = {t}
            BY <2>1, <3>3, FS_Singleton
        <3>5. t \in Target
            BY <3>1, <3>4
        <3>6. QED
            BY <2>1, <3>2, <3>4, <3>5 DEF Caused
    <2>2. QED
        BY <2>1 DEF FailedTargetKeepsState
<1>3. QED
    BY <1>1, <1>2 DEF WritesHaveCause

(* While a target has resources its owner's source stays, and no file goes  *)
(* back to format 1.                                                        *)
THEOREM OwnersAreFrozen == Spec => OwnerIsFrozen
<1> DEFINE Frozen ==
        /\ disk.version = 2 => disk'.version = 2
        /\ \A t \in Managed(disk) \cap Managed(disk') :
              disk.plugin[t] # NoOwner => disk'.plugin[t].source = disk.plugin[t].source
<1>1. TypeOK /\ IInv /\ [Next]_vars => [Frozen]_disk
    <2> SUFFICES ASSUME TypeOK, IInv, [Next]_vars, disk' # disk PROVE Frozen
        OBVIOUS
    <2>1. PICK p \in Proc : Save(p)
        BY DEF Next, vars, EditTarget, Upgrade, DeleteStaleLock, Command, Compile,
               Contended, Bind, BindRejected, Operate, OperateFails, FinishJob,
               SaveFails, Release, Crash
    <2>2. cmd[p].mem \in StateFile /\ disk' = Written(cmd[p].mem)
        BY <2>1 DEF Save, TypeOK, Session
    <2>3. CopyCurrent(p)
        BY <2>1 DEF Save, IInv, PastLock, PastLockInv
    <2>4. QED
        BY <2>2, <2>3, WrittenType DEF CopyCurrent, Managed
<1>2. QED
    BY <1>1, TypeCorrect, PTL DEF Spec, OwnerIsFrozen
=============================================================================
