------------------------- MODULE BuildWriteProofs -------------------------
(***************************************************************************)
(* Proofs about kastor build, for any set of paths, contents and specs and *)
(* any bounds: the types of its state, that no build, through failed and   *)
(* torn builds and damaged markers, overwrites or deletes work on a stub   *)
(* that was on record when the build began, and what an undisturbed build  *)
(* leaves and reports.                                                     *)
(***************************************************************************)
EXTENDS BuildWrite, TLAPS

(* What is being worked on holds what the user wrote. *)
WorkIsUsers == \A p \in work : files[p] \in User

Inv == TypeOK /\ WorkIsUsers

(* A build has yet to come to a path: to sync what the module generates     *)
(* there, or to look at what it generates no longer.                        *)
Ahead(p) ==
    \/ pc = "sync" /\ (p \in todo \/ job[p].kind = "none")
    \/ pc = "stale" /\ p \in todo

Phases ==
    /\ pc = "sync" => todo \subseteq PathsOf({"plain", "stub"}, job)
    /\ pc = "stale" => todo \subseteq PathsOf({"none"}, job)
    /\ pc # "idle" => \A p \in Path :
           Ahead(p) \/ job[p].kind = "plain" => next[p] = NoRecord

(* A stub that a build put in its place is on record as the user saw it:    *)
(* in the marker, where the build has come from or where it leads.          *)
OnRecord(records, p) == records[p] # NoRecord /\ records[p].stub = told[p]

PlacedRecorded ==
    faults = 0 => \A p \in placed :
        IF pc = "idle" THEN marker \in Manifest /\ OnRecord(marker, p)
        ELSE IF Ahead(p) THEN OnRecord(prev, p)
        ELSE OnRecord(next, p) /\ (job[p].kind = "stub" => told[p] = job[p].data)

(* What is in the output directory is what the module generates, and the    *)
(* records say so.                                                          *)
InSync(records, p) ==
    CASE spec[p].kind = "plain" -> files[p] = spec[p].data /\ records[p] = NoRecord
      [] spec[p].kind = "stub" ->
            /\ files[p] # Missing
            /\ records[p] = [stub |-> spec[p].data,
                             state |-> IF files[p] = spec[p].data THEN "owned"
                                       ELSE "implemented"]
      [] OTHER -> IF files[p] = Missing THEN records[p] = NoRecord
                  ELSE records[p] # NoRecord /\ records[p].state = "orphaned"

Building ==
    settled = "building" =>
        pc # "idle" /\ spec = job /\ \A p \in Path : ~Ahead(p) => InSync(next, p)

Settled ==
    settled = "yes" =>
        /\ marker \in Manifest /\ \A p \in Path : InSync(marker, p)
        /\ pc # "idle" =>
              /\ spec = job /\ prev = marker /\ report = {}
              /\ \A p \in Path : ~Ahead(p) => next[p] = marker[p]

(* Where nobody has saved since a build began, what it judges is there.     *)
AsRead == settled # "no" => \A p \in Path : InTime(p)

IInv == Inv /\ Phases /\ PlacedRecorded /\ Building /\ Settled /\ AsRead

(* What the module generates has a kind and a generated content.            *)
LEMMA SpecData ==
    ASSUME NEW s \in Specs, NEW p \in Path
    PROVE  s[p].kind \in FileKind /\ s[p].data \in Generated
  <1>1. s \in Output
    BY SpecsAssumption
  <1>. QED
    BY <1>1 DEF Output

(* A record a marker lists is of a generated stub.                          *)
LEMMA RecordData ==
    ASSUME NEW m \in Manifest, NEW p \in Path, m[p] # NoRecord
    PROVE  m[p] \in Record /\ m[p].stub \in Generated
  <1>1. m[p] \in Record
    BY DEF Manifest
  <1>. QED
    BY <1>1 DEF Record

(* The user's work is not the stub on record, so a build that has read it   *)
(* does not take the file for its own.                                      *)
LEMMA WorkIsSeen ==
    ASSUME Inv, NEW p \in work, prev[p] # NoRecord, Judging(p), InTime(p)
    PROVE  ~(job[p].kind = "stub" /\ StillOwned(p)) /\ UsersOrphan(p)
  <1>1. p \in Path /\ files[p] \in User
    BY DEF Inv, TypeOK, WorkIsUsers
  <1>2. prev[p] \in Record /\ prev[p].stub \in Generated
    BY <1>1, RecordData DEF Inv, TypeOK
  <1>3. job[p].data \in Generated
    BY <1>1, SpecData DEF Inv, TypeOK
  <1>4. found # Missing /\ found \notin Generated
    BY <1>1, ContentAssumption DEF Content, InTime
  <1>5. prev[p] # [stub |-> found, state |-> "owned"]
    BY <1>2, <1>4
  <1>. QED
    BY <1>3, <1>4, <1>5 DEF StillOwned, UsersOrphan, Fresh

(* Everything is empty at the start.                                        *)
LEMMA InitInv == Init => Inv
  <1>. SUFFICES ASSUME Init PROVE Inv
    OBVIOUS
  <1>1. Empty \in Manifest
    BY DEF Empty, Manifest
  <1>2. NoFiles \in [Path -> Content \cup {Missing}]
    BY DEF NoFiles
  <1>3. TypeOK
    BY <1>1, <1>2, BoundsAssumption DEF Init, TypeOK
  <1>4. WorkIsUsers
    BY DEF Init, WorkIsUsers
  <1>. QED
    BY <1>3, <1>4 DEF Inv

(* A build writes, removes and records known contents, and what it writes   *)
(* it no longer counts as work.                                             *)
LEMMA PutInv ==
    ASSUME Inv, NEW p \in Path, NEW c \in Content \cup {Missing}, Put(p, c)
    PROVE  /\ files' \in [Path -> Content \cup {Missing}]
           /\ \A q \in work \ {p} : files'[q] \in User
  <1>1. files \in [Path -> Content \cup {Missing}] /\ work \subseteq Path
    BY DEF Inv, TypeOK
  <1>. QED
    BY <1>1 DEF Put, Inv, WorkIsUsers

(* The records a build makes are those of a marker.                         *)
LEMMA SetRecordInv ==
    ASSUME Inv, NEW p \in Path, NEW c \in Generated, NEW s \in State,
           SetRecord(p, c, s)
    PROVE  next' \in Manifest
  <1>1. [stub |-> c, state |-> s] \in Record
    BY DEF Record
  <1>2. next \in [Path -> Record \cup {NoRecord}]
    BY DEF Inv, TypeOK, Manifest
  <1>. QED
    BY <1>1, <1>2 DEF SetRecord, Manifest

(* A fault or an edit that is allowed keeps the counters in their bounds.   *)
LEMMA CountersInv ==
    ASSUME Inv
    PROVE  (\E f \in Faults : Fault(f)) \/ Edit
              => edits' \in 0 .. MaxEdits /\ faults' \in Nat
  BY BoundsAssumption DEF Inv, TypeOK, Fault, Edit

-----------------------------------------------------------------------------
(* Every step of a build keeps the invariant.                               *)
LEMMA ClaimInv == Inv /\ Claim => Inv'
  <1>. SUFFICES ASSUME Inv, Claim PROVE Inv'
    OBVIOUS
  <1>1. Empty \in Manifest
    BY DEF Empty, Manifest
  <1>2. marker' \in Manifest
    BY <1>1 DEF Inv, TypeOK, Claim
  <1>3. todo' \subseteq Path
    BY DEF Claim, PathsOf
  <1>4. TypeOK'
    BY <1>1, <1>2, <1>3 DEF Inv, TypeOK, Claim, counters
  <1>. QED
    BY <1>4 DEF Inv, WorkIsUsers, Claim

LEMMA SyncPlainInv ==
    ASSUME Inv, NEW p \in Path, SyncPlain(p)
    PROVE  Inv'
  <1>1. Fresh(p) \in Content
    BY SpecData DEF Inv, TypeOK, Fresh, Content
  <1>2. /\ files' \in [Path -> Content \cup {Missing}]
        /\ \A q \in work \ {p} : files'[q] \in User
    BY <1>1, PutInv DEF SyncPlain
  <1>3. TypeOK'
    BY <1>2 DEF Inv, TypeOK, SyncPlain, Done, counters
  <1>. QED
    BY <1>2, <1>3 DEF Inv, WorkIsUsers, SyncPlain

LEMMA SyncOwnedInv ==
    ASSUME Inv, NEW p \in Path, SyncOwned(p)
    PROVE  Inv'
  <1>1. Fresh(p) \in Generated /\ Fresh(p) \in Content
    BY SpecData DEF Inv, TypeOK, Fresh, Content
  <1>2. /\ files' \in [Path -> Content \cup {Missing}]
        /\ \A q \in work' : files'[q] \in User
        /\ work' \subseteq work
    <2>1. CASE found = Fresh(p)
      BY <2>1 DEF SyncOwned, Inv, TypeOK, WorkIsUsers
    <2>2. CASE found # Fresh(p)
      BY <1>1, <2>2, PutInv DEF SyncOwned
    <2>. QED
      BY <2>1, <2>2
  <1>3. next' \in Manifest
    BY <1>1, SetRecordInv DEF SyncOwned, State
  <1>4. /\ sidecar' \in [Path -> Content \cup {Missing}]
        /\ told' \in [Path -> Content \cup {Missing}]
    BY <1>1 DEF Inv, TypeOK, SyncOwned
  <1>5. TypeOK'
    BY <1>2, <1>3, <1>4 DEF Inv, TypeOK, SyncOwned, Done, counters
  <1>. QED
    BY <1>2, <1>5 DEF Inv, WorkIsUsers, SyncOwned

LEMMA SyncImplementedInv ==
    ASSUME Inv, NEW p \in Path, SyncImplemented(p)
    PROVE  Inv'
  <1>1. Fresh(p) \in Generated /\ Fresh(p) \in Content
    BY SpecData DEF Inv, TypeOK, Fresh, Content
  <1>2. next' \in Manifest
    BY <1>1, SetRecordInv DEF SyncImplemented, State
  <1>3. /\ sidecar' \in [Path -> Content \cup {Missing}]
        /\ told' \in [Path -> Content \cup {Missing}]
        /\ report' \subseteq [path : Path, what : {"superseded", "orphaned"}]
    BY <1>1 DEF Inv, TypeOK, SyncImplemented
  <1>4. TypeOK'
    BY <1>2, <1>3 DEF Inv, TypeOK, SyncImplemented, Done, counters
  <1>. QED
    BY <1>4 DEF Inv, WorkIsUsers, SyncImplemented

LEMMA KeepOrphanInv ==
    ASSUME Inv, NEW p \in Path, KeepOrphan(p)
    PROVE  Inv'
  <1>1. prev[p].stub \in Generated
    BY RecordData DEF Inv, TypeOK, KeepOrphan, UsersOrphan
  <1>2. next' \in Manifest
    BY <1>1, SetRecordInv DEF KeepOrphan, State
  <1>3. report' \subseteq [path : Path, what : {"superseded", "orphaned"}]
    BY DEF Inv, TypeOK, KeepOrphan
  <1>4. TypeOK'
    BY <1>2, <1>3 DEF Inv, TypeOK, KeepOrphan, Done, counters, history
  <1>. QED
    BY <1>4 DEF Inv, WorkIsUsers, KeepOrphan, history

LEMMA RemoveStaleInv ==
    ASSUME Inv, NEW p \in Path, RemoveStale(p)
    PROVE  Inv'
  <1>1. /\ files' \in [Path -> Content \cup {Missing}]
        /\ \A q \in work \ {p} : files'[q] \in User
    <2>1. CASE found = Missing
      BY <2>1 DEF RemoveStale, Inv, TypeOK, WorkIsUsers
    <2>2. CASE found # Missing
      BY <2>2, PutInv DEF RemoveStale
    <2>. QED
      BY <2>1, <2>2
  <1>2. sidecar' \in [Path -> Content \cup {Missing}]
    BY DEF Inv, TypeOK, RemoveStale
  <1>3. TypeOK'
    BY <1>1, <1>2 DEF Inv, TypeOK, RemoveStale, Done, counters
  <1>. QED
    BY <1>1, <1>3 DEF Inv, WorkIsUsers, RemoveStale

LEMMA ReadInv ==
    ASSUME Inv, NEW p \in Path, Read(p)
    PROVE  Inv'
  <1>1. found' \in Content \cup {Missing, Unread}
    BY DEF Inv, TypeOK, Read
  <1>. QED
    BY <1>1 DEF Inv, TypeOK, WorkIsUsers, Read, counters, history

LEMMA WriteInv == Inv /\ Write => Inv'
  <1>1. ASSUME Inv, SyncDone PROVE Inv'
    BY <1>1 DEF Inv, TypeOK, WorkIsUsers, SyncDone, PathsOf, counters, history
  <1>2. ASSUME Inv, Finish PROVE Inv'
    BY <1>2 DEF Inv, TypeOK, WorkIsUsers, Finish, build, counters
  <1>. QED
    BY <1>1, <1>2, ClaimInv, ReadInv, SyncPlainInv, SyncOwnedInv, SyncImplementedInv,
       KeepOrphanInv, RemoveStaleInv DEF Write

-----------------------------------------------------------------------------
(* So do faults and the user.                                               *)
LEMMA FailInv == Inv /\ Fail => Inv'
  <1>. SUFFICES ASSUME Inv, Fail PROVE Inv'
    OBVIOUS
  <1>1. edits' \in 0 .. MaxEdits /\ faults' \in Nat
    BY CountersInv DEF Fail, Faults
  <1>. QED
    BY <1>1 DEF Inv, TypeOK, WorkIsUsers, Fail, build

LEMMA TearInv ==
    ASSUME Inv, NEW p \in Path, Tear(p)
    PROVE  Inv'
  <1>1. edits' \in 0 .. MaxEdits /\ faults' \in Nat
    BY CountersInv DEF Tear, Faults
  <1>2. Put(p, Torn) \/ UNCHANGED files
    BY DEF Tear, TearPlain, TearOwned, TearSidecar, TearStale
  <1>3. sidecar' \in [Path -> Content \cup {Missing}]
    BY DEF Inv, TypeOK, Content,
           Tear, TearPlain, TearOwned, TearSidecar, TearStale
  <1>4. /\ files' \in [Path -> Content \cup {Missing}]
        /\ work' \subseteq work
        /\ \A q \in work' : files'[q] \in User
    <2>1. CASE Put(p, Torn)
      <3>1. /\ files' \in [Path -> Content \cup {Missing}]
            /\ \A q \in work \ {p} : files'[q] \in User
        BY <2>1, PutInv DEF Content
      <3>2. (files' = files /\ work' = work) \/ work' = work \ {p}
        BY DEF Tear
      <3>. QED
        BY <3>1, <3>2 DEF Inv, WorkIsUsers
    <2>2. CASE UNCHANGED files
      BY <2>2 DEF Tear, Inv, TypeOK, WorkIsUsers
    <2>. QED
      BY <1>2, <2>1, <2>2
  <1>. QED
    BY <1>1, <1>3, <1>4 DEF Inv, TypeOK, WorkIsUsers, Tear, build

LEMMA RemoveVanishedInv ==
    ASSUME Inv, NEW p \in Path, RemoveVanished(p)
    PROVE  Inv'
  <1>1. sidecar' \in [Path -> Content \cup {Missing}]
    BY DEF Inv, TypeOK, RemoveVanished
  <1>2. faults' \in Nat
    BY DEF Inv, TypeOK, RemoveVanished
  <1>. QED
    BY <1>1, <1>2 DEF Inv, TypeOK, WorkIsUsers, RemoveVanished, build

LEMMA ChangeModuleInv == Inv /\ ChangeModule => Inv'
  <1>. SUFFICES ASSUME Inv, ChangeModule PROVE Inv'
    OBVIOUS
  <1>1. edits' \in 0 .. MaxEdits /\ faults' \in Nat
    BY CountersInv DEF ChangeModule
  <1>. QED
    BY <1>1 DEF Inv, TypeOK, WorkIsUsers, ChangeModule, build

LEMMA EditFileInv ==
    ASSUME Inv, NEW p \in Path, EditFile(p)
    PROVE  Inv'
  <1>1. edits' \in 0 .. MaxEdits /\ faults' \in Nat
    BY CountersInv DEF EditFile
  <1>2. PICK c \in User \cup {Missing} :
          /\ Put(p, c)
          /\ work' = IF c \in User /\ p \in placed THEN work \cup {p}
                     ELSE work \ {p}
          /\ placed' = IF c = Missing THEN placed \ {p} ELSE placed
    BY DEF EditFile
  <1>3. /\ files' \in [Path -> Content \cup {Missing}]
        /\ \A q \in work \ {p} : files'[q] \in User
    BY <1>2, PutInv DEF Content
  <1>4. files'[p] = c
    BY <1>2 DEF Put, Inv, TypeOK
  <1>5. work' \subseteq placed' /\ placed' \subseteq Path
    BY <1>2, ContentAssumption DEF Inv, TypeOK, Content
  <1>6. TypeOK'
    BY <1>1, <1>3, <1>5 DEF Inv, TypeOK, EditFile, build
  <1>. QED
    BY <1>2, <1>3, <1>4, <1>6 DEF Inv, WorkIsUsers

LEMMA ReconcileInv ==
    ASSUME Inv, NEW p \in Path, Reconcile(p)
    PROVE  Inv'
  <1>1. edits' \in 0 .. MaxEdits /\ faults' \in Nat
    BY CountersInv DEF Reconcile
  <1>2. /\ files' \in [Path -> Content \cup {Missing}]
        /\ sidecar' \in [Path -> Content \cup {Missing}]
        /\ work' \subseteq work
        /\ \A q \in work' : files'[q] \in User
    <2>1. sidecar[p] \in Content \cup {Missing}
      BY DEF Inv, TypeOK
    <2>2. CASE Put(p, sidecar[p]) /\ UNCHANGED sidecar /\ work' = work \ {p}
      BY <2>1, <2>2, PutInv DEF Inv, TypeOK
    <2>3. CASE /\ sidecar' = [sidecar EXCEPT ![p] = Missing]
               /\ UNCHANGED <<files, work>>
      BY <2>3 DEF Inv, TypeOK, WorkIsUsers
    <2>. QED
      BY <2>2, <2>3 DEF Reconcile
  <1>. QED
    BY <1>1, <1>2 DEF Inv, TypeOK, WorkIsUsers, Reconcile, build

LEMMA DamageMarkerInv == Inv /\ DamageMarker => Inv'
  <1>. SUFFICES ASSUME Inv, DamageMarker PROVE Inv'
    OBVIOUS
  <1>1. edits' \in 0 .. MaxEdits /\ faults' \in Nat
    BY CountersInv DEF DamageMarker, Faults
  <1>2. marker' \in Manifest \cup {NoMarker, Newer}
    BY DEF DamageMarker, Manifest
  <1>. QED
    BY <1>1, <1>2 DEF Inv, TypeOK, WorkIsUsers, DamageMarker, build

LEMMA NextInv == Inv /\ [Next]_vars => Inv'
  <1>1. ASSUME Inv, UNCHANGED vars PROVE Inv'
    BY <1>1 DEF Inv, TypeOK, WorkIsUsers, vars, build, counters, history
  <1>. QED
    BY <1>1, WriteInv, FailInv, TearInv, RemoveVanishedInv, ChangeModuleInv, EditFileInv,
       ReconcileInv, DamageMarkerInv DEF Next

LEMMA Invariance == Spec => []Inv
  BY InitInv, NextInv, PTL DEF Spec

-----------------------------------------------------------------------------
(* Files hold known contents, the marker records generated stubs only, and  *)
(* a build goes through its phases over paths of the module (write.go).     *)
THEOREM TypeCorrect == Spec => []TypeOK
  <1>1. Inv => TypeOK
    BY DEF Inv
  <1>. QED
    BY <1>1, Invariance, PTL

(* A step of a build leaves work on a recorded stub as it is, if it was     *)
(* saved before the build read the file.                                    *)
LEMMA WriteKeepsRecorded ==
    ASSUME Inv, Write \/ (\E q \in Path : Tear(q)), NEW p \in work,
           prev[p] # NoRecord, job[p].kind # "plain", InTime(p)
    PROVE  files'[p] = files[p]
  <1>1. Judging(p) => ~(job[p].kind = "stub" /\ StillOwned(p)) /\ UsersOrphan(p)
    BY WorkIsSeen
  <1>2. files \in [Path -> Content \cup {Missing}] /\ p \in Path
    BY DEF Inv, TypeOK
  <1>3. ASSUME NEW q \in Path, NEW c, Put(q, c) \/ UNCHANGED files, q # p
        PROVE  files'[p] = files[p]
    BY <1>2, <1>3 DEF Put
  <1>4. CASE Claim \/ SyncDone \/ Finish
    BY <1>4 DEF Claim, SyncDone, Finish
  <1>5. ASSUME NEW q \in Path, SyncPlain(q) PROVE files'[p] = files[p]
    <2>1. Put(q, Fresh(q)) /\ q # p
      BY <1>5 DEF SyncPlain, Syncing
    <2>. QED
      BY <2>1, <1>3
  <1>6. ASSUME NEW q \in Path, SyncOwned(q) PROVE files'[p] = files[p]
    <2>1. (Put(q, Fresh(q)) \/ UNCHANGED files) /\ q # p
      BY <1>1, <1>6 DEF SyncOwned, Syncing
    <2>. QED
      BY <2>1, <1>3
  <1>7. ASSUME NEW q \in Path, RemoveStale(q) PROVE files'[p] = files[p]
    <2>1. (Put(q, Missing) \/ UNCHANGED files) /\ q # p
      BY <1>1, <1>7 DEF RemoveStale, Looking
    <2>. QED
      BY <2>1, <1>3
  <1>8. ASSUME NEW q \in Path, Read(q) \/ SyncImplemented(q) \/ KeepOrphan(q)
        PROVE  files'[p] = files[p]
    BY <1>8 DEF Read, SyncImplemented, KeepOrphan
  <1>9. ASSUME NEW q \in Path, Tear(q) PROVE files'[p] = files[p]
    <2>1. CASE TearPlain(q)
      <3>1. Put(q, Torn) /\ q # p
        BY <2>1 DEF TearPlain, Syncing
      <3>. QED
        BY <3>1, <1>3
    <2>2. CASE TearOwned(q)
      <3>1. (Put(q, Torn) \/ UNCHANGED files) /\ q # p
        BY <1>1, <2>2 DEF TearOwned, Syncing
      <3>. QED
        BY <3>1, <1>3
    <2>3. CASE TearSidecar(q) \/ TearStale(q)
      BY <2>3 DEF TearSidecar, TearStale
    <2>. QED
      BY <1>9, <2>1, <2>2, <2>3 DEF Tear
  <1>. QED
    BY <1>4, <1>5, <1>6, <1>7, <1>8, <1>9 DEF Write

(* Whatever fails, tears or damages the marker: a stub on record when the   *)
(* build began, implemented and saved before the build read it, is neither  *)
(* rewritten as a stub, nor torn, nor removed (syncStub and removeStale).   *)
THEOREM RecordedWorkIsKept == Spec => RecordedWorkKept
  <1>1. Inv /\ [Next]_vars =>
          [Write \/ (\E q \in Path : Tear(q)) => \A p \in work :
             prev[p] # NoRecord /\ job[p].kind # "plain" /\ InTime(p)
                => files'[p] = files[p]]_vars
    BY WriteKeepsRecorded
  <1>. QED
    BY <1>1, Invariance, PTL DEF Spec, RecordedWorkKept

-----------------------------------------------------------------------------
(* What a build makes of the records and the output.                        *)

LEMMA InitHolds == Init => Phases /\ PlacedRecorded /\ Building /\ Settled /\ AsRead
  BY DEF Init, Phases, PlacedRecorded, Building, Settled, AsRead

(* What goes on outside of a build unsettles the output, and takes no stub  *)
(* from the record.                                                         *)
LEMMA OutsideHolds ==
    ASSUME IInv, settled' = "no",
           pc' = "idle" \/ UNCHANGED <<pc, todo, job, next>>,
           \/ faults' # 0
           \/ /\ UNCHANGED <<pc, todo, job, prev, next, marker, told, faults>>
              /\ placed' \subseteq placed
    PROVE  Phases' /\ PlacedRecorded' /\ Building' /\ Settled'
  <1>1. Phases'
    BY DEF IInv, Phases, PathsOf, Ahead
  <1>2. PlacedRecorded'
    BY DEF IInv, PlacedRecorded, OnRecord, Ahead
  <1>. QED
    BY <1>1, <1>2 DEF Building, Settled

LEMMA FaultCounts ==
    ASSUME Inv, \E f \in Faults : Fault(f)
    PROVE  faults' # 0
  BY DEF Inv, TypeOK, Fault

LEMMA OthersHold ==
    ASSUME IInv,
           Fail \/ ChangeModule \/ DamageMarker
             \/ \E p \in Path : \/ RemoveVanished(p) \/ Tear(p)
                               \/ EditFile(p) \/ Reconcile(p)
    PROVE  Phases' /\ PlacedRecorded' /\ Building' /\ Settled'
  <1>1. CASE Fail
    BY <1>1, FaultCounts, OutsideHolds DEF IInv, Fail, Faults
  <1>2. CASE ChangeModule
    BY <1>2, OutsideHolds DEF ChangeModule, Edit, build
  <1>3. CASE DamageMarker
    BY <1>3, FaultCounts, OutsideHolds DEF IInv, DamageMarker, Faults, build
  <1>4. CASE \E p \in Path : Tear(p)
    BY <1>4, FaultCounts, OutsideHolds DEF IInv, Tear, Faults
  <1>5. CASE \E p \in Path : EditFile(p)
    BY <1>5, OutsideHolds DEF EditFile, Edit, build
  <1>6. CASE \E p \in Path : Reconcile(p)
    BY <1>6, OutsideHolds DEF Reconcile, Edit, build
  <1>7. CASE \E p \in Path : RemoveVanished(p)
    <2>1. faults' # 0
      BY <1>7 DEF IInv, Inv, TypeOK, RemoveVanished
    <2>. QED
      BY <1>7, <2>1, OutsideHolds DEF RemoveVanished
  <1>. QED
    BY <1>1, <1>2, <1>3, <1>4, <1>5, <1>6, <1>7

LEMMA ReadHolds ==
    ASSUME IInv, NEW p \in Path, Read(p)
    PROVE  Phases' /\ PlacedRecorded' /\ Building' /\ Settled'
  <1>1. UNCHANGED <<spec, files, marker, pc, job, todo, prev, next, report, faults,
                    placed, told, settled>>
    BY DEF Read, counters, history
  <1>2. Phases' /\ PlacedRecorded'
    BY <1>1 DEF IInv, Phases, PlacedRecorded, Ahead, OnRecord
  <1>3. Building' /\ Settled'
    BY <1>1 DEF IInv, Building, Settled, Ahead, InSync
  <1>. QED
    BY <1>2, <1>3

LEMMA ClaimHolds ==
    ASSUME IInv, Claim
    PROVE  Phases' /\ PlacedRecorded' /\ Building' /\ Settled'
  <1>1. pc = "idle" /\ pc' = "sync" /\ job' = spec /\ spec' = spec /\ files' = files
    BY DEF Claim
  <1>2. \A p \in Path : Ahead(p)'
    <2>1. \A p \in Path : spec[p].kind \in FileKind
      BY SpecData DEF IInv, Inv, TypeOK
    <2>. QED
      BY <1>1, <2>1 DEF Ahead, Claim, PathsOf, FileKind
  <1>3. Phases'
    BY <1>1 DEF Claim, Phases, PathsOf, Empty
  <1>4. PlacedRecorded'
    <2>. SUFFICES ASSUME faults = 0, NEW p \in placed
                  PROVE  Ahead(p)' /\ OnRecord(prev, p)'
      BY <1>1 DEF PlacedRecorded, Claim, counters
    <2>1. marker \in Manifest /\ OnRecord(marker, p) /\ p \in Path
      BY <1>1 DEF IInv, PlacedRecorded, Inv, TypeOK
    <2>2. marker' = marker /\ prev' = marker /\ told' = told
      BY <2>1, MarkerAssumption DEF Claim
    <2>. QED
      BY <1>2, <2>1, <2>2 DEF OnRecord
  <1>5. Building'
    BY <1>1, <1>2 DEF Building
  <1>6. Settled'
    <2>. SUFFICES ASSUME settled = "yes"
                  PROVE  Settled'
      BY DEF Settled, Claim
    <2>1. marker \in Manifest /\ \A p \in Path : InSync(marker, p)
      BY DEF IInv, Settled
    <2>2. marker' = marker /\ prev' = marker /\ report' = {}
      BY <2>1, MarkerAssumption DEF Claim
    <2>3. \A p \in Path : InSync(marker, p)'
      BY <1>1, <2>1, <2>2 DEF InSync
    <2>. QED
      BY <1>1, <1>2, <2>1, <2>2, <2>3 DEF Settled
  <1>. QED
    BY <1>3, <1>4, <1>5, <1>6

LEMMA SyncDoneHolds ==
    ASSUME IInv, SyncDone
    PROVE  Phases' /\ PlacedRecorded' /\ Building' /\ Settled'
  <1>1. /\ pc = "sync" /\ pc' = "stale" /\ todo = {} /\ todo' = PathsOf({"none"}, job)
        /\ UNCHANGED <<spec, files, marker, job, prev, next, report, faults, placed,
                       told, settled>>
    BY DEF SyncDone, counters, history
  <1>2. \A p \in Path : Ahead(p)' <=> Ahead(p)
    BY <1>1 DEF Ahead, PathsOf
  <1>3. placed \subseteq Path
    BY DEF IInv, Inv, TypeOK
  <1>4. Phases'
    BY <1>1, <1>2 DEF IInv, Phases, PathsOf
  <1>5. PlacedRecorded'
    BY <1>1, <1>2, <1>3 DEF IInv, PlacedRecorded, OnRecord
  <1>6. Building' /\ Settled'
    BY <1>1, <1>2 DEF IInv, Building, Settled, InSync
  <1>. QED
    BY <1>4, <1>5, <1>6

(* What the turn of one path leaves to be seen to.                          *)
LEMMA TurnHolds ==
    ASSUME IInv, Inv', NEW p \in Path, Turn(p), Done(p),
           \/ pc = "stale"
           \/ pc = "sync" /\ job[p].kind \in {"plain", "stub"},
           UNCHANGED <<marker, settled>>,
           placed' \subseteq placed \cup {p},
           \A q \in Path \ {p} :
               files'[q] = files[q] /\ next'[q] = next[q] /\ told'[q] = told[q],
           job[p].kind = "plain" => next'[p] = NoRecord,
           faults = 0 /\ p \in placed' =>
               OnRecord(next, p)' /\ (job[p].kind = "stub" => told'[p] = job[p].data),
           settled = "building" => InSync(next, p)',
           settled = "yes" =>
               files'[p] = files[p] /\ next'[p] = marker[p] /\ report' = {}
    PROVE  Phases' /\ PlacedRecorded' /\ Building' /\ Settled'
  <1>1. UNCHANGED <<spec, pc, job, prev, faults>> /\ todo' = todo \ {p} /\ p \in todo
    BY DEF Done, Turn, counters
  <1>2. Ahead(p) /\ \A q \in Path : Ahead(q)' <=> (Ahead(q) /\ q # p)
    BY <1>1 DEF Ahead
  <1>3. Phases'
    BY <1>1, <1>2 DEF IInv, Phases, PathsOf
  <1>4. PlacedRecorded'
    <2>. SUFFICES ASSUME faults = 0, NEW q \in placed', q # p
                  PROVE  IF Ahead(q)' THEN OnRecord(prev, q)'
                         ELSE /\ OnRecord(next, q)'
                              /\ job'[q].kind = "stub" => told'[q] = job'[q].data
      BY <1>1, <1>2 DEF PlacedRecorded
    <2>1. q \in Path /\ q \in placed
      BY DEF IInv, Inv, TypeOK
    <2>. QED
      BY <1>1, <1>2, <2>1 DEF IInv, PlacedRecorded, OnRecord
  <1>5. Building'
    BY <1>1, <1>2 DEF IInv, Building, InSync
  <1>6. Settled'
    BY <1>1, <1>2 DEF IInv, Settled, InSync
  <1>. QED
    BY <1>3, <1>4, <1>5, <1>6

LEMMA PutIs ==
    ASSUME Inv, NEW p \in Path, NEW c, Put(p, c)
    PROVE  files'[p] = c /\ \A q \in Path \ {p} : files'[q] = files[q]
  BY DEF Inv, TypeOK, Put

LEMMA SetRecordIs ==
    ASSUME Inv, NEW p \in Path, NEW c, NEW s, SetRecord(p, c, s)
    PROVE  /\ next'[p] = [stub |-> c, state |-> s] /\ next'[p].stub = c
           /\ c \in Generated /\ s \in State => next'[p] # NoRecord
           /\ \A q \in Path \ {p} : next'[q] = next[q]
  <1>1. next'[p] = [stub |-> c, state |-> s] /\ \A q \in Path \ {p} : next'[q] = next[q]
    BY DEF Inv, TypeOK, Manifest, SetRecord
  <1>2. c \in Generated /\ s \in State => [stub |-> c, state |-> s] \in Record
    BY DEF Record
  <1>. QED
    BY <1>1, <1>2, MarkerAssumption

(* What is built is not written anew.                                       *)
LEMMA SettledFile ==
    ASSUME IInv, settled = "yes", NEW p \in Path,
           SyncPlain(p) \/ SyncOwned(p) \/ RemoveStale(p)
    PROVE  files'[p] = files[p]
  <1>1. pc # "idle"
    BY DEF SyncPlain, SyncOwned, RemoveStale, Syncing, Looking
  <1>2. spec = job /\ prev = marker /\ InSync(marker, p)
    BY <1>1 DEF IInv, Settled
  <1>3. CASE SyncPlain(p)
    <2>1. job[p].kind = "plain" /\ files'[p] = job[p].data
      BY <1>3, PutIs DEF IInv, SyncPlain, Syncing, Fresh
    <2>. QED
      BY <1>2, <2>1 DEF InSync
  <1>4. CASE SyncOwned(p)
    <2>1. job[p].kind = "stub" /\ StillOwned(p) /\ found = files[p]
      BY <1>4 DEF IInv, SyncOwned, Syncing, AsRead, InTime
    <2>2. /\ files[p] # Missing
          /\ marker[p] = [stub |-> job[p].data,
                          state |-> IF files[p] = job[p].data THEN "owned"
                                    ELSE "implemented"]
      BY <1>2, <2>1 DEF InSync
    <2>3. files[p] = job[p].data
      BY <1>2, <2>1, <2>2 DEF StillOwned, Fresh
    <2>. QED
      BY <1>4, <2>1, <2>3 DEF SyncOwned, Fresh
  <1>5. CASE RemoveStale(p)
    <2>1. ~UsersOrphan(p) /\ found = files[p] /\ pc = "stale" /\ p \in todo
      BY <1>5 DEF IInv, RemoveStale, Looking, Judging, Turn, AsRead, InTime
    <2>2. job[p].kind = "none"
      BY <2>1 DEF IInv, Phases, PathsOf
    <2>3. files[p] = Missing
      BY <1>2, <2>1, <2>2 DEF InSync, UsersOrphan
    <2>. QED
      BY <1>5, <2>1, <2>3 DEF RemoveStale
  <1>. QED
    BY <1>3, <1>4, <1>5

(* A turn is one path's.                                                    *)
LEMMA TurnIsOne ==
    ASSUME NEW p \in Path, NEW q \in Path, Turn(p), Turn(q)
    PROVE  p = q
  <1>1. Rank[p] <= Rank[q] /\ Rank[q] <= Rank[p]
    BY DEF Turn
  <1>2. Rank[p] \in Nat /\ Rank[q] \in Nat
    BY PathAssumption
  <1>. QED
    BY <1>1, <1>2, PathAssumption

(* Only the user changes a file between a read and the step that follows.   *)
LEMMA AsReadHolds == IInv /\ [Next]_vars => AsRead'
  <1>. SUFFICES ASSUME IInv, [Next]_vars, settled' # "no" PROVE \A p \in Path : InTime(p)'
    BY DEF AsRead
  <1>1. ASSUME found' = Unread PROVE \A p \in Path : InTime(p)'
    BY <1>1 DEF InTime, Judging
  <1>2. CASE UNCHANGED vars
    BY <1>2 DEF IInv, AsRead, InTime, Judging, Turn, vars, build, history
  <1>3. CASE Claim \/ SyncDone
    BY <1>1, <1>3 DEF Claim, SyncDone
  <1>4. CASE Finish
    BY <1>4 DEF Finish, build, InTime, Judging, Turn
  <1>5. ASSUME NEW p \in Path, Read(p) PROVE \A q \in Path : InTime(q)'
    <2>. SUFFICES ASSUME NEW q \in Path, Turn(q)' PROVE files'[q] = found'
      BY DEF InTime, Judging
    <2>1. Turn(p) /\ Turn(q) /\ files' = files /\ found' = files[p]
      BY <1>5 DEF Read, Turn
    <2>. QED
      BY <2>1, TurnIsOne
  <1>6. ASSUME NEW p \in Path,
               \/ SyncPlain(p) \/ SyncOwned(p) \/ SyncImplemented(p)
               \/ KeepOrphan(p) \/ RemoveStale(p)
        PROVE  \A q \in Path : InTime(q)'
    BY <1>1, <1>6 DEF SyncPlain, SyncOwned, SyncImplemented, KeepOrphan, RemoveStale,
                      Done
  <1>7. CASE Fail \/ ChangeModule \/ DamageMarker
               \/ \E p \in Path : \/ RemoveVanished(p) \/ Tear(p)
                                 \/ EditFile(p) \/ Reconcile(p)
    BY <1>7 DEF Fail, ChangeModule, DamageMarker, RemoveVanished, Tear, EditFile,
                Reconcile
  <1>. QED
    BY <1>2, <1>3, <1>4, <1>5, <1>6, <1>7 DEF Next, Write

LEMMA SyncPlainHolds ==
    ASSUME IInv, Inv', NEW p \in Path, SyncPlain(p)
    PROVE  Phases' /\ PlacedRecorded' /\ Building' /\ Settled'
  <1>1. /\ pc = "sync" /\ Turn(p) /\ Done(p) /\ job[p].kind = "plain"
        /\ placed' = placed \ {p} /\ UNCHANGED <<marker, next, report, told, settled>>
    BY DEF SyncPlain, Syncing
  <1>2. /\ files'[p] = job[p].data /\ \A q \in Path \ {p} : files'[q] = files[q]
    BY PutIs DEF IInv, SyncPlain, Fresh
  <1>3. next[p] = NoRecord
    BY <1>1 DEF IInv, Phases
  <1>4. spec' = spec /\ job' = job
    BY <1>1 DEF Done
  <1>5. settled = "building" => InSync(next, p)'
    BY <1>1, <1>2, <1>3, <1>4 DEF IInv, Building, InSync
  <1>6. settled = "yes" => files'[p] = files[p] /\ next'[p] = marker[p] /\ report' = {}
    BY <1>1, <1>2, <1>3 DEF IInv, Settled, InSync
  <1>. QED
    BY <1>1, <1>2, <1>3, <1>5, <1>6, TurnHolds

LEMMA SyncOwnedHolds ==
    ASSUME IInv, Inv', NEW p \in Path, SyncOwned(p)
    PROVE  Phases' /\ PlacedRecorded' /\ Building' /\ Settled'
  <1>1. /\ pc = "sync" /\ Turn(p) /\ Done(p) /\ job[p].kind = "stub" /\ StillOwned(p)
        /\ placed' = placed \cup {p} /\ UNCHANGED <<marker, report, settled>>
    BY DEF SyncOwned, Syncing
  <1>2. job[p].data \in Generated
    BY SpecData DEF IInv, Inv, TypeOK
  <1>3. \A q \in Path \ {p} : files'[q] = files[q]
    BY PutIs DEF IInv, SyncOwned
  <1>10. settled # "no" => files'[p] = job[p].data
    <2>. SUFFICES ASSUME settled # "no", found = Fresh(p) PROVE files'[p] = job[p].data
      BY PutIs DEF IInv, SyncOwned, Fresh
    <2>1. Judging(p) /\ InTime(p)
      BY DEF SyncOwned, IInv, AsRead
    <2>. QED
      BY <2>1 DEF SyncOwned, InTime, Fresh
  <1>4. /\ next'[p] = [stub |-> job[p].data, state |-> "owned"]
        /\ next'[p].stub = job[p].data /\ next'[p] # NoRecord
        /\ \A q \in Path \ {p} : next'[q] = next[q]
    BY <1>2, SetRecordIs DEF IInv, SyncOwned, Fresh, State
  <1>5. /\ told'[p] = job[p].data /\ \A q \in Path \ {p} : told'[q] = told[q]
    BY DEF IInv, Inv, TypeOK, SyncOwned, Fresh
  <1>6. spec' = spec /\ job' = job
    BY <1>1 DEF Done
  <1>7. job[p].data # Missing
    BY <1>2, ContentAssumption DEF Content
  <1>8. settled = "building" => InSync(next, p)'
    BY <1>1, <1>4, <1>6, <1>7, <1>10 DEF IInv, Building, InSync
  <1>9. settled = "yes" => files'[p] = files[p] /\ next'[p] = marker[p] /\ report' = {}
    <2>. SUFFICES ASSUME settled = "yes"
                  PROVE  files[p] = job[p].data /\ next'[p] = marker[p] /\ report' = {}
      BY <1>10
    <2>1. spec = job /\ prev = marker /\ report = {} /\ InSync(marker, p)
      BY <1>1 DEF IInv, Settled
    <2>2. files[p] = job[p].data
      BY <1>10, SettledFile
    <2>3. marker[p] = [stub |-> job[p].data, state |-> "owned"]
      BY <1>1, <2>1, <2>2 DEF InSync
    <2>. QED
      BY <1>1, <1>4, <2>1, <2>2, <2>3
  <1>. QED
    BY <1>1, <1>3, <1>4, <1>5, <1>8, <1>9, TurnHolds DEF OnRecord

LEMMA SyncImplementedHolds ==
    ASSUME IInv, Inv', NEW p \in Path, SyncImplemented(p)
    PROVE  Phases' /\ PlacedRecorded' /\ Building' /\ Settled'
  <1>1. /\ pc = "sync" /\ Turn(p) /\ Done(p) /\ job[p].kind = "stub" /\ ~StillOwned(p)
        /\ UNCHANGED <<files, marker, placed, settled>>
    BY DEF SyncImplemented, Syncing
  <1>2. job[p].data \in Generated
    BY SpecData DEF IInv, Inv, TypeOK
  <1>3. settled # "no" => files[p] # Missing /\ files[p] # job[p].data
    BY <1>1 DEF SyncImplemented, StillOwned, Fresh, IInv, AsRead, InTime
  <1>4. /\ next'[p] = [stub |-> job[p].data, state |-> "implemented"]
        /\ next'[p].stub = job[p].data /\ next'[p] # NoRecord
        /\ \A q \in Path \ {p} : next'[q] = next[q]
    BY <1>2, SetRecordIs DEF IInv, SyncImplemented, Fresh, State
  <1>5. /\ told'[p] = IF Seen(p) THEN told[p] ELSE job[p].data
        /\ \A q \in Path \ {p} : told'[q] = told[q]
    BY DEF IInv, Inv, TypeOK, SyncImplemented, Fresh
  <1>6. spec' = spec /\ job' = job
    BY <1>1 DEF Done
  <1>7. faults = 0 /\ p \in placed => told'[p] = job[p].data
    <2>. SUFFICES ASSUME faults = 0, p \in placed, Seen(p)
                  PROVE  told[p] = job[p].data
      BY <1>5
    <2>1. OnRecord(prev, p)
      BY <1>1 DEF IInv, PlacedRecorded, Ahead, Turn
    <2>. QED
      BY <2>1 DEF Seen, Fresh, OnRecord
  <1>8. settled = "building" => InSync(next, p)'
    BY <1>1, <1>3, <1>4, <1>6 DEF IInv, Building, InSync
  <1>9. settled = "yes" => next'[p] = marker[p] /\ report' = {}
    <2>. SUFFICES ASSUME settled = "yes"
                  PROVE  next'[p] = marker[p] /\ report' = {}
      OBVIOUS
    <2>1. spec = job /\ prev = marker /\ report = {} /\ InSync(marker, p)
      BY <1>1 DEF IInv, Settled
    <2>2. marker \in Manifest
      BY DEF IInv, Settled
    <2>3. marker[p] = [stub |-> job[p].data, state |-> "implemented"]
      BY <1>1, <1>3, <2>1 DEF InSync
    <2>4. Seen(p)
      BY <1>4, <2>1, <2>3 DEF Seen, Fresh
    <2>. QED
      BY <1>4, <2>1, <2>3, <2>4 DEF SyncImplemented
  <1>. QED
    BY <1>1, <1>4, <1>5, <1>7, <1>8, <1>9, TurnHolds DEF OnRecord

LEMMA KeepOrphanHolds ==
    ASSUME IInv, Inv', NEW p \in Path, KeepOrphan(p)
    PROVE  Phases' /\ PlacedRecorded' /\ Building' /\ Settled'
  <1>1. /\ pc = "stale" /\ Turn(p) /\ Done(p) /\ UsersOrphan(p)
        /\ UNCHANGED <<files, marker, placed, told, settled>>
    BY DEF KeepOrphan, Looking, Judging, history
  <1>2. job[p].kind = "none"
    BY <1>1 DEF IInv, Phases, Turn, PathsOf
  <1>3. /\ settled # "no" => files[p] # Missing
        /\ prev[p] # NoRecord /\ prev[p] \in Record /\ prev[p].stub \in Generated
    BY <1>1, RecordData DEF KeepOrphan, Looking, UsersOrphan, IInv, Inv, TypeOK, AsRead,
                            InTime
  <1>4. /\ next'[p] = [stub |-> prev[p].stub, state |-> "orphaned"]
        /\ next'[p].stub = prev[p].stub /\ next'[p] # NoRecord
        /\ \A q \in Path \ {p} : next'[q] = next[q]
    BY <1>3, SetRecordIs DEF IInv, KeepOrphan, State
  <1>5. spec' = spec /\ job' = job
    BY <1>1 DEF Done
  <1>6. faults = 0 /\ p \in placed => OnRecord(prev, p)
    BY <1>1 DEF IInv, PlacedRecorded, Ahead, Turn
  <1>7. settled = "building" => InSync(next, p)'
    BY <1>1, <1>2, <1>3, <1>4, <1>5 DEF IInv, Building, InSync
  <1>8. settled = "yes" => next'[p] = marker[p] /\ report' = {}
    <2>. SUFFICES ASSUME settled = "yes"
                  PROVE  next'[p] = marker[p] /\ report' = {}
      OBVIOUS
    <2>1. spec = job /\ prev = marker /\ report = {} /\ InSync(marker, p)
      BY <1>1 DEF IInv, Settled
    <2>2. prev[p].state = "orphaned"
      BY <1>2, <1>3, <2>1 DEF InSync
    <2>3. prev[p] = [stub |-> prev[p].stub, state |-> "orphaned"]
      BY <1>3, <2>2 DEF Record
    <2>. QED
      BY <1>4, <2>1, <2>2, <2>3 DEF KeepOrphan
  <1>. QED
    BY <1>1, <1>2, <1>4, <1>6, <1>7, <1>8, TurnHolds DEF OnRecord

LEMMA RemoveStaleHolds ==
    ASSUME IInv, Inv', NEW p \in Path, RemoveStale(p)
    PROVE  Phases' /\ PlacedRecorded' /\ Building' /\ Settled'
  <1>1. /\ pc = "stale" /\ Turn(p) /\ Done(p) /\ ~UsersOrphan(p)
        /\ placed' = placed \ {p} /\ UNCHANGED <<marker, next, report, told, settled>>
    BY DEF RemoveStale, Looking, Judging
  <1>2. job[p].kind = "none" /\ next[p] = NoRecord
    BY <1>1 DEF IInv, Phases, Turn, PathsOf, Ahead
  <1>3. /\ settled # "no" => files'[p] = Missing
        /\ \A q \in Path \ {p} : files'[q] = files[q]
    <2>1. CASE found = Missing
      BY <2>1 DEF RemoveStale, Looking, IInv, AsRead, InTime
    <2>2. CASE found # Missing
      BY <2>2, PutIs DEF IInv, RemoveStale
    <2>. QED
      BY <2>1, <2>2
  <1>4. spec' = spec /\ job' = job
    BY <1>1 DEF Done
  <1>5. settled = "building" => InSync(next, p)'
    BY <1>1, <1>2, <1>3, <1>4 DEF IInv, Building, InSync
  <1>6. settled = "yes" => files'[p] = files[p] /\ next'[p] = marker[p] /\ report' = {}
    <2>. SUFFICES ASSUME settled = "yes"
                  PROVE  files[p] = Missing /\ next'[p] = marker[p] /\ report' = {}
      BY <1>3
    <2>1. spec = job /\ prev = marker /\ report = {} /\ InSync(marker, p)
      BY <1>1 DEF IInv, Settled
    <2>2. files[p] = Missing
      BY <1>3, SettledFile
    <2>. QED
      BY <1>1, <1>2, <2>1, <2>2 DEF InSync
  <1>. QED
    BY <1>1, <1>2, <1>3, <1>5, <1>6, TurnHolds

LEMMA FinishHolds ==
    ASSUME IInv, Finish
    PROVE  Phases' /\ PlacedRecorded' /\ Building' /\ Settled'
  <1>1. /\ pc = "stale" /\ pc' = "idle" /\ todo = {} /\ marker' = next
        /\ UNCHANGED <<spec, files, job, faults, placed, told>>
        /\ settled' = IF settled = "no" THEN "no" ELSE "yes"
    BY DEF Finish, build, counters
  <1>2. next \in Manifest /\ placed \subseteq Path /\ \A p \in Path : ~Ahead(p)
    BY <1>1 DEF IInv, Inv, TypeOK, Ahead
  <1>3. Phases'
    BY <1>1 DEF Phases
  <1>4. PlacedRecorded'
    BY <1>1, <1>2 DEF IInv, PlacedRecorded, OnRecord
  <1>5. Building'
    BY <1>1 DEF Building
  <1>6. Settled'
    <2>. SUFFICES ASSUME settled # "no"
                  PROVE  \A p \in Path : InSync(marker, p)'
      BY <1>1, <1>2 DEF Settled
    <2>1. settled \in {"building", "yes"}
      BY DEF IInv, Inv, TypeOK
    <2>2. \A p \in Path : InSync(next, p)
      BY <1>1, <1>2, <2>1 DEF IInv, Building, Settled, InSync
    <2>. QED
      BY <1>1, <2>2 DEF InSync
  <1>. QED
    BY <1>3, <1>4, <1>5, <1>6

LEMMA NextHolds == IInv /\ [Next]_vars => IInv'
  <1>. SUFFICES ASSUME IInv, [Next]_vars PROVE IInv'
    OBVIOUS
  <1>1. Inv'
    BY NextInv DEF IInv
  <1>5. AsRead'
    BY AsReadHolds
  <1>2. CASE UNCHANGED vars
    <2>1. UNCHANGED <<spec, files, marker, pc, job, todo, prev, next, report, faults,
                      placed, told, settled>>
      BY <1>2 DEF vars, build, counters, history
    <2>2. Phases' /\ PlacedRecorded'
      BY <2>1 DEF IInv, Phases, PlacedRecorded, Ahead, OnRecord
    <2>3. Building' /\ Settled'
      BY <2>1 DEF IInv, Building, Settled, Ahead, InSync
    <2>. QED
      BY <1>1, <1>5, <2>2, <2>3 DEF IInv
  <1>3. CASE Write
    BY <1>1, <1>3, <1>5, ClaimHolds, ReadHolds, SyncDoneHolds, FinishHolds, SyncPlainHolds,
       SyncOwnedHolds, SyncImplementedHolds, KeepOrphanHolds, RemoveStaleHolds
       DEF Write, IInv
  <1>4. CASE Fail \/ ChangeModule \/ DamageMarker
               \/ \E p \in Path : \/ RemoveVanished(p) \/ Tear(p)
                                 \/ EditFile(p) \/ Reconcile(p)
    BY <1>1, <1>4, <1>5, OthersHold DEF IInv
  <1>. QED
    BY <1>2, <1>3, <1>4 DEF Next

LEMMA Records == Spec => []IInv
  <1>1. Init => IInv
    BY InitInv, InitHolds DEF IInv
  <1>. QED
    BY <1>1, NextHolds, PTL DEF Spec
-----------------------------------------------------------------------------
(* What a build that nothing disturbed leaves behind: every plain file as   *)
(* generated, every stub as generated or on record as the user's, and       *)
(* nothing else but recorded orphans (Write, syncStub, removeStale).        *)
THEOREM OutputIsRight == Spec => []OutputMatches
  <1>1. IInv => OutputMatches
    <2>. SUFFICES ASSUME IInv, pc = "idle", settled = "yes", NEW p \in Path
                  PROVE  CASE spec[p].kind = "plain" ->
                                files[p] = spec[p].data /\ marker[p] = NoRecord
                           [] spec[p].kind = "stub" ->
                                /\ files[p] # Missing
                                /\ marker[p] # NoRecord
                                /\ marker[p].stub = spec[p].data
                                /\ marker[p].state =
                                      IF files[p] = spec[p].data THEN "owned"
                                      ELSE "implemented"
                           [] OTHER ->
                                files[p] # Missing <=>
                                   /\ marker[p] # NoRecord
                                   /\ marker[p].state = "orphaned"
      BY DEF OutputMatches
    <2>1. InSync(marker, p)
      BY DEF IInv, Settled
    <2>2. spec[p].kind \in FileKind /\ spec[p].data \in Generated
      BY SpecData DEF IInv, Inv, TypeOK
    <2>3. CASE spec[p].kind = "plain"
      BY <2>1, <2>3 DEF InSync
    <2>4. CASE spec[p].kind = "stub"
      <3>1. /\ files[p] # Missing
            /\ marker[p] = [stub |-> spec[p].data,
                            state |-> IF files[p] = spec[p].data THEN "owned"
                                      ELSE "implemented"]
        BY <2>1, <2>4 DEF InSync
      <3>2. marker[p] \in Record
        BY <2>2, <3>1 DEF Record, State
      <3>3. marker[p] # NoRecord
        BY <3>2, MarkerAssumption
      <3>. QED
        BY <2>4, <3>1, <3>3
    <2>5. CASE spec[p].kind = "none"
      BY <2>1, <2>5 DEF InSync
    <2>. QED
      BY <2>2, <2>3, <2>4, <2>5 DEF FileKind
  <1>. QED
    BY <1>1, Records, PTL

(* A step of a build changes the file of no path but the one whose turn it  *)
(* is, and that path it had yet to come to.                                 *)
LEMMA WriteIsAhead ==
    ASSUME IInv, Write, NEW p \in Path, files'[p] # files[p]
    PROVE  Ahead(p)
  <1>1. ASSUME NEW q \in Path, NEW c, Put(q, c), q # p
        PROVE  FALSE
    BY <1>1, PutIs DEF IInv
  <1>2. CASE Claim \/ SyncDone \/ Finish
    BY <1>2 DEF Claim, SyncDone, Finish
  <1>3. ASSUME NEW q \in Path, SyncPlain(q) PROVE Ahead(p)
    <2>1. Put(q, Fresh(q)) /\ pc = "sync" /\ q \in todo
      BY <1>3 DEF SyncPlain, Syncing, Turn
    <2>. QED
      BY <2>1, <1>1 DEF Ahead
  <1>4. ASSUME NEW q \in Path, SyncOwned(q) PROVE Ahead(p)
    <2>1. (Put(q, Fresh(q)) \/ UNCHANGED files) /\ pc = "sync" /\ q \in todo
      BY <1>4 DEF SyncOwned, Syncing, Turn
    <2>. QED
      BY <2>1, <1>1 DEF Ahead
  <1>5. ASSUME NEW q \in Path, RemoveStale(q) PROVE Ahead(p)
    <2>1. (Put(q, Missing) \/ UNCHANGED files) /\ pc = "stale" /\ q \in todo
      BY <1>5 DEF RemoveStale, Looking, Judging, Turn
    <2>. QED
      BY <2>1, <1>1 DEF Ahead
  <1>6. ASSUME NEW q \in Path, Read(q) \/ SyncImplemented(q) \/ KeepOrphan(q)
        PROVE  FALSE
    BY <1>6 DEF Read, SyncImplemented, KeepOrphan
  <1>. QED
    BY <1>2, <1>3, <1>4, <1>5, <1>6 DEF Write

(* Where no build failed and no marker lost a record, work saved on any     *)
(* stub before the build read the file is left as it is: the stub is on     *)
(* record, as a build put it there.                                         *)
THEOREM UndisturbedWorkIsKept == Spec => UndisturbedWorkKept
  <1>1. IInv /\ [Next]_vars =>
          [Write /\ faults = 0 => \A p \in work :
             job[p].kind # "plain" /\ InTime(p) => files'[p] = files[p]]_vars
    <2>. SUFFICES ASSUME IInv, Write, faults = 0, NEW p \in work,
                         job[p].kind # "plain", InTime(p),
                         files'[p] # files[p]
                  PROVE  FALSE
      OBVIOUS
    <2>1. p \in placed /\ p \in Path
      BY DEF IInv, Inv, TypeOK
    <2>2. Ahead(p)
      BY <2>1, WriteIsAhead
    <2>3. pc # "idle"
      BY <2>2 DEF Ahead
    <2>4. prev[p] # NoRecord
      BY <2>1, <2>2, <2>3 DEF IInv, PlacedRecorded, OnRecord
    <2>. QED
      BY <2>4, WriteKeepsRecorded DEF IInv
  <1>. QED
    BY <1>1, Records, PTL DEF Spec, UndisturbedWorkKept

(* A build of what was just built, with nothing changed since, is quiet.    *)
LEMMA SettledIsQuiet ==
    ASSUME IInv, IInv', Write, settled = "yes"
    PROVE  QuietBuild
  <1>1. /\ marker \in Manifest
        /\ \A p \in Path : InSync(marker, p)
        /\ pc # "idle" => /\ spec = job /\ prev = marker /\ report = {}
                          /\ \A p \in Path : ~Ahead(p) => next[p] = marker[p]
    BY DEF IInv, Settled
  <1>2. settled' = "yes"
    BY DEF Write, Claim, Read, SyncDone, Finish, SyncPlain, SyncOwned, SyncImplemented,
           KeepOrphan, RemoveStale, history
  <1>3. CASE Claim
    BY <1>1, <1>3, MarkerAssumption DEF Claim, QuietBuild
  <1>4. CASE SyncDone
    BY <1>1, <1>4 DEF SyncDone, QuietBuild
  <1>5. CASE Finish
    <2>1. \A p \in Path : ~Ahead(p)
      BY <1>5 DEF Finish, Ahead
    <2>2. next \in Manifest /\ \A p \in Path : next[p] = marker[p]
      BY <1>1, <1>5, <2>1 DEF Finish, IInv, Inv, TypeOK
    <2>3. next = marker
      BY <1>1, <2>2 DEF Manifest
    <2>. QED
      BY <1>1, <1>5, <2>3 DEF Finish, build, QuietBuild
  <1>7. ASSUME NEW p \in Path, Read(p) PROVE QuietBuild
    BY <1>1, <1>7 DEF Read, QuietBuild
  <1>6. ASSUME NEW p \in Path, SyncPlain(p) \/ SyncOwned(p) \/ SyncImplemented(p)
                                 \/ KeepOrphan(p) \/ RemoveStale(p)
        PROVE  QuietBuild
    <2>1. pc # "idle" /\ pc' = pc
      BY <1>6 DEF SyncPlain, SyncOwned, SyncImplemented, KeepOrphan, RemoveStale,
                  Syncing, Looking, Done
    <2>2. report' = {}
      BY <1>2, <2>1 DEF IInv, Settled
    <2>3. files' = files
      <3>1. files'[p] = files[p]
        BY <1>6, SettledFile DEF SyncImplemented, KeepOrphan
      <3>2. \A q \in Path \ {p} : files'[q] = files[q]
        BY <1>6, PutIs DEF IInv, SyncPlain, SyncOwned, SyncImplemented, KeepOrphan,
                           RemoveStale
      <3>. QED
        BY <3>1, <3>2 DEF IInv, Inv, TypeOK
    <2>4. \A q \in Path : sidecar'[q] \in {sidecar[q], Missing}
      <3>1. CASE SyncImplemented(p)
        <4>1. Seen(p)
          BY <3>1, <2>2, <1>1 DEF SyncImplemented
        <4>. QED
          BY <3>1, <4>1 DEF SyncImplemented
      <3>. QED
        BY <1>6, <3>1 DEF SyncPlain, SyncOwned, KeepOrphan, RemoveStale, IInv, Inv,
                          TypeOK
    <2>. QED
      BY <2>1, <2>2, <2>3, <2>4 DEF QuietBuild
  <1>. QED
    BY <1>3, <1>4, <1>5, <1>6, <1>7 DEF Write

(* What a build tells its user: a spec change under an implementation       *)
(* reaches whoever implemented the stub before the build completes, and     *)
(* what is built is built again without a word (syncStub, Write).           *)
THEOREM ChangesAreReported == Spec => ReportedOnce
  <1>1. ASSUME IInv, Finish, faults = 0, NEW p \in work, job[p].kind = "stub"
        PROVE  told[p] = job[p].data
    <2>1. p \in placed /\ pc # "idle" /\ ~Ahead(p)
      BY <1>1 DEF IInv, Inv, TypeOK, Finish, Ahead
    <2>. QED
      BY <1>1, <2>1 DEF IInv, PlacedRecorded
  <1>2. IInv /\ IInv' /\ [Next]_vars =>
          [/\ settled = "yes" /\ Write => QuietBuild
           /\ Finish /\ faults = 0 => \A p \in work :
                 job[p].kind = "stub" => told[p] = job[p].data]_vars
    BY <1>1, SettledIsQuiet
  <1>. QED
    BY <1>2, Records, PTL DEF Spec, ReportedOnce
=============================================================================
