----------------------------- MODULE BuildWrite -----------------------------
(***************************************************************************)
(* kastor build, the part that meets the user's work: build.Write syncs    *)
(* generated files into an output directory in which the user implements   *)
(* the stubs. The marker .kastorbuild claims the directory and remembers,  *)
(* per stub, the content last written or shown and what became of it.      *)
(*                                                                         *)
(* A file is read in one step and written or removed in the next, so that  *)
(* the user can save between the two, and a build can fail between any two *)
(* steps. A hash stands for its content: SHA-256 is taken to be injective. *)
(***************************************************************************)
EXTENDS Naturals

CONSTANTS
    Path,         \* visible files, without sidecars
    Rank,         \* position of each path in canonical order
    Generated,    \* contents generators produce
    User,         \* contents users write
    Torn,         \* what an interrupted write leaves
    Missing,      \* no such file
    Unread,       \* the build has not looked yet at the path whose turn it is
    Specs,        \* what the module may generate
    NoMarker,     \* the directory has no marker
    Newer,        \* a marker of a later format
    NoRecord,     \* the marker does not list a path
    MaxEdits,     \* bound: changes of the module and of files by the user
    FaultKinds,   \* what may go wrong
    MaxFaults     \* bound: how often it may

Faults == {"fail", "tear", "damage"}
FileKind == {"none", "plain", "stub"}
Output == [Path -> [kind : FileKind, data : Generated]]
Content == Generated \cup User \cup {Torn}
State == {"owned", "implemented", "orphaned"}
Record == [stub : Generated, state : State]
Manifest == [Path -> Record \cup {NoRecord}]

ASSUME PathAssumption ==
    /\ Rank \in [Path -> Nat]
    /\ \A p, q \in Path : Rank[p] = Rank[q] => p = q
ASSUME ContentAssumption ==
    /\ Generated \cap User = {} /\ Torn \notin Generated \cup User
    /\ Missing \notin Content /\ Unread \notin Content \cup {Missing}
ASSUME SpecsAssumption == Specs \subseteq Output /\ Specs # {}
ASSUME MarkerAssumption ==
    /\ NoRecord \notin Record
    /\ NoMarker \notin Manifest \cup {Newer} /\ Newer \notin Manifest
ASSUME BoundsAssumption ==
    MaxEdits \in Nat /\ MaxFaults \in Nat /\ FaultKinds \subseteq Faults

VARIABLES
    spec,        \* what the module generates now
    files,       \* the output directory
    sidecar,     \* the .kastor-new files in it, by the path they belong to
    marker,
    pc,
    job,         \* what the running build generates
    todo,        \* paths it has still to sync, then to look at as stale
    found,       \* what it read at the path whose turn it is
    prev, next,  \* the records it found and those it will write
    report,      \* the handovers it will tell the user about
    edits,
    faults,      \* builds that did not complete and markers that lost records
    placed,      \* history: stubs that a build put where they are
    work,        \* history: placed stubs the user has implemented
    told,        \* history: the stub of each path the user saw last
    settled      \* history: "yes" if a build completed with nothing else
                 \* going on and nothing changed since, "building" if one
                 \* may yet do so

build == <<job, todo, found, prev, next, report>>
counters == <<edits, faults>>
history == <<placed, work, told, settled>>
vars == <<spec, files, sidecar, marker, pc, build, counters, history>>

Empty == [p \in Path |-> NoRecord]
NoFiles == [p \in Path |-> Missing]
Visible == {p \in Path : files[p] # Missing \/ sidecar[p] # Missing}

Init ==
    /\ spec \in Specs
    /\ files = NoFiles /\ sidecar = NoFiles
    /\ marker = NoMarker
    /\ pc = "idle"
    /\ job = spec /\ todo = {} /\ found = Unread
    /\ prev = Empty /\ next = Empty
    /\ report = {}
    /\ edits = 0 /\ faults = 0
    /\ placed = {} /\ work = {}
    /\ told = NoFiles
    /\ settled = "no"

Fault(f) ==
    /\ f \in FaultKinds
    /\ faults < MaxFaults
    /\ faults' = faults + 1
    /\ UNCHANGED edits

Edit == edits < MaxEdits /\ edits' = edits + 1 /\ UNCHANGED faults

-----------------------------------------------------------------------------
(* Write. *)

PathsOf(kinds, s) == {p \in Path : s[p].kind \in kinds}

(* The module is compiled, its files generated and validated, the directory *)
(* claimed: by its marker or, if it is empty, by writing one.               *)
Claim ==
    /\ pc = "idle"
    /\ marker # Newer
    /\ marker = NoMarker => Visible = {}
    /\ marker' = IF marker = NoMarker THEN Empty ELSE marker
    /\ prev' = marker'
    /\ next' = Empty
    /\ report' = {}
    /\ job' = spec
    /\ todo' = PathsOf({"plain", "stub"}, spec)
    /\ pc' = "sync"
    /\ found' = Unread
    /\ settled' = IF settled = "yes" THEN "yes" ELSE "building"
    /\ UNCHANGED <<spec, files, sidecar, counters, placed, work, told>>

(* The turn of a path comes in canonical order. *)
Turn(p) == p \in todo /\ \A q \in todo : Rank[p] <= Rank[q]
Syncing(p, kind) == pc = "sync" /\ Turn(p) /\ job[p].kind = kind
Fresh(p) == job[p].data

Put(p, c) == files' = [files EXCEPT ![p] = c]
SetRecord(p, c, s) == next' = [next EXCEPT ![p] = [stub |-> c, state |-> s]]
Done(p) ==
    /\ todo' = todo \ {p}
    /\ found' = Unread
    /\ UNCHANGED <<spec, pc, job, prev, counters>>

(* What a stub or a stale file is judged by is read before it is written:   *)
(* the user may save in between.                                            *)
Read(p) ==
    /\ Turn(p)
    /\ pc = "sync" => job[p].kind = "stub"
    /\ pc # "idle" /\ found = Unread
    /\ found' = files[p]
    /\ UNCHANGED <<spec, files, sidecar, marker, pc, job, todo, prev, next, report,
                   counters, history>>
Judging(p) == Turn(p) /\ found # Unread

(* Everything but stubs is regenerated whatever is there. *)
SyncPlain(p) ==
    /\ Syncing(p, "plain")
    /\ Put(p, Fresh(p))
    /\ placed' = placed \ {p} /\ work' = work \ {p}
    /\ Done(p)
    /\ UNCHANGED <<sidecar, marker, next, report, told, settled>>

(* Mutant: the recorded state is trusted, the file not compared. *)
StillOwnedByState(p) ==
    \/ found \in {Missing, Fresh(p)}
    \/ prev[p] # NoRecord /\ prev[p].state = "owned"

(* The file was Kastor's: absent, the current stub, or still the stub that  *)
(* the last build recorded.                                                 *)
StillOwned(p) ==
    \/ found \in {Missing, Fresh(p)}
    \/ prev[p] = [stub |-> found, state |-> "owned"]

(* A file that was the current stub is not written, any other is, whatever  *)
(* it holds by then.                                                        *)
SyncOwned(p) ==
    /\ Syncing(p, "stub") /\ Judging(p)
    /\ StillOwned(p)
    /\ SetRecord(p, Fresh(p), "owned")
    /\ IF found = Fresh(p) THEN UNCHANGED <<files, work>>
       ELSE Put(p, Fresh(p)) /\ work' = work \ {p}
    /\ sidecar' = IF found = Missing THEN sidecar
                  ELSE [sidecar EXCEPT ![p] = Missing]
    /\ told' = [told EXCEPT ![p] = Fresh(p)]
    /\ placed' = placed \cup {p}
    /\ Done(p)
    /\ UNCHANGED <<marker, report, settled>>

(* The stub the user last saw is the one generated now. *)
Seen(p) == prev[p] # NoRecord /\ prev[p].stub = Fresh(p)

(* Mutant: once a handover is on record the stub is not compared again.     *)
SyncImplementedOnce(p) ==
    /\ Syncing(p, "stub") /\ Judging(p)
    /\ ~StillOwned(p)
    /\ SetRecord(p, Fresh(p), "implemented")
    /\ IF prev[p] # NoRecord /\ prev[p].state = "implemented"
       THEN UNCHANGED <<sidecar, report, told>>
       ELSE /\ sidecar' = [sidecar EXCEPT ![p] = Fresh(p)]
            /\ report' = report \cup {[path |-> p, what |-> "superseded"]}
            /\ told' = [told EXCEPT ![p] = Fresh(p)]
    /\ Done(p)
    /\ UNCHANGED <<files, marker, placed, work, settled>>

(* The file is the user's: the stub goes beside it unless it is the one the *)
(* record says the user has seen.                                           *)
SyncImplemented(p) ==
    /\ Syncing(p, "stub") /\ Judging(p)
    /\ ~StillOwned(p)
    /\ SetRecord(p, Fresh(p), "implemented")
    /\ IF Seen(p)
       THEN UNCHANGED <<sidecar, report, told>>
       ELSE /\ sidecar' = [sidecar EXCEPT ![p] = Fresh(p)]
            /\ report' = report \cup {[path |-> p, what |-> "superseded"]}
            /\ told' = [told EXCEPT ![p] = Fresh(p)]
    /\ Done(p)
    /\ UNCHANGED <<files, marker, placed, work, settled>>

SyncDone ==
    /\ pc = "sync"
    /\ todo = {}
    /\ pc' = "stale"
    /\ todo' = PathsOf({"none"}, job)
    /\ found' = Unread
    /\ UNCHANGED <<spec, files, sidecar, marker, job, prev, next, report,
                   counters, history>>

Looking(p) == pc = "stale" /\ Judging(p)

(* Mutant: only a record that says so marks a file as the user's. *)
UsersOrphanByState(p) ==
    /\ found # Missing
    /\ prev[p] # NoRecord /\ prev[p].state # "owned"

(* removeStale: a recorded stub that was not as recorded is the user's.     *)
UsersOrphan(p) ==
    /\ found # Missing
    /\ prev[p] # NoRecord
    /\ prev[p] # [stub |-> found, state |-> "owned"]

(* Mutant: the record is dropped although the file stays. *)
KeepOrphanForgets(p) ==
    /\ Looking(p)
    /\ UsersOrphan(p)
    /\ report' = IF prev[p].state = "orphaned" THEN report
                 ELSE report \cup {[path |-> p, what |-> "orphaned"]}
    /\ Done(p)
    /\ UNCHANGED <<files, sidecar, marker, next, history>>

KeepOrphan(p) ==
    /\ Looking(p)
    /\ UsersOrphan(p)
    /\ SetRecord(p, prev[p].stub, "orphaned")
    /\ report' = IF prev[p].state = "orphaned" THEN report
                 ELSE report \cup {[path |-> p, what |-> "orphaned"]}
    /\ Done(p)
    /\ UNCHANGED <<files, sidecar, marker, history>>

(* What was there is removed, whatever it holds by then. *)
RemoveStale(p) ==
    /\ Looking(p)
    /\ ~UsersOrphan(p)
    /\ IF found = Missing THEN UNCHANGED <<files, sidecar>>
       ELSE /\ files[p] # Missing /\ Put(p, Missing)
            /\ sidecar' = IF prev[p] = NoRecord THEN sidecar
                          ELSE [sidecar EXCEPT ![p] = Missing]
    /\ placed' = placed \ {p} /\ work' = work \ {p}
    /\ Done(p)
    /\ UNCHANGED <<marker, next, report, told, settled>>

(* Hashing or removing a file that the user deleted meanwhile is an error.  *)
RemoveVanished(p) ==
    /\ Looking(p)
    /\ found # Missing /\ files[p] = Missing
    /\ sidecar' \in {sidecar} \cup
          (IF UsersOrphan(p) \/ prev[p] = NoRecord THEN {}
           ELSE {[sidecar EXCEPT ![p] = Missing]})
    /\ faults' = faults + 1
    /\ pc' = "idle"
    /\ settled' = "no"
    /\ UNCHANGED <<spec, files, marker, build, edits, placed, work, told>>

Finish ==
    /\ pc = "stale"
    /\ todo = {}
    /\ marker' = next
    /\ settled' = IF settled = "no" THEN "no" ELSE "yes"
    /\ pc' = "idle"
    /\ UNCHANGED <<spec, files, sidecar, build, counters, placed, work, told>>

(* A build that does not complete, by an error or a crash: the marker keeps *)
(* the records of the build before.                                         *)
Fail ==
    /\ pc # "idle"
    /\ Fault("fail")
    /\ pc' = "idle"
    /\ settled' = "no"
    /\ UNCHANGED <<spec, files, sidecar, marker, build, placed, work, told>>

(* A crash or an error in the middle of a file's turn. os.WriteFile         *)
(* truncates first, so that what was being written is torn, and a sidecar   *)
(* is removed before its file is.                                           *)
TearPlain(p) ==
    /\ Syncing(p, "plain")
    /\ files[p] # Fresh(p)
    /\ Put(p, Torn)
    /\ UNCHANGED sidecar

TearOwned(p) ==
    /\ Syncing(p, "stub") /\ Judging(p)
    /\ StillOwned(p) /\ found # Fresh(p) /\ files[p] # Fresh(p)
    /\ IF found = Missing THEN Put(p, Torn) /\ UNCHANGED sidecar
       ELSE /\ Put(p, Torn) \/ UNCHANGED files
            /\ sidecar' = [sidecar EXCEPT ![p] = Missing]

TearSidecar(p) ==
    /\ Syncing(p, "stub") /\ Judging(p)
    /\ ~StillOwned(p) /\ ~Seen(p)
    /\ sidecar[p] # Fresh(p)
    /\ sidecar' = [sidecar EXCEPT ![p] = Torn]
    /\ UNCHANGED files

TearStale(p) ==
    /\ Looking(p)
    /\ ~UsersOrphan(p)
    /\ found # Missing /\ prev[p] # NoRecord
    /\ sidecar' = [sidecar EXCEPT ![p] = Missing]
    /\ UNCHANGED files

(* What is torn is lost: the build took it for its own to write.            *)
Tear(p) ==
    /\ Fault("tear")
    /\ TearPlain(p) \/ TearOwned(p) \/ TearSidecar(p) \/ TearStale(p)
    /\ work' = IF files' = files THEN work ELSE work \ {p}
    /\ pc' = "idle"
    /\ settled' = "no"
    /\ UNCHANGED <<spec, marker, build, placed, told>>

-----------------------------------------------------------------------------
(* The user. *)

ChangeModule ==
    /\ Edit
    /\ \E s \in Specs \ {spec} : spec' = s
    /\ settled' = "no"
    /\ UNCHANGED <<files, sidecar, marker, pc, build, placed, work, told>>

(* The user writes or deletes a file. What is written over a stub that a    *)
(* build put there is the user's work.                                      *)
EditFile(p) ==
    /\ Edit
    /\ \E c \in (User \cup {Missing}) \ {files[p]} :
          /\ Put(p, c)
          /\ work' = IF c \in User /\ p \in placed THEN work \cup {p} ELSE work \ {p}
          /\ placed' = IF c = Missing THEN placed \ {p} ELSE placed
    /\ settled' = "no"
    /\ UNCHANGED <<spec, sidecar, marker, pc, build, told>>

(* The user takes over the stub beside the file, or deletes it. *)
Reconcile(p) ==
    /\ Edit
    /\ sidecar[p] # Missing
    /\ \/ Put(p, sidecar[p]) /\ UNCHANGED sidecar /\ work' = work \ {p}
       \/ sidecar' = [sidecar EXCEPT ![p] = Missing] /\ UNCHANGED <<files, work>>
    /\ settled' = "no"
    /\ UNCHANGED <<spec, marker, pc, build, placed, told>>

(* The marker is hand-edited, cut short, deleted or a later version's:      *)
(* parseManifest finds no records, only some of them, or refuses it.        *)
DamageMarker ==
    /\ Fault("damage")
    /\ marker \in Manifest
    /\ \/ \E S \in SUBSET Path :
             marker' = [p \in Path |-> IF p \in S THEN marker[p] ELSE NoRecord]
       \/ marker' \in {Newer, NoMarker}
    /\ settled' = "no"
    /\ UNCHANGED <<spec, files, sidecar, pc, build, placed, work, told>>

Write ==
    \/ Claim \/ SyncDone \/ Finish
    \/ \E p \in Path : \/ Read(p) \/ SyncPlain(p) \/ SyncOwned(p)
                      \/ SyncImplemented(p) \/ KeepOrphan(p) \/ RemoveStale(p)

Next ==
    \/ Write \/ Fail \/ ChangeModule \/ DamageMarker
    \/ \E p \in Path : RemoveVanished(p) \/ Tear(p) \/ EditFile(p) \/ Reconcile(p)

Spec == Init /\ [][Next]_vars

-----------------------------------------------------------------------------
(* Files hold known contents, records a generated stub and a state.         *)
TypeOK ==
    /\ spec \in Specs /\ job \in Specs
    /\ files \in [Path -> Content \cup {Missing}]
    /\ sidecar \in [Path -> Content \cup {Missing}]
    /\ marker \in Manifest \cup {NoMarker, Newer}
    /\ pc \in {"idle", "sync", "stale"}
    /\ todo \subseteq Path /\ found \in Content \cup {Missing, Unread}
    /\ prev \in Manifest /\ next \in Manifest
    /\ report \subseteq [path : Path, what : {"superseded", "orphaned"}]
    /\ edits \in 0 .. MaxEdits /\ faults \in Nat
    /\ work \subseteq placed /\ placed \subseteq Path
    /\ told \in [Path -> Content \cup {Missing}]
    /\ settled \in {"no", "building", "yes"}

(* The work is in the file that the build judges, or will be when it does:  *)
(* the user has not saved since the build read the file. Nothing protects   *)
(* what is saved between that read and the write (write.go:167-190,         *)
(* 271-292).                                                                *)
InTime(p) == Judging(p) => files[p] = found

(* A stub the user has implemented "is never written again, whatever the    *)
(* spec does" (write.go:193), and is "kept, not deleted" when its tool      *)
(* leaves the spec (SPEC.md:304): no build step changes such a file, saved  *)
(* in time. Failed builds and tools rebound to another kind break it.       *)
WorkKept == [][Write => \A p \in work : InTime(p) => files'[p] = files[p]]_vars

(* It holds where no build failed and no marker lost a record, for every    *)
(* path that is still generated as a stub or no longer generated, and for   *)
(* all work saved in time.                                                  *)
UndisturbedWorkKept ==
    [][Write /\ faults = 0 => \A p \in work :
          job[p].kind # "plain" /\ InTime(p) => files'[p] = files[p]]_vars

(* What the marker guarantees through failed and torn builds: a stub that   *)
(* was on record when the build began is neither rewritten as a stub, nor   *)
(* torn, nor removed once the user has implemented it and has saved it in   *)
(* time.                                                                    *)
RecordedWorkKept ==
    [][Write \/ (\E q \in Path : Tear(q)) => \A p \in work :
          prev[p] # NoRecord /\ job[p].kind # "plain" /\ InTime(p)
             => files'[p] = files[p]]_vars

(* What a build that nothing disturbed leaves: every plain file as          *)
(* generated, every stub as generated or on record as the user's with the   *)
(* stub of today, and nothing else but recorded orphans.                    *)
OutputMatches ==
    pc = "idle" /\ settled = "yes" =>
       \A p \in Path :
          CASE spec[p].kind = "plain" ->
                  files[p] = spec[p].data /\ marker[p] = NoRecord
            [] spec[p].kind = "stub" ->
                  /\ files[p] # Missing
                  /\ marker[p] # NoRecord /\ marker[p].stub = spec[p].data
                  /\ marker[p].state =
                        IF files[p] = spec[p].data THEN "owned" ELSE "implemented"
            [] OTHER ->
                  files[p] # Missing <=>
                     marker[p] # NoRecord /\ marker[p].state = "orphaned"

(* Building again what is built says nothing, writes nothing, and at most   *)
(* clears a sidecar that is settled (write.go:64).                          *)
QuietBuild ==
    /\ files' = files /\ report' = {}
    /\ \A p \in Path : sidecar'[p] \in {sidecar[p], Missing}
    /\ pc' = "idle" => marker' = marker

(* Each handover "is reported once", and a spec change under an             *)
(* implementation "still has to reach" the user (SPEC.md:304): when a build *)
(* completes, whoever implemented a stub has been shown the stub generated  *)
(* today, in the file or in the sidecar - provided no build failed in       *)
(* between - and what is built is built again without a word.               *)
ReportedOnce ==
    [][/\ settled = "yes" /\ Write => QuietBuild
       /\ Finish /\ faults = 0 => \A p \in work :
             job[p].kind = "stub" => told[p] = job[p].data]_vars
=============================================================================
