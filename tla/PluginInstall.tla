---------------------------- MODULE PluginInstall ----------------------------
(***************************************************************************)
(* Plugins from a module's requirements to the started executable          *)
(* (internal/plugin: install.go, lock.go, discovery.go): `kastor init`     *)
(* resolves each requirement to a release, installs it in the cache and    *)
(* writes the module's dependency lock; every other command looks an       *)
(* executable up under that lock, verifies it and starts it.               *)
(*                                                                         *)
(* The cache is shared by all modules of a user, and nothing locks it or   *)
(* a lock file. Every file operation is a step: a file is replaced by      *)
(* removing it and renaming a temporary file, so that a command of another *)
(* process, or a crash, may come in between. The publisher adds releases   *)
(* and replaces archives.                                                  *)
(*                                                                         *)
(* A version constraint is the set of versions it admits (see Versions for *)
(* what it is as text). An archive is the build number the publisher gave  *)
(* it, which stands for its checksum and for the executable inside it.     *)
(***************************************************************************)
EXTENDS Naturals

CONSTANTS
    Modules, Plugins, Version, Commands,
    Absent,         \* no file
    Damaged,        \* a file nobody published
    Bare,           \* a release without checksums or an archive for this platform
    Unreadable,     \* a lock file that does not parse
    Rank,           \* plugin -> its place in the order of the names
    Constraints,    \* the constraints the modules may state
    Options,        \* the sets of flags that init is given
    MaxBuild,       \* bound: archives published for one release
    MaxCommands,    \* bound: commands in one behaviour
    MaxEvents       \* bound: what happens to the commands and around them

Flags == {"upgrade", "offline", "frozen"}
Build == 1 .. MaxBuild
File == Build \cup {Absent, Damaged}

(* A requirement that a module does not state. *)
NotRequired == {}
Requirements == [Plugins -> Constraints \cup {NotRequired}]

(* A lock entry. One that was locked elsewhere may name no archive for this *)
(* platform.                                                                *)
Entry == [constraint : Constraints, version : Version, sum : Build \cup {Absent}]

(* What a lock file may hold: entries for some of the plugins. *)
Locks == UNION {[D -> Entry] : D \in SUBSET Plugins}
NoEntries == [p \in {} |-> Absent]

ASSUME NamesAssumption ==
    /\ Rank \in [Plugins -> Nat] /\ \A p, q \in Plugins : Rank[p] = Rank[q] => p = q
    /\ Version \subseteq Nat
    /\ Constraints \subseteq SUBSET Version /\ {} \notin Constraints
    /\ Options \subseteq SUBSET Flags
ASSUME AbsentAssumption ==
    /\ Absent \notin Nat /\ Damaged \notin Nat /\ Absent # Damaged
    /\ Absent \notin Locks
    /\ Bare \notin Nat /\ Bare # Absent
    /\ Unreadable \notin Locks /\ Unreadable # Absent
ASSUME BoundsAssumption ==
    MaxBuild \in Nat \ {0} /\ MaxCommands \in Nat /\ MaxEvents \in Nat

VARIABLES
    windows,    \* whether a lock is removed before its successor is renamed
    requires,   \* module -> plugin -> constraint
    lock,       \* module -> its lock: plugin -> entry; Absent; Unreadable
    cache,      \* plugin -> version -> the archive and executable files
    published,  \* plugin -> version -> the archive the publisher offers; Bare
    commands,   \* the processes
    begun,      \* the commands so far
    events,     \* the releases and edits so far
    faults,     \* the interrupted commands and damages to the cache so far
    pinned,     \* history: module -> the last lock it had
    ready       \* history: modules installed for the requirements they state

vars == <<windows, requires, lock, cache, published, commands, begun, events, faults,
          pinned, ready>>

Idle == [pc |-> "idle"]
Ended == {"idle", "installed", "failed", "started", "refused"}
Running(c) == commands[c].pc \notin Ended
Installing(c) == Running(c) /\ commands[c].kind = "init"

Required(req) == {p \in Plugins : req[p] # NotRequired}
EntriesOf(l) == IF l \in {Absent, Unreadable} THEN NoEntries ELSE l
CacheOf(c) == LET s == commands[c] IN
    cache[s.plugin][s.entry.version]

(* The files of a release in the cache with one of them replaced. *)
WithArchive(files, content) == [files EXCEPT !.archive = content]
WithExecutable(files, content) == [files EXCEPT !.exe = content]

Put(c, files) == LET s == commands[c] IN
    cache' = [cache EXCEPT ![s.plugin][s.entry.version] = files]
-----------------------------------------------------------------------------
(* What a lock says of a requirement (lockMatchesRequirement) and what the  *)
(* publisher's releases make of it (resolveRelease).                        *)
Matches(l, p, constraint) ==
    /\ p \in DOMAIN EntriesOf(l)
    /\ l[p].constraint = constraint
    /\ l[p].version \in constraint

(* The releases are filtered by the constraint alone: one that turns out to *)
(* have nothing to install for this platform is among them.                 *)
Admitted(p, constraint) == {v \in constraint : published[p][v] # Absent}

Latest(p, constraint, v) ==
    /\ v \in Admitted(p, constraint)
    /\ \A w \in Admitted(p, constraint) : w <= v

(* The highest one has checksums and an archive; no lower one is tried.     *)
Installable(p, constraint) ==
    \E v \in Version : Latest(p, constraint, v) /\ published[p][v] \in Build

Release(p, constraint, v) ==
    [constraint |-> constraint, version |-> v, sum |-> published[p][v]]

(* The archives of a release up to now; a lock may name none. *)
Offered(p, v) == {Absent} \cup
    {build \in Build : published[p][v] \in Build /\ build <= published[p][v]}

AllOffered(l) == \A p \in DOMAIN l : l[p].sum \in Offered(p, l[p].version)
-----------------------------------------------------------------------------
Init ==
    /\ windows \in BOOLEAN
    /\ requires \in [Modules -> Requirements]
    /\ lock \in [Modules -> {Absent, Unreadable} \cup Locks]
    /\ published \in [Plugins -> [Version -> Build \cup {Absent, Bare}]]
    /\ cache \in [Plugins -> [Version -> [archive : File, exe : File]]]
    /\ \A m \in Modules : AllOffered(EntriesOf(lock[m]))
    /\ \A p \in Plugins, v \in Version :
          {cache[p][v].archive, cache[p][v].exe} \subseteq Offered(p, v) \cup {Damaged}
    /\ commands = [c \in Commands |-> Idle]
    /\ begun = 0 /\ events = 0 /\ faults = 0
    /\ pinned = lock
    /\ ready = {}

Begin(c, started) ==
    /\ ~Running(c) /\ begun < MaxCommands
    /\ begun' = begun + 1
    /\ commands' = started
    /\ UNCHANGED <<windows, requires, lock, cache, published, events, faults,
                   pinned, ready>>

(* From here on the commands under way are not alone any more. *)
Disturbed ==
    [c \in Commands |-> IF Running(c) THEN [commands[c] EXCEPT !.alone = FALSE]
                                      ELSE commands[c]]

OthersInstall(c) == \E d \in Commands \ {c} : Installing(d)

Set(c, fields) == commands' = [commands EXCEPT ![c] = fields]
Goto(c, pc) == Set(c, [commands[c] EXCEPT !.pc = pc])
End(c, pc) == Set(c, [pc |-> pc])
Fail(c) == End(c, "failed")

KeepFiles == UNCHANGED <<lock, cache>>
KeepWorld == UNCHANGED <<windows, requires, published, begun, events, faults>>
-----------------------------------------------------------------------------
(* kastor init: the module is loaded and its lock read; a lock that is      *)
(* absent is an empty one.                                                  *)
StartInit(c, m, options) ==
    /\ lock[m] # Unreadable
    /\ Begin(c, [Disturbed EXCEPT ![c] =
             [kind |-> "init", pc |-> "resolve", module |-> m, options |-> options,
              requires |-> requires[m], existing |-> EntriesOf(lock[m]),
              todo |-> Required(requires[m]), plugin |-> Absent,
              made |-> NoEntries, entry |-> Absent, data |-> Absent,
              alone |-> ~OthersInstall(c)]])

StartInitFails(c, m) ==
    lock[m] = Unreadable /\ Begin(c, [commands EXCEPT ![c] = [pc |-> "failed"]])

(* The requirements are taken in the order of their names. *)
First(todo, p) == p \in todo /\ \A q \in todo : Rank[p] <= Rank[q]

(* Mutant: what the lock pins is resolved anew. *)
KeptOfflineOnly(c, p) == LET s == commands[c] IN
    /\ Matches(s.existing, p, s.requires[p])
    /\ s.options \cap {"offline", "frozen"} # {}

(* Whether the lock entry that was there serves (Init, frozen or not). *)
Kept(c, p) == LET s == commands[c] IN
    /\ Matches(s.existing, p, s.requires[p])
    /\ "upgrade" \notin s.options

Resolved(s, p, entry) ==
    [s EXCEPT !.todo = s.todo \ {p}, !.plugin = p, !.entry = entry, !.pc = "verify"]

ResolveLocked(c, p) ==
    LET s == commands[c] IN
    /\ s.pc = "resolve" /\ First(s.todo, p) /\ Kept(c, p)
    /\ Set(c, Resolved(s, p, s.existing[p]))
    /\ KeepFiles /\ KeepWorld /\ UNCHANGED <<pinned, ready>>

ResolveRelease(c, p, v) ==
    LET s == commands[c] IN
    /\ s.pc = "resolve" /\ First(s.todo, p) /\ ~Kept(c, p)
    /\ s.options \cap {"offline", "frozen"} = {}
    /\ Latest(p, s.requires[p], v) /\ published[p][v] \in Build
    /\ Set(c, Resolved(s, p, Release(p, s.requires[p], v)))
    /\ KeepFiles /\ KeepWorld /\ UNCHANGED <<pinned, ready>>

(* Frozen or offline; nothing that matches is released; or the highest one  *)
(* has no checksums or no archive for this platform.                        *)
ResolveFails(c, p) ==
    LET s == commands[c] IN
    /\ s.pc = "resolve" /\ First(s.todo, p) /\ ~Kept(c, p)
    /\ s.options \cap {"offline", "frozen"} # {} \/ ~Installable(p, s.requires[p])
    /\ Fail(c) /\ KeepFiles /\ KeepWorld /\ UNCHANGED <<pinned, ready>>

(* Mutant: a file under the archive's name serves. *)
ArchivePresent(c) == CacheOf(c).archive # Absent

(* ensureInstalled: an archive in the cache serves if its checksum is the   *)
(* locked one.                                                              *)
ArchiveVerified(c) == CacheOf(c).archive = commands[c].entry.sum

VerifyArchive(c) ==
    LET s == commands[c] IN
    /\ s.pc = "verify" /\ s.entry.sum # Absent /\ ArchiveVerified(c)
    /\ Goto(c, "extract")
    /\ KeepFiles /\ KeepWorld /\ UNCHANGED <<pinned, ready>>

(* downloadFile: what the publisher offers now must be what was locked. It  *)
(* is written to a temporary file; then the file in the way is removed,     *)
(* whoever put it there meanwhile.                                          *)
Download(c) ==
    LET s == commands[c] IN
    /\ s.pc = "verify" /\ s.entry.sum # Absent /\ ~ArchiveVerified(c)
    /\ "offline" \notin s.options
    /\ published[s.plugin][s.entry.version] = s.entry.sum
    /\ Goto(c, "remove archive")
    /\ KeepFiles /\ KeepWorld /\ UNCHANGED <<pinned, ready>>

RemoveArchive(c) ==
    LET s == commands[c] IN
    /\ s.pc = "remove archive"
    /\ Put(c, WithArchive(CacheOf(c), Absent))
    /\ Goto(c, "rename archive")
    /\ KeepWorld /\ UNCHANGED <<lock, pinned, ready>>

RenameArchive(c) ==
    LET s == commands[c] IN
    /\ s.pc = "rename archive"
    /\ Put(c, WithArchive(CacheOf(c), s.entry.sum))
    /\ Goto(c, "extract")
    /\ KeepWorld /\ UNCHANGED <<lock, pinned, ready>>

(* No archive for this platform; offline; or the checksums differ. *)
InstallFails(c) ==
    LET s == commands[c] IN
    /\ s.pc = "verify"
    /\ \/ s.entry.sum = Absent
       \/ /\ ~ArchiveVerified(c)
          /\ \/ "offline" \in s.options
             \/ published[s.plugin][s.entry.version] # s.entry.sum
    /\ Fail(c) /\ KeepFiles /\ KeepWorld /\ UNCHANGED <<pinned, ready>>

(* executableFromArchive opens the archive again. *)
Extract(c) ==
    LET s == commands[c]
        data == CacheOf(c).archive
    IN
    /\ s.pc = "extract"
    /\ IF data \in Build THEN Set(c, [s EXCEPT !.data = data, !.pc = "compare"])
                         ELSE Fail(c)
    /\ KeepFiles /\ KeepWorld /\ UNCHANGED <<pinned, ready>>

Add(made, p, entry) ==
    [q \in DOMAIN made \cup {p} |-> IF q = p THEN entry ELSE made[q]]

Installed(s) ==
    [s EXCEPT !.made = Add(s.made, s.plugin, s.entry), !.plugin = Absent,
              !.entry = Absent, !.data = Absent, !.pc = "resolve"]

(* Mutant: an executable that is there is not compared. *)
SameExecutablePresent(c) == CacheOf(c).exe # Absent

SameExecutable(c) == CacheOf(c).exe = commands[c].data

CompareExecutable(c) ==
    LET s == commands[c] IN
    /\ s.pc = "compare"
    /\ IF SameExecutable(c)
       THEN Set(c, Installed(s)) ELSE Goto(c, "remove executable")
    /\ KeepFiles /\ KeepWorld /\ UNCHANGED <<pinned, ready>>

RemoveExecutable(c) ==
    LET s == commands[c] IN
    /\ s.pc = "remove executable"
    /\ Put(c, WithExecutable(CacheOf(c), Absent))
    /\ Goto(c, "rename executable")
    /\ KeepWorld /\ UNCHANGED <<lock, pinned, ready>>

RenameExecutable(c) ==
    LET s == commands[c] IN
    /\ s.pc = "rename executable"
    /\ Put(c, WithExecutable(CacheOf(c), s.data))
    /\ Set(c, Installed(s))
    /\ KeepWorld /\ UNCHANGED <<lock, pinned, ready>>

(* All are installed. A frozen lock must be what init would write. *)
FinishFrozen(c) ==
    LET s == commands[c] IN
    /\ s.pc = "resolve" /\ s.todo = {} /\ "frozen" \in s.options
    /\ IF s.existing = s.made
       THEN /\ End(c, "installed")
            /\ ready' = IF lock[s.module] = s.made /\ s.requires = requires[s.module]
                        THEN ready \cup {s.module} ELSE ready
       ELSE Fail(c) /\ UNCHANGED ready
    /\ KeepFiles /\ KeepWorld /\ UNCHANGED pinned

(* Mutant: the lock is removed first wherever the command runs. *)
RemovesLockAlways == TRUE

(* WriteLock. Windows does not rename over a file. *)
RemovesLock == windows

RemoveLock(c) ==
    LET s == commands[c] IN
    /\ s.pc = "resolve" /\ s.todo = {} /\ "frozen" \notin s.options /\ RemovesLock
    /\ lock' = [lock EXCEPT ![s.module] = Absent]
    /\ Goto(c, "rename lock")
    /\ KeepWorld /\ UNCHANGED <<cache, pinned, ready>>

RenameLock(c) ==
    LET s == commands[c] IN
    /\ \/ s.pc = "rename lock"
       \/ s.pc = "resolve" /\ s.todo = {} /\ "frozen" \notin s.options /\ ~RemovesLock
    /\ lock' = [lock EXCEPT ![s.module] = s.made]
    /\ pinned' = [pinned EXCEPT ![s.module] = s.made]
    /\ ready' = IF s.requires = requires[s.module] THEN ready \cup {s.module}
                ELSE ready \ {s.module}
    /\ End(c, "installed")
    /\ KeepWorld /\ UNCHANGED cache
-----------------------------------------------------------------------------
(* Any other command: DiscoverAt, then the start of what it found. A        *)
(* development override wins.                                               *)
StartRun(c, m, p) ==
    /\ requires[m][p] # NotRequired
    /\ Begin(c, [commands EXCEPT ![c] =
                [kind |-> "run", pc |-> "lookup", module |-> m,
                 requires |-> requires[m], plugin |-> p, entry |-> Absent,
                 data |-> Absent, from |-> Absent, content |-> Absent,
                 spoilt |-> FALSE, alone |-> ~OthersInstall(c)]])

StartOverride(c) ==
    LET s == commands[c] IN
    /\ s.pc = "lookup"
    /\ Set(c, [s EXCEPT !.pc = "started", !.from = "override"])
    /\ KeepFiles /\ KeepWorld /\ UNCHANGED <<pinned, ready>>

(* LockedExecutable: the lock must parse, have the entry, and it must match. *)
ReadLock(c) ==
    LET s == commands[c]
        p == s.plugin
    IN
    /\ s.pc = "lookup" /\ lock[s.module] # Absent
    /\ IF Matches(lock[s.module], p, s.requires[p])
       THEN Set(c, [s EXCEPT !.entry = lock[s.module][p], !.pc = "check archive"])
       ELSE End(c, "refused")
    /\ KeepFiles /\ KeepWorld /\ UNCHANGED <<pinned, ready>>

(* Without a lock the executable on PATH is started, if there is one whose  *)
(* handshake names a version the requirement admits.                        *)
StartFromPath(c) ==
    LET s == commands[c] IN
    /\ s.pc = "lookup" /\ lock[s.module] = Absent
    /\ \/ Set(c, [s EXCEPT !.pc = "started", !.from = "path"])
       \/ End(c, "refused")
    /\ KeepFiles /\ KeepWorld /\ UNCHANGED <<pinned, ready>>

CheckArchive(c) ==
    LET s == commands[c] IN
    /\ s.pc = "check archive"
    /\ IF s.entry.sum # Absent /\ ArchiveVerified(c)
       THEN Goto(c, "read archive") ELSE End(c, "refused")
    /\ KeepFiles /\ KeepWorld /\ UNCHANGED <<pinned, ready>>

ReadArchive(c) ==
    LET s == commands[c]
        data == CacheOf(c).archive
    IN
    /\ s.pc = "read archive"
    /\ IF data \in Build
       THEN Set(c, [s EXCEPT !.data = data, !.pc = "check executable"])
       ELSE End(c, "refused")
    /\ KeepFiles /\ KeepWorld /\ UNCHANGED <<pinned, ready>>

(* Mutant: an executable next to a verified archive is started. *)
CheckExecutablePresent(c) ==
    /\ commands[c].pc = "check executable"
    /\ IF CacheOf(c).exe # Absent THEN Goto(c, "exec") ELSE End(c, "refused")
    /\ KeepFiles /\ KeepWorld /\ UNCHANGED <<pinned, ready>>

CheckExecutable(c) ==
    /\ commands[c].pc = "check executable"
    /\ IF SameExecutable(c) THEN Goto(c, "exec") ELSE End(c, "refused")
    /\ KeepFiles /\ KeepWorld /\ UNCHANGED <<pinned, ready>>

(* The file is opened by its name once more. *)
Exec(c) ==
    LET s == commands[c]
        content == CacheOf(c).exe
    IN
    /\ s.pc = "exec"
    /\ IF content # Absent
       THEN Set(c, [s EXCEPT !.pc = "started", !.from = "lock", !.content = content])
       ELSE End(c, "refused")
    /\ KeepFiles /\ KeepWorld /\ UNCHANGED <<pinned, ready>>
-----------------------------------------------------------------------------
(* The rest of the world.                                                   *)
MayHappen == events + faults < MaxEvents

(* A command ends anywhere: killed, without network, with a full disk. *)
Interrupt(c) ==
    /\ Running(c) /\ MayHappen
    /\ faults' = faults + 1
    /\ Set(c, Idle)
    /\ UNCHANGED <<windows, requires, lock, cache, published, begun, events, pinned, ready>>

(* Whoever was to start what it has checked starts something else.          *)
Spoil(p, v, made) ==
    [c \in Commands |->
        IF made[c].pc = "exec" /\ made[c].plugin = p /\ made[c].entry.version = v
        THEN [made[c] EXCEPT !.spoilt = TRUE] ELSE made[c]]

(* A file of the cache is deleted or damaged, at any moment. *)
Damage(p, v, file, files, made) ==
    /\ MayHappen /\ file # Absent /\ files # cache[p][v]
    /\ faults' = faults + 1
    /\ cache' = [cache EXCEPT ![p][v] = files]
    /\ commands' = made
    /\ UNCHANGED <<windows, requires, lock, published, begun, events, pinned, ready>>

DamageArchive(p, v, content) ==
    Damage(p, v, cache[p][v].archive, WithArchive(cache[p][v], content), Disturbed)

DamageExecutable(p, v, content) ==
    Damage(p, v, cache[p][v].exe, WithExecutable(cache[p][v], content),
           Spoil(p, v, Disturbed))

(* What the publisher may do next to a release: put it up, complete or not, *)
(* add what it lacks, or replace its archive.                               *)
NextOffer(offer) ==
    IF offer \in Build THEN {offer + 1} \cap Build ELSE {1, Bare} \ {offer}

Publish(p, v, offer) ==
    /\ MayHappen /\ offer \in NextOffer(published[p][v])
    /\ events' = events + 1
    /\ published' = [published EXCEPT ![p][v] = offer]
    /\ commands' = Disturbed
    /\ UNCHANGED <<windows, requires, lock, cache, begun, faults, pinned, ready>>

EditRequirement(m, p, constraint) ==
    /\ MayHappen /\ requires[m][p] # constraint
    /\ events' = events + 1
    /\ requires' = [requires EXCEPT ![m][p] = constraint]
    /\ ready' = ready \ {m}
    /\ UNCHANGED <<windows, lock, cache, published, commands, begun, faults, pinned>>

InitStep(c) ==
    \/ \E m \in Modules, options \in Options : StartInit(c, m, options)
    \/ \E m \in Modules : StartInitFails(c, m)
    \/ \E p \in Plugins : ResolveLocked(c, p) \/ ResolveFails(c, p)
    \/ \E p \in Plugins, v \in Version : ResolveRelease(c, p, v)
    \/ VerifyArchive(c) \/ Download(c) \/ InstallFails(c)
    \/ RemoveArchive(c) \/ RenameArchive(c) \/ Extract(c)
    \/ CompareExecutable(c) \/ RemoveExecutable(c) \/ RenameExecutable(c)
    \/ FinishFrozen(c) \/ RemoveLock(c) \/ RenameLock(c)

RunStep(c) ==
    \/ \E m \in Modules, p \in Plugins : StartRun(c, m, p)
    \/ StartOverride(c) \/ ReadLock(c) \/ StartFromPath(c)
    \/ CheckArchive(c) \/ ReadArchive(c) \/ CheckExecutable(c) \/ Exec(c)

World ==
    \/ \E p \in Plugins, v \in Version, content \in {Absent, Damaged} :
          DamageArchive(p, v, content) \/ DamageExecutable(p, v, content)
    \/ \E p \in Plugins, v \in Version, offer \in Build \cup {Bare} : Publish(p, v, offer)
    \/ \E m \in Modules, p \in Plugins, constraint \in Constraints \cup {NotRequired} :
          EditRequirement(m, p, constraint)

Next ==
    \/ \E c \in Commands : InitStep(c) \/ RunStep(c) \/ Interrupt(c)
    \/ World

Spec == Init /\ [][Next]_vars
-----------------------------------------------------------------------------
EverLocked == {m \in Modules : pinned[m] # Absent}

InitPc == {"resolve", "verify", "remove archive", "rename archive", "extract",
           "compare", "remove executable", "rename executable", "rename lock"}
RunPc == {"lookup", "check archive", "read archive", "check executable", "exec",
          "started"}

InitCommand ==
    [kind : {"init"}, pc : InitPc, module : Modules, options : Options,
     requires : Requirements, existing : Locks, todo : SUBSET Plugins,
     plugin : Plugins \cup {Absent}, made : Locks, entry : Entry \cup {Absent},
     data : Build \cup {Absent}, alone : BOOLEAN]

RunCommand ==
    [kind : {"run"}, pc : RunPc, module : Modules, requires : Requirements,
     plugin : Plugins, entry : Entry \cup {Absent}, data : Build \cup {Absent},
     from : {"override", "path", "lock", Absent}, content : File,
     spoilt : BOOLEAN, alone : BOOLEAN]

EndedCommand == [pc : Ended \ {"started"}]

TypeOK ==
    /\ windows \in BOOLEAN
    /\ requires \in [Modules -> Requirements]
    /\ lock \in [Modules -> {Absent, Unreadable} \cup Locks]
    /\ cache \in [Plugins -> [Version -> [archive : File, exe : File]]]
    /\ published \in [Plugins -> [Version -> Build \cup {Absent, Bare}]]
    /\ commands \in [Commands -> InitCommand \cup RunCommand \cup EndedCommand]
    /\ pinned \in [Modules -> {Absent, Unreadable} \cup Locks]
    /\ ready \subseteq EverLocked
    /\ begun \in 0 .. MaxCommands
    /\ events \in Nat /\ faults \in Nat /\ events + faults <= MaxEvents

Replaced == \E p \in Plugins, v \in Version : published[p][v] \notin {Absent, Bare, 1}

(* What a command starts under a lock (DiscoverAt, Exec) is the executable  *)
(* of the archive the lock names, whatever damaged the cache before or      *)
(* during the checks and whoever else installs in it: the files are opened  *)
(* by name three times between the lock and the start. Two things could     *)
(* differ: an executable damaged after it was compared, before it is        *)
(* executed by its name (install.go:377-384), and an archive its publisher  *)
(* replaced, put in the cache by another module's init in that moment.      *)
StartedIsLocked ==
    \A c \in Commands :
        LET s == commands[c] IN
        /\ s.pc = "started" /\ s.from = "lock"
        /\ s.alone \/ (~Replaced /\ ~s.spoilt)
        => s.content = s.entry.sum /\ s.entry.version \in s.requires[s.plugin]

Rewriting(m) == \E c \in Commands :
    commands[c].pc = "rename lock" /\ commands[c].module = m

(* "A present lock is never bypassed implicitly" (discovery.go:70): once a  *)
(* module had a lock, no command starts what is on PATH for it, but on      *)
(* Windows while an init rewrites the lock or when one died there.          *)
LockBypassedInWindow ==
    [][\A c \in Commands :
          LET s == commands'[c] IN
          s.pc = "started" /\ commands[c].pc # "started" /\ s.from = "path"
             /\ s.module \in EverLocked
          => windows /\ (Rewriting(s.module) \/ faults > 0)]_vars

(* Where no command was interrupted, no cache damaged and no archive        *)
(* replaced, a module whose init succeeded can start every plugin it        *)
(* requires as soon as nobody is installing: neither the inits of other     *)
(* modules that share its cache nor a second init of its own, which remove  *)
(* and rename the same files, leave it without one (ensureInstalled,        *)
(* WriteLock, LockedExecutable).                                            *)
InstalledRuns ==
    faults = 0 /\ ~Replaced /\ (\A c \in Commands : ~Installing(c)) =>
        \A m \in ready : \A p \in Required(requires[m]) :
            /\ Matches(lock[m], p, requires[m][p])
            /\ LET e == lock[m][p] IN
               cache[p][e.version] = [archive |-> e.sum, exe |-> e.sum]

(* An init with network that has read its lock and that nobody disturbs     *)
(* fails only for want of something to install: nothing released is         *)
(* admitted, the highest release admitted has no checksums or no archive    *)
(* for this platform, the locked one has no archive for it, or its          *)
(* publisher replaced it. Whatever crashed inits and damage left in the     *)
(* cache, it repairs (Init, resolveRelease, ensureInstalled).               *)
InitRepairs ==
    [][\A c \in Commands :
          LET s == commands[c] IN
          /\ Installing(c) /\ commands'[c].pc = "failed"
          /\ s.alone /\ s.options \cap {"offline", "frozen"} = {}
          => \E p \in Required(s.requires) :
                IF Matches(s.existing, p, s.requires[p]) /\ "upgrade" \notin s.options
                THEN s.existing[p].sum \in {Absent} \cup
                        (Build \ {published[p][s.existing[p].version]})
                ELSE ~Installable(p, s.requires[p])]_vars

(* An init found no lock where one had died between the two steps of        *)
(* WriteLock on Windows.                                                    *)
LostInWindow(s) == windows /\ faults > 0 /\ s.existing = NoEntries

(* What the last lock of a module pinned, and the module still admits, is   *)
(* pinned again by its next init although newer releases and replaced       *)
(* archives appeared and other inits failed or died meanwhile, unless       *)
(* upgrade is asked for or two inits run at once (Init,                     *)
(* lockMatchesRequirement, WriteLock). On Windows an init that dies after   *)
(* it removed the lock, before it renames the new one, loses every pin.     *)
PinsKept ==
    [][\A p \in Plugins, c \in Commands :
          LET s == commands[c]
              m == s.module
          IN
          /\ Installing(c) /\ commands'[c].pc = "installed"
          /\ s.alone /\ "upgrade" \notin s.options
          /\ Matches(pinned[m], p, s.requires[p]) /\ p \in Required(s.requires)
          => \/ p \in DOMAIN EntriesOf(lock'[m]) /\ lock'[m][p] = pinned[m][p]
             \/ LostInWindow(s)]_vars
=============================================================================
