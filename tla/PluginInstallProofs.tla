------------------------- MODULE PluginInstallProofs -------------------------
(***************************************************************************)
(* Theorems about PluginInstall, for any number of modules, plugins,       *)
(* versions and commands.                                                  *)
(***************************************************************************)
EXTENDS PluginInstall, TLAPS

(* A command at these has a plugin and its entry in hand, has seen that the *)
(* entry names an archive, and has read an executable from one.             *)
Chosen == {"verify", "remove archive", "rename archive", "extract", "compare",
           "remove executable", "rename executable",
           "check archive", "read archive", "check executable", "exec"}
Named == Chosen \ {"verify", "check archive"}
Holding == {"compare", "remove executable", "rename executable",
            "check executable", "exec"}

FromLock(s) == s.pc = "started" /\ s.from = "lock"
HasEntry(s) == s.pc \in Chosen \/ FromLock(s)

Meets(entry, constraint) ==
    entry.constraint = constraint /\ entry.version \in constraint

(* What a command is about to use fits the requirement it has read. *)
Choice(s) ==
    /\ HasEntry(s) => /\ s.plugin \in Plugins /\ s.entry \in Entry
                      /\ Meets(s.entry, s.requires[s.plugin])
    /\ s.pc \in Named \/ FromLock(s) => s.entry.sum # Absent
    /\ s.pc \in Holding => s.data \in Build

(* An init makes an entry for each requirement, the old one if it serves.   *)
Serves(s, p) ==
    Matches(s.existing, p, s.requires[p]) /\ "upgrade" \notin s.options

InHand(s) == {p \in {s.plugin} : s.pc \in Chosen}

Making(s) ==
    s.pc \in InitPc =>
        /\ Required(s.requires) = DOMAIN s.made \cup s.todo \cup InHand(s)
        /\ s.pc = "rename lock" => s.todo = {}
        /\ \A p \in DOMAIN s.made :
              /\ Meets(s.made[p], s.requires[p]) /\ s.made[p].sum # Absent
              /\ Serves(s, p) => s.made[p] = s.existing[p]
        /\ s.pc \in Chosen /\ Serves(s, s.plugin) => s.entry = s.existing[s.plugin]

(* Nothing is in use that was not offered for its release. *)
Sources(s) ==
    /\ s.pc \in InitPc => AllOffered(s.existing) /\ AllOffered(s.made)
    /\ HasEntry(s) => s.entry.sum \in Offered(s.plugin, s.entry.version)
    /\ s.pc \in Holding => s.data \in Offered(s.plugin, s.entry.version)

(* While no other init runs and nothing is released, the files are as the   *)
(* command found or left them.                                              *)
Undisturbed(s) ==
    s.pc \notin Ended /\ s.alone =>
        /\ s.pc \in InitPc =>
              IF s.pc = "rename lock" THEN lock[s.module] = Absent
                                      ELSE EntriesOf(lock[s.module]) = s.existing
        /\ s.pc = "verify" /\ ~Serves(s, s.plugin) =>
              s.entry.sum # Absent /\ published[s.plugin][s.entry.version] = s.entry.sum
        /\ s.pc \in {"extract", "read archive"} =>
              cache[s.plugin][s.entry.version].archive = s.entry.sum
        /\ s.pc = "check executable" => s.data = s.entry.sum
        /\ s.pc = "exec" => cache[s.plugin][s.entry.version].exe = s.entry.sum

Executed(s) ==
    /\ s.pc = "exec" /\ ~s.spoilt => cache[s.plugin][s.entry.version].exe # Damaged
    /\ FromLock(s) /\ (s.alone \/ (~Replaced /\ ~s.spoilt)) => s.content = s.entry.sum

(* An archive that was installed is there, or about to be there again;      *)
(* likewise an executable.                                                  *)
AtRelease(s, pc, p, v) == s.pc = pc /\ s.plugin = p /\ s.entry.version = v

ArchiveKept(p, v) ==
    \/ cache[p][v].archive = 1
    \/ \E c \in Commands : AtRelease(commands[c], "rename archive", p, v)

ExecutableKept(p, v) ==
    \/ cache[p][v].exe = 1
    \/ \E c \in Commands : AtRelease(commands[c], "rename executable", p, v)

ReleaseKept(p, v) == ArchiveKept(p, v) /\ ExecutableKept(p, v)

Quiet == faults = 0 /\ ~Replaced

Installs(s) ==
    Quiet /\ s.pc \in InitPc =>
        /\ \A p \in DOMAIN s.made : ReleaseKept(p, s.made[p].version)
        /\ s.pc \in {"extract", "compare", "remove executable", "rename executable"} =>
              ArchiveKept(s.plugin, s.entry.version)

CommandInv(s) ==
    Choice(s) /\ Making(s) /\ Sources(s) /\ Undisturbed(s) /\ Executed(s) /\ Installs(s)

(* Who is alone is the only init. *)
Alone ==
    \A c, d \in Commands :
        Running(c) /\ commands[c].alone /\ d # c => ~Installing(d)

Known(file, p, v) == file \in Offered(p, v) \/ file = Damaged

FilesOffered ==
    /\ \A m \in Modules : AllOffered(EntriesOf(lock[m]))
    /\ \A p \in Plugins, v \in Version :
          Known(cache[p][v].archive, p, v) /\ Known(cache[p][v].exe, p, v)

(* A lock disappears only in the window that WriteLock leaves on Windows.   *)
LocksStay ==
    \A m \in Modules :
        /\ lock[m] # Absent => pinned[m] = lock[m]
        /\ m \in EverLocked /\ lock[m] = Absent =>
              windows /\ (Rewriting(m) \/ faults > 0)
        /\ m \in ready => lock[m] # Unreadable

(* An init that is alone found what the last lock pins.                     *)
Found(s) == s.existing = EntriesOf(pinned[s.module]) \/ LostInWindow(s)

PinsFound ==
    \A c \in Commands : Installing(c) /\ commands[c].alone => Found(commands[c])

(* What a module's lock names is installed. *)
LockServes(m) ==
    \A p \in Required(requires[m]) :
        /\ Matches(lock[m], p, requires[m][p]) /\ lock[m][p].sum # Absent
        /\ ReleaseKept(p, lock[m][p].version)

ReadyServes ==
    Quiet => \A m \in ready : lock[m] \in Locks => LockServes(m)

IInv ==
    /\ \A c \in Commands : CommandInv(commands[c])
    /\ Alone /\ FilesOffered /\ LocksStay /\ PinsFound /\ ReadyServes
-----------------------------------------------------------------------------
(* Types. *)
LEMMA LocksType ==
    \A l : l \in Locks <=> DOMAIN l \subseteq Plugins /\ l \in [DOMAIN l -> Entry]
BY DEF Locks

LEMMA LocksAre ==
    /\ \A l \in Locks : /\ DOMAIN l \subseteq Plugins /\ l # Absent /\ l # Unreadable
                        /\ \A p \in DOMAIN l : l[p] \in Entry
    /\ NoEntries \in Locks /\ DOMAIN NoEntries = {}
    /\ \A l \in Locks \cup {Absent, Unreadable} :
          /\ EntriesOf(l) \in Locks /\ DOMAIN EntriesOf(l) \subseteq Plugins
          /\ \A p \in DOMAIN EntriesOf(l) : EntriesOf(l)[p] \in Entry
<1>1. NoEntries \in Locks /\ DOMAIN NoEntries = {}
    BY LocksType DEF NoEntries
<1>2. Absent \notin Locks /\ Unreadable \notin Locks
    BY AbsentAssumption
<1> QED
    BY <1>1, <1>2, LocksType DEF EntriesOf

LEMMA EntryAre ==
    \A e \in Entry : /\ e.constraint \in Constraints /\ e.version \in Version
                     /\ e.sum \in Build \cup {Absent}
BY DEF Entry

LEMMA BuildIs ==
    /\ Absent \notin Build /\ Damaged \notin Build /\ Absent # Damaged
    /\ Bare \notin Build /\ Bare # Absent
    /\ \A b \in Build : b \in Nat /\ b > 0
    /\ \A b \in Build \cup {Absent} : b # Absent => b \in Build
BY AbsentAssumption, BoundsAssumption DEF Build

(* What a command is follows from where it stands. *)
LEMMA RecordIs ==
    \A s \in InitCommand \cup RunCommand \cup EndedCommand :
        /\ s.pc \in InitPc => s \in InitCommand /\ s.kind = "init"
        /\ s.pc \in RunPc => s \in RunCommand /\ s.kind = "run"
        /\ s.pc \in InitPc \cup RunPc \cup Ended
        /\ s.pc \notin Ended /\ s.kind = "init" <=> s.pc \in InitPc
        /\ s.pc \notin Ended <=> s.pc \in (InitPc \cup RunPc) \ {"started"}
<1>1. \A s \in InitCommand : s.kind = "init" /\ s.pc \in InitPc
    BY DEF InitCommand
<1>2. \A s \in RunCommand : s.kind = "run" /\ s.pc \in RunPc
    BY DEF RunCommand
<1>3. \A s \in EndedCommand : s.pc \in Ended \ {"started"}
    BY DEF EndedCommand
<1> QED
    BY <1>1, <1>2, <1>3 DEF InitPc, RunPc, Ended

LEMMA CommandIs ==
    ASSUME TypeOK, NEW c \in Commands
    PROVE  /\ commands[c].pc \in InitPc => commands[c] \in InitCommand
           /\ commands[c].pc \in RunPc => commands[c] \in RunCommand
           /\ commands[c].pc \in InitPc \cup RunPc \cup Ended
           /\ Running(c) <=> commands[c].pc \in (InitPc \cup RunPc) \ {"started"}
           /\ Installing(c) <=> commands[c].pc \in InitPc
<1>1. commands[c] \in InitCommand \cup RunCommand \cup EndedCommand
    BY DEF TypeOK
<1> QED
    BY <1>1, RecordIs DEF Running, Installing

LEMMA InitIs ==
    \A s \in InitCommand :
        /\ s.kind = "init" /\ s.pc \in InitPc /\ s.module \in Modules
        /\ s.options \subseteq Flags
        /\ s.requires \in Requirements /\ s.existing \in Locks /\ s.todo \subseteq Plugins
        /\ s.plugin \in Plugins \cup {Absent} /\ s.made \in Locks
        /\ s.entry \in Entry \cup {Absent} /\ s.data \in Build \cup {Absent}
        /\ s.alone \in BOOLEAN
BY NamesAssumption DEF InitCommand

LEMMA RunIs ==
    \A s \in RunCommand :
        /\ s.kind = "run" /\ s.pc \in RunPc /\ s.module \in Modules
        /\ s.requires \in Requirements /\ s.plugin \in Plugins
        /\ s.entry \in Entry \cup {Absent} /\ s.data \in Build \cup {Absent}
        /\ s.content \in File /\ s.alone \in BOOLEAN
BY DEF RunCommand

(* A command that others have made not alone is as it was. *)
Same(s, r) ==
    /\ r.pc = s.pc
    /\ s.pc \in InitPc =>
          /\ r.kind = s.kind /\ r.module = s.module /\ r.options = s.options
          /\ r.requires = s.requires /\ r.existing = s.existing /\ r.todo = s.todo
          /\ r.plugin = s.plugin /\ r.made = s.made /\ r.entry = s.entry
          /\ r.data = s.data /\ (r.alone => s.alone)
    /\ s.pc \in RunPc =>
          /\ r.kind = s.kind /\ r.module = s.module /\ r.requires = s.requires
          /\ r.plugin = s.plugin /\ r.entry = s.entry /\ r.data = s.data
          /\ r.from = s.from /\ r.content = s.content /\ (r.alone => s.alone)
          /\ (s.spoilt => r.spoilt)

LEMMA DisturbedIs ==
    ASSUME TypeOK, NEW c \in Commands,
           \/ commands'[c] = commands[c]
           \/ Running(c) /\ commands'[c] = [commands[c] EXCEPT !.alone = FALSE]
           \/ /\ commands[c].pc = "exec"
              /\ commands'[c] = [[commands[c] EXCEPT !.alone = FALSE] EXCEPT !.spoilt = TRUE]
    PROVE  /\ Same(commands[c], commands'[c])
           /\ commands'[c] \in InitCommand \cup RunCommand \cup EndedCommand
<1>1. CASE commands'[c] = commands[c]
    BY <1>1 DEF Same, TypeOK
<1>2. CASE Running(c) /\ commands'[c] = [commands[c] EXCEPT !.alone = FALSE]
    <2>1. commands[c] \in InitCommand \cup RunCommand
        BY <1>2, CommandIs
    <2>2. CASE commands[c] \in InitCommand
        <3>1. commands[c].pc \in InitPc /\ commands[c].pc \notin RunPc
            BY <2>2, InitIs DEF InitPc, RunPc
        <3>2. commands'[c] \in InitCommand /\ ~commands'[c].alone
            BY <1>2, <2>2, ZenonT(60) DEF InitCommand
        <3> QED
            BY <1>2, <2>2, <3>1, <3>2 DEF InitCommand, Same
    <2>3. CASE commands[c] \in RunCommand
        <3>1. commands[c].pc \in RunPc /\ commands[c].pc \notin InitPc
            BY <2>3, RunIs DEF InitPc, RunPc
        <3>2. commands'[c] \in RunCommand /\ ~commands'[c].alone
            BY <1>2, <2>3, ZenonT(60) DEF RunCommand
        <3> QED
            BY <1>2, <2>3, <3>1, <3>2 DEF RunCommand, Same
    <2> QED
        BY <2>1, <2>2, <2>3
<1>3. CASE /\ commands[c].pc = "exec"
           /\ commands'[c] = [[commands[c] EXCEPT !.alone = FALSE] EXCEPT !.spoilt = TRUE]
    <2>1. commands[c] \in RunCommand /\ commands[c].pc \in RunPc /\ commands[c].pc \notin InitPc
        BY <1>3, CommandIs DEF RunPc, InitPc
    <2>2. commands'[c] \in RunCommand /\ ~commands'[c].alone /\ commands'[c].spoilt
        BY <1>3, <2>1, ZenonT(60) DEF RunCommand
    <2> QED
        BY <1>3, <2>1, <2>2 DEF RunCommand, Same
<1> QED
    BY <1>1, <1>2, <1>3

(* What is true of a command stays true while it takes no step. *)
LEMMA OthersHold ==
    ASSUME TypeOK, NEW c \in Commands, NEW s, NEW r,
           s = commands[c], r = commands'[c], CommandInv(s), Same(s, r),
           \A p \in Plugins, v \in Version : Offered(p, v) \subseteq Offered(p, v)',
           Running(c) /\ r.alone => UNCHANGED <<lock, cache, published>>,
           \A p \in Plugins, v \in Version :
               AtRelease(s, "exec", p, v) /\ ~r.spoilt /\ cache'[p][v].exe = Damaged
               => cache[p][v].exe = Damaged,
           Replaced => Replaced',
           Quiet' => Quiet,
           Quiet' => \A p \in Plugins, v \in Version :
               /\ ArchiveKept(p, v) => ArchiveKept(p, v)'
               /\ ExecutableKept(p, v) => ExecutableKept(p, v)'
    PROVE  CommandInv(r)'
<1>1. /\ s.pc \in InitPc => s \in InitCommand
      /\ s.pc \in RunPc => s \in RunCommand
      /\ s.pc \in InitPc \cup RunPc \cup Ended
      /\ Running(c) <=> s.pc \in (InitPc \cup RunPc) \ {"started"}
    BY CommandIs
<1>2. HasEntry(s) => s.pc \in InitPc \cup RunPc
    BY DEF HasEntry, Chosen, FromLock, InitPc, RunPc
<1>3. r.pc = s.pc /\ (HasEntry(s) <=> HasEntry(r)) /\ (FromLock(s) <=> FromLock(r))
    BY DEF Same, HasEntry, FromLock, Chosen, InitPc, RunPc
<1>4. s.pc \in InitPc \cup RunPc =>
          /\ r.plugin = s.plugin /\ r.entry = s.entry /\ r.requires = s.requires
          /\ r.data = s.data /\ r.module = s.module /\ (r.alone => s.alone)
    BY DEF Same
<1>5. HasEntry(s) => s.plugin \in Plugins /\ s.entry \in Entry /\ s.entry.version \in Version
    BY EntryAre DEF CommandInv, Choice
<1>6. s.pc \in Named \cup Holding => HasEntry(s)
    BY DEF HasEntry, Chosen, Named, Holding
<1>7. s.pc \in InitPc => /\ s.made \in Locks /\ s.existing \in Locks
                         /\ s.requires \in Requirements
    BY <1>1, InitIs
<1>8. s.pc \in InitPc => /\ r.made = s.made /\ r.todo = s.todo
                         /\ r.existing = s.existing /\ r.options = s.options
    BY DEF Same
<1>9. /\ FromLock(s) => r.content = s.content
      /\ s.pc \in RunPc /\ s.spoilt => r.spoilt
    BY DEF Same, FromLock, RunPc
<1>10. s.pc \in RunPc => s.pc \notin InitPc
    BY DEF RunPc, InitPc
<1>11. Choice(s) /\ Making(s) /\ Sources(s) /\ Undisturbed(s) /\ Executed(s) /\ Installs(s)
    BY DEF CommandInv
<1>12. FromLock(s) => HasEntry(s)
    BY DEF HasEntry
<1> USE <1>3
<1>13. Choice(r)
    BY <1>2, <1>4, <1>6, <1>11, <1>12 DEF Choice
<1>14. s.pc \in InitPc => \A p : Serves(r, p) <=> Serves(s, p)
    BY <1>4, <1>8 DEF Serves, Matches
<1>15. Making(r)
    <2> SUFFICES ASSUME s.pc \in InitPc
                 PROVE  Making(r)
        BY DEF Making
    <2>1. /\ r.requires = s.requires /\ r.made = s.made /\ r.todo = s.todo
          /\ r.plugin = s.plugin /\ r.existing = s.existing /\ r.entry = s.entry
          /\ \A p : Serves(r, p) <=> Serves(s, p)
        BY <1>4, <1>8, <1>14
    <2>2. InHand(r) = InHand(s)
        BY <2>1 DEF InHand
    <2> QED
        BY <2>1, <2>2, <1>11, ZenonT(60) DEF Making
<1>16. Sources(r)'
    <2>1. s.pc \in InitPc => AllOffered(s.existing)' /\ AllOffered(s.made)'
        <3>1. \A l \in Locks : AllOffered(l) => \A p \in DOMAIN l : l[p].sum \in Offered(p, l[p].version)'
            BY LocksAre, EntryAre DEF AllOffered
        <3>2. \A l \in Locks : AllOffered(l) => AllOffered(l)'
            BY <3>1 DEF AllOffered
        <3> QED
            BY <3>2, <1>7, <1>11 DEF Sources
    <2>2. HasEntry(s) => s.entry.sum \in Offered(s.plugin, s.entry.version)'
        BY <1>5, <1>11 DEF Sources
    <2>3. s.pc \in Holding => s.data \in Offered(s.plugin, s.entry.version)'
        BY <1>5, <1>6, <1>11 DEF Sources
    <2> QED
        BY <2>1, <2>2, <2>3, <1>2, <1>4, <1>6, <1>8 DEF Sources
<1>17. Undisturbed(r)'
    <2> SUFFICES ASSUME r.pc \notin Ended, r.alone
                 PROVE  Undisturbed(r)'
        BY DEF Undisturbed
    <2>1. s.pc \in InitPc \cup RunPc /\ s.alone /\ UNCHANGED <<lock, cache, published>>
        BY <1>1, <1>4 DEF Ended
    <2>2. Undisturbed(r)
        <3>1. /\ r.plugin = s.plugin /\ r.entry = s.entry /\ r.data = s.data
              /\ r.module = s.module
            BY <1>4, <2>1
        <3>2. s.pc \in InitPc => /\ r.existing = s.existing
                                 /\ \A p : Serves(r, p) <=> Serves(s, p)
            BY <1>8, <1>14
        <3>3. s.pc = "verify" => s.pc \in InitPc
            BY DEF InitPc
        <3> QED
            BY <3>1, <3>2, <3>3, <2>1, <1>11, ZenonT(60) DEF Undisturbed
    <2> QED
        BY <2>1, <2>2 DEF Undisturbed
<1>18. Executed(r)'
    <2>1. r.pc = "exec" /\ ~r.spoilt => cache'[r.plugin][r.entry.version].exe # Damaged
        <3>1. s.pc = "exec" => HasEntry(s) /\ Running(c) /\ s.pc \in RunPc
            BY <1>1 DEF HasEntry, Chosen, RunPc
        <3> QED
            BY <3>1, <1>4, <1>5, <1>9, <1>11 DEF Executed, AtRelease
    <2>2. FromLock(r) /\ (r.alone \/ (~Replaced' /\ ~r.spoilt)) => r.content = r.entry.sum
        <3>1. FromLock(s) => s.pc \in RunPc
            BY DEF FromLock, RunPc
        <3> QED
            BY <3>1, <1>2, <1>4, <1>9, <1>11, <1>12 DEF Executed
    <2> QED
        BY <2>1, <2>2 DEF Executed
<1>19. Installs(r)'
    <2> SUFFICES ASSUME Quiet', s.pc \in InitPc
                 PROVE  Installs(r)'
        BY DEF Installs
    <2>1. \A p \in DOMAIN s.made : p \in Plugins /\ s.made[p].version \in Version
        BY <1>7, LocksAre, EntryAre
    <2>2. \A p \in DOMAIN s.made : ReleaseKept(p, s.made[p].version)'
        BY <1>11, <2>1 DEF Installs, ReleaseKept
    <2>3. s.pc \in {"extract", "compare", "remove executable", "rename executable"} =>
              ArchiveKept(s.plugin, s.entry.version)'
        BY <1>5, <1>11 DEF Installs, HasEntry, Chosen
    <2> QED
        BY <2>2, <2>3, <1>4, <1>8 DEF Installs
<1> QED
    BY <1>13, <1>15, <1>16, <1>17, <1>18, <1>19 DEF CommandInv, Choice, Making

LEMMA CommandsHold ==
    ASSUME \A c \in Commands : \A r : r = commands'[c] => CommandInv(r)'
    PROVE  (\A c \in Commands : CommandInv(commands[c]))'
BY DEF CommandInv, Choice, Making, Sources, Undisturbed, Executed, Installs

LEMMA CommandsOnes ==
    ASSUME IInv
    PROVE  \A c \in Commands : \A s : s = commands[c] => CommandInv(s)
BY DEF IInv

(* What is installed, or about to be, stays so while files, releases and    *)
(* those that rename files stay as they are.                                *)
LEMMA KeptByOthers ==
    ASSUME NEW c \in Commands,
           \A d \in Commands \ {c} : Same(commands[d], commands'[d]),
           commands[c].pc \notin {"rename archive", "rename executable"},
           UNCHANGED cache,
           NEW p \in Plugins, NEW v \in Version
    PROVE  /\ ArchiveKept(p, v) => ArchiveKept(p, v)'
           /\ ExecutableKept(p, v) => ExecutableKept(p, v)'
BY ZenonT(60) DEF Same, ArchiveKept, ExecutableKept, AtRelease, InitPc

(* What an init found is what the last lock pins as long as neither changes. *)
Finds(s, r) == r.existing = s.existing /\ r.module = s.module /\ (r.alone => s.alone)

LEMMA PinsStay ==
    ASSUME IInv, UNCHANGED <<windows, pinned>>, faults > 0 => faults' > 0,
           \A c \in Commands : Installing(c)' /\ commands'[c].alone =>
               Installing(c) /\ Finds(commands[c], commands'[c])
    PROVE  PinsFound'
<1> SUFFICES ASSUME NEW c \in Commands, Installing(c)', commands'[c].alone
             PROVE  Found(commands[c])'
    BY DEF PinsFound
<1>1. Installing(c) /\ Finds(commands[c], commands'[c]) /\ Found(commands[c])
    BY DEF IInv, PinsFound, Finds
<1> QED
    BY <1>1 DEF Finds, Found, LostInWindow

LEMMA SameFinds ==
    ASSUME TypeOK, NEW c \in Commands, Same(commands[c], commands'[c])
    PROVE  Installing(c)' => Installing(c) /\ Finds(commands[c], commands'[c])
<1> SUFFICES ASSUME Installing(c)'
             PROVE  Installing(c) /\ Finds(commands[c], commands'[c])
    OBVIOUS
<1>1. commands'[c].pc = commands[c].pc /\ commands[c].pc \in InitPc \cup RunPc
    BY CommandIs DEF Same, Installing, Running
<1>2. Running(c) /\ commands'[c].kind = "init"
    BY <1>1 DEF Installing, Running
<1>3. commands[c].pc \in InitPc
    BY <1>1, <1>2, CommandIs, RunIs DEF Same
<1> QED
    BY <1>2, <1>3 DEF Same, Finds, Installing

(* A step of one command that changes only its own record. *)
LEMMA LocalStep ==
    ASSUME TypeOK, IInv, NEW c \in Commands,
           NEW r \in InitCommand \cup RunCommand \cup EndedCommand,
           Set(c, r), KeepFiles, KeepWorld, UNCHANGED <<pinned, ready>>,
           commands[c].pc \notin {"rename archive", "rename executable", "rename lock"},
           r.pc \in (InitPc \cup RunPc) \ {"started"} =>
               /\ Running(c) /\ (r.alone => commands[c].alone)
               /\ r.pc \in InitPc => Installing(c) /\ Finds(commands[c], r),
           CommandInv(r)
    PROVE  TypeOK' /\ IInv'
<1>1. TypeOK'
    BY DEF TypeOK, EverLocked, Set, KeepFiles, KeepWorld
<1>2. commands'[c] = r /\ \A d \in Commands \ {c} : commands'[d] = commands[d]
    BY DEF TypeOK, Set
<1>3. \A d \in Commands \ {c} : Same(commands[d], commands'[d])
    BY <1>2, DisturbedIs
<1>4. UNCHANGED <<windows, requires, lock, cache, published, begun, events, faults,
                  pinned, ready>>
    BY DEF KeepFiles, KeepWorld
<1>5. \A p \in Plugins, v \in Version :
          /\ ArchiveKept(p, v) => ArchiveKept(p, v)'
          /\ ExecutableKept(p, v) => ExecutableKept(p, v)'
    BY <1>3, <1>4, KeptByOthers
<1>6. /\ \A p, v : Offered(p, v)' = Offered(p, v)
      /\ Replaced' = Replaced /\ Quiet' = Quiet
    BY <1>4 DEF Offered, Replaced, Quiet
<1>7. CommandInv(r)'
    <2>1. Choice(r)' /\ Making(r)'
        BY DEF CommandInv, Choice, Making
    <2>2. Sources(r)'
        BY <1>6 DEF CommandInv, Sources, AllOffered
    <2>3. Undisturbed(r)' /\ Executed(r)'
        BY <1>4, <1>6 DEF CommandInv, Undisturbed, Executed
    <2>4. Installs(r)'
        <3> SUFFICES ASSUME Quiet, r.pc \in InitPc
                     PROVE  Installs(r)'
            BY <1>6 DEF Installs
        <3>1. r \in InitCommand
            <4>1. r \in RunCommand => r.pc \in RunPc
                BY RunIs
            <4>2. r \in EndedCommand => r.pc \in Ended
                BY DEF EndedCommand
            <4> QED
                BY <4>1, <4>2 DEF InitPc, RunPc, Ended
        <3>2. \A p \in DOMAIN r.made : p \in Plugins /\ r.made[p].version \in Version
            BY <3>1, InitIs, LocksAre, EntryAre
        <3>3. r.pc \in Chosen => r.plugin \in Plugins /\ r.entry.version \in Version
            BY EntryAre DEF CommandInv, Choice, HasEntry
        <3> QED
            BY <3>2, <3>3, <1>5 DEF CommandInv, Installs, ReleaseKept, Chosen
    <2> QED
        BY <2>1, <2>2, <2>3, <2>4 DEF CommandInv
<1>8. \A d \in Commands : \A q : q = commands'[d] => CommandInv(q)'
    <2> SUFFICES ASSUME NEW d \in Commands \ {c}, NEW q, q = commands'[d]
                 PROVE  CommandInv(q)'
        BY <1>2, <1>7
    <2>1. PICK s : s = commands[d]
        OBVIOUS
    <2>2. CommandInv(s) /\ Same(s, q)
        BY <1>3, <2>1, CommandsOnes
    <2> QED
        BY <2>1, <2>2, <1>4, <1>5, <1>6, OthersHold
<1>9. Alone'
    <2>1. \A d \in Commands : Installing(d)' => Installing(d)
        <3>1. \A d \in Commands \ {c} : Installing(d)' => Installing(d)
            BY <1>2 DEF Installing, Running
        <3>2. Installing(c)' => r.pc \in InitPc
            BY <1>2, RecordIs DEF Installing, Running
        <3> QED
            BY <3>1, <3>2 DEF InitPc, RunPc
    <2>2. \A d \in Commands : Running(d)' /\ commands'[d].alone
              => Running(d) /\ commands[d].alone
        <3>1. \A d \in Commands \ {c} : Running(d)' => Running(d)
            BY <1>2 DEF Running
        <3>2. Running(c)' => r.pc \in (InitPc \cup RunPc) \ {"started"}
            BY <1>2, RecordIs DEF Running
        <3> QED
            BY <3>1, <3>2, <1>2
    <2> QED
        BY <2>1, <2>2 DEF IInv, Alone
<1>10. FilesOffered'
    BY <1>4, <1>6 DEF IInv, FilesOffered, Known, AllOffered
<1>11. LocksStay'
    <2>1. \A m : Rewriting(m) => Rewriting(m)'
        BY <1>2 DEF Rewriting
    <2> QED
        BY <2>1, <1>4 DEF IInv, LocksStay, EverLocked
<1>pins. PinsFound'
    <2>1. \A d \in Commands \ {c} : Installing(d)' /\ commands'[d].alone =>
              Installing(d) /\ Finds(commands[d], commands'[d])
        BY <1>3, SameFinds
    <2>2. Installing(c)' => Installing(c) /\ Finds(commands[c], commands'[c])
        <3>1. Installing(c)' => r.pc \in InitPc
            BY <1>2, RecordIs DEF Installing, Running
        <3>2. r.pc \in InitPc => r.pc \in (InitPc \cup RunPc) \ {"started"}
            BY DEF InitPc
        <3> QED
            BY <1>2, <3>1, <3>2
    <2> QED
        BY <1>4, <2>1, <2>2, PinsStay
<1>12. ReadyServes'
    <2> SUFFICES ASSUME Quiet, NEW m \in ready, lock[m] \in Locks
                 PROVE  LockServes(m)'
        BY <1>4, <1>6 DEF ReadyServes
    <2>1. LockServes(m) /\ m \in Modules /\ requires[m] \in Requirements
        BY DEF IInv, ReadyServes, TypeOK, EverLocked
    <2>2. lock[m] \in Locks
        BY <2>1 DEF TypeOK
    <2> QED
        BY <2>1, <2>2, <1>4, <1>5, LocksAre, EntryAre
           DEF LockServes, ReleaseKept, Matches, EntriesOf, Required
<1> QED
    BY <1>1, <1>8, <1>9, <1>10, <1>11, <1>12, <1>pins, CommandsHold DEF IInv

(* Where nothing was replaced, there is one archive for each release. *)
LEMMA OneArchive ==
    ASSUME TypeOK, ~Replaced, NEW p \in Plugins, NEW v \in Version,
           NEW build \in Offered(p, v), build # Absent
    PROVE  build = 1
<1>1. build \in Build /\ published[p][v] \in Build /\ build <= published[p][v]
    BY DEF Offered
<1>2. published[p][v] = 1
    BY <1>1, BuildIs DEF Replaced
<1> QED
    BY <1>1, <1>2, BuildIs

-----------------------------------------------------------------------------
(* The steps that change only the record of their command. *)
LEMMA EndedStep ==
    ASSUME TypeOK, IInv, NEW c \in Commands, NEW pc \in Ended \ {"started"},
           End(c, pc), KeepFiles, KeepWorld, UNCHANGED <<pinned, ready>>,
           Running(c), commands[c].pc \notin {"rename archive", "rename executable", "rename lock"}
    PROVE  TypeOK' /\ IInv'
<1>1. PICK r : r = [pc |-> pc]
    OBVIOUS
<1>2. r \in EndedCommand /\ r.pc = pc
    BY <1>1 DEF EndedCommand
<1>3. r.pc \notin InitPc \cup RunPc \cup Chosen \cup Named \cup Holding /\ r.pc # "started"
    BY <1>2 DEF Ended, InitPc, RunPc, Chosen, Named, Holding
<1>4. CommandInv(r)
    BY <1>2, <1>3 DEF CommandInv, Choice, Making, Sources, Undisturbed, Executed,
                      Installs, HasEntry, FromLock, InitPc, RunPc
<1>5. Set(c, r)
    BY <1>1 DEF End
<1> QED
    BY <1>2, <1>3, <1>4, <1>5, LocalStep

(* Moves of an init that leave the rest of its record alone. *)
LEMMA InitMoves ==
    ASSUME TypeOK, IInv, NEW c \in Commands, NEW s, s = commands[c],
           s.pc \in Chosen \cap InitPc, s.pc \notin {"rename archive", "rename executable"},
           NEW pc \in {"extract", "remove archive", "remove executable"},
           Goto(c, pc), KeepFiles, KeepWorld, UNCHANGED <<pinned, ready>>,
           s.entry.sum # Absent,
           pc = "extract" => cache[s.plugin][s.entry.version].archive = s.entry.sum,
           pc = "remove executable" => s.pc = "compare"
    PROVE  TypeOK' /\ IInv'
<1>1. PICK r : r = [s EXCEPT !.pc = pc]
    OBVIOUS
<1>2. /\ s \in InitCommand /\ Installing(c) /\ Running(c)
      /\ Choice(s) /\ Making(s) /\ Sources(s) /\ Undisturbed(s) /\ Installs(s)
    BY CommandIs, CommandsOnes DEF CommandInv, InitPc
<1>pc. pc \in InitPc
    BY DEF InitPc
<1>3. /\ r \in InitCommand /\ r.pc = pc /\ r.kind = s.kind /\ r.module = s.module
      /\ r.options = s.options /\ r.requires = s.requires /\ r.existing = s.existing
      /\ r.todo = s.todo /\ r.plugin = s.plugin /\ r.made = s.made
      /\ r.entry = s.entry /\ r.data = s.data /\ r.alone = s.alone
    BY <1>1, <1>2, <1>pc DEF InitCommand
<1>4. /\ Set(c, r) /\ HasEntry(s) /\ HasEntry(r) /\ ~FromLock(r) /\ r.pc \in Chosen
      /\ r.pc \in InitPc /\ r.pc \notin Ended /\ s.pc \notin Ended
      /\ r.pc # "rename lock"
    BY <1>1, <1>3 DEF Goto, Set, HasEntry, FromLock, Chosen, InitPc, Ended
<1>5. Choice(r)
    BY <1>2, <1>3, <1>4 DEF Choice, Holding
<1>6. Making(r)
    <2>1. \A p : Serves(r, p) <=> Serves(s, p)
        BY <1>3 DEF Serves, Matches
    <2>2. s.pc \in Chosen /\ s.pc \in InitPc
        OBVIOUS
    <2>3. InHand(r) = InHand(s)
        BY <1>3, <1>4, <2>2 DEF InHand
    <2> QED
        BY <1>2, <1>3, <1>4, <2>1, <2>2, <2>3, ZenonT(60) DEF Making
<1>7. Sources(r)
    BY <1>2, <1>3, <1>4 DEF Sources, Holding
<1>8. Undisturbed(r)
    <2>1. s.pc # "rename lock" /\ r.pc # "rename lock"
        BY <1>3 DEF Chosen
    <2> QED
        BY <1>2, <1>3, <1>4, <2>1 DEF Undisturbed
<1>9. Executed(r)
    BY <1>3, <1>4 DEF Executed
<1>10. Installs(r)
    <2> SUFFICES ASSUME Quiet
                 PROVE  Installs(r)
        BY DEF Installs
    <2>1. pc = "extract" => ArchiveKept(s.plugin, s.entry.version)
        <3>1. s.entry.sum = 1
            BY <1>2, <1>4, EntryAre, OneArchive DEF Sources, Choice, Quiet
        <3> QED
            BY <3>1 DEF ArchiveKept
    <2> QED
        BY <2>1, <1>2, <1>3, <1>4 DEF Installs
<1>11. CommandInv(r)
    BY <1>5, <1>6, <1>7, <1>8, <1>9, <1>10 DEF CommandInv
<1> QED
    BY <1>2, <1>3, <1>4, <1>11, LocalStep DEF Chosen, Finds

LEMMA VerifyArchiveStep ==
    ASSUME TypeOK, IInv, NEW c \in Commands, VerifyArchive(c)
    PROVE  TypeOK' /\ IInv'
BY InitMoves DEF VerifyArchive, ArchiveVerified, CacheOf, Chosen, InitPc

LEMMA DownloadStep ==
    ASSUME TypeOK, IInv, NEW c \in Commands, Download(c)
    PROVE  TypeOK' /\ IInv'
BY InitMoves DEF Download, Chosen, InitPc

LEMMA InitFailsStep ==
    ASSUME TypeOK, IInv, NEW c \in Commands,
           InstallFails(c) \/ \E p \in Plugins : ResolveFails(c, p)
    PROVE  TypeOK' /\ IInv'
<1>1. Running(c) /\ commands[c].pc \notin {"rename archive", "rename executable", "rename lock"}
    BY CommandIs DEF InstallFails, ResolveFails, InitPc
<1>2. /\ End(c, "failed") /\ KeepFiles /\ KeepWorld /\ UNCHANGED <<pinned, ready>>
    BY DEF InstallFails, ResolveFails, Fail
<1> QED
    BY <1>1, <1>2, EndedStep DEF Ended

(* An init picks an entry: what is locked, or a release. *)
LEMMA Picks ==
    ASSUME TypeOK, IInv, NEW c \in Commands, NEW s, s = commands[c], s.pc = "resolve",
           NEW p \in s.todo, NEW entry \in Entry, Meets(entry, s.requires[p]),
           entry.sum \in Offered(p, entry.version),
           IF Serves(s, p) THEN entry = s.existing[p]
           ELSE entry.sum # Absent /\ published[p][entry.version] = entry.sum,
           Set(c, Resolved(s, p, entry)), KeepFiles, KeepWorld, UNCHANGED <<pinned, ready>>
    PROVE  TypeOK' /\ IInv'
<1>1. PICK r : r = Resolved(s, p, entry)
    OBVIOUS
<1>2. /\ s \in InitCommand /\ s.pc \in InitPc /\ Installing(c) /\ Running(c)
      /\ Choice(s) /\ Making(s) /\ Sources(s) /\ Undisturbed(s) /\ Installs(s)
    BY CommandIs, CommandsOnes DEF CommandInv, InitPc
<1>3. p \in Plugins
    BY <1>2, InitIs
<1>4. /\ r \in InitCommand /\ r.pc = "verify" /\ r.kind = s.kind /\ r.module = s.module
      /\ r.options = s.options /\ r.requires = s.requires /\ r.existing = s.existing
      /\ r.todo = s.todo \ {p} /\ r.plugin = p /\ r.made = s.made
      /\ r.entry = entry /\ r.data = s.data /\ r.alone = s.alone
    BY <1>1, <1>2, <1>3 DEF InitCommand, InitPc, Resolved
<1>5. /\ Set(c, r) /\ HasEntry(r) /\ ~FromLock(r) /\ r.pc \in Chosen /\ s.pc \notin Chosen
      /\ r.pc \in InitPc /\ r.pc \notin Ended /\ s.pc \notin Ended
      /\ r.pc \notin Named \cup Holding
    BY <1>1, <1>4 DEF Goto, Set, HasEntry, FromLock, Chosen, InitPc, Ended, Named, Holding
<1>6. \A q : Serves(r, q) <=> Serves(s, q)
    BY <1>4 DEF Serves, Matches
<1>7. Choice(r)
    BY <1>3, <1>4, <1>5 DEF Choice
<1>8. Making(r)
    <2>1. InHand(s) = {} /\ InHand(r) = {p}
        BY <1>4, <1>5 DEF InHand
    <2>2. s.todo = (s.todo \ {p}) \cup {p}
        OBVIOUS
    <2>3. Required(r.requires) = DOMAIN r.made \cup r.todo \cup InHand(r)
        BY <1>2, <1>4, <2>1, <2>2 DEF Making
    <2> QED
        BY <1>2, <1>4, <1>5, <1>6, <2>3 DEF Making
<1>9. Sources(r)
    BY <1>2, <1>4, <1>5 DEF Sources
<1>10. Undisturbed(r)
    BY <1>2, <1>4, <1>5, <1>6 DEF Undisturbed
<1>11. Executed(r) /\ Installs(r)
    BY <1>2, <1>4, <1>5 DEF Executed, Installs
<1>12. CommandInv(r)
    BY <1>7, <1>8, <1>9, <1>10, <1>11 DEF CommandInv
<1> QED
    BY <1>2, <1>4, <1>5, <1>12, LocalStep DEF Finds

LEMMA ResolveLockedStep ==
    ASSUME TypeOK, IInv, NEW c \in Commands, NEW p \in Plugins, ResolveLocked(c, p)
    PROVE  TypeOK' /\ IInv'
<1>1. PICK s : s = commands[c]
    OBVIOUS
<1>2. PICK entry : entry = s.existing[p]
    OBVIOUS
<1>3. /\ s \in InitCommand /\ s.pc \in InitPc /\ s.pc = "resolve" /\ Sources(s)
    BY <1>1, CommandIs, CommandsOnes DEF CommandInv, InitPc, ResolveLocked
<1>4. s.existing \in Locks /\ s.existing # Absent /\ s.existing # Unreadable
    BY <1>3, InitIs, LocksAre
<1>5. Serves(s, p) /\ p \in s.todo
    BY <1>1 DEF ResolveLocked, Kept, Serves, First
<1>6. p \in DOMAIN s.existing /\ Meets(entry, s.requires[p])
    BY <1>2, <1>4, <1>5 DEF Serves, Matches, Meets, EntriesOf
<1>7. entry \in Entry /\ entry.sum \in Offered(p, entry.version)
    BY <1>2, <1>3, <1>4, <1>6, LocksAre DEF Sources, AllOffered
<1> QED
    BY <1>1, <1>2, <1>3, <1>5, <1>6, <1>7, Picks DEF ResolveLocked

LEMMA ResolveReleaseStep ==
    ASSUME TypeOK, IInv, NEW c \in Commands, NEW p \in Plugins, NEW v \in Version,
           ResolveRelease(c, p, v)
    PROVE  TypeOK' /\ IInv'
<1>1. PICK s : s = commands[c]
    OBVIOUS
<1>2. PICK entry : entry = Release(p, s.requires[p], v)
    OBVIOUS
<1>3. /\ s \in InitCommand /\ s.pc \in InitPc /\ s.pc = "resolve" /\ Making(s)
    BY <1>1, CommandIs, CommandsOnes DEF CommandInv, InitPc, ResolveRelease
<1>4. ~Serves(s, p) /\ p \in s.todo
    BY <1>1 DEF ResolveRelease, Kept, Serves, First
<1>5. p \in Plugins /\ s.requires[p] \in Constraints
    BY <1>3, <1>4, InitIs DEF Making, Required, Requirements
<1>6. v \in s.requires[p] /\ published[p][v] \in Build /\ published[p][v] # Absent
    BY <1>1, BuildIs DEF ResolveRelease, Latest, Admitted, TypeOK
<1>7. /\ entry.constraint = s.requires[p] /\ entry.version = v /\ entry.sum = published[p][v]
      /\ entry \in Entry
    BY <1>2, <1>5, <1>6 DEF Release, Entry
<1>8. entry.sum \in Offered(p, entry.version)
    BY <1>6, <1>7, BuildIs DEF Offered
<1> QED
    BY <1>1, <1>2, <1>3, <1>4, <1>6, <1>7, <1>8, Picks DEF ResolveRelease, Meets

LEMMA ExtractStep ==
    ASSUME TypeOK, IInv, NEW c \in Commands, Extract(c)
    PROVE  TypeOK' /\ IInv'
<1>1. PICK s : s = commands[c]
    OBVIOUS
<1>2. PICK data : data = cache[s.plugin][s.entry.version].archive
    OBVIOUS
<1>3. /\ s \in InitCommand /\ s.pc = "extract" /\ Running(c) /\ Installing(c)
      /\ s.pc \in InitPc /\ s.pc \in Chosen
      /\ Choice(s) /\ Making(s) /\ Sources(s) /\ Undisturbed(s) /\ Installs(s)
    BY <1>1, CommandIs, CommandsOnes DEF CommandInv, InitPc, Extract, Chosen
<1>4. KeepFiles /\ KeepWorld /\ UNCHANGED <<pinned, ready>>
    BY DEF Extract
<1>5. CASE data \notin Build
    <2>1. End(c, "failed")
        BY <1>1, <1>2, <1>5 DEF Extract, CacheOf, Fail
    <2> QED
        BY <1>1, <1>3, <1>4, <2>1, EndedStep DEF Ended
<1>6. CASE data \in Build
    <2>1. PICK r : r = [s EXCEPT !.data = data, !.pc = "compare"]
        OBVIOUS
    <2>2. Set(c, r)
        BY <1>1, <1>2, <1>6, <2>1 DEF Extract, CacheOf
    <2>3. /\ r \in InitCommand /\ r.pc = "compare" /\ r.kind = s.kind /\ r.module = s.module
          /\ r.options = s.options /\ r.requires = s.requires /\ r.existing = s.existing
          /\ r.todo = s.todo /\ r.plugin = s.plugin /\ r.made = s.made
          /\ r.entry = s.entry /\ r.data = data /\ r.alone = s.alone
        BY <2>1, <1>3, <1>6 DEF InitCommand, InitPc
    <2>4. /\ HasEntry(r) /\ HasEntry(s) /\ ~FromLock(r) /\ r.pc \in Chosen
          /\ r.pc \in InitPc /\ r.pc \notin Ended /\ s.pc \notin Ended
          /\ s.pc \in Named
        BY <1>3, <2>3 DEF HasEntry, FromLock, Chosen, InitPc, Ended, Named
    <2>5. /\ \A q : Serves(r, q) <=> Serves(s, q)
          /\ InHand(r) = InHand(s)
        BY <1>3, <2>3, <2>4 DEF Serves, Matches, InHand
    <2>6. Choice(r)
        BY <1>3, <1>6, <2>3, <2>4 DEF Choice
    <2>7. Making(r)
        BY <1>3, <2>3, <2>4, <2>5 DEF Making
    <2>8. Sources(r)
        <3>1. s.plugin \in Plugins /\ s.entry.version \in Version
            BY <1>3, <2>4, EntryAre DEF Choice
        <3>2. data \in Offered(s.plugin, s.entry.version)
            BY <1>2, <1>6, <3>1, BuildIs DEF IInv, FilesOffered, Known
        <3> QED
            BY <1>3, <2>3, <2>4, <3>2 DEF Sources
    <2>9. Undisturbed(r)
        BY <1>3, <2>3, <2>4, <2>5 DEF Undisturbed
    <2>10. Executed(r) /\ Installs(r)
        BY <1>3, <2>3, <2>4 DEF Executed, Installs
    <2>11. CommandInv(r)
        BY <2>6, <2>7, <2>8, <2>9, <2>10 DEF CommandInv
    <2> QED
        BY <1>1, <1>3, <1>4, <2>2, <2>3, <2>4, <2>11, LocalStep DEF Finds
<1> QED
    BY <1>5, <1>6

(* What an init has once the plugin in hand is installed. *)
LEMMA AddIs ==
    \A l \in Locks, p \in Plugins, e \in Entry :
           /\ Add(l, p, e) \in Locks
           /\ DOMAIN Add(l, p, e) = DOMAIN l \cup {p}
           /\ Add(l, p, e)[p] = e
           /\ \A q \in DOMAIN l \ {p} : Add(l, p, e)[q] = l[q]
<1> TAKE l \in Locks, p \in Plugins, e \in Entry
<1>1. DOMAIN l \subseteq Plugins /\ \A q \in DOMAIN l : l[q] \in Entry
    BY LocksAre
<1>2. /\ DOMAIN Add(l, p, e) = DOMAIN l \cup {p}
      /\ \A q \in DOMAIN l \cup {p} :
            Add(l, p, e)[q] = IF q = p THEN e ELSE l[q]
    BY DEF Add
<1>3. Add(l, p, e) \in [DOMAIN l \cup {p} -> Entry]
    BY <1>1 DEF Add
<1> QED
    BY <1>1, <1>2, <1>3, LocksType

LEMMA InstalledIs ==
    ASSUME TypeOK, NEW s \in InitCommand, NEW r, r = Installed(s),
           s.pc \in {"compare", "rename executable"},
           Choice(s), Making(s), Sources(s), Undisturbed(s), Installs(s),
           Quiet => ExecutableKept(s.plugin, s.entry.version)
    PROVE  /\ r \in InitCommand /\ r.pc = "resolve" /\ Finds(s, r)
           /\ CommandInv(r)
<1>1. /\ s.pc \in Chosen /\ s.pc \in InitPc /\ s.pc \in Named /\ HasEntry(s)
      /\ s.pc \notin Ended /\ s.pc # "rename lock"
    BY DEF Chosen, InitPc, Named, Ended, HasEntry
<1>2. s.plugin \in Plugins /\ s.entry \in Entry /\ s.made \in Locks
    BY <1>1, InitIs DEF Choice
<1>3. PICK l \in Locks, x \in Plugins, e \in Entry :
          l = s.made /\ x = s.plugin /\ e = s.entry
    BY <1>2
<1>add. /\ Add(l, x, e) \in Locks
        /\ DOMAIN Add(l, x, e) = DOMAIN l \cup {x}
        /\ Add(l, x, e)[x] = e
        /\ \A q \in DOMAIN l \ {x} : Add(l, x, e)[q] = l[q]
    BY AddIs
<1>made. PICK made : made = Add(l, x, e)
    OBVIOUS
<1>4. /\ made \in Locks /\ DOMAIN made = DOMAIN s.made \cup {s.plugin}
      /\ made[s.plugin] = s.entry
      /\ \A q \in DOMAIN s.made \ {s.plugin} : made[q] = s.made[q]
    BY <1>3, <1>add, <1>made, Zenon
<1>5. /\ r \in InitCommand /\ r.pc = "resolve" /\ r.kind = s.kind /\ r.module = s.module
      /\ r.options = s.options /\ r.requires = s.requires /\ r.existing = s.existing
      /\ r.todo = s.todo /\ r.plugin = Absent /\ r.made = made
      /\ r.entry = Absent /\ r.data = Absent /\ r.alone = s.alone
    BY <1>3, <1>made, <1>4 DEF InitCommand, InitPc, Installed
<1>6. /\ ~HasEntry(r) /\ ~FromLock(r) /\ r.pc \notin Chosen \cup Named \cup Holding
      /\ r.pc \in InitPc /\ r.pc \notin Ended
    BY <1>5 DEF HasEntry, FromLock, Chosen, Named, Holding, InitPc, Ended
<1>7. \A q : Serves(r, q) <=> Serves(s, q)
    BY <1>5 DEF Serves, Matches
<1>8. Choice(r)
    BY <1>6 DEF Choice
<1>9. Making(r)
    <2>1. InHand(r) = {} /\ InHand(s) = {s.plugin}
        BY <1>1, <1>6 DEF InHand
    <2>2. Required(r.requires) = DOMAIN r.made \cup r.todo \cup InHand(r)
        BY <1>1, <1>4, <1>5, <2>1 DEF Making
    <2>3. \A p \in DOMAIN r.made :
              /\ Meets(r.made[p], r.requires[p]) /\ r.made[p].sum # Absent
              /\ Serves(r, p) => r.made[p] = r.existing[p]
        <3>1. \A p \in DOMAIN s.made :
                  /\ Meets(s.made[p], s.requires[p]) /\ s.made[p].sum # Absent
                  /\ Serves(s, p) => s.made[p] = s.existing[p]
            BY <1>1 DEF Making
        <3>2. /\ Meets(s.entry, s.requires[s.plugin]) /\ s.entry.sum # Absent
              /\ Serves(s, s.plugin) => s.entry = s.existing[s.plugin]
            BY <1>1 DEF Making, Choice
        <3> QED
            <4> SUFFICES ASSUME NEW p \in DOMAIN made
                         PROVE  /\ Meets(made[p], s.requires[p]) /\ made[p].sum # Absent
                                /\ Serves(s, p) => made[p] = s.existing[p]
                BY <1>5, <1>7
            <4>1. CASE p = s.plugin
                BY <4>1, <1>4, <3>2
            <4>2. CASE p \in DOMAIN s.made \ {s.plugin}
                BY <4>2, <1>4, <3>1
            <4> QED
                BY <4>1, <4>2, <1>4
    <2> QED
        BY <1>5, <1>6, <2>2, <2>3 DEF Making
<1>10. Sources(r)
    <2>1. AllOffered(s.existing) /\ AllOffered(s.made)
          /\ s.entry.sum \in Offered(s.plugin, s.entry.version)
        BY <1>1 DEF Sources
    <2>2. AllOffered(made)
        BY <1>4, <2>1 DEF AllOffered
    <2> QED
        BY <1>5, <1>6, <2>1, <2>2 DEF Sources
<1>11. Undisturbed(r)
    BY <1>1, <1>5, <1>6 DEF Undisturbed
<1>12. Executed(r)
    BY <1>5, <1>6 DEF Executed
<1>13. Installs(r)
    <2> SUFFICES ASSUME Quiet
                 PROVE  Installs(r)
        BY DEF Installs
    <2>1. /\ \A p \in DOMAIN s.made : ReleaseKept(p, s.made[p].version)
          /\ ReleaseKept(s.plugin, s.entry.version)
        BY <1>1 DEF Installs, ReleaseKept
    <2>2. \A p \in DOMAIN made : ReleaseKept(p, made[p].version)
        BY <1>4, <2>1
    <2> QED
        BY <1>5, <2>2 DEF Installs
<1> QED
    BY <1>5, <1>8, <1>9, <1>10, <1>11, <1>12, <1>13 DEF CommandInv, Finds

LEMMA CompareExecutableStep ==
    ASSUME TypeOK, IInv, NEW c \in Commands, CompareExecutable(c)
    PROVE  TypeOK' /\ IInv'
<1>1. PICK s : s = commands[c]
    OBVIOUS
<1>2. /\ s \in InitCommand /\ s.pc = "compare" /\ Running(c) /\ Installing(c)
      /\ s.pc \in InitPc /\ s.pc \in Chosen
      /\ Choice(s) /\ Making(s) /\ Sources(s) /\ Undisturbed(s) /\ Installs(s)
    BY <1>1, CommandIs, CommandsOnes DEF CommandInv, InitPc, CompareExecutable, Chosen
<1>3. KeepFiles /\ KeepWorld /\ UNCHANGED <<pinned, ready>>
    BY DEF CompareExecutable
<1>4. s.entry.sum # Absent /\ s.data \in Build /\ s.plugin \in Plugins /\ s.entry \in Entry
    BY <1>2 DEF Choice, HasEntry, Named, Holding
<1>5. CASE SameExecutable(c)
    <2>1. PICK r : r = Installed(s)
        OBVIOUS
    <2>2. Set(c, r)
        BY <1>1, <1>5, <2>1 DEF CompareExecutable
    <2>3. Quiet => ExecutableKept(s.plugin, s.entry.version)
        <3>1. s.data \in Offered(s.plugin, s.entry.version) /\ s.data # Absent
            BY <1>2, <1>4, BuildIs DEF Sources, Holding
        <3>2. Quiet => s.data = 1
            BY <1>4, <3>1, EntryAre, OneArchive DEF Quiet
        <3> QED
            BY <1>1, <1>5, <3>2 DEF SameExecutable, CacheOf, ExecutableKept
    <2>4. /\ r \in InitCommand /\ r.pc = "resolve" /\ Finds(s, r)
          /\ CommandInv(r)
        BY <1>2, <2>1, <2>3, InstalledIs
    <2> QED
        BY <1>1, <1>2, <1>3, <2>2, <2>4, LocalStep DEF Finds
<1>6. CASE ~SameExecutable(c)
    BY <1>1, <1>2, <1>3, <1>4, <1>6, InitMoves DEF CompareExecutable
<1> QED
    BY <1>5, <1>6

(* The steps of any other command. *)
LEMMA RunMoves ==
    ASSUME TypeOK, IInv, NEW c \in Commands, commands[c].pc \in RunPc \ {"started"},
           NEW r \in RunCommand, r.alone => commands[c].alone,
           Choice(r), Sources(r), Undisturbed(r), Executed(r),
           Set(c, r), KeepFiles, KeepWorld, UNCHANGED <<pinned, ready>>
    PROVE  TypeOK' /\ IInv'
<1>1. r.pc \in RunPc /\ r.pc \notin InitPc
    BY RunIs DEF RunPc, InitPc
<1>2. Running(c) /\ commands[c].pc \notin {"rename archive", "rename executable", "rename lock"}
    BY CommandIs DEF RunPc
<1>3. CommandInv(r)
    BY <1>1 DEF CommandInv, Making, Installs
<1> QED
    BY <1>1, <1>2, <1>3, LocalStep

LEMMA RefusedStep ==
    ASSUME TypeOK, IInv, NEW c \in Commands, commands[c].pc \in RunPc \ {"started"},
           End(c, "refused"), KeepFiles, KeepWorld, UNCHANGED <<pinned, ready>>
    PROVE  TypeOK' /\ IInv'
<1>1. Running(c) /\ commands[c].pc \notin {"rename archive", "rename executable", "rename lock"}
    BY CommandIs DEF RunPc
<1> QED
    BY <1>1, EndedStep DEF Ended

LEMMA LookupStep ==
    ASSUME TypeOK, IInv, NEW c \in Commands, StartOverride(c) \/ StartFromPath(c)
    PROVE  TypeOK' /\ IInv'
<1>1. PICK s : s = commands[c]
    OBVIOUS
<1>2. s.pc = "lookup" /\ s \in RunCommand /\ commands[c].pc \in RunPc \ {"started"}
    BY <1>1, CommandIs DEF StartOverride, StartFromPath, RunPc
<1>3. KeepFiles /\ KeepWorld /\ UNCHANGED <<pinned, ready>>
    BY DEF StartOverride, StartFromPath
<1>4. CASE End(c, "refused")
    BY <1>2, <1>3, <1>4, RefusedStep
<1>5. ASSUME NEW from \in {"override", "path"},
             Set(c, [s EXCEPT !.pc = "started", !.from = from])
      PROVE  TypeOK' /\ IInv'
    <2>1. PICK r : r = [s EXCEPT !.pc = "started", !.from = from]
        OBVIOUS
    <2>2. r \in RunCommand /\ r.pc = "started" /\ r.from = from /\ r.alone = s.alone
        BY <1>2, <2>1 DEF RunCommand, RunPc
    <2>3. /\ ~FromLock(r) /\ ~HasEntry(r) /\ r.pc \in Ended
          /\ r.pc \notin Named \cup Holding \cup InitPc
        BY <2>2 DEF FromLock, HasEntry, Chosen, Named, Holding, InitPc, Ended
    <2>4. Choice(r) /\ Sources(r) /\ Undisturbed(r) /\ Executed(r)
        BY <2>2, <2>3 DEF Choice, Sources, Undisturbed, Executed
    <2> QED
        BY <1>1, <1>2, <1>3, <1>5, <2>1, <2>2, <2>4, RunMoves
<1> QED
    BY <1>1, <1>4, <1>5 DEF StartOverride, StartFromPath

LEMMA ReadLockStep ==
    ASSUME TypeOK, IInv, NEW c \in Commands, ReadLock(c)
    PROVE  TypeOK' /\ IInv'
<1>1. PICK s : s = commands[c]
    OBVIOUS
<1>2. s.pc = "lookup" /\ s \in RunCommand /\ commands[c].pc \in RunPc \ {"started"}
    BY <1>1, CommandIs DEF ReadLock, RunPc
<1>3. KeepFiles /\ KeepWorld /\ UNCHANGED <<pinned, ready>>
    BY DEF ReadLock
<1>4. CASE End(c, "refused")
    BY <1>2, <1>3, <1>4, RefusedStep
<1>5. CASE ~End(c, "refused")
    <2>1. PICK l : l = lock[s.module]
        OBVIOUS
    <2>2. s.plugin \in Plugins /\ s.module \in Modules /\ s.alone \in BOOLEAN
        BY <1>2, RunIs
    <2>4. PICK e : e = l[s.plugin]
        OBVIOUS
    <2>5. Matches(l, s.plugin, s.requires[s.plugin])
          /\ Set(c, [s EXCEPT !.entry = e, !.pc = "check archive"])
        BY <1>1, <1>5, <2>1, <2>4 DEF ReadLock
    <2>3. /\ l # Absent /\ l # Unreadable /\ l \in Locks /\ AllOffered(l)
        <3>1. l # Absent /\ l # Unreadable
            BY <1>1, <2>1, <2>5, LocksAre DEF ReadLock, Matches, EntriesOf
        <3> QED
            BY <2>1, <2>2, <3>1 DEF TypeOK, IInv, FilesOffered, EntriesOf
    <2>6. s.plugin \in DOMAIN l /\ Meets(e, s.requires[s.plugin])
        BY <2>3, <2>4, <2>5 DEF Matches, Meets, EntriesOf
    <2>7. e \in Entry /\ e.sum \in Offered(s.plugin, e.version)
        BY <2>3, <2>4, <2>6, LocksAre DEF AllOffered
    <2>8. PICK r : r = [s EXCEPT !.entry = e, !.pc = "check archive"]
        OBVIOUS
    <2>9. /\ r \in RunCommand /\ r.pc = "check archive" /\ r.entry = e
          /\ r.plugin = s.plugin /\ r.requires = s.requires /\ r.alone = s.alone
        BY <1>2, <2>7, <2>8 DEF RunCommand, RunPc
    <2>10. /\ ~FromLock(r) /\ HasEntry(r) /\ r.pc \notin Named \cup Holding \cup InitPc
        BY <2>9 DEF FromLock, HasEntry, Chosen, Named, Holding, InitPc
    <2>11. Choice(r) /\ Sources(r) /\ Undisturbed(r) /\ Executed(r)
        BY <2>2, <2>6, <2>7, <2>9, <2>10 DEF Choice, Sources, Undisturbed, Executed
    <2> QED
        BY <1>1, <1>2, <1>3, <2>5, <2>8, <2>9, <2>11, RunMoves
<1> QED
    BY <1>4, <1>5

(* Checks of the locked files. *)
LEMMA CheckArchiveStep ==
    ASSUME TypeOK, IInv, NEW c \in Commands, CheckArchive(c)
    PROVE  TypeOK' /\ IInv'
<1>1. PICK s : s = commands[c]
    OBVIOUS
<1>2. /\ s.pc = "check archive" /\ s \in RunCommand /\ commands[c].pc \in RunPc \ {"started"}
      /\ Choice(s) /\ Sources(s)
    BY <1>1, CommandIs, CommandsOnes DEF CheckArchive, RunPc, CommandInv
<1>3. KeepFiles /\ KeepWorld /\ UNCHANGED <<pinned, ready>>
    BY DEF CheckArchive
<1>4. CASE End(c, "refused")
    BY <1>2, <1>3, <1>4, RefusedStep
<1>5. CASE ~End(c, "refused")
    <2>1. /\ s.entry.sum # Absent /\ cache[s.plugin][s.entry.version].archive = s.entry.sum
          /\ Set(c, [s EXCEPT !.pc = "read archive"])
        BY <1>1, <1>5 DEF CheckArchive, ArchiveVerified, CacheOf, Goto
    <2>2. PICK r : r = [s EXCEPT !.pc = "read archive"]
        OBVIOUS
    <2>3. /\ r \in RunCommand /\ r.pc = "read archive" /\ r.entry = s.entry
          /\ r.plugin = s.plugin /\ r.requires = s.requires /\ r.alone = s.alone
        BY <1>2, <2>2 DEF RunCommand, RunPc
    <2>4. /\ ~FromLock(r) /\ HasEntry(r) /\ HasEntry(s) /\ r.pc \notin Holding \cup InitPc
        BY <1>2, <2>3 DEF FromLock, HasEntry, Chosen, Named, Holding, InitPc
    <2>5. Choice(r) /\ Sources(r) /\ Undisturbed(r) /\ Executed(r)
        BY <1>2, <2>1, <2>3, <2>4 DEF Choice, Sources, Undisturbed, Executed
    <2> QED
        BY <1>1, <1>2, <1>3, <2>1, <2>2, <2>3, <2>5, RunMoves
<1> QED
    BY <1>4, <1>5

LEMMA ReadArchiveStep ==
    ASSUME TypeOK, IInv, NEW c \in Commands, ReadArchive(c)
    PROVE  TypeOK' /\ IInv'
<1>1. PICK s : s = commands[c]
    OBVIOUS
<1>2. /\ s.pc = "read archive" /\ s \in RunCommand /\ commands[c].pc \in RunPc \ {"started"}
      /\ Choice(s) /\ Sources(s) /\ Undisturbed(s)
    BY <1>1, CommandIs, CommandsOnes DEF ReadArchive, RunPc, CommandInv
<1>3. KeepFiles /\ KeepWorld /\ UNCHANGED <<pinned, ready>>
    BY DEF ReadArchive
<1>4. CASE End(c, "refused")
    BY <1>2, <1>3, <1>4, RefusedStep
<1>5. CASE ~End(c, "refused")
    <2>1. PICK data : data = cache[s.plugin][s.entry.version].archive
        OBVIOUS
    <2>2. data \in Build /\ Set(c, [s EXCEPT !.data = data, !.pc = "check executable"])
        BY <1>1, <1>5, <2>1 DEF ReadArchive, CacheOf
    <2>3. PICK r : r = [s EXCEPT !.data = data, !.pc = "check executable"]
        OBVIOUS
    <2>4. /\ r \in RunCommand /\ r.pc = "check executable" /\ r.entry = s.entry
          /\ r.data = data
          /\ r.plugin = s.plugin /\ r.requires = s.requires /\ r.alone = s.alone
        BY <1>2, <2>2, <2>3 DEF RunCommand, RunPc
    <2>5. /\ ~FromLock(r) /\ HasEntry(r) /\ HasEntry(s) /\ r.pc \notin InitPc
          /\ s.pc \in Named /\ s.pc \notin Ended
        BY <1>2, <2>4 DEF FromLock, HasEntry, Chosen, Named, InitPc, Ended
    <2>6. data \in Offered(s.plugin, s.entry.version)
        BY <1>2, <2>1, <2>2, <2>5, BuildIs, EntryAre DEF Choice, IInv, FilesOffered, Known
    <2>7. Choice(r) /\ Sources(r)
        BY <1>2, <2>2, <2>4, <2>5, <2>6 DEF Choice, Sources
    <2>8. Undisturbed(r) /\ Executed(r)
        BY <1>2, <2>1, <2>4, <2>5 DEF Undisturbed, Executed
    <2> QED
        BY <1>1, <1>2, <1>3, <2>2, <2>3, <2>4, <2>7, <2>8, RunMoves
<1> QED
    BY <1>4, <1>5

LEMMA CheckExecutableStep ==
    ASSUME TypeOK, IInv, NEW c \in Commands, CheckExecutable(c)
    PROVE  TypeOK' /\ IInv'
<1>1. PICK s : s = commands[c]
    OBVIOUS
<1>2. /\ s.pc = "check executable" /\ s \in RunCommand /\ commands[c].pc \in RunPc \ {"started"}
      /\ Choice(s) /\ Sources(s) /\ Undisturbed(s)
    BY <1>1, CommandIs, CommandsOnes DEF CheckExecutable, RunPc, CommandInv
<1>3. KeepFiles /\ KeepWorld /\ UNCHANGED <<pinned, ready>>
    BY DEF CheckExecutable
<1>4. CASE End(c, "refused")
    BY <1>2, <1>3, <1>4, RefusedStep
<1>5. CASE ~End(c, "refused")
    <2>1. /\ cache[s.plugin][s.entry.version].exe = s.data
          /\ Set(c, [s EXCEPT !.pc = "exec"])
        BY <1>1, <1>5 DEF CheckExecutable, SameExecutable, CacheOf, Goto
    <2>2. PICK r : r = [s EXCEPT !.pc = "exec"]
        OBVIOUS
    <2>3. /\ r \in RunCommand /\ r.pc = "exec" /\ r.entry = s.entry /\ r.data = s.data
          /\ r.plugin = s.plugin /\ r.requires = s.requires /\ r.alone = s.alone
        BY <1>2, <2>2 DEF RunCommand, RunPc
    <2>4. /\ ~FromLock(r) /\ HasEntry(r) /\ HasEntry(s) /\ r.pc \notin InitPc
          /\ s.pc \in Named \cap Holding /\ s.pc \notin Ended
        BY <1>2, <2>3 DEF FromLock, HasEntry, Chosen, Named, Holding, InitPc, Ended
    <2>5. Choice(r) /\ Sources(r)
        BY <1>2, <2>3, <2>4 DEF Choice, Sources
    <2>6. Undisturbed(r) /\ Executed(r)
        BY <1>2, <2>1, <2>3, <2>4, BuildIs DEF Undisturbed, Executed, Choice
    <2> QED
        BY <1>1, <1>2, <1>3, <2>1, <2>2, <2>3, <2>5, <2>6, RunMoves
<1> QED
    BY <1>4, <1>5

LEMMA ExecStep ==
    ASSUME TypeOK, IInv, NEW c \in Commands, Exec(c)
    PROVE  TypeOK' /\ IInv'
<1>1. PICK s : s = commands[c]
    OBVIOUS
<1>2. /\ s.pc = "exec" /\ s \in RunCommand /\ commands[c].pc \in RunPc \ {"started"}
      /\ Choice(s) /\ Sources(s) /\ Undisturbed(s) /\ Executed(s)
    BY <1>1, CommandIs, CommandsOnes DEF Exec, RunPc, CommandInv
<1>3. KeepFiles /\ KeepWorld /\ UNCHANGED <<pinned, ready>>
    BY DEF Exec
<1>4. CASE End(c, "refused")
    BY <1>2, <1>3, <1>4, RefusedStep
<1>5. CASE ~End(c, "refused")
    <2>1. PICK content : content = cache[s.plugin][s.entry.version].exe
        OBVIOUS
    <2>2. /\ content # Absent
          /\ Set(c, [s EXCEPT !.pc = "started", !.from = "lock", !.content = content])
        BY <1>1, <1>5, <2>1 DEF Exec, CacheOf
    <2>3. HasEntry(s) /\ s.pc \in Named /\ s.pc \notin Ended
        BY <1>2 DEF HasEntry, Chosen, Named, Ended
    <2>4. /\ s.plugin \in Plugins /\ s.entry \in Entry /\ s.entry.version \in Version
          /\ s.entry.sum # Absent /\ s.entry.sum \in Offered(s.plugin, s.entry.version)
        BY <1>2, <2>3, EntryAre DEF Choice, Sources
    <2>5. /\ content \in File
          /\ ~s.spoilt => content # Damaged /\ content \in Offered(s.plugin, s.entry.version)
        BY <1>2, <2>1, <2>4 DEF Executed, IInv, FilesOffered, Known, TypeOK
    <2>6. PICK r : r = [s EXCEPT !.pc = "started", !.from = "lock", !.content = content]
        OBVIOUS
    <2>7. /\ r \in RunCommand /\ r.pc = "started" /\ r.entry = s.entry /\ r.content = content
          /\ r.plugin = s.plugin /\ r.requires = s.requires /\ r.alone = s.alone
          /\ r.spoilt = s.spoilt
        BY <1>2, <2>5, <2>6 DEF RunCommand, RunPc
    <2>8. r.pc \notin InitPc \cup Holding \cup Chosen \cup Named /\ r.pc \in Ended /\ HasEntry(r)
        BY <2>6, <2>7, <1>2 DEF InitPc, Holding, Chosen, Named, Ended, HasEntry, FromLock, RunCommand
    <2>9. Choice(r) /\ Sources(r) /\ Undisturbed(r)
        BY <1>2, <2>3, <2>4, <2>7, <2>8 DEF Choice, Sources, Undisturbed
    <2>10. Executed(r)
        <3>1. s.alone => content = s.entry.sum
            BY <1>2, <2>1, <2>3 DEF Undisturbed
        <3>2. ~Replaced /\ ~s.spoilt => content = 1 /\ s.entry.sum = 1
            BY <2>2, <2>4, <2>5, OneArchive
        <3> QED
            BY <2>7, <3>1, <3>2 DEF Executed
    <2> QED
        BY <1>1, <1>2, <1>3, <2>2, <2>6, <2>7, <2>9, <2>10, RunMoves
<1> QED
    BY <1>4, <1>5

-----------------------------------------------------------------------------
(* The steps that change files. An init that changes one is undisturbed     *)
(* only if no other command is, so that what they found stays as it was.    *)
Changed(p, v, files) ==
    /\ cache' \in [Plugins -> [Version -> [archive : File, exe : File]]]
    /\ cache'[p][v] = files
    /\ \A q \in Plugins, w \in Version :
          cache'[q][w] = cache[q][w] \/ (q = p /\ w = v)

StaysInstalled ==
    Quiet => \A p \in Plugins, v \in Version :
        /\ ArchiveKept(p, v) => ArchiveKept(p, v)'
        /\ ExecutableKept(p, v) => ExecutableKept(p, v)'

LEMMA NobodyElseAlone ==
    ASSUME TypeOK, IInv, NEW c \in Commands, Installing(c), NEW d \in Commands \ {c}
    PROVE  ~(Running(d) /\ commands[d].alone)
BY DEF IInv, Alone

LEMMA AloneStays ==
    ASSUME TypeOK, IInv, NEW c \in Commands,
           \A d \in Commands \ {c} : Same(commands[d], commands'[d]),
           commands \in [Commands -> InitCommand \cup RunCommand \cup EndedCommand]',
           Installing(c)' => Installing(c),
           Running(c)' /\ commands'[c].alone => Running(c) /\ commands[c].alone
    PROVE  Alone'
<1>1. \A d \in Commands \ {c} : Installing(d)' => Installing(d)
    BY CommandIs, RecordIs DEF Same, Installing, Running
<1>2. \A d \in Commands \ {c} : Running(d)' /\ commands'[d].alone
          => Running(d) /\ commands[d].alone
    <2> SUFFICES ASSUME NEW d \in Commands \ {c}, Running(d)', commands'[d].alone
                 PROVE  Running(d) /\ commands[d].alone
        OBVIOUS
    <2>1. Same(commands[d], commands'[d])
        OBVIOUS
    <2>2. commands[d].pc = commands'[d].pc /\ Running(d)
        BY <2>1 DEF Same, Running
    <2>3. commands[d].pc \in InitPc \cup RunPc
        BY <2>2, CommandIs
    <2> QED
        BY <2>1, <2>2, <2>3 DEF Same
<1> QED
    BY <1>1, <1>2 DEF IInv, Alone

LEMMA CacheStep ==
    ASSUME TypeOK, IInv, NEW c \in Commands, NEW s, s = commands[c],
           s.pc \in {"remove archive", "rename archive", "remove executable", "rename executable"},
           NEW r \in InitCommand, Finds(s, r), Set(c, r),
           NEW p \in Plugins, NEW v \in Version, p = s.plugin, v = s.entry.version,
           NEW files, files.exe = Damaged => cache[p][v].exe = Damaged,
           Known(files.archive, p, v), Known(files.exe, p, v),
           Changed(p, v, files), StaysInstalled,
           KeepWorld, UNCHANGED <<lock, pinned, ready>>,
           CommandInv(r)'
    PROVE  TypeOK' /\ IInv'
<1>0. /\ cache' \in [Plugins -> [Version -> [archive : File, exe : File]]]
      /\ cache'[p][v] = files
      /\ \A q \in Plugins, w \in Version :
            cache'[q][w] = cache[q][w] \/ (q = p /\ w = v)
      /\ Quiet => \A q \in Plugins, w \in Version :
             /\ ArchiveKept(q, w) => ArchiveKept(q, w)'
             /\ ExecutableKept(q, w) => ExecutableKept(q, w)'
    BY DEF Changed, StaysInstalled
<1> USE <1>0
<1>1. /\ s \in InitCommand /\ Installing(c) /\ Running(c) /\ s.pc \in Chosen
      /\ s.pc # "rename lock"
    BY CommandIs DEF InitPc, Chosen
<1>3. TypeOK'
    BY DEF TypeOK, EverLocked, Set, KeepWorld
<1>4. commands'[c] = r /\ \A d \in Commands \ {c} : commands'[d] = commands[d]
    BY DEF TypeOK, Set
<1>5. \A d \in Commands \ {c} : Same(commands[d], commands'[d])
    BY <1>4, DisturbedIs
<1>6. UNCHANGED <<windows, requires, lock, published, begun, events, faults, pinned, ready>>
    BY DEF KeepWorld
<1>7. /\ \A q, w : Offered(q, w)' = Offered(q, w)
      /\ Replaced' = Replaced /\ Quiet' = Quiet
    BY <1>6 DEF Offered, Replaced, Quiet
<1>9. \A d \in Commands : \A q : q = commands'[d] => CommandInv(q)'
    <2> SUFFICES ASSUME NEW d \in Commands \ {c}, NEW q, q = commands'[d]
                 PROVE  CommandInv(q)'
        BY <1>4
    <2>1. PICK t : t = commands[d]
        OBVIOUS
    <2>2. CommandInv(t) /\ Same(t, q)
        BY <1>5, <2>1, CommandsOnes
    <2>3. ~(Running(d) /\ q.alone)
        BY <1>1, <1>4, NobodyElseAlone
    <2>4. \A x \in Plugins, w \in Version :
              cache'[x][w].exe = Damaged => cache[x][w].exe = Damaged
        <3> SUFFICES ASSUME NEW x \in Plugins, NEW w \in Version
                     PROVE  cache'[x][w].exe = Damaged => cache[x][w].exe = Damaged
            OBVIOUS
        <3>1. CASE x = p /\ w = v
            BY <3>1
        <3>2. CASE cache'[x][w] = cache[x][w]
            BY <3>2
        <3> QED
            BY <3>1, <3>2
    <2> QED
        BY <2>1, <2>2, <2>3, <2>4, <1>7, OthersHold
<1>10. Alone'
    BY <1>1, <1>3, <1>4, <1>5, AloneStays DEF TypeOK, Finds
<1>11. FilesOffered'
    <2>1. \A m \in Modules : AllOffered(EntriesOf(lock[m]))'
        BY <1>6, <1>7 DEF IInv, FilesOffered, AllOffered
    <2>2. \A q \in Plugins, w \in Version :
              Known(cache'[q][w].archive, q, w) /\ Known(cache'[q][w].exe, q, w)
        <3> SUFFICES ASSUME NEW q \in Plugins, NEW w \in Version
                     PROVE  Known(cache'[q][w].archive, q, w) /\ Known(cache'[q][w].exe, q, w)
            OBVIOUS
        <3>1. CASE q = p /\ w = v
            BY <3>1
        <3>2. CASE cache'[q][w] = cache[q][w]
            BY <3>2 DEF IInv, FilesOffered
        <3> QED
            BY <3>1, <3>2
    <2> QED
        BY <2>1, <2>2, <1>7 DEF FilesOffered, Known
<1>12. LocksStay'
    <2>1. \A m : Rewriting(m) => Rewriting(m)'
        BY <1>1, <1>4 DEF Rewriting
    <2> QED
        BY <2>1, <1>6 DEF IInv, LocksStay, EverLocked
<1>pins. PinsFound'
    <2>1. \A d \in Commands \ {c} : Installing(d)' /\ commands'[d].alone =>
              Installing(d) /\ Finds(commands[d], commands'[d])
        BY <1>5, SameFinds
    <2>2. Installing(c)' => Installing(c) /\ Finds(commands[c], commands'[c])
        BY <1>1, <1>4
    <2> QED
        BY <1>6, <2>1, <2>2, PinsStay
<1>13. ReadyServes'
    <2> SUFFICES ASSUME Quiet, NEW m \in ready, lock[m] \in Locks
                 PROVE  LockServes(m)'
        BY <1>6, <1>7 DEF ReadyServes
    <2>1. LockServes(m) /\ m \in Modules /\ requires[m] \in Requirements
        BY DEF IInv, ReadyServes, TypeOK, EverLocked
    <2>2. lock[m] \in Locks
        BY <2>1 DEF TypeOK
    <2> QED
        BY <2>1, <2>2, <1>6, LocksAre, EntryAre
           DEF LockServes, ReleaseKept, Matches, EntriesOf, Required
<1> QED
    BY <1>3, <1>9, <1>10, <1>11, <1>12, <1>13, <1>pins, CommandsHold DEF IInv

(* The four places at which an init changes the cache: its own record. *)
LEMMA CacheMoves ==
    ASSUME TypeOK, NEW s \in InitCommand, NEW r,
           Choice(s), Making(s), Sources(s),
           s.pc \in {"remove archive", "rename archive", "remove executable"},
           NEW pc \in {"rename archive", "extract", "rename executable"}, r = [s EXCEPT !.pc = pc],
           pc \in Holding => s.pc \in Holding
    PROVE  /\ r \in InitCommand /\ r.pc = pc /\ r.kind = s.kind /\ r.module = s.module
           /\ r.options = s.options /\ r.requires = s.requires /\ r.existing = s.existing
           /\ r.todo = s.todo /\ r.plugin = s.plugin /\ r.made = s.made
           /\ r.entry = s.entry /\ r.data = s.data /\ r.alone = s.alone
           /\ Choice(r) /\ Making(r) /\ Sources(r)
<1>1. pc \in InitPc
    BY DEF InitPc
<1>2. /\ r \in InitCommand /\ r.pc = pc /\ r.kind = s.kind /\ r.module = s.module
      /\ r.options = s.options /\ r.requires = s.requires /\ r.existing = s.existing
      /\ r.todo = s.todo /\ r.plugin = s.plugin /\ r.made = s.made
      /\ r.entry = s.entry /\ r.data = s.data /\ r.alone = s.alone
    BY <1>1 DEF InitCommand
<1>3. /\ HasEntry(s) /\ HasEntry(r) /\ ~FromLock(r) /\ r.pc \in Chosen /\ s.pc \in Chosen
      /\ r.pc \in InitPc /\ s.pc \in InitPc /\ s.pc \in Named /\ r.pc # "rename lock"
    BY <1>2 DEF HasEntry, FromLock, Chosen, InitPc, Named
<1>4. Choice(r)
    BY <1>2, <1>3 DEF Choice
<1>5. Making(r)
    <2>1. \A p : Serves(r, p) <=> Serves(s, p)
        BY <1>2 DEF Serves, Matches
    <2>2. InHand(r) = InHand(s)
        BY <1>2, <1>3 DEF InHand
    <2> QED
        BY <1>2, <1>3, <2>1, <2>2 DEF Making
<1>6. Sources(r)
    BY <1>2, <1>3 DEF Sources
<1> QED
    BY <1>2, <1>4, <1>5, <1>6

(* An init's own record, when what is installed stays so. *)
LEMMA InitRecordStays ==
    ASSUME NEW r \in InitCommand, Choice(r), Making(r), Sources(r), Installs(r),
           KeepWorld, StaysInstalled, Undisturbed(r)'
    PROVE  CommandInv(r)'
<1>1. r.pc \in InitPc /\ ~FromLock(r) /\ r.pc # "exec" /\ r.made \in Locks
    BY InitIs DEF InitPc, FromLock
<1>2. Choice(r)' /\ Making(r)'
    BY DEF Choice, Making
<1>3. Sources(r)'
    BY DEF Sources, AllOffered, Offered, KeepWorld
<1>4. Executed(r)'
    BY <1>1 DEF Executed
<1>5. Installs(r)'
    <2> SUFFICES ASSUME Quiet
                 PROVE  Installs(r)'
        BY DEF Installs, Quiet, Replaced, KeepWorld
    <2>1. \A q \in DOMAIN r.made : q \in Plugins /\ r.made[q].version \in Version
        BY <1>1, LocksAre, EntryAre
    <2>2. \A q \in DOMAIN r.made : ReleaseKept(q, r.made[q].version)'
        BY <1>1, <2>1 DEF Installs, ReleaseKept, StaysInstalled
    <2>3. r.pc \in Chosen => r.plugin \in Plugins /\ r.entry.version \in Version
        BY EntryAre DEF Choice, HasEntry
    <2> QED
        BY <1>1, <2>2, <2>3 DEF Installs, StaysInstalled, Chosen
<1> QED
    BY <1>2, <1>3, <1>4, <1>5 DEF CommandInv

(* How the archive or the executable of one release changes. *)
LEMMA FilesAre ==
    \A files \in [archive : File, exe : File], content \in File :
        /\ WithArchive(files, content) \in [archive : File, exe : File]
        /\ WithArchive(files, content).archive = content
        /\ WithArchive(files, content).exe = files.exe
        /\ WithExecutable(files, content) \in [archive : File, exe : File]
        /\ WithExecutable(files, content).archive = files.archive
        /\ WithExecutable(files, content).exe = content
BY DEF WithArchive, WithExecutable

LEMMA PutIs ==
    ASSUME TypeOK, NEW c \in Commands,
           NEW p \in Plugins, NEW v \in Version, p = commands[c].plugin, v = commands[c].entry.version,
           NEW files \in [archive : File, exe : File], Put(c, files)
    PROVE  Changed(p, v, files)
BY DEF TypeOK, Put, Changed

LEMMA RemoveArchiveStep ==
    ASSUME TypeOK, IInv, NEW c \in Commands, RemoveArchive(c)
    PROVE  TypeOK' /\ IInv'
<1>1. PICK s : s = commands[c]
    OBVIOUS
<1>2. PICK r : r = [s EXCEPT !.pc = "rename archive"]
    OBVIOUS
<1>3. /\ s \in InitCommand /\ s.pc = "remove archive" /\ s.pc \notin Ended /\ HasEntry(s)
      /\ Choice(s) /\ Making(s) /\ Sources(s) /\ Undisturbed(s) /\ Installs(s)
    BY <1>1, CommandIs, CommandsOnes
       DEF CommandInv, InitPc, RemoveArchive, Ended, HasEntry, Chosen
<1>4. s.plugin \in Plugins /\ s.entry.version \in Version /\ s.entry \in Entry
    BY <1>3, EntryAre DEF Choice
<1>5. PICK p \in Plugins, v \in Version : p = s.plugin /\ v = s.entry.version
    BY <1>4
<1>6. PICK files : files = WithArchive(cache[p][v], Absent)
    OBVIOUS
<1>7. /\ Set(c, r) /\ KeepWorld /\ UNCHANGED <<lock, pinned, ready>>
      /\ Put(c, files)
    BY <1>1, <1>2, <1>5, <1>6 DEF RemoveArchive, Goto, CacheOf
<1>8. /\ files \in [archive : File, exe : File] /\ files.archive = Absent
      /\ files.exe = cache[p][v].exe
    <2>1. cache[p][v] \in [archive : File, exe : File] /\ Absent \in File
        BY DEF TypeOK, File
    <2> QED
        BY <1>6, <2>1, FilesAre
<1>9. Changed(p, v, files)
    BY <1>1, <1>5, <1>7, <1>8, PutIs
<1>10. Known(files.archive, p, v) /\ Known(files.exe, p, v)
    BY <1>8 DEF IInv, FilesOffered, Offered, Known
<1>11. /\ r \in InitCommand /\ r.pc = "rename archive" /\ r.module = s.module
       /\ r.existing = s.existing /\ r.plugin = s.plugin /\ r.made = s.made
       /\ r.entry = s.entry /\ r.alone = s.alone
       /\ Choice(r) /\ Making(r) /\ Sources(r)
    BY <1>2, <1>3, CacheMoves DEF Holding
<1>12. commands'[c] = r /\ \A d \in Commands \ {c} : commands'[d] = commands[d]
    BY <1>7 DEF TypeOK, Set
<1>13. \A q \in Plugins, w \in Version :
           /\ ArchiveKept(q, w) => ArchiveKept(q, w)'
           /\ ExecutableKept(q, w) => ExecutableKept(q, w)'
    <2> SUFFICES ASSUME NEW q \in Plugins, NEW w \in Version
                 PROVE  /\ ArchiveKept(q, w) => ArchiveKept(q, w)'
                        /\ ExecutableKept(q, w) => ExecutableKept(q, w)'
        OBVIOUS
    <2>1. cache'[q][w].exe = cache[q][w].exe
        BY <1>8, <1>9 DEF Changed
    <2>2. cache'[q][w] = cache[q][w] \/ (q = p /\ w = v)
        BY <1>9 DEF Changed
    <2>3. AtRelease(commands'[c], "rename archive", p, v)
        BY <1>5, <1>11, <1>12 DEF AtRelease
    <2>4. \A d \in Commands \ {c} : commands'[d] = commands[d]
        BY <1>12
    <2>5. ArchiveKept(q, w) => ArchiveKept(q, w)'
        BY <1>1, <1>3, <2>2, <2>3, <2>4 DEF ArchiveKept, AtRelease
    <2>6. ExecutableKept(q, w) => ExecutableKept(q, w)'
        BY <1>1, <1>3, <2>1, <2>4 DEF ExecutableKept, AtRelease
    <2> QED
        BY <2>5, <2>6
<1>14. StaysInstalled
    BY <1>13 DEF StaysInstalled
<1>15. CommandInv(r)'
    <2>1. Undisturbed(r)'
        BY <1>3, <1>7, <1>11 DEF Undisturbed, InitPc
    <2>2. Installs(r)
        BY <1>3, <1>11 DEF Installs, InitPc
    <2> QED
        BY <1>7, <1>11, <1>14, <2>1, <2>2, InitRecordStays
<1>16. files.exe = Damaged => cache[p][v].exe = Damaged
    BY <1>8
<1> QED
    BY <1>1, <1>3, <1>5, <1>7, <1>9, <1>10, <1>11, <1>14, <1>15, <1>16, CacheStep DEF Finds

LEMMA RenameArchiveStep ==
    ASSUME TypeOK, IInv, NEW c \in Commands, RenameArchive(c)
    PROVE  TypeOK' /\ IInv'
<1>1. PICK s : s = commands[c]
    OBVIOUS
<1>2. PICK r : r = [s EXCEPT !.pc = "extract"]
    OBVIOUS
<1>3. /\ s \in InitCommand /\ s.pc = "rename archive" /\ s.pc \notin Ended /\ HasEntry(s)
      /\ Choice(s) /\ Making(s) /\ Sources(s) /\ Undisturbed(s) /\ Installs(s)
    BY <1>1, CommandIs, CommandsOnes
       DEF CommandInv, InitPc, RenameArchive, Ended, HasEntry, Chosen
<1>4. /\ s.plugin \in Plugins /\ s.entry.version \in Version /\ s.entry \in Entry
      /\ s.entry.sum \in Build
    BY <1>3, EntryAre, BuildIs DEF Choice, Named, Chosen
<1>5. PICK p \in Plugins, v \in Version : p = s.plugin /\ v = s.entry.version
    BY <1>4
<1>sum. PICK sum \in Build : sum = s.entry.sum
    BY <1>4
<1>6. PICK files : files = WithArchive(cache[p][v], sum)
    OBVIOUS
<1>7. /\ Set(c, r) /\ KeepWorld /\ UNCHANGED <<lock, pinned, ready>>
      /\ Put(c, files)
    BY <1>1, <1>2, <1>5, <1>6, <1>sum DEF RenameArchive, Goto, CacheOf
<1>8. /\ files \in [archive : File, exe : File] /\ files.archive = sum
      /\ files.exe = cache[p][v].exe
    <2>1. cache[p][v] \in [archive : File, exe : File] /\ sum \in File
        BY DEF TypeOK, File
    <2> QED
        BY <1>6, <2>1, FilesAre
<1>9. Changed(p, v, files)
    BY <1>1, <1>5, <1>7, <1>8, PutIs
<1>sums. sum \in Offered(p, v) /\ sum # Absent
    BY <1>3, <1>5, <1>sum, BuildIs DEF Sources
<1>10. Known(files.archive, p, v) /\ Known(files.exe, p, v)
    BY <1>8, <1>sums DEF IInv, FilesOffered, Known
<1>11. /\ r \in InitCommand /\ r.pc = "extract" /\ r.module = s.module
       /\ r.existing = s.existing /\ r.plugin = s.plugin /\ r.made = s.made
       /\ r.entry = s.entry /\ r.alone = s.alone
       /\ Choice(r) /\ Making(r) /\ Sources(r)
    BY <1>2, <1>3, CacheMoves DEF Holding
<1>12. commands'[c] = r /\ \A d \in Commands \ {c} : commands'[d] = commands[d]
    BY <1>7 DEF TypeOK, Set
<1>13. Quiet => \A q \in Plugins, w \in Version :
           /\ ArchiveKept(q, w) => ArchiveKept(q, w)'
           /\ ExecutableKept(q, w) => ExecutableKept(q, w)'
    <2> SUFFICES ASSUME Quiet, NEW q \in Plugins, NEW w \in Version
                 PROVE  /\ ArchiveKept(q, w) => ArchiveKept(q, w)'
                        /\ ExecutableKept(q, w) => ExecutableKept(q, w)'
        OBVIOUS
    <2>1. cache'[q][w].exe = cache[q][w].exe
        BY <1>8, <1>9 DEF Changed
    <2>2. \/ cache'[q][w] = cache[q][w] /\ ~(q = p /\ w = v)
          \/ q = p /\ w = v /\ cache'[q][w].archive = sum
        BY <1>8, <1>9 DEF Changed
    <2>3. sum = 1
        BY <1>sums, OneArchive DEF Quiet
    <2>4. \A d \in Commands \ {c} : commands'[d] = commands[d]
        BY <1>12
    <2>5. ArchiveKept(q, w) => ArchiveKept(q, w)'
        BY <1>1, <1>3, <1>5, <2>2, <2>3, <2>4 DEF ArchiveKept, AtRelease
    <2>6. ExecutableKept(q, w) => ExecutableKept(q, w)'
        BY <1>1, <1>3, <2>1, <2>4 DEF ExecutableKept, AtRelease
    <2> QED
        BY <2>5, <2>6
<1>14. StaysInstalled
    BY <1>13 DEF StaysInstalled
<1>15. CommandInv(r)'
    <2>1. Undisturbed(r)'
        <3>1. cache'[r.plugin][r.entry.version].archive = r.entry.sum
            BY <1>5, <1>8, <1>9, <1>11, <1>sum DEF Changed
        <3> QED
            BY <1>3, <1>7, <1>11, <3>1 DEF Undisturbed, InitPc
    <2>2. Installs(r)
        <3>1. ArchiveKept(s.plugin, s.entry.version)
            BY <1>1, <1>3 DEF ArchiveKept, AtRelease
        <3> QED
            BY <1>3, <1>11, <3>1 DEF Installs, InitPc
    <2> QED
        BY <1>7, <1>11, <1>14, <2>1, <2>2, InitRecordStays
<1>16. files.exe = Damaged => cache[p][v].exe = Damaged
    BY <1>8
<1> QED
    BY <1>1, <1>3, <1>5, <1>7, <1>9, <1>10, <1>11, <1>14, <1>15, <1>16, CacheStep DEF Finds

LEMMA RemoveExecutableStep ==
    ASSUME TypeOK, IInv, NEW c \in Commands, RemoveExecutable(c)
    PROVE  TypeOK' /\ IInv'
<1>1. PICK s : s = commands[c]
    OBVIOUS
<1>2. PICK r : r = [s EXCEPT !.pc = "rename executable"]
    OBVIOUS
<1>3. /\ s \in InitCommand /\ s.pc = "remove executable" /\ s.pc \notin Ended /\ HasEntry(s)
      /\ s.pc \in Holding /\ Choice(s) /\ Making(s) /\ Sources(s) /\ Undisturbed(s) /\ Installs(s)
    BY <1>1, CommandIs, CommandsOnes
       DEF CommandInv, InitPc, RemoveExecutable, Ended, HasEntry, Chosen, Holding
<1>4. s.plugin \in Plugins /\ s.entry.version \in Version /\ s.entry \in Entry
    BY <1>3, EntryAre DEF Choice
<1>5. PICK p \in Plugins, v \in Version : p = s.plugin /\ v = s.entry.version
    BY <1>4
<1>6. PICK files : files = WithExecutable(cache[p][v], Absent)
    OBVIOUS
<1>7. /\ Set(c, r) /\ KeepWorld /\ UNCHANGED <<lock, pinned, ready>>
      /\ Put(c, files)
    BY <1>1, <1>2, <1>5, <1>6 DEF RemoveExecutable, Goto, CacheOf
<1>8. /\ files \in [archive : File, exe : File] /\ files.exe = Absent
      /\ files.archive = cache[p][v].archive
    <2>1. cache[p][v] \in [archive : File, exe : File] /\ Absent \in File
        BY DEF TypeOK, File
    <2> QED
        BY <1>6, <2>1, FilesAre
<1>9. Changed(p, v, files)
    BY <1>1, <1>5, <1>7, <1>8, PutIs
<1>10. Known(files.archive, p, v) /\ Known(files.exe, p, v)
    BY <1>8 DEF IInv, FilesOffered, Offered, Known
<1>11. /\ r \in InitCommand /\ r.pc = "rename executable" /\ r.module = s.module
       /\ r.existing = s.existing /\ r.plugin = s.plugin /\ r.made = s.made
       /\ r.entry = s.entry /\ r.alone = s.alone
       /\ Choice(r) /\ Making(r) /\ Sources(r)
    BY <1>2, <1>3, CacheMoves, ZenonT(60)
<1>12. commands'[c] = r /\ \A d \in Commands \ {c} : commands'[d] = commands[d]
    BY <1>7 DEF TypeOK, Set
<1>13. \A q \in Plugins, w \in Version :
           /\ ArchiveKept(q, w) => ArchiveKept(q, w)'
           /\ ExecutableKept(q, w) => ExecutableKept(q, w)'
    <2> SUFFICES ASSUME NEW q \in Plugins, NEW w \in Version
                 PROVE  /\ ArchiveKept(q, w) => ArchiveKept(q, w)'
                        /\ ExecutableKept(q, w) => ExecutableKept(q, w)'
        OBVIOUS
    <2>1. cache'[q][w].archive = cache[q][w].archive
        BY <1>8, <1>9 DEF Changed
    <2>2. cache'[q][w] = cache[q][w] \/ (q = p /\ w = v)
        BY <1>9 DEF Changed
    <2>3. AtRelease(commands'[c], "rename executable", p, v)
        BY <1>5, <1>11, <1>12 DEF AtRelease
    <2>4. \A d \in Commands \ {c} : commands'[d] = commands[d]
        BY <1>12
    <2>5. ExecutableKept(q, w) => ExecutableKept(q, w)'
        BY <1>1, <1>3, <2>2, <2>3, <2>4 DEF ExecutableKept, AtRelease
    <2>6. ArchiveKept(q, w) => ArchiveKept(q, w)'
        BY <1>1, <1>3, <2>1, <2>4 DEF ArchiveKept, AtRelease
    <2> QED
        BY <2>5, <2>6
<1>14. StaysInstalled
    BY <1>13 DEF StaysInstalled
<1>15. CommandInv(r)'
    <2>1. Undisturbed(r)'
        BY <1>3, <1>7, <1>11 DEF Undisturbed, InitPc
    <2>2. Installs(r)
        BY <1>3, <1>11 DEF Installs, InitPc
    <2> QED
        BY <1>7, <1>11, <1>14, <2>1, <2>2, InitRecordStays
<1>16. files.exe = Damaged => cache[p][v].exe = Damaged
    BY <1>8, BuildIs
<1> QED
    BY <1>1, <1>3, <1>5, <1>7, <1>9, <1>10, <1>11, <1>14, <1>15, <1>16, CacheStep DEF Finds

LEMMA RenameExecutableStep ==
    ASSUME TypeOK, IInv, NEW c \in Commands, RenameExecutable(c)
    PROVE  TypeOK' /\ IInv'
<1>1. PICK s : s = commands[c]
    OBVIOUS
<1>2. PICK r : r = Installed(s)
    OBVIOUS
<1>3. /\ s \in InitCommand /\ s.pc = "rename executable" /\ s.pc \notin Ended /\ HasEntry(s)
      /\ Choice(s) /\ Making(s) /\ Sources(s) /\ Undisturbed(s) /\ Installs(s)
    BY <1>1, CommandIs, CommandsOnes
       DEF CommandInv, InitPc, RenameExecutable, Ended, HasEntry, Chosen
<1>4. /\ s.plugin \in Plugins /\ s.entry.version \in Version /\ s.entry \in Entry
      /\ s.data \in Build
    BY <1>3, EntryAre DEF Choice, Holding
<1>5. PICK p \in Plugins, v \in Version : p = s.plugin /\ v = s.entry.version
    BY <1>4
<1>data. PICK data \in Build : data = s.data
    BY <1>4
<1>6. PICK files : files = WithExecutable(cache[p][v], data)
    OBVIOUS
<1>7. /\ Set(c, r) /\ KeepWorld /\ UNCHANGED <<lock, pinned, ready>>
      /\ Put(c, files)
    BY <1>1, <1>2, <1>5, <1>6, <1>data DEF RenameExecutable, CacheOf
<1>8. /\ files \in [archive : File, exe : File] /\ files.exe = data
      /\ files.archive = cache[p][v].archive
    <2>1. cache[p][v] \in [archive : File, exe : File] /\ data \in File
        BY DEF TypeOK, File
    <2> QED
        BY <1>6, <2>1, FilesAre
<1>9. Changed(p, v, files)
    BY <1>1, <1>5, <1>7, <1>8, PutIs
<1>offered. data \in Offered(p, v) /\ data # Absent
    BY <1>3, <1>5, <1>data, BuildIs DEF Sources, Holding
<1>10. Known(files.archive, p, v) /\ Known(files.exe, p, v)
    BY <1>8, <1>offered DEF IInv, FilesOffered, Known
<1>kept. ExecutableKept(s.plugin, s.entry.version)
    BY <1>1, <1>3 DEF ExecutableKept, AtRelease
<1>11. r \in InitCommand /\ r.pc = "resolve" /\ Finds(s, r) /\ CommandInv(r)
    BY <1>2, <1>3, <1>kept, InstalledIs
<1>12. commands'[c] = r /\ \A d \in Commands \ {c} : commands'[d] = commands[d]
    BY <1>7 DEF TypeOK, Set
<1>13. Quiet => \A q \in Plugins, w \in Version :
           /\ ArchiveKept(q, w) => ArchiveKept(q, w)'
           /\ ExecutableKept(q, w) => ExecutableKept(q, w)'
    <2> SUFFICES ASSUME Quiet, NEW q \in Plugins, NEW w \in Version
                 PROVE  /\ ArchiveKept(q, w) => ArchiveKept(q, w)'
                        /\ ExecutableKept(q, w) => ExecutableKept(q, w)'
        OBVIOUS
    <2>1. cache'[q][w].archive = cache[q][w].archive
        BY <1>8, <1>9 DEF Changed
    <2>2. \/ cache'[q][w] = cache[q][w] /\ ~(q = p /\ w = v)
          \/ q = p /\ w = v /\ cache'[q][w].exe = data
        BY <1>8, <1>9 DEF Changed
    <2>3. data = 1
        BY <1>offered, OneArchive DEF Quiet
    <2>4. \A d \in Commands \ {c} : commands'[d] = commands[d]
        BY <1>12
    <2>5. ExecutableKept(q, w) => ExecutableKept(q, w)'
        BY <1>1, <1>3, <1>5, <2>2, <2>3, <2>4 DEF ExecutableKept, AtRelease
    <2>6. ArchiveKept(q, w) => ArchiveKept(q, w)'
        BY <1>1, <1>3, <2>1, <2>4 DEF ArchiveKept, AtRelease
    <2> QED
        BY <2>5, <2>6
<1>14. StaysInstalled
    BY <1>13 DEF StaysInstalled
<1>15. CommandInv(r)'
    <2>1. Undisturbed(r)'
        BY <1>7, <1>11 DEF Undisturbed, CommandInv
    <2> QED
        BY <1>7, <1>11, <1>14, <2>1, InitRecordStays DEF CommandInv
<1>16. files.exe = Damaged => cache[p][v].exe = Damaged
    BY <1>8, BuildIs
<1> QED
    BY <1>1, <1>3, <1>5, <1>7, <1>9, <1>10, <1>11, <1>14, <1>15, <1>16, CacheStep DEF Finds

(* A lock is removed and renamed by an init; a frozen init changes nothing. *)
LEMMA LockStep ==
    ASSUME TypeOK, IInv, NEW c \in Commands, Installing(c),
           commands[c].pc \notin {"rename archive", "rename executable"},
           NEW r \in InitCommand \cup EndedCommand, Set(c, r),
           r.pc \in InitPc => Finds(commands[c], r) /\ pinned' = pinned,
           KeepWorld, UNCHANGED cache,
           lock' \in [Modules -> {Absent, Unreadable} \cup Locks],
           \A m \in Modules : AllOffered(EntriesOf(lock'[m])),
           ready' \subseteq EverLocked' /\ pinned' \in [Modules -> {Absent, Unreadable} \cup Locks],
           CommandInv(r)', LocksStay',
           Quiet => \A m \in ready' : lock'[m] \in Locks => LockServes(m)'
    PROVE  TypeOK' /\ IInv'
<1>1. TypeOK'
    BY DEF TypeOK, Set, KeepWorld
<1>2. commands'[c] = r /\ \A d \in Commands \ {c} : commands'[d] = commands[d]
    BY DEF TypeOK, Set
<1>3. \A d \in Commands \ {c} : Same(commands[d], commands'[d])
    BY <1>2, DisturbedIs
<1>4. \A p \in Plugins, v \in Version :
          /\ ArchiveKept(p, v) => ArchiveKept(p, v)'
          /\ ExecutableKept(p, v) => ExecutableKept(p, v)'
    BY <1>3, KeptByOthers
<1>5. /\ UNCHANGED <<windows, requires, cache, published, begun, events, faults>>
      /\ \A p, v : Offered(p, v)' = Offered(p, v)
      /\ Replaced' = Replaced /\ Quiet' = Quiet
    BY DEF KeepWorld, Offered, Replaced, Quiet
<1>6. \A d \in Commands : \A q : q = commands'[d] => CommandInv(q)'
    <2> SUFFICES ASSUME NEW d \in Commands \ {c}, NEW q, q = commands'[d]
                 PROVE  CommandInv(q)'
        BY <1>2
    <2>1. PICK s : s = commands[d]
        OBVIOUS
    <2>2. CommandInv(s) /\ Same(s, q)
        BY <1>3, <2>1, CommandsOnes
    <2>3. ~(Running(d) /\ q.alone)
        BY <1>2, NobodyElseAlone
    <2> QED
        BY <2>1, <2>2, <2>3, <1>4, <1>5, OthersHold
<1>7. Alone'
    <2>1. Running(c)
        BY DEF Installing
    <2>2. Running(c)' /\ commands'[c].alone => commands[c].alone
        <3>1. r \in EndedCommand => r.pc \in Ended
            BY DEF EndedCommand
        <3>2. r \in InitCommand => r.pc \in InitPc
            BY InitIs
        <3> QED
            BY <1>2, <3>1, <3>2 DEF Running, Finds
    <2> QED
        BY <1>1, <1>3, <2>1, <2>2, AloneStays DEF TypeOK
<1>pins. PinsFound'
    <2> SUFFICES ASSUME NEW d \in Commands, Installing(d)', commands'[d].alone
                 PROVE  Found(commands[d])'
        BY DEF PinsFound
    <2>1. CASE d # c
        BY <1>2, <2>1, NobodyElseAlone DEF Installing, Running
    <2>2. CASE d = c
        <3>1. r.pc \in InitPc
            BY <1>2, <2>2, RecordIs DEF Installing, Running
        <3>2. Finds(commands[c], r) /\ pinned' = pinned /\ commands'[c] = r
            BY <1>2, <3>1
        <3>3. Found(commands[c])
            BY <2>2, <3>2 DEF IInv, PinsFound, Finds
        <3> QED
            BY <1>5, <2>2, <3>2, <3>3 DEF Found, Finds, LostInWindow
    <2> QED
        BY <2>1, <2>2
<1>8. FilesOffered'
    BY <1>5 DEF IInv, FilesOffered, Known, AllOffered
<1>9. ReadyServes'
    BY <1>5 DEF ReadyServes
<1> QED
    BY <1>1, <1>6, <1>7, <1>8, <1>9, <1>pins, CommandsHold DEF IInv

LEMMA EndedHolds ==
    \A pc \in Ended \ {"started"} : \A r : r = [pc |-> pc] =>
        r \in EndedCommand /\ r.pc = pc /\ CommandInv(r)' /\ r.pc \notin InitPc
<1> TAKE pc \in Ended \ {"started"}
<1> TAKE r
<1> HAVE r = [pc |-> pc]
<1>1. r \in EndedCommand /\ r.pc = pc
    BY DEF EndedCommand
<1>2. r.pc \notin InitPc \cup RunPc \cup Chosen \cup Named \cup Holding /\ r.pc # "started"
    BY <1>1 DEF Ended, InitPc, RunPc, Chosen, Named, Holding
<1>3. CommandInv(r)'
    BY <1>1, <1>2 DEF CommandInv, Choice, Making, Sources, Undisturbed, Executed,
                      Installs, HasEntry, FromLock, InitPc, RunPc
<1> QED
    BY <1>1, <1>2, <1>3

(* The locks that serve go on doing so where nothing is edited or removed.  *)
LEMMA ServesOn ==
    ASSUME TypeOK, NEW m \in Modules, requires'[m] = requires[m], lock'[m] = lock[m],
           lock[m] \in Locks,
           LockServes(m),
           \A p \in Plugins, v \in Version : ReleaseKept(p, v) => ReleaseKept(p, v)'
    PROVE  LockServes(m)'
<1>1. requires[m] \in Requirements /\ lock[m] \in Locks
    BY DEF TypeOK
<1> QED
    BY <1>1, LocksAre, EntryAre DEF LockServes, Matches, EntriesOf, Required

LEMMA ReleasesStay ==
    ASSUME TypeOK, NEW c \in Commands,
           commands[c].pc \notin {"rename archive", "rename executable"},
           NEW r, Set(c, r), UNCHANGED cache
    PROVE  \A p \in Plugins, v \in Version :
               /\ ArchiveKept(p, v) => ArchiveKept(p, v)'
               /\ ExecutableKept(p, v) => ExecutableKept(p, v)'
               /\ ReleaseKept(p, v) => ReleaseKept(p, v)'
<1>1. \A d \in Commands \ {c} : Same(commands[d], commands'[d])
    BY DisturbedIs DEF Set, TypeOK
<1> QED
    BY <1>1, KeptByOthers DEF ReleaseKept

(* What an init made of all requirements serves the module. *)
LEMMA MadeServes ==
    ASSUME TypeOK, NEW s \in InitCommand, Making(s), Installs(s), s.todo = {}, s.pc \notin Chosen,
           NEW m \in Modules, s.requires = requires[m], UNCHANGED requires,
           lock'[m] = s.made, Quiet,
           \A p \in Plugins, v \in Version : ReleaseKept(p, v) => ReleaseKept(p, v)'
    PROVE  LockServes(m)'
<1>1. s.pc \in InitPc /\ s.made \in Locks /\ s.made # Absent /\ s.made # Unreadable
    BY InitIs, LocksAre
<1>2. InHand(s) = {}
    BY DEF InHand
<1>3. Required(requires[m]) = DOMAIN s.made
    BY <1>1, <1>2 DEF Making
<1>4. \A p \in DOMAIN s.made :
          /\ Meets(s.made[p], requires[m][p]) /\ s.made[p].sum # Absent
          /\ p \in Plugins /\ s.made[p].version \in Version
          /\ ReleaseKept(p, s.made[p].version)
    BY <1>1, LocksAre, EntryAre DEF Making, Installs
<1> QED
    BY <1>1, <1>3, <1>4 DEF LockServes, Matches, Meets, EntriesOf

LEMMA RemoveLockStep ==
    ASSUME TypeOK, IInv, NEW c \in Commands, RemoveLock(c)
    PROVE  TypeOK' /\ IInv'
<1>1. PICK s : s = commands[c]
    OBVIOUS
<1>2. PICK r : r = [s EXCEPT !.pc = "rename lock"]
    OBVIOUS
<1>3. /\ s \in InitCommand /\ s.pc = "resolve" /\ s.pc \in InitPc /\ s.pc \notin Ended
      /\ Installing(c) /\ s.pc \notin Chosen /\ s.todo = {}
      /\ Making(s) /\ Sources(s) /\ Undisturbed(s) /\ Installs(s)
    BY <1>1, CommandIs, CommandsOnes
       DEF CommandInv, InitPc, RemoveLock, Ended, Chosen
<1>4. PICK m \in Modules : m = s.module
    BY <1>3, InitIs
<1>5. /\ Set(c, r) /\ KeepWorld /\ UNCHANGED <<cache, pinned, ready>> /\ windows
      /\ lock' = [lock EXCEPT ![m] = Absent]
    BY <1>1, <1>2, <1>4 DEF RemoveLock, Goto, RemovesLock
<1>6. /\ lock' \in [Modules -> {Absent, Unreadable} \cup Locks] /\ lock'[m] = Absent
      /\ \A n \in Modules \ {m} : lock'[n] = lock[n]
    BY <1>5 DEF TypeOK
<1>7. /\ r \in InitCommand /\ r.pc = "rename lock" /\ r.module = s.module
      /\ r.options = s.options /\ r.requires = s.requires /\ r.existing = s.existing
      /\ r.todo = s.todo /\ r.made = s.made /\ r.alone = s.alone
    BY <1>2, <1>3 DEF InitCommand, InitPc
<1>8. /\ r.pc \in InitPc /\ r.pc \notin Chosen \cup Named \cup Holding
      /\ ~HasEntry(r) /\ ~FromLock(r)
    BY <1>7 DEF InitPc, Chosen, Named, Holding, HasEntry, FromLock
<1>9. \A p \in Plugins, v \in Version :
          /\ ArchiveKept(p, v) => ArchiveKept(p, v)'
          /\ ExecutableKept(p, v) => ExecutableKept(p, v)'
          /\ ReleaseKept(p, v) => ReleaseKept(p, v)'
    BY <1>1, <1>3, <1>5, ReleasesStay DEF Chosen
<1>10. CommandInv(r)'
    <2>1. Choice(r)
        BY <1>8 DEF Choice
    <2>2. Making(r)
        <3>1. \A p : Serves(r, p) <=> Serves(s, p)
            BY <1>7 DEF Serves, Matches
        <3>2. InHand(r) = {} /\ InHand(s) = {}
            BY <1>3, <1>8 DEF InHand
        <3> QED
            BY <1>3, <1>7, <1>8, <3>1, <3>2 DEF Making
    <2>3. Sources(r)
        BY <1>3, <1>7, <1>8 DEF Sources
    <2>4. Installs(r)
        BY <1>3, <1>7 DEF Installs
    <2>5. Undisturbed(r)'
        BY <1>4, <1>6, <1>7 DEF Undisturbed
    <2>6. StaysInstalled
        BY <1>9 DEF StaysInstalled
    <2> QED
        BY <1>5, <1>7, <2>1, <2>2, <2>3, <2>4, <2>5, <2>6, InitRecordStays
<1>11. \A n \in Modules : AllOffered(EntriesOf(lock'[n]))
    <2>1. AllOffered(EntriesOf(Absent))
        BY LocksAre DEF EntriesOf, AllOffered
    <2> QED
        BY <1>6, <2>1 DEF IInv, FilesOffered
<1>12. commands'[c] = r /\ \A d \in Commands \ {c} : commands'[d] = commands[d]
    BY <1>5 DEF TypeOK, Set
<1>13. LocksStay'
    <2>1. Rewriting(m)'
        BY <1>4, <1>7, <1>12 DEF Rewriting
    <2>2. \A n : Rewriting(n) => Rewriting(n)'
        BY <1>1, <1>3, <1>12 DEF Rewriting
    <2>3. UNCHANGED <<windows, pinned, faults, ready>>
        BY <1>5 DEF KeepWorld
    <2> QED
        BY <1>5, <1>6, <2>1, <2>2, <2>3, AbsentAssumption DEF IInv, LocksStay, EverLocked
<1>14. Quiet => \A n \in ready' : lock'[n] \in Locks => LockServes(n)'
    <2> SUFFICES ASSUME Quiet, NEW n \in ready, lock'[n] \in Locks
                 PROVE  LockServes(n)'
        BY <1>5
    <2>1. n \in Modules /\ lock'[n] = lock[n] /\ lock[n] \in Locks
        BY <1>6, AbsentAssumption DEF TypeOK, EverLocked
    <2>2. LockServes(n) /\ UNCHANGED requires
        BY <1>5, <2>1 DEF IInv, ReadyServes, KeepWorld
    <2> QED
        BY <1>9, <2>1, <2>2, ServesOn
<1>15. ready' \subseteq EverLocked' /\ pinned' \in [Modules -> {Absent, Unreadable} \cup Locks]
    BY <1>5 DEF TypeOK, EverLocked
<1> QED
    BY <1>1, <1>3, <1>5, <1>6, <1>7, <1>10, <1>11, <1>13, <1>14, <1>15, LockStep DEF Chosen, Finds

LEMMA RenameLockStep ==
    ASSUME TypeOK, IInv, NEW c \in Commands, RenameLock(c)
    PROVE  TypeOK' /\ IInv'
<1>1. PICK s : s = commands[c]
    OBVIOUS
<1>2. PICK r : r = [pc |-> "installed"]
    OBVIOUS
<1>3. /\ s.pc \in {"resolve", "rename lock"} /\ s \in InitCommand /\ s.pc \in InitPc
      /\ Installing(c) /\ s.pc \notin Chosen
      /\ Making(s) /\ Sources(s) /\ Installs(s)
    BY <1>1, CommandIs, CommandsOnes DEF CommandInv, InitPc, RenameLock, Chosen
<1>4. s.todo = {} /\ s.made \in Locks /\ s.made # Absent /\ s.made # Unreadable
    BY <1>1, <1>3, InitIs, LocksAre DEF RenameLock, Making
<1>5. PICK m \in Modules : m = s.module
    BY <1>3, InitIs
<1>6. /\ Set(c, r) /\ KeepWorld /\ UNCHANGED cache
      /\ lock' = [lock EXCEPT ![m] = s.made] /\ pinned' = [pinned EXCEPT ![m] = s.made]
      /\ ready' = IF s.requires = requires[m] THEN ready \cup {m} ELSE ready \ {m}
    BY <1>1, <1>2, <1>5 DEF RenameLock, End
<1>7. /\ lock' \in [Modules -> {Absent, Unreadable} \cup Locks] /\ lock'[m] = s.made
      /\ \A n \in Modules \ {m} : lock'[n] = lock[n]
    BY <1>4, <1>6 DEF TypeOK
<1>8. r \in EndedCommand /\ CommandInv(r)' /\ r.pc \notin InitPc
    BY <1>2, EndedHolds DEF Ended
<1>9. \A p \in Plugins, v \in Version : ReleaseKept(p, v) => ReleaseKept(p, v)'
    <2>1. s.pc \notin {"rename archive", "rename executable"}
        BY <1>3
    <2> QED
        BY <1>1, <1>6, <2>1, ReleasesStay
<1>10. \A n \in Modules : AllOffered(EntriesOf(lock'[n]))
    <2>1. AllOffered(EntriesOf(s.made))
        BY <1>3, <1>4 DEF EntriesOf, Sources
    <2> QED
        BY <1>7, <2>1 DEF IInv, FilesOffered
<1>11. \A d \in Commands \ {c} : commands'[d] = commands[d]
    BY <1>6 DEF TypeOK, Set
<1>12. LocksStay'
    <2>1. \A n \in Modules \ {m} : Rewriting(n) => Rewriting(n)'
        BY <1>1, <1>5, <1>11 DEF Rewriting
    <2>2. UNCHANGED <<windows, faults>>
        BY <1>6 DEF KeepWorld
    <2> QED
        BY <1>4, <1>6, <1>7, <2>1, <2>2 DEF IInv, LocksStay, EverLocked, TypeOK
<1>13. Quiet => \A n \in ready' : lock'[n] \in Locks => LockServes(n)'
    <2> SUFFICES ASSUME Quiet, NEW n \in ready', lock'[n] \in Locks
                 PROVE  LockServes(n)'
        OBVIOUS
    <2>1. UNCHANGED requires
        BY <1>6 DEF KeepWorld
    <2>2. CASE n = m
        <3>1. s.requires = requires[m]
            BY <1>6, <2>2
        <3> QED
            BY <1>3, <1>4, <1>7, <1>9, <2>1, <2>2, <3>1, MadeServes
    <2>3. CASE n # m
        <3>1. n \in ready /\ n \in Modules
            BY <1>6, <2>3 DEF TypeOK, EverLocked
        <3>2. LockServes(n) /\ lock'[n] = lock[n] /\ lock[n] \in Locks
            BY <1>7, <2>3, <3>1 DEF IInv, ReadyServes
        <3> QED
            BY <1>9, <2>1, <3>1, <3>2, ServesOn
    <2> QED
        BY <2>2, <2>3
<1>14. ready' \subseteq EverLocked' /\ pinned' \in [Modules -> {Absent, Unreadable} \cup Locks]
    BY <1>4, <1>6 DEF TypeOK, EverLocked
<1> QED
    BY <1>1, <1>3, <1>6, <1>7, <1>8, <1>10, <1>12, <1>13, <1>14, LockStep

LEMMA FinishFrozenStep ==
    ASSUME TypeOK, IInv, NEW c \in Commands, FinishFrozen(c)
    PROVE  TypeOK' /\ IInv'
<1>1. PICK s : s = commands[c]
    OBVIOUS
<1>2. /\ s.pc = "resolve" /\ s \in InitCommand /\ s.pc \in InitPc
      /\ Installing(c) /\ s.pc \notin Chosen /\ s.todo = {}
      /\ Making(s) /\ Sources(s) /\ Installs(s)
    BY <1>1, CommandIs, CommandsOnes DEF CommandInv, InitPc, FinishFrozen, Chosen
<1>3. s.made \in Locks /\ s.made # Absent /\ s.made # Unreadable
    BY <1>2, InitIs, LocksAre
<1>4. PICK m \in Modules : m = s.module
    BY <1>2, InitIs
<1>5. KeepWorld /\ UNCHANGED <<lock, cache, pinned>>
    BY DEF FinishFrozen, KeepFiles
<1>6. PICK r : /\ r \in EndedCommand /\ CommandInv(r)' /\ r.pc \notin InitPc /\ Set(c, r)
               /\ ready' \subseteq ready \cup {m}
               /\ m \in ready' \ ready => lock[m] = s.made /\ s.requires = requires[m]
    <2>1. PICK r : r = [pc |-> "installed"]
        OBVIOUS
    <2>2. PICK q : q = [pc |-> "failed"]
        OBVIOUS
    <2>3. /\ r \in EndedCommand /\ CommandInv(r)' /\ r.pc \notin InitPc
          /\ q \in EndedCommand /\ CommandInv(q)' /\ q.pc \notin InitPc
        BY <2>1, <2>2, EndedHolds DEF Ended
    <2>4. CASE s.existing = s.made
        <3>1. /\ Set(c, r)
              /\ ready' = IF lock[m] = s.made /\ s.requires = requires[m]
                          THEN ready \cup {m} ELSE ready
            BY <1>1, <1>4, <2>1, <2>4 DEF FinishFrozen, End
        <3> QED
            BY <2>3, <3>1
    <2>5. CASE s.existing # s.made
        <3>1. Set(c, q) /\ ready' = ready
            BY <1>1, <2>2, <2>5 DEF FinishFrozen, End, Fail
        <3> QED
            BY <2>3, <3>1
    <2> QED
        BY <2>4, <2>5
<1>7. lock' \in [Modules -> {Absent, Unreadable} \cup Locks]
    BY <1>5 DEF TypeOK
<1>8. \A n \in Modules : AllOffered(EntriesOf(lock'[n]))
    BY <1>5 DEF IInv, FilesOffered
<1>9. \A p \in Plugins, v \in Version : ReleaseKept(p, v) => ReleaseKept(p, v)'
    BY <1>1, <1>2, <1>5, <1>6, ReleasesStay
<1>10. \A d \in Commands \ {c} : commands'[d] = commands[d]
    BY <1>6 DEF TypeOK, Set
<1>11. LocksStay'
    <2>1. \A n : Rewriting(n) => Rewriting(n)'
        BY <1>1, <1>2, <1>10 DEF Rewriting
    <2>2. UNCHANGED <<windows, faults>>
        BY <1>5 DEF KeepWorld
    <2> QED
        BY <1>3, <1>5, <1>6, <2>1, <2>2 DEF IInv, LocksStay, EverLocked
<1>12. Quiet => \A n \in ready' : lock'[n] \in Locks => LockServes(n)'
    <2> SUFFICES ASSUME Quiet, NEW n \in ready', lock'[n] \in Locks
                 PROVE  LockServes(n)'
        OBVIOUS
    <2>1. UNCHANGED requires
        BY <1>5 DEF KeepWorld
    <2>2. CASE n \in ready
        <3>1. n \in Modules
            BY <2>2 DEF TypeOK, EverLocked
        <3>2. LockServes(n) /\ lock'[n] = lock[n] /\ lock[n] \in Locks
            BY <1>5, <2>2, <3>1 DEF IInv, ReadyServes
        <3> QED
            BY <1>9, <2>1, <3>1, <3>2, ServesOn
    <2>3. CASE n \notin ready
        <3>1. n = m /\ s.requires = requires[m] /\ lock'[m] = s.made
            BY <1>5, <1>6, <2>3
        <3> QED
            BY <1>2, <1>9, <2>1, <3>1, MadeServes
    <2> QED
        BY <2>2, <2>3
<1>13. ready' \subseteq EverLocked' /\ pinned' \in [Modules -> {Absent, Unreadable} \cup Locks]
    <2>1. m \in ready' \ ready => m \in EverLocked
        BY <1>3, <1>6 DEF IInv, LocksStay, EverLocked
    <2> QED
        BY <1>5, <1>6, <2>1 DEF TypeOK, EverLocked
<1> QED
    BY <1>1, <1>2, <1>5, <1>6, <1>7, <1>8, <1>11, <1>12, <1>13, LockStep

-----------------------------------------------------------------------------
(* A command begins. *)
LEMMA BeginStep ==
    ASSUME TypeOK, IInv, NEW c \in Commands, ~Running(c),
           NEW r \in InitCommand \cup RunCommand \cup EndedCommand,
           commands' \in [Commands -> InitCommand \cup RunCommand \cup EndedCommand],
           commands'[c] = r,
           \A d \in Commands \ {c} : Same(commands[d], commands'[d]),
           \A d \in Commands : r.pc \notin Ended /\ r.alone /\ d # c => ~Installing(d),
           r.pc \in InitPc /\ r.alone => Found(r),
           r.pc \in InitPc => \A d \in Commands \ {c} : Running(d)' => ~commands'[d].alone,
           begun < MaxCommands, begun' = begun + 1,
           UNCHANGED <<windows, requires, lock, cache, published, events, faults,
                       pinned, ready>>,
           CommandInv(r)
    PROVE  TypeOK' /\ IInv'
<1>1. TypeOK'
    BY BoundsAssumption DEF TypeOK, EverLocked
<1>2. commands[c].pc \notin {"rename archive", "rename executable", "rename lock"}
    BY DEF Running, Ended
<1>3. \A p \in Plugins, v \in Version :
          /\ ArchiveKept(p, v) => ArchiveKept(p, v)'
          /\ ExecutableKept(p, v) => ExecutableKept(p, v)'
          /\ ReleaseKept(p, v) => ReleaseKept(p, v)'
    BY <1>2, KeptByOthers DEF ReleaseKept
<1>4. /\ \A p, v : Offered(p, v)' = Offered(p, v)
      /\ Replaced' = Replaced /\ Quiet' = Quiet
    BY DEF Offered, Replaced, Quiet
<1>5. \A d \in Commands \ {c} : \A q : q = commands'[d] => CommandInv(q)'
    <2> SUFFICES ASSUME NEW d \in Commands \ {c}, NEW q, q = commands'[d]
                 PROVE  CommandInv(q)'
        OBVIOUS
    <2>1. PICK s : s = commands[d]
        OBVIOUS
    <2>2. CommandInv(s) /\ Same(s, q)
        BY <2>1, CommandsOnes
    <2> QED
        BY <2>1, <2>2, <1>3, <1>4, OthersHold
<1>6. CommandInv(r)'
    <2>1. Choice(r)' /\ Making(r)'
        BY DEF CommandInv, Choice, Making
    <2>2. Sources(r)'
        BY <1>4 DEF CommandInv, Sources, AllOffered
    <2>3. Undisturbed(r)' /\ Executed(r)'
        BY <1>4 DEF CommandInv, Undisturbed, Executed
    <2>4. Installs(r)'
        <3> SUFFICES ASSUME Quiet, r.pc \in InitPc
                     PROVE  Installs(r)'
            BY <1>4 DEF Installs
        <3>1. r \in InitCommand
            BY RecordIs
        <3>2. \A p \in DOMAIN r.made : p \in Plugins /\ r.made[p].version \in Version
            BY <3>1, InitIs, LocksAre, EntryAre
        <3>3. r.pc \in Chosen => r.plugin \in Plugins /\ r.entry.version \in Version
            BY EntryAre DEF CommandInv, Choice, HasEntry
        <3> QED
            BY <3>2, <3>3, <1>3 DEF CommandInv, Installs, Chosen
    <2> QED
        BY <2>1, <2>2, <2>3, <2>4 DEF CommandInv
<1>7. Alone'
    <2>1. \A d \in Commands \ {c} : Installing(d)' => Installing(d)
        BY CommandIs, RecordIs DEF Same, Installing, Running
    <2>2. \A d \in Commands \ {c} : Running(d)' /\ commands'[d].alone
              => Running(d) /\ commands[d].alone
        <3> SUFFICES ASSUME NEW d \in Commands \ {c}, Running(d)', commands'[d].alone
                     PROVE  Running(d) /\ commands[d].alone
            OBVIOUS
        <3>1. Same(commands[d], commands'[d])
            OBVIOUS
        <3>2. commands[d].pc = commands'[d].pc /\ Running(d)
            BY <3>1 DEF Same, Running
        <3>3. commands[d].pc \in InitPc \cup RunPc
            BY <3>2, CommandIs
        <3> QED
            BY <3>1, <3>2, <3>3 DEF Same
    <2>3. Installing(c)' => r.pc \in InitPc
        BY RecordIs DEF Installing, Running
    <2> SUFFICES ASSUME NEW a \in Commands, NEW d \in Commands, Running(a)',
                        commands'[a].alone, d # a
                 PROVE  ~Installing(d)'
        BY DEF Alone
    <2>4. CASE a = c
        BY <2>1, <2>4 DEF Running
    <2>5. CASE a # c /\ d # c
        BY <2>1, <2>2, <2>5 DEF IInv, Alone
    <2>6. CASE a # c /\ d = c
        BY <2>3, <2>6
    <2> QED
        BY <2>4, <2>5, <2>6
<1>8. FilesOffered'
    BY <1>4 DEF IInv, FilesOffered, Known, AllOffered
<1>9. LocksStay'
    <2>1. ASSUME NEW m, Rewriting(m)
          PROVE  Rewriting(m)'
        <3>1. PICK d \in Commands : commands[d].pc = "rename lock" /\ commands[d].module = m
            BY <2>1 DEF Rewriting
        <3>2. Same(commands[d], commands'[d]) /\ commands[d].pc \in InitPc
            BY <1>2, <3>1 DEF InitPc
        <3>3. commands'[d].pc = "rename lock" /\ commands'[d].module = m
            BY <3>1, <3>2 DEF Same
        <3> QED
            BY <3>3 DEF Rewriting
    <2> QED
        BY <2>1 DEF IInv, LocksStay, EverLocked
<1>pins. PinsFound'
    <2> SUFFICES ASSUME NEW d \in Commands, Installing(d)', commands'[d].alone
                 PROVE  Found(commands[d])'
        BY DEF PinsFound
    <2>1. CASE d # c
        <3>1. Installing(d) /\ Finds(commands[d], commands'[d]) /\ commands[d].alone
            BY <2>1, SameFinds DEF Finds
        <3> QED
            BY <3>1 DEF IInv, PinsFound, Found, Finds, LostInWindow
    <2>2. CASE d = c
        <3>1. r.pc \in InitPc
            BY <2>2, RecordIs DEF Installing, Running
        <3> QED
            BY <2>2, <3>1 DEF Found, LostInWindow
    <2> QED
        BY <2>1, <2>2
<1>10. ReadyServes'
    <2> SUFFICES ASSUME Quiet, NEW m \in ready, lock[m] \in Locks
                 PROVE  LockServes(m)'
        BY <1>4 DEF ReadyServes
    <2>1. LockServes(m) /\ m \in Modules
        BY DEF IInv, ReadyServes, TypeOK, EverLocked
    <2> QED
        BY <2>1, <1>3, ServesOn
<1>11. \A d \in Commands : \A q : q = commands'[d] => CommandInv(q)'
    BY <1>5, <1>6
<1> QED
    BY <1>1, <1>7, <1>8, <1>9, <1>10, <1>11, <1>pins, CommandsHold DEF IInv

LEMMA StartInitStep ==
    ASSUME TypeOK, IInv, NEW c \in Commands, NEW m \in Modules, NEW options \in Options,
           StartInit(c, m, options)
    PROVE  TypeOK' /\ IInv'
<1>1. PICK existing : existing = EntriesOf(lock[m])
    OBVIOUS
<1>2. PICK req : req = requires[m]
    OBVIOUS
<1>3. PICK alone \in BOOLEAN : alone = ~OthersInstall(c)
    BY DEF OthersInstall
<1>4. PICK r : r = [kind |-> "init", pc |-> "resolve", module |-> m, options |-> options,
                    requires |-> req, existing |-> existing, todo |-> Required(req),
                    plugin |-> Absent, made |-> NoEntries, entry |-> Absent,
                    data |-> Absent, alone |-> alone]
    OBVIOUS
<1>5. /\ existing \in Locks /\ AllOffered(existing) /\ req \in Requirements
      /\ Required(req) \subseteq Plugins
    <2>1. lock[m] \in Locks \cup {Absent, Unreadable} /\ req \in Requirements
        BY <1>2 DEF TypeOK
    <2> QED
        BY <1>1, <2>1, LocksAre DEF IInv, FilesOffered, Required
<1>6. /\ ~Running(c) /\ begun < MaxCommands /\ begun' = begun + 1
      /\ commands' = [Disturbed EXCEPT ![c] = r]
      /\ UNCHANGED <<windows, requires, lock, cache, published, events, faults,
                     pinned, ready>>
    BY <1>1, <1>2, <1>3, <1>4 DEF StartInit, Begin
<1>7. r \in InitCommand
    BY <1>4, <1>5, LocksAre DEF InitCommand, InitPc
<1>8. /\ r.pc = "resolve" /\ r.pc \in InitPc /\ r.module = m /\ r.requires = req
      /\ r.existing = existing /\ r.todo = Required(req) /\ r.made = NoEntries
      /\ r.alone = alone /\ r.pc \notin Chosen \cup Named \cup Holding /\ ~HasEntry(r)
      /\ ~FromLock(r)
    BY <1>4 DEF InitPc, Chosen, Named, Holding, HasEntry, FromLock
<1>9. /\ commands'[c] = r
      /\ \A d \in Commands \ {c} : commands'[d] = Disturbed[d]
    BY <1>6 DEF Disturbed
<1>10. \A d \in Commands \ {c} :
           \/ commands'[d] = commands[d] /\ ~Running(d)
           \/ Running(d) /\ commands'[d] = [commands[d] EXCEPT !.alone = FALSE]
    BY <1>9 DEF Disturbed
<1>11. \A d \in Commands \ {c} :
           /\ Same(commands[d], commands'[d])
           /\ commands'[d] \in InitCommand \cup RunCommand \cup EndedCommand
    BY <1>10, DisturbedIs
<1>12. commands' \in [Commands -> InitCommand \cup RunCommand \cup EndedCommand]
    <2>1. DOMAIN commands' = Commands /\ commands' = [d \in Commands |-> commands'[d]]
        BY <1>6 DEF Disturbed
    <2> QED
        BY <1>7, <1>9, <1>11, <2>1
<1>13. \A d \in Commands \ {c} : Running(d)' => ~commands'[d].alone
    <2> SUFFICES ASSUME NEW d \in Commands \ {c}, Running(d)'
                 PROVE  ~commands'[d].alone
        OBVIOUS
    <2>1. Running(d)
        BY <1>11 DEF Running, Same
    <2>2. commands'[d] = [commands[d] EXCEPT !.alone = FALSE]
        BY <1>10, <2>1
    <2>3. commands[d] \in InitCommand \cup RunCommand
        BY <2>1, CommandIs
    <2> QED
        BY <2>2, <2>3 DEF InitCommand, RunCommand
<1>14. \A d \in Commands : r.alone /\ d # c => ~Installing(d)
    BY <1>3, <1>8 DEF OthersInstall
<1>found. r.alone => Found(r)
    <2> SUFFICES ASSUME alone
                 PROVE  Found(r)
        BY <1>8
    <2>1. ~Rewriting(m)
        <3> SUFFICES ASSUME NEW d \in Commands, commands[d].pc = "rename lock"
                     PROVE  FALSE
            BY DEF Rewriting
        <3>1. Installing(d)
            BY CommandIs DEF InitPc
        <3> QED
            BY <1>3, <1>6, <3>1 DEF OthersInstall, Installing
    <2>2. CASE lock[m] # Absent
        BY <1>1, <1>8, <2>2 DEF IInv, LocksStay, Found
    <2>3. CASE lock[m] = Absent /\ pinned[m] = Absent
        BY <1>1, <1>8, <2>3 DEF Found
    <2>4. CASE lock[m] = Absent /\ pinned[m] # Absent
        <3>1. windows /\ faults > 0
            BY <2>1, <2>4 DEF IInv, LocksStay, EverLocked
        <3> QED
            BY <1>1, <1>8, <2>4, <3>1 DEF Found, LostInWindow, EntriesOf
    <2> QED
        BY <2>2, <2>3, <2>4
<1>15. CommandInv(r)
    <2>1. Choice(r) /\ Executed(r)
        BY <1>8 DEF Choice, Executed
    <2>2. Making(r)
        <3>1. InHand(r) = {}
            BY <1>8 DEF InHand
        <3> QED
            BY <1>8, <3>1, LocksAre DEF Making
    <2>3. Sources(r)
        BY <1>5, <1>8, LocksAre DEF Sources, AllOffered
    <2>4. Undisturbed(r)
        BY <1>1, <1>8 DEF Undisturbed
    <2>5. Installs(r)
        BY <1>8, LocksAre DEF Installs
    <2> QED
        BY <2>1, <2>2, <2>3, <2>4, <2>5 DEF CommandInv
<1> QED
    BY <1>6, <1>7, <1>9, <1>11, <1>12, <1>13, <1>14, <1>15, <1>found, BeginStep

LEMMA StartInitFailsStep ==
    ASSUME TypeOK, IInv, NEW c \in Commands, NEW m \in Modules, StartInitFails(c, m)
    PROVE  TypeOK' /\ IInv'
<1>1. PICK r : r = [pc |-> "failed"]
    OBVIOUS
<1>2. /\ ~Running(c) /\ begun < MaxCommands /\ begun' = begun + 1
      /\ commands' = [commands EXCEPT ![c] = r]
      /\ UNCHANGED <<windows, requires, lock, cache, published, events, faults,
                     pinned, ready>>
    BY <1>1 DEF StartInitFails, Begin
<1>3. r \in EndedCommand /\ r.pc \in Ended
    BY <1>1 DEF EndedCommand, Ended
<1>4. /\ commands' \in [Commands -> InitCommand \cup RunCommand \cup EndedCommand]
      /\ commands'[c] = r
      /\ \A d \in Commands \ {c} : commands'[d] = commands[d]
    BY <1>2, <1>3 DEF TypeOK
<1>5. \A d \in Commands \ {c} : Same(commands[d], commands'[d])
    BY <1>4, DisturbedIs
<1>6. r.pc \notin InitPc \cup RunPc \cup Chosen \cup Named \cup Holding /\ r.pc # "started"
    BY <1>1 DEF InitPc, RunPc, Chosen, Named, Holding
<1>7. CommandInv(r)
    BY <1>3, <1>6 DEF CommandInv, Choice, Making, Sources, Undisturbed, Executed,
                      Installs, HasEntry, FromLock, InitPc, RunPc
<1> QED
    BY <1>2, <1>3, <1>4, <1>5, <1>6, <1>7, BeginStep

LEMMA StartRunStep ==
    ASSUME TypeOK, IInv, NEW c \in Commands, NEW m \in Modules, NEW p \in Plugins,
           StartRun(c, m, p)
    PROVE  TypeOK' /\ IInv'
<1>1. PICK req : req = requires[m]
    OBVIOUS
<1>2. PICK alone \in BOOLEAN : alone = ~OthersInstall(c)
    BY DEF OthersInstall
<1>3. PICK r : r = [kind |-> "run", pc |-> "lookup", module |-> m, requires |-> req,
                    plugin |-> p, entry |-> Absent, data |-> Absent, from |-> Absent,
                    content |-> Absent, spoilt |-> FALSE, alone |-> alone]
    OBVIOUS
<1>4. /\ ~Running(c) /\ begun < MaxCommands /\ begun' = begun + 1
      /\ commands' = [commands EXCEPT ![c] = r]
      /\ UNCHANGED <<windows, requires, lock, cache, published, events, faults,
                     pinned, ready>>
    BY <1>1, <1>2, <1>3 DEF StartRun, Begin
<1>5. req \in Requirements
    BY <1>1 DEF TypeOK
<1>6. r \in RunCommand
    BY <1>3, <1>5 DEF RunCommand, RunPc, File
<1>7. /\ r.pc = "lookup" /\ r.pc \notin InitPc \cup Chosen \cup Named \cup Holding
      /\ ~HasEntry(r) /\ ~FromLock(r) /\ r.alone = alone
    BY <1>3 DEF InitPc, Chosen, Named, Holding, HasEntry, FromLock
<1>8. /\ commands' \in [Commands -> InitCommand \cup RunCommand \cup EndedCommand]
      /\ commands'[c] = r
      /\ \A d \in Commands \ {c} : commands'[d] = commands[d]
    BY <1>4, <1>6 DEF TypeOK
<1>9. \A d \in Commands \ {c} : Same(commands[d], commands'[d])
    BY <1>8, DisturbedIs
<1>10. \A d \in Commands : r.alone /\ d # c => ~Installing(d)
    BY <1>2, <1>7 DEF OthersInstall
<1>11. CommandInv(r)
    BY <1>7 DEF CommandInv, Choice, Making, Sources, Undisturbed, Executed, Installs
<1> QED
    BY <1>4, <1>6, <1>7, <1>8, <1>9, <1>10, <1>11, BeginStep

-----------------------------------------------------------------------------
(* What happens to the commands and around them. *)
LEMMA OutsideStep ==
    ASSUME TypeOK, IInv, TypeOK',
           \A c \in Commands : commands'[c] = Idle \/ Same(commands[c], commands'[c]),
           \A p \in Plugins, v \in Version : Offered(p, v) \subseteq Offered(p, v)',
           \A c \in Commands : Running(c) /\ commands'[c].alone /\ commands'[c] # Idle
               => UNCHANGED <<lock, cache, published>>,
           \A c \in Commands : \A p \in Plugins, v \in Version :
               /\ AtRelease(commands[c], "exec", p, v) /\ commands'[c] # Idle
               /\ ~commands'[c].spoilt /\ cache'[p][v].exe = Damaged
               => cache[p][v].exe = Damaged,
           UNCHANGED <<windows, pinned>>, faults > 0 => faults' > 0,
           Replaced => Replaced',
           Quiet' => Quiet,
           Quiet' => \A p \in Plugins, v \in Version :
               /\ ArchiveKept(p, v) => ArchiveKept(p, v)'
               /\ ExecutableKept(p, v) => ExecutableKept(p, v)',
           FilesOffered', LocksStay', ReadyServes'
    PROVE  IInv'
<1>1. \A c \in Commands : \A r : r = commands'[c] => CommandInv(r)'
    <2> SUFFICES ASSUME NEW c \in Commands, NEW r, r = commands'[c]
                 PROVE  CommandInv(r)'
        OBVIOUS
    <2>1. CASE r = Idle
        BY <2>1, EndedHolds DEF Idle, Ended
    <2>2. CASE r # Idle
        <3>1. PICK s : s = commands[c]
            OBVIOUS
        <3>2. CommandInv(s) /\ Same(s, r)
            BY <2>2, <3>1, CommandsOnes
        <3>3. /\ Running(c) /\ r.alone => UNCHANGED <<lock, cache, published>>
              /\ \A p \in Plugins, v \in Version :
                    AtRelease(s, "exec", p, v) /\ ~r.spoilt /\ cache'[p][v].exe = Damaged
                    => cache[p][v].exe = Damaged
            BY <2>2, <3>1
        <3> QED
            BY <3>1, <3>2, <3>3, OthersHold
    <2> QED
        BY <2>1, <2>2
<1>2. Alone'
    <2>1. \A c \in Commands : Running(c)' => Running(c) /\ Same(commands[c], commands'[c])
        BY DEF Running, Same, Idle, Ended
    <2>2. \A c \in Commands : Running(c)' /\ commands'[c].alone => commands[c].alone
        <3> SUFFICES ASSUME NEW c \in Commands, Running(c)', commands'[c].alone
                     PROVE  commands[c].alone
            OBVIOUS
        <3>1. commands[c].pc \in InitPc \cup RunPc
            BY <2>1, CommandIs
        <3> QED
            BY <2>1, <3>1 DEF Same
    <2>3. \A c \in Commands : Installing(c)' => Installing(c)
        <3> SUFFICES ASSUME NEW c \in Commands, Installing(c)'
                     PROVE  Installing(c)
            OBVIOUS
        <3>1. Running(c) /\ Same(commands[c], commands'[c])
            BY <2>1 DEF Installing
        <3>2. commands[c].pc \in InitPc \cup RunPc
            BY <3>1, CommandIs
        <3> QED
            BY <3>1, <3>2 DEF Same, Installing
    <2> QED
        BY <2>1, <2>2, <2>3 DEF IInv, Alone
<1>3. PinsFound'
    <2>1. \A c \in Commands : Installing(c)' => Same(commands[c], commands'[c])
        BY DEF Installing, Running, Idle, Ended
    <2> QED
        BY <2>1, SameFinds, PinsStay
<1> QED
    BY <1>1, <1>2, <1>3, CommandsHold DEF IInv

LEMMA InterruptStep ==
    ASSUME TypeOK, IInv, NEW c \in Commands, Interrupt(c)
    PROVE  TypeOK' /\ IInv'
<1>1. /\ faults' = faults + 1 /\ events + faults < MaxEvents
      /\ commands' = [commands EXCEPT ![c] = Idle]
      /\ UNCHANGED <<windows, requires, lock, cache, published, begun, events,
                     pinned, ready>>
    BY DEF Interrupt, MayHappen, Set
<1>2. faults' \in Nat /\ faults' > 0 /\ events' + faults' <= MaxEvents
    BY <1>1, BoundsAssumption DEF TypeOK
<1>3. TypeOK'
    <2>1. Idle \in EndedCommand
        BY DEF Idle, EndedCommand, Ended
    <2> QED
        BY <1>1, <1>2, <2>1 DEF TypeOK, EverLocked
<1>4. /\ commands'[c] = Idle /\ \A d \in Commands \ {c} : commands'[d] = commands[d]
    BY <1>1 DEF TypeOK
<1>5. \A d \in Commands : commands'[d] = Idle \/ Same(commands[d], commands'[d])
    BY <1>4, DisturbedIs
<1>6. ~Quiet'
    BY <1>2 DEF Quiet
<1>7. /\ \A p, v : Offered(p, v)' = Offered(p, v)
      /\ Replaced' = Replaced
    BY <1>1 DEF Offered, Replaced
<1>8. FilesOffered'
    BY <1>1, <1>7 DEF IInv, FilesOffered, Known, AllOffered
<1>9. LocksStay'
    BY <1>1, <1>2 DEF IInv, LocksStay, EverLocked
<1>10. ReadyServes'
    BY <1>6 DEF ReadyServes
<1> QED
    BY <1>1, <1>2, <1>3, <1>5, <1>6, <1>7, <1>8, <1>9, <1>10, OutsideStep

LEMMA DamageStep ==
    ASSUME TypeOK, IInv, NEW p \in Plugins, NEW v \in Version,
           NEW content \in {Absent, Damaged},
           DamageArchive(p, v, content) \/ DamageExecutable(p, v, content)
    PROVE  TypeOK' /\ IInv'
<1>1. PICK files, made :
          /\ \/ files = WithArchive(cache[p][v], content) /\ made = Disturbed
             \/ files = WithExecutable(cache[p][v], content) /\ made = Spoil(p, v, Disturbed)
          /\ cache' = [cache EXCEPT ![p][v] = files] /\ commands' = made
          /\ faults' = faults + 1 /\ events + faults < MaxEvents
          /\ UNCHANGED <<windows, requires, lock, published, begun, events, pinned, ready>>
    BY DEF DamageArchive, DamageExecutable, Damage, MayHappen
<1>2. faults' \in Nat /\ faults' > 0 /\ events' + faults' <= MaxEvents
    BY <1>1, BoundsAssumption DEF TypeOK
<1>3. /\ files \in [archive : File, exe : File]
      /\ files.archive \in {cache[p][v].archive, content}
      /\ files.exe \in {cache[p][v].exe, content}
    <2>1. cache[p][v] \in [archive : File, exe : File] /\ content \in File
        BY DEF TypeOK, File
    <2> QED
        BY <1>1, <2>1, FilesAre
<1>4. /\ cache' \in [Plugins -> [Version -> [archive : File, exe : File]]]
      /\ \A q \in Plugins, w \in Version :
            cache'[q][w] = IF q = p /\ w = v THEN files ELSE cache[q][w]
    <2>1. cache \in [Plugins -> [Version -> [archive : File, exe : File]]]
        BY DEF TypeOK
    <2> QED
        BY <1>1, <1>3, <2>1
<1>moved. \A c \in Commands :
          /\ \/ commands'[c] = commands[c] /\ ~Running(c)
             \/ Running(c) /\ commands'[c] = [commands[c] EXCEPT !.alone = FALSE]
             \/ /\ commands[c].pc = "exec"
                /\ commands'[c] = [[commands[c] EXCEPT !.alone = FALSE] EXCEPT !.spoilt = TRUE]
          /\ AtRelease(commands[c], "exec", p, v) =>
                \/ files.exe = cache[p][v].exe
                \/ commands'[c] = [[commands[c] EXCEPT !.alone = FALSE] EXCEPT !.spoilt = TRUE]
    <2> SUFFICES ASSUME NEW c \in Commands
                 PROVE  /\ \/ commands'[c] = commands[c] /\ ~Running(c)
                           \/ Running(c) /\ commands'[c] = [commands[c] EXCEPT !.alone = FALSE]
                           \/ /\ commands[c].pc = "exec"
                              /\ commands'[c] = [[commands[c] EXCEPT !.alone = FALSE] EXCEPT !.spoilt = TRUE]
                        /\ AtRelease(commands[c], "exec", p, v) =>
                              \/ files.exe = cache[p][v].exe
                              \/ commands'[c] = [[commands[c] EXCEPT !.alone = FALSE] EXCEPT !.spoilt = TRUE]
        OBVIOUS
    <2>1. Disturbed[c] = IF Running(c) THEN [commands[c] EXCEPT !.alone = FALSE] ELSE commands[c]
        BY DEF Disturbed
    <2>2. CASE files = WithArchive(cache[p][v], content) /\ made = Disturbed
        <3>1. files.exe = cache[p][v].exe
            BY <2>2 DEF WithArchive
        <3> QED
            BY <1>1, <2>1, <2>2, <3>1
    <2>3. CASE files = WithExecutable(cache[p][v], content) /\ made = Spoil(p, v, Disturbed)
        <3>1. commands'[c] = IF /\ Disturbed[c].pc = "exec" /\ Disturbed[c].plugin = p
                                /\ Disturbed[c].entry.version = v
                             THEN [Disturbed[c] EXCEPT !.spoilt = TRUE] ELSE Disturbed[c]
            BY <1>1, <2>3 DEF Spoil
        <3>2. CASE Running(c)
            <4>1. commands[c] \in InitCommand \cup RunCommand
                BY <3>2, CommandIs
            <4>2. /\ Disturbed[c].pc = commands[c].pc /\ Disturbed[c].plugin = commands[c].plugin
                  /\ Disturbed[c].entry = commands[c].entry
                BY <2>1, <3>2, <4>1 DEF InitCommand, RunCommand
            <4>3. Disturbed[c] = [commands[c] EXCEPT !.alone = FALSE]
                BY <2>1, <3>2
            <4> QED
                BY <3>1, <3>2, <4>2, <4>3 DEF AtRelease
        <3>3. CASE ~Running(c)
            <4>1. Disturbed[c] = commands[c] /\ commands[c].pc # "exec"
                BY <2>1, <3>3 DEF Running, Ended
            <4> QED
                BY <3>1, <3>3, <4>1 DEF AtRelease
        <3> QED
            BY <3>2, <3>3
    <2> QED
        BY <1>1, <2>2, <2>3
<1>6. \A c \in Commands :
          /\ Same(commands[c], commands'[c])
          /\ commands'[c] \in InitCommand \cup RunCommand \cup EndedCommand
    BY <1>moved, DisturbedIs
<1>5. TypeOK'
    <2>1. commands' = [c \in Commands |-> commands'[c]]
        BY <1>1 DEF Disturbed, Spoil
    <2>2. commands' \in [Commands -> InitCommand \cup RunCommand \cup EndedCommand]
        BY <1>6, <2>1
    <2> QED
        BY <1>1, <1>2, <1>4, <2>2 DEF TypeOK, EverLocked
<1>alone. \A c \in Commands : Running(c) => ~commands'[c].alone
    <2> SUFFICES ASSUME NEW c \in Commands, Running(c)
                 PROVE  ~commands'[c].alone
        OBVIOUS
    <2>1. commands[c] \in InitCommand \cup RunCommand
        BY CommandIs
    <2>2. commands[c].pc = "exec" => commands[c] \in RunCommand
        BY CommandIs DEF RunPc
    <2> QED
        BY <1>moved, <2>1, <2>2 DEF InitCommand, RunCommand
<1>exec. \A c \in Commands : \A q \in Plugins, w \in Version :
             AtRelease(commands[c], "exec", q, w) /\ ~commands'[c].spoilt
                /\ cache'[q][w].exe = Damaged => cache[q][w].exe = Damaged
    <2> SUFFICES ASSUME NEW c \in Commands, NEW q \in Plugins, NEW w \in Version,
                        AtRelease(commands[c], "exec", q, w), ~commands'[c].spoilt,
                        cache'[q][w].exe = Damaged
                 PROVE  cache[q][w].exe = Damaged
        OBVIOUS
    <2>1. commands[c] \in RunCommand
        BY CommandIs DEF AtRelease, RunPc
    <2>2. [[commands[c] EXCEPT !.alone = FALSE] EXCEPT !.spoilt = TRUE].spoilt
        BY <2>1 DEF RunCommand
    <2>3. CASE q = p /\ w = v
        BY <1>4, <1>moved, <2>2, <2>3
    <2>4. CASE ~(q = p /\ w = v)
        BY <1>4, <2>4
    <2> QED
        BY <2>3, <2>4
<1>7. ~Quiet'
    BY <1>2 DEF Quiet
<1>8. /\ \A q, w : Offered(q, w)' = Offered(q, w)
      /\ Replaced' = Replaced
    BY <1>1 DEF Offered, Replaced
<1>9. FilesOffered'
    <2>1. (\A m \in Modules : AllOffered(EntriesOf(lock[m])))'
        BY <1>1, <1>8 DEF IInv, FilesOffered, AllOffered
    <2>2. content \in Offered(p, v) \/ content = Damaged
        BY DEF Offered
    <2>3. \A q \in Plugins, w \in Version :
              /\ Known(cache[q][w].archive, q, w) /\ Known(cache[q][w].exe, q, w)
        BY DEF IInv, FilesOffered
    <2>4. Known(files.archive, p, v) /\ Known(files.exe, p, v)
        BY <1>3, <2>2, <2>3 DEF Known
    <2>5. \A q \in Plugins, w \in Version :
              /\ Known(cache'[q][w].archive, q, w) /\ Known(cache'[q][w].exe, q, w)
        BY <1>4, <2>3, <2>4
    <2> QED
        BY <1>8, <2>1, <2>5 DEF FilesOffered, Known
<1>10. LocksStay'
    BY <1>1, <1>2 DEF IInv, LocksStay, EverLocked
<1>11. ReadyServes'
    BY <1>7 DEF ReadyServes
<1> QED
    BY <1>1, <1>2, <1>5, <1>6, <1>7, <1>8, <1>9, <1>10, <1>11, <1>alone, <1>exec, OutsideStep

LEMMA PublishStep ==
    ASSUME TypeOK, IInv, NEW p \in Plugins, NEW v \in Version,
           NEW build \in Build \cup {Bare}, Publish(p, v, build)
    PROVE  TypeOK' /\ IInv'
<1>2. /\ published' = [published EXCEPT ![p][v] = build]
      /\ build \in NextOffer(published[p][v])
      /\ events' = events + 1 /\ events + faults < MaxEvents /\ commands' = Disturbed
      /\ UNCHANGED <<windows, requires, lock, cache, begun, faults, pinned, ready>>
    BY DEF Publish, MayHappen
<1>3. /\ published[p][v] \in Build \cup {Absent, Bare}
      /\ published[p][v] \in Build =>
            build \in Build /\ build > 1 /\ published[p][v] <= build
    <2>1. published[p][v] \in Build \cup {Absent, Bare}
        BY DEF TypeOK
    <2>2. published[p][v] \in Build => build = published[p][v] + 1 /\ build \in Build
        BY <1>2 DEF NextOffer
    <2> QED
        BY <2>1, <2>2, BuildIs
<1>4. /\ published' \in [Plugins -> [Version -> Build \cup {Absent, Bare}]]
      /\ \A q \in Plugins, w \in Version :
            published'[q][w] = IF q = p /\ w = v THEN build ELSE published[q][w]
    <2>1. published \in [Plugins -> [Version -> Build \cup {Absent, Bare}]]
        BY DEF TypeOK
    <2> QED
        BY <1>2, <1>3, <2>1
<1>5. events' \in Nat /\ events' + faults' <= MaxEvents
    BY <1>2, BoundsAssumption DEF TypeOK
<1>6. \A c \in Commands :
          \/ commands'[c] = commands[c] /\ ~Running(c)
          \/ Running(c) /\ commands'[c] = [commands[c] EXCEPT !.alone = FALSE]
    BY <1>2 DEF Disturbed
<1>7. \A c \in Commands :
          /\ Same(commands[c], commands'[c])
          /\ commands'[c] \in InitCommand \cup RunCommand \cup EndedCommand
    BY <1>6, DisturbedIs
<1>8. commands' \in [Commands -> InitCommand \cup RunCommand \cup EndedCommand]
    <2>1. commands' = [c \in Commands |-> commands'[c]]
        BY <1>2 DEF Disturbed
    <2> QED
        BY <1>7, <2>1
<1>9. TypeOK'
    BY <1>2, <1>4, <1>5, <1>8 DEF TypeOK, EverLocked
<1>10. \A c \in Commands : Running(c) => ~commands'[c].alone
    <2> SUFFICES ASSUME NEW c \in Commands, Running(c)
                 PROVE  ~commands'[c].alone
        OBVIOUS
    <2>1. commands[c] \in InitCommand \cup RunCommand
        BY CommandIs
    <2>2. commands'[c] = [commands[c] EXCEPT !.alone = FALSE]
        BY <1>6
    <2> QED
        BY <2>1, <2>2 DEF InitCommand, RunCommand
<1>11. \A q \in Plugins, w \in Version : Offered(q, w) \subseteq Offered(q, w)'
    <2> SUFFICES ASSUME NEW q \in Plugins, NEW w \in Version, NEW b \in Build,
                        published[q][w] \in Build, b <= published[q][w]
                 PROVE  published'[q][w] \in Build /\ b <= published'[q][w]
        BY DEF Offered
    <2>1. CASE q = p /\ w = v
        BY <1>3, <1>4, <2>1, BuildIs
    <2>2. CASE ~(q = p /\ w = v)
        BY <1>4, <2>2
    <2> QED
        BY <2>1, <2>2
<1>12. Replaced => Replaced'
    <2> SUFFICES ASSUME NEW q \in Plugins, NEW w \in Version,
                        published[q][w] \notin {Absent, Bare, 1}
                 PROVE  published'[q][w] \notin {Absent, Bare, 1}
        BY DEF Replaced
    <2>1. CASE q = p /\ w = v
        BY <1>3, <1>4, <2>1, BuildIs
    <2>2. CASE ~(q = p /\ w = v)
        BY <1>4, <2>2
    <2> QED
        BY <2>1, <2>2
<1>13. Quiet' => Quiet
    BY <1>2, <1>12 DEF Quiet
<1>14. \A q \in Plugins, w \in Version :
          /\ ArchiveKept(q, w) => ArchiveKept(q, w)'
          /\ ExecutableKept(q, w) => ExecutableKept(q, w)'
          /\ ReleaseKept(q, w) => ReleaseKept(q, w)'
    <2>1. \A c \in Commands, pc \in {"rename archive", "rename executable"} :
              \A q, w : AtRelease(commands[c], pc, q, w) => AtRelease(commands'[c], pc, q, w)
        BY <1>7 DEF Same, AtRelease, InitPc
    <2> QED
        BY <1>2, <2>1 DEF ReleaseKept, ArchiveKept, ExecutableKept
<1>15. FilesOffered'
    <2>1. \A l \in Locks : AllOffered(l) => \A q \in DOMAIN l : l[q].sum \in Offered(q, l[q].version)'
        BY <1>11, LocksAre, EntryAre DEF AllOffered
    <2>2. \A m \in Modules : EntriesOf(lock[m]) \in Locks /\ AllOffered(EntriesOf(lock[m]))
        BY LocksAre DEF TypeOK, IInv, FilesOffered
    <2>3. (\A m \in Modules : AllOffered(EntriesOf(lock[m])))'
        BY <1>2, <2>1, <2>2 DEF AllOffered, EntriesOf
    <2>4. \A q \in Plugins, w \in Version :
              Known(cache[q][w].archive, q, w)' /\ Known(cache[q][w].exe, q, w)'
        BY <1>2, <1>11 DEF IInv, FilesOffered, Known
    <2> QED
        BY <2>3, <2>4 DEF FilesOffered
<1>16. LocksStay'
    <2>1. \A m : Rewriting(m) => Rewriting(m)'
        BY <1>7 DEF Rewriting, Same, InitPc
    <2> QED
        BY <1>2, <2>1 DEF IInv, LocksStay, EverLocked
<1>17. ReadyServes'
    <2> SUFFICES ASSUME Quiet, NEW m \in ready, lock[m] \in Locks
                 PROVE  LockServes(m)'
        BY <1>2, <1>13 DEF ReadyServes
    <2>1. LockServes(m) /\ m \in Modules
        BY DEF IInv, ReadyServes, TypeOK, EverLocked
    <2> QED
        BY <2>1, <1>2, <1>14, ServesOn
<1> QED
    BY <1>2, <1>7, <1>9, <1>10, <1>11, <1>12, <1>13, <1>14, <1>15, <1>16, <1>17, OutsideStep

LEMMA EditRequirementStep ==
    ASSUME TypeOK, IInv, NEW m \in Modules, NEW p \in Plugins,
           NEW constraint \in Constraints \cup {NotRequired},
           EditRequirement(m, p, constraint)
    PROVE  TypeOK' /\ IInv'
<1>1. /\ requires' = [requires EXCEPT ![m][p] = constraint] /\ ready' = ready \ {m}
      /\ events' = events + 1 /\ events + faults < MaxEvents
      /\ UNCHANGED <<windows, lock, cache, published, commands, begun, faults, pinned>>
    BY DEF EditRequirement, MayHappen
<1>2. /\ requires' \in [Modules -> Requirements]
      /\ \A n \in Modules \ {m} : requires'[n] = requires[n]
    BY <1>1 DEF TypeOK, Requirements
<1>3. events' \in Nat /\ events' + faults' <= MaxEvents
    BY <1>1, BoundsAssumption DEF TypeOK
<1>4. TypeOK'
    BY <1>1, <1>2, <1>3 DEF TypeOK, EverLocked
<1>5. \A c \in Commands : Same(commands[c], commands'[c])
    BY <1>1, DisturbedIs
<1>6. /\ \A q, w : Offered(q, w)' = Offered(q, w)
      /\ \A q, w : /\ ArchiveKept(q, w)' = ArchiveKept(q, w)
                   /\ ExecutableKept(q, w)' = ExecutableKept(q, w)
                   /\ ReleaseKept(q, w)' = ReleaseKept(q, w)
      /\ Replaced' = Replaced /\ Quiet' = Quiet
    BY <1>1 DEF Offered, Replaced, Quiet, ReleaseKept, ArchiveKept, ExecutableKept
<1>7. FilesOffered'
    BY <1>1, <1>6 DEF IInv, FilesOffered, Known, AllOffered
<1>8. LocksStay'
    BY <1>1 DEF IInv, LocksStay, EverLocked, Rewriting
<1>9. ReadyServes'
    <2> SUFFICES ASSUME Quiet, NEW n \in ready, n # m, lock[n] \in Locks
                 PROVE  LockServes(n)'
        BY <1>1, <1>6 DEF ReadyServes
    <2>1. LockServes(n) /\ n \in Modules
        BY DEF IInv, ReadyServes, TypeOK, EverLocked
    <2>2. requires'[n] = requires[n] /\ lock'[n] = lock[n]
        BY <1>1, <1>2, <2>1
    <2> QED
        BY <2>1, <2>2, <1>6, ServesOn
<1> QED
    BY <1>1, <1>4, <1>5, <1>6, <1>7, <1>8, <1>9, OutsideStep

(* Nothing happens. *)
LEMMA StutterStep ==
    ASSUME TypeOK, IInv, UNCHANGED vars
    PROVE  TypeOK' /\ IInv'
<1>1. UNCHANGED <<windows, requires, lock, cache, published, commands, begun, events,
                  faults, pinned, ready>>
    BY DEF vars
<1>2. TypeOK'
    BY <1>1 DEF TypeOK, EverLocked
<1>3. \A c \in Commands : Same(commands[c], commands'[c])
    BY <1>1, DisturbedIs
<1>4. /\ \A q, w : Offered(q, w)' = Offered(q, w)
      /\ \A q, w : /\ ArchiveKept(q, w)' = ArchiveKept(q, w)
                   /\ ExecutableKept(q, w)' = ExecutableKept(q, w)
                   /\ ReleaseKept(q, w)' = ReleaseKept(q, w)
      /\ Replaced' = Replaced /\ Quiet' = Quiet
    BY <1>1 DEF Offered, Replaced, Quiet, ReleaseKept, ArchiveKept, ExecutableKept
<1>5. FilesOffered'
    BY <1>1, <1>4 DEF IInv, FilesOffered, Known, AllOffered
<1>6. LocksStay'
    BY <1>1 DEF IInv, LocksStay, EverLocked, Rewriting
<1>7. ReadyServes'
    BY <1>1, <1>4 DEF IInv, ReadyServes, LockServes
<1> QED
    BY <1>1, <1>2, <1>3, <1>4, <1>5, <1>6, <1>7, OutsideStep

-----------------------------------------------------------------------------
LEMMA InitHolds ==
    ASSUME Init
    PROVE  TypeOK /\ IInv
<1>1. \A c \in Commands : commands[c] = Idle /\ ~Running(c)
    BY DEF Init, Running, Idle, Ended
<1>2. TypeOK
    <2>1. Idle \in EndedCommand
        BY DEF Idle, EndedCommand, Ended
    <2> QED
        BY <2>1, BoundsAssumption DEF Init, TypeOK
<1>3. \A c \in Commands : CommandInv(commands[c])
    <2>1. Idle.pc = "idle" /\ Idle.pc \notin InitPc \cup Chosen \cup Named \cup Holding
        BY DEF Idle, InitPc, Chosen, Named, Holding
    <2>2. ~HasEntry(Idle) /\ ~FromLock(Idle) /\ Idle.pc \in Ended
        BY <2>1 DEF HasEntry, FromLock, Ended
    <2>3. CommandInv(Idle)
        BY <2>1, <2>2
           DEF CommandInv, Choice, Making, Sources, Undisturbed, Executed, Installs
    <2> QED
        BY <1>1, <2>3
<1>4. Alone
    BY <1>1 DEF Alone
<1>5. FilesOffered
    BY DEF Init, FilesOffered, Known
<1>6. LocksStay /\ PinsFound /\ ReadyServes
    BY <1>1 DEF Init, LocksStay, EverLocked, PinsFound, Installing, ReadyServes
<1> QED
    BY <1>2, <1>3, <1>4, <1>5, <1>6 DEF IInv

LEMMA NextHolds ==
    ASSUME TypeOK, IInv, [Next]_vars
    PROVE  TypeOK' /\ IInv'
<1>1. CASE \E c \in Commands : InitStep(c)
    <2> SUFFICES ASSUME NEW c \in Commands, InitStep(c)
                 PROVE  TypeOK' /\ IInv'
        BY <1>1
    <2>1. CASE \E m \in Modules, options \in Options : StartInit(c, m, options)
        BY <2>1, StartInitStep
    <2>f. CASE \E m \in Modules : StartInitFails(c, m)
        BY <2>f, StartInitFailsStep
    <2>2. CASE \E p \in Plugins : ResolveLocked(c, p) \/ ResolveFails(c, p)
        BY <2>2, ResolveLockedStep, InitFailsStep
    <2>3. CASE \E p \in Plugins, v \in Version : ResolveRelease(c, p, v)
        BY <2>3, ResolveReleaseStep
    <2>4. CASE VerifyArchive(c) \/ Download(c) \/ InstallFails(c)
        BY <2>4, VerifyArchiveStep, DownloadStep, InitFailsStep
    <2>5. CASE RemoveArchive(c) \/ RenameArchive(c) \/ Extract(c)
        BY <2>5, RemoveArchiveStep, RenameArchiveStep, ExtractStep
    <2>6. CASE CompareExecutable(c) \/ RemoveExecutable(c) \/ RenameExecutable(c)
        BY <2>6, CompareExecutableStep, RemoveExecutableStep, RenameExecutableStep
    <2>7. CASE FinishFrozen(c) \/ RemoveLock(c) \/ RenameLock(c)
        BY <2>7, FinishFrozenStep, RemoveLockStep, RenameLockStep
    <2> QED
        BY <2>1, <2>f, <2>2, <2>3, <2>4, <2>5, <2>6, <2>7 DEF InitStep
<1>2. CASE \E c \in Commands : RunStep(c)
    <2> SUFFICES ASSUME NEW c \in Commands, RunStep(c)
                 PROVE  TypeOK' /\ IInv'
        BY <1>2
    <2>1. CASE \E m \in Modules, p \in Plugins : StartRun(c, m, p)
        BY <2>1, StartRunStep
    <2>2. CASE StartOverride(c) \/ ReadLock(c) \/ StartFromPath(c)
        BY <2>2, LookupStep, ReadLockStep
    <2>3. CASE CheckArchive(c) \/ ReadArchive(c) \/ CheckExecutable(c) \/ Exec(c)
        BY <2>3, CheckArchiveStep, ReadArchiveStep, CheckExecutableStep, ExecStep
    <2> QED
        BY <2>1, <2>2, <2>3 DEF RunStep
<1>3. CASE \E c \in Commands : Interrupt(c)
    BY <1>3, InterruptStep
<1>4. CASE World
    BY <1>4, DamageStep, PublishStep, EditRequirementStep DEF World
<1>5. CASE UNCHANGED vars
    BY <1>5, StutterStep
<1> QED
    BY <1>1, <1>2, <1>3, <1>4, <1>5 DEF Next

(* The types are kept, and what the commands rely on holds throughout. *)
THEOREM TypeCorrect == Spec => [](TypeOK /\ IInv)
<1>1. Init => TypeOK /\ IInv
    BY InitHolds
<1>2. TypeOK /\ IInv /\ [Next]_vars => (TypeOK /\ IInv)'
    BY NextHolds
<1> QED
    BY <1>1, <1>2, PTL DEF Spec

(* A command that a lock let start (DiscoverAt, Exec) started the           *)
(* executable of the archive that the lock names.                           *)
THEOREM StartedRight == Spec => []StartedIsLocked
<1>1. TypeOK /\ IInv => StartedIsLocked
    <2> SUFFICES ASSUME IInv, NEW c \in Commands, NEW s, s = commands[c],
                        s.pc = "started", s.from = "lock",
                        s.alone \/ (~Replaced /\ ~s.spoilt)
                 PROVE  s.content = s.entry.sum /\ s.entry.version \in s.requires[s.plugin]
        BY DEF StartedIsLocked
    <2>1. Choice(s) /\ Executed(s) /\ FromLock(s) /\ HasEntry(s)
        BY CommandsOnes DEF CommandInv, FromLock, HasEntry
    <2> QED
        BY <2>1 DEF Choice, Executed, Meets
<1> QED
    BY <1>1, TypeCorrect, PTL

(* Whoever installed in the cache, and in whatever order, a module whose    *)
(* init succeeded finds every plugin it requires (ensureInstalled,          *)
(* WriteLock) once nobody is installing.                                    *)
THEOREM InstalledAreRunnable == Spec => []InstalledRuns
<1>1. TypeOK /\ IInv => InstalledRuns
    <2> SUFFICES ASSUME TypeOK, IInv, faults = 0, ~Replaced,
                        \A c \in Commands : ~Installing(c), NEW m \in ready,
                        NEW p \in Required(requires[m])
                 PROVE  /\ Matches(lock[m], p, requires[m][p])
                        /\ cache[p][lock[m][p].version] =
                               [archive |-> lock[m][p].sum, exe |-> lock[m][p].sum]
        BY DEF InstalledRuns
    <2>1. \A c \in Commands : commands[c].pc \notin InitPc
        BY CommandIs
    <2>2. m \in Modules /\ lock[m] \in Locks
        <3>1. m \in Modules /\ m \in EverLocked
            BY DEF TypeOK, EverLocked
        <3>2. ~Rewriting(m)
            BY <2>1 DEF Rewriting, InitPc
        <3> QED
            BY <3>1, <3>2 DEF IInv, LocksStay, TypeOK
    <2>3. LockServes(m)
        BY <2>2 DEF IInv, ReadyServes, Quiet
    <2>4. PICK l \in Locks : l = lock[m]
        BY <2>2 DEF TypeOK
    <2>5. /\ Matches(l, p, requires[m][p]) /\ l[p].sum # Absent
          /\ ReleaseKept(p, l[p].version)
        BY <2>3, <2>4 DEF LockServes
    <2>6. p \in DOMAIN l /\ p \in Plugins
        BY <2>2, <2>4, <2>5, LocksAre DEF Matches, EntriesOf
    <2>7. PICK e \in Entry : e = l[p]
        BY <2>6, LocksAre
    <2>8. PICK v \in Version : v = e.version
        BY EntryAre
    <2>9. e.sum \in Offered(p, v)
        BY <2>2, <2>4, <2>6, <2>7, <2>8, LocksAre DEF IInv, FilesOffered, AllOffered, EntriesOf
    <2>10. e.sum = 1
        BY <2>5, <2>6, <2>7, <2>9, OneArchive
    <2>11. cache[p][v].archive = 1 /\ cache[p][v].exe = 1
        BY <2>1, <2>5, <2>7, <2>8
           DEF ReleaseKept, ArchiveKept, ExecutableKept, AtRelease, InitPc
    <2>12. cache[p][v] \in [archive : File, exe : File]
        BY <2>6 DEF TypeOK
    <2>13. cache[p][v] = [archive |-> 1, exe |-> 1]
        BY <2>11, <2>12
    <2> QED
        BY <2>4, <2>5, <2>7, <2>8, <2>10, <2>13
<1> QED
    BY <1>1, TypeCorrect, PTL

-----------------------------------------------------------------------------
(* A step of a command changes its own record, and others' only by making   *)
(* them not alone.                                                          *)
LEMMA OneMoves ==
    ASSUME TypeOK, NEW c \in Commands, InitStep(c) \/ RunStep(c) \/ Interrupt(c)
    PROVE  \A d \in Commands \ {c} : Same(commands[d], commands'[d])
<1>1. ASSUME NEW r, Set(c, r)
      PROVE  \A d \in Commands \ {c} : Same(commands[d], commands'[d])
    BY <1>1, DisturbedIs DEF Set, TypeOK
<1>2. CASE \E m \in Modules, options \in Options : StartInit(c, m, options)
    BY <1>2, DisturbedIs DEF StartInit, Begin, Disturbed
<1>f. CASE \E m \in Modules : StartInitFails(c, m)
    <2>1. \A d \in Commands \ {c} : commands'[d] = commands[d]
        BY <1>f DEF StartInitFails, Begin, TypeOK
    <2> QED
        BY <2>1, DisturbedIs
<1>3. CASE \E m \in Modules, p \in Plugins : StartRun(c, m, p)
    <2>1. \A d \in Commands \ {c} : commands'[d] = commands[d]
        BY <1>3 DEF StartRun, Begin, TypeOK
    <2> QED
        BY <2>1, DisturbedIs
<1>4. CASE Interrupt(c)
    BY <1>1, <1>4 DEF Interrupt
<1>5. CASE \E p \in Plugins : ResolveLocked(c, p) \/ ResolveFails(c, p)
    BY <1>1, <1>5 DEF ResolveLocked, ResolveFails, Fail, End
<1>6. CASE \E p \in Plugins, v \in Version : ResolveRelease(c, p, v)
    BY <1>1, <1>6 DEF ResolveRelease
<1>7. CASE VerifyArchive(c) \/ Download(c) \/ InstallFails(c)
    BY <1>1, <1>7 DEF VerifyArchive, Download, InstallFails, Goto, Fail, End
<1>8. CASE RemoveArchive(c) \/ RenameArchive(c) \/ Extract(c)
    BY <1>1, <1>8 DEF RemoveArchive, RenameArchive, Extract, Goto, Fail, End
<1>9. CASE CompareExecutable(c) \/ RemoveExecutable(c) \/ RenameExecutable(c)
    BY <1>1, <1>9 DEF CompareExecutable, RemoveExecutable, RenameExecutable, Goto
<1>10. CASE FinishFrozen(c) \/ RemoveLock(c) \/ RenameLock(c)
    BY <1>1, <1>10 DEF FinishFrozen, RemoveLock, RenameLock, Goto, Fail, End
<1>11. CASE StartOverride(c) \/ ReadLock(c) \/ StartFromPath(c)
    BY <1>1, <1>11 DEF StartOverride, ReadLock, StartFromPath, End
<1>12. CASE CheckArchive(c) \/ ReadArchive(c) \/ CheckExecutable(c) \/ Exec(c)
    BY <1>1, <1>12 DEF CheckArchive, ReadArchive, CheckExecutable, Exec, Goto, End
<1> QED
    BY <1>2, <1>f, <1>3, <1>4, <1>5, <1>6, <1>7, <1>8, <1>9, <1>10, <1>11, <1>12
       DEF InitStep, RunStep

LEMMA WorldMovesNone ==
    ASSUME TypeOK, World \/ UNCHANGED vars
    PROVE  \A c \in Commands : Same(commands[c], commands'[c])
<1>1. CASE \E p \in Plugins, v \in Version, offer \in Build \cup {Bare} : Publish(p, v, offer)
    BY <1>1, DisturbedIs DEF Publish, Disturbed
<1>2. CASE UNCHANGED commands
    BY <1>2, DisturbedIs
<1>3. CASE \E p \in Plugins, v \in Version, content \in {Absent, Damaged} :
               DamageArchive(p, v, content)
    BY <1>3, DisturbedIs DEF DamageArchive, Damage, Disturbed
<1>4. ASSUME NEW p \in Plugins, NEW v \in Version, NEW content \in {Absent, Damaged},
             DamageExecutable(p, v, content), NEW c \in Commands
      PROVE  Same(commands[c], commands'[c])
    <2>1. Disturbed[c] = IF Running(c) THEN [commands[c] EXCEPT !.alone = FALSE] ELSE commands[c]
        BY DEF Disturbed
    <2>2. \/ commands'[c] = Disturbed[c]
          \/ Disturbed[c].pc = "exec" /\ commands'[c] = [Disturbed[c] EXCEPT !.spoilt = TRUE]
        BY <1>4 DEF DamageExecutable, Damage, Spoil
    <2>3. Running(c) => commands[c] \in InitCommand \cup RunCommand
        BY CommandIs
    <2>4. Disturbed[c].pc = commands[c].pc
        BY <2>1, <2>3 DEF InitCommand, RunCommand
    <2>5. commands[c].pc = "exec" => Running(c)
        BY DEF Running, Ended
    <2> QED
        BY <2>1, <2>2, <2>4, <2>5, DisturbedIs
<1> QED
    BY <1>1, <1>2, <1>3, <1>4 DEF World, vars, EditRequirement

(* Who gets somewhere else has taken a step. *)
LEMMA WhoMoved ==
    ASSUME TypeOK, [Next]_vars, NEW c \in Commands, commands'[c].pc # commands[c].pc
    PROVE  InitStep(c) \/ RunStep(c) \/ Interrupt(c)
BY OneMoves, WorldMovesNone DEF Next, Same

(* Where a step of an init leads. *)
LEMMA InitStepLeads ==
    ASSUME TypeOK, NEW c \in Commands, InitStep(c)
    PROVE  commands'[c].pc # "started"
<1>1. ASSUME NEW r, Set(c, r)
      PROVE  commands'[c] = r
    BY <1>1 DEF Set, TypeOK
<1>2. CASE \E m \in Modules, options \in Options : StartInit(c, m, options)
    BY <1>2 DEF StartInit, Begin, Disturbed
<1>f. CASE \E m \in Modules : StartInitFails(c, m)
    BY <1>f DEF StartInitFails, Begin, TypeOK
<1>3. ASSUME NEW pc, Goto(c, pc), commands[c] \in InitCommand
      PROVE  commands'[c].pc = pc
    BY <1>1, <1>3 DEF Goto, InitCommand
<1>4. ASSUME NEW pc, End(c, pc)
      PROVE  commands'[c].pc = pc
    BY <1>1, <1>4 DEF End
<1>5. commands[c].pc \in InitPc => commands[c] \in InitCommand
    BY CommandIs
<1>6. \A p, entry : commands[c] \in InitCommand => Resolved(commands[c], p, entry).pc = "verify"
    BY DEF Resolved, InitCommand
<1>7. commands[c] \in InitCommand => Installed(commands[c]).pc = "resolve"
    BY DEF Installed, InitCommand
<1>8. CASE \E p \in Plugins : ResolveLocked(c, p) \/ ResolveFails(c, p)
    BY <1>1, <1>4, <1>5, <1>6, <1>8 DEF ResolveLocked, ResolveFails, Fail, InitPc
<1>9. CASE \E p \in Plugins, v \in Version : ResolveRelease(c, p, v)
    BY <1>1, <1>5, <1>6, <1>9 DEF ResolveRelease, InitPc
<1>10. CASE VerifyArchive(c) \/ Download(c) \/ InstallFails(c)
    BY <1>3, <1>4, <1>5, <1>10 DEF VerifyArchive, Download, InstallFails, Fail, InitPc
<1>11. CASE RemoveArchive(c) \/ RenameArchive(c)
    BY <1>3, <1>5, <1>11 DEF RemoveArchive, RenameArchive, InitPc
<1>12. CASE Extract(c)
    <2>1. commands[c] \in InitCommand
        BY <1>5, <1>12 DEF Extract, InitPc
    <2>2. \A data : [commands[c] EXCEPT !.data = data, !.pc = "compare"].pc = "compare"
        BY <2>1 DEF InitCommand
    <2> QED
        BY <1>1, <1>4, <1>12, <2>2 DEF Extract, Fail
<1>13. CASE CompareExecutable(c) \/ RemoveExecutable(c) \/ RenameExecutable(c)
    BY <1>1, <1>3, <1>5, <1>7, <1>13
       DEF CompareExecutable, RemoveExecutable, RenameExecutable, InitPc
<1>14. CASE FinishFrozen(c) \/ RemoveLock(c) \/ RenameLock(c)
    BY <1>3, <1>4, <1>5, <1>14 DEF FinishFrozen, RemoveLock, RenameLock, Fail, InitPc
<1> QED
    BY <1>2, <1>f, <1>8, <1>9, <1>10, <1>11, <1>12, <1>13, <1>14 DEF InitStep

LEMMA OnlyFromPath ==
    ASSUME TypeOK, NEW c \in Commands, RunStep(c), commands'[c].pc = "started",
           commands'[c].from = "path"
    PROVE  StartFromPath(c) /\ commands'[c].module = commands[c].module
<1>1. ASSUME NEW r, Set(c, r)
      PROVE  commands'[c] = r
    BY <1>1 DEF Set, TypeOK
<1>2. ASSUME NEW pc, End(c, pc)
      PROVE  commands'[c].pc = pc
    BY <1>1, <1>2 DEF End
<1>3. commands[c].pc \in RunPc => commands[c] \in RunCommand
    BY CommandIs
<1>4. ASSUME NEW pc, Goto(c, pc), commands[c] \in RunCommand
      PROVE  commands'[c].pc = pc
    BY <1>1, <1>4 DEF Goto, RunCommand
<1>5. ~\E m \in Modules, p \in Plugins : StartRun(c, m, p)
    BY DEF StartRun, Begin, TypeOK
<1>6. ~StartOverride(c)
    <2> SUFFICES ASSUME StartOverride(c)
                 PROVE  FALSE
        OBVIOUS
    <2>1. commands[c] \in RunCommand
        BY <1>3 DEF StartOverride, RunPc
    <2> QED
        BY <1>1, <2>1 DEF StartOverride, RunCommand
<1>7. ~ReadLock(c)
    <2> SUFFICES ASSUME ReadLock(c)
                 PROVE  FALSE
        OBVIOUS
    <2>1. commands[c] \in RunCommand
        BY <1>3 DEF ReadLock, RunPc
    <2>2. \A entry : [commands[c] EXCEPT !.entry = entry, !.pc = "check archive"].pc = "check archive"
        BY <2>1 DEF RunCommand
    <2> QED
        BY <1>1, <1>2, <2>2 DEF ReadLock
<1>8. ~CheckArchive(c) /\ ~CheckExecutable(c)
    BY <1>2, <1>3, <1>4 DEF CheckArchive, CheckExecutable, RunPc
<1>9. ~ReadArchive(c)
    <2> SUFFICES ASSUME ReadArchive(c)
                 PROVE  FALSE
        OBVIOUS
    <2>1. commands[c] \in RunCommand
        BY <1>3 DEF ReadArchive, RunPc
    <2>2. \A data : [commands[c] EXCEPT !.data = data, !.pc = "check executable"].pc = "check executable"
        BY <2>1 DEF RunCommand
    <2> QED
        BY <1>1, <1>2, <2>2 DEF ReadArchive
<1>10. ~Exec(c)
    <2> SUFFICES ASSUME Exec(c)
                 PROVE  FALSE
        OBVIOUS
    <2>1. commands[c] \in RunCommand
        BY <1>3 DEF Exec, RunPc
    <2>2. \A content : [commands[c] EXCEPT !.pc = "started", !.from = "lock",
                                           !.content = content].from = "lock"
        BY <2>1 DEF RunCommand
    <2> QED
        BY <1>1, <1>2, <2>2 DEF Exec
<1>11. StartFromPath(c)
    BY <1>5, <1>6, <1>7, <1>8, <1>9, <1>10 DEF RunStep
<1>12. commands'[c].module = commands[c].module
    <2>1. commands[c] \in RunCommand
        BY <1>3, <1>11 DEF StartFromPath, RunPc
    <2>2. [commands[c] EXCEPT !.pc = "started", !.from = "path"].module = commands[c].module
        BY <2>1 DEF RunCommand
    <2> QED
        BY <1>1, <1>2, <1>11, <2>2 DEF StartFromPath
<1> QED
    BY <1>11, <1>12

(* A module that once had a lock gets nothing from PATH (DiscoverAt,        *)
(* WriteLock), except in the window in which Windows leaves it without one. *)
THEOREM LocksAreNotBypassed == Spec => LockBypassedInWindow
<1>1. ASSUME TypeOK, IInv, [Next]_vars, NEW c \in Commands,
             commands'[c].pc = "started", commands[c].pc # "started",
             commands'[c].from = "path", commands'[c].module \in EverLocked
      PROVE  windows /\ (Rewriting(commands'[c].module) \/ faults > 0)
    <2>1. RunStep(c)
        <3>1. ~Interrupt(c)
            BY <1>1 DEF Interrupt, Set, Idle, TypeOK
        <3> QED
            BY <1>1, <3>1, WhoMoved, InitStepLeads
    <2>2. StartFromPath(c) /\ commands'[c].module = commands[c].module
        BY <1>1, <2>1, OnlyFromPath
    <2> QED
        BY <1>1, <2>2 DEF StartFromPath, IInv, LocksStay, EverLocked, TypeOK
<1>2. TypeOK /\ IInv /\ [Next]_vars =>
          \A c \in Commands :
              LET s == commands'[c] IN
              s.pc = "started" /\ commands[c].pc # "started" /\ s.from = "path"
                 /\ s.module \in EverLocked
              => windows /\ (Rewriting(s.module) \/ faults > 0)
    BY <1>1
<1> QED
    BY <1>2, TypeCorrect, PTL DEF Spec, LockBypassedInWindow

(* What takes an init further, or ends it, is its own step. *)
LEMMA OnlyItsOwn ==
    ASSUME TypeOK, [Next]_vars, NEW c \in Commands, Installing(c),
           commands'[c].pc # commands[c].pc
    PROVE  InitStep(c) \/ Interrupt(c)
<1>1. Running(c) /\ commands[c].pc \in InitPc
    BY CommandIs DEF Installing
<1>2. ~RunStep(c)
    BY <1>1 DEF RunStep, StartRun, Begin, StartOverride, ReadLock, StartFromPath,
                CheckArchive, ReadArchive, CheckExecutable, Exec, InitPc
<1> QED
    BY <1>2, WhoMoved

(* What a step of an init does to where it stands. *)
LEMMA Goes ==
    ASSUME TypeOK, NEW c \in Commands, Installing(c)
    PROVE  /\ \A r : Set(c, r) => commands'[c] = r
           /\ \A pc : Goto(c, pc) => commands'[c].pc = pc
           /\ \A pc : End(c, pc) => commands'[c].pc = pc
           /\ \A p, entry : Resolved(commands[c], p, entry).pc = "verify"
           /\ Installed(commands[c]).pc = "resolve"
           /\ \A data : [commands[c] EXCEPT !.data = data, !.pc = "compare"].pc = "compare"
<1>1. ASSUME NEW r, Set(c, r)
      PROVE  commands'[c] = r
    BY <1>1 DEF Set, TypeOK
<1>2. commands[c] \in InitCommand
    BY CommandIs
<1>3. ASSUME NEW pc, Goto(c, pc)
      PROVE  commands'[c].pc = pc
    BY <1>1, <1>2, <1>3 DEF Goto, InitCommand
<1>4. ASSUME NEW pc, End(c, pc)
      PROVE  commands'[c].pc = pc
    BY <1>1, <1>4 DEF End
<1>5. /\ \A p, entry : Resolved(commands[c], p, entry).pc = "verify"
      /\ Installed(commands[c]).pc = "resolve"
      /\ \A data : [commands[c] EXCEPT !.data = data, !.pc = "compare"].pc = "compare"
    BY <1>2 DEF Resolved, Installed, InitCommand
<1> QED
    BY <1>1, <1>3, <1>4, <1>5

LEMMA Finishes ==
    ASSUME TypeOK, NEW c \in Commands, InitStep(c), Installing(c),
           commands'[c].pc = "installed"
    PROVE  RenameLock(c) \/ (FinishFrozen(c) /\ commands[c].existing = commands[c].made)
<1>1. ~\E m \in Modules, options \in Options : StartInit(c, m, options)
    BY DEF StartInit, Begin, Installing
<1>2. ~\E m \in Modules : StartInitFails(c, m)
    BY DEF StartInitFails, Begin, Installing
<1>3. ~\E p \in Plugins : ResolveLocked(c, p) \/ ResolveFails(c, p)
    BY Goes DEF ResolveLocked, ResolveFails, Fail
<1>4. ~\E p \in Plugins, v \in Version : ResolveRelease(c, p, v)
    BY Goes DEF ResolveRelease
<1>5. ~VerifyArchive(c) /\ ~Download(c) /\ ~RemoveArchive(c) /\ ~RenameArchive(c)
    BY Goes DEF VerifyArchive, Download, RemoveArchive, RenameArchive
<1>6. ~InstallFails(c)
    BY Goes DEF InstallFails, Fail
<1>7. ~Extract(c)
    BY Goes DEF Extract, Fail
<1>8. ~CompareExecutable(c) /\ ~RemoveExecutable(c) /\ ~RenameExecutable(c)
    BY Goes DEF CompareExecutable, RemoveExecutable, RenameExecutable
<1>9. ~RemoveLock(c)
    BY Goes DEF RemoveLock
<1>10. FinishFrozen(c) => commands[c].existing = commands[c].made
    BY Goes DEF FinishFrozen, Fail
<1> QED
    BY <1>1, <1>2, <1>3, <1>4, <1>5, <1>6, <1>7, <1>8, <1>9, <1>10 DEF InitStep

(* What the last lock of a module pinned, its next init pins again          *)
(* (Init, lockMatchesRequirement), unless upgrade is asked for, two inits   *)
(* run at once or, on Windows, one died between the steps of WriteLock.     *)
THEOREM PinsAreKept == Spec => PinsKept
<1>1. ASSUME TypeOK, IInv, [Next]_vars, NEW p \in Plugins,
             NEW c \in Commands, NEW s, s = commands[c], NEW m, m = s.module,
             Installing(c), commands'[c].pc = "installed", s.alone,
             "upgrade" \notin s.options, Matches(pinned[m], p, s.requires[p]),
             p \in Required(s.requires), ~LostInWindow(s)
      PROVE  p \in DOMAIN EntriesOf(lock'[m]) /\ lock'[m][p] = pinned[m][p]
    <2>1. s \in InitCommand /\ s.pc \in InitPc /\ s.pc \notin Ended
        BY <1>1, CommandIs DEF InitPc, Ended
    <2>2. InitStep(c)
        <3>1. ~Interrupt(c)
            BY <1>1 DEF Interrupt, Set, Idle, TypeOK
        <3> QED
            BY <1>1, <2>1, <3>1, OnlyItsOwn DEF InitPc
    <2>3. Making(s) /\ Undisturbed(s) /\ Found(s)
        BY <1>1, CommandsOnes DEF CommandInv, IInv, PinsFound
    <2>4. /\ s.made \in Locks /\ s.made # Absent /\ s.made # Unreadable
          /\ s.existing \in Locks /\ s.existing # Absent /\ s.existing # Unreadable
          /\ m \in Modules /\ DOMAIN NoEntries = {}
        BY <1>1, <2>1, InitIs, LocksAre
    <2>5. s.existing = EntriesOf(pinned[m])
        BY <1>1, <2>3 DEF Found
    <2>6. s.existing = pinned[m] /\ p \in DOMAIN s.existing
        BY <1>1, <2>4, <2>5 DEF Matches, EntriesOf
    <2>7. Serves(s, p)
        BY <1>1, <2>6 DEF Serves
    <2>8. RenameLock(c) \/ (FinishFrozen(c) /\ s.existing = s.made)
        BY <1>1, <2>2, Finishes
    <2>9. s.todo = {} /\ s.pc \notin Chosen
        BY <1>1, <2>1, <2>3, <2>8 DEF RenameLock, FinishFrozen, Making, Chosen
    <2>10. p \in DOMAIN s.made /\ s.made[p] = s.existing[p]
        <3>1. InHand(s) = {}
            BY <2>9 DEF InHand
        <3> QED
            BY <1>1, <2>1, <2>3, <2>7, <2>9, <3>1 DEF Making
    <2>11. EntriesOf(lock'[m]) = s.made /\ lock'[m] = s.made
        <3>1. CASE RenameLock(c)
            <4>1. lock'[m] = s.made
                BY <1>1, <2>4, <3>1 DEF RenameLock, TypeOK
            <4> QED
                BY <2>4, <4>1 DEF EntriesOf
        <3>2. CASE FinishFrozen(c) /\ s.existing = s.made
            <4>1. s.pc = "resolve" /\ lock' = lock
                BY <1>1, <3>2 DEF FinishFrozen, KeepFiles
            <4>2. EntriesOf(lock[m]) = s.existing
                BY <1>1, <2>1, <2>3, <4>1 DEF Undisturbed
            <4>3. lock[m] = s.existing
                BY <2>4, <2>6, <4>2 DEF EntriesOf
            <4> QED
                BY <3>2, <4>1, <4>2, <4>3
        <3> QED
            BY <2>8, <3>1, <3>2
    <2> QED
        BY <2>6, <2>10, <2>11
<1>2. TypeOK /\ IInv /\ [Next]_vars =>
          \A p \in Plugins, c \in Commands :
              LET s == commands[c]
                  m == s.module
              IN
              /\ Installing(c) /\ commands'[c].pc = "installed"
              /\ s.alone /\ "upgrade" \notin s.options
              /\ Matches(pinned[m], p, s.requires[p]) /\ p \in Required(s.requires)
              => \/ p \in DOMAIN EntriesOf(lock'[m]) /\ lock'[m][p] = pinned[m][p]
                 \/ LostInWindow(s)
    BY <1>1
<1> QED
    BY <1>2, TypeCorrect, PTL DEF Spec, PinsKept

(* Where an init may fail. *)
LEMMA Fails ==
    ASSUME TypeOK, NEW c \in Commands, InitStep(c), Installing(c),
           commands'[c].pc = "failed"
    PROVE  \/ \E p \in Plugins : ResolveFails(c, p)
           \/ InstallFails(c)
           \/ Extract(c) /\ CacheOf(c).archive \notin Build
           \/ FinishFrozen(c)
<1>1. ~\E m \in Modules, options \in Options : StartInit(c, m, options)
    BY DEF StartInit, Begin, Installing
<1>2. ~\E m \in Modules : StartInitFails(c, m)
    BY DEF StartInitFails, Begin, Installing
<1>6. ~\E p \in Plugins : ResolveLocked(c, p)
    BY Goes DEF ResolveLocked
<1>7. ~\E p \in Plugins, v \in Version : ResolveRelease(c, p, v)
    BY Goes DEF ResolveRelease
<1>8. ~VerifyArchive(c) /\ ~Download(c) /\ ~RemoveArchive(c) /\ ~RenameArchive(c)
    BY Goes DEF VerifyArchive, Download, RemoveArchive, RenameArchive
<1>9. ~CompareExecutable(c) /\ ~RemoveExecutable(c) /\ ~RenameExecutable(c)
    BY Goes DEF CompareExecutable, RemoveExecutable, RenameExecutable
<1>10. ~RemoveLock(c) /\ ~RenameLock(c)
    BY Goes DEF RemoveLock, RenameLock
<1>11. Extract(c) => CacheOf(c).archive \notin Build
    BY Goes DEF Extract
<1> QED
    BY <1>1, <1>2, <1>6, <1>7, <1>8, <1>9, <1>10, <1>11 DEF InitStep

(* An init with network that has read its lock and that nobody disturbs     *)
(* fails only for want of something to install, whatever is in the cache    *)
(* (Init, resolveRelease, ensureInstalled).                                 *)
THEOREM InitsRepair == Spec => InitRepairs
<1>1. ASSUME TypeOK, IInv, [Next]_vars, NEW c \in Commands, NEW s, s = commands[c],
             Installing(c), commands'[c].pc = "failed", s.alone,
             s.options \cap {"offline", "frozen"} = {}
      PROVE  \E p \in Required(s.requires) :
                IF Matches(s.existing, p, s.requires[p]) /\ "upgrade" \notin s.options
                THEN s.existing[p].sum \in {Absent} \cup
                        (Build \ {published[p][s.existing[p].version]})
                ELSE ~Installable(p, s.requires[p])
    <2>1. s \in InitCommand /\ s.pc \in InitPc
        BY <1>1, CommandIs
    <2>2. InitStep(c)
        <3>1. ~Interrupt(c)
            BY <1>1 DEF Interrupt, Set, Idle, TypeOK
        <3> QED
            BY <1>1, <2>1, <3>1, OnlyItsOwn DEF InitPc
    <2>3. Choice(s) /\ Making(s) /\ Undisturbed(s)
        BY <1>1, CommandsOnes DEF CommandInv
    <2>4. \A p \in s.todo \cup InHand(s) : p \in Required(s.requires)
        BY <2>1, <2>3 DEF Making
    <2>5. CASE \E p \in Plugins : ResolveFails(c, p)
        <3>1. PICK p \in Plugins : ResolveFails(c, p)
            BY <2>5
        <3>2. p \in Required(s.requires)
            BY <1>1, <2>4, <3>1 DEF ResolveFails, First
        <3>3. /\ ~(Matches(s.existing, p, s.requires[p]) /\ "upgrade" \notin s.options)
              /\ ~Installable(p, s.requires[p])
            BY <1>1, <3>1 DEF ResolveFails, Kept
        <3> QED
            BY <3>2, <3>3
    <2>6. CASE InstallFails(c)
        <3>1. s.pc = "verify" /\ s.pc \in Chosen /\ HasEntry(s) /\ s.pc \notin Ended
            BY <1>1, <2>6 DEF InstallFails, Chosen, HasEntry, Ended
        <3>2. PICK p : p = s.plugin
            OBVIOUS
        <3>3. p \in Required(s.requires)
            BY <2>4, <3>1, <3>2 DEF InHand
        <3>4. PICK e \in Entry : e = s.entry
            BY <2>3, <3>1 DEF Choice
        <3>5. e.sum = Absent \/ published[p][e.version] # e.sum
            BY <1>1, <2>6, <3>2, <3>4 DEF InstallFails
        <3>6. Serves(s, p)
            BY <1>1, <2>3, <3>1, <3>2, <3>4, <3>5 DEF Undisturbed
        <3>7. e = s.existing[p]
            BY <2>1, <2>3, <3>1, <3>2, <3>4, <3>6 DEF Making
        <3>8. e.sum \in {Absent} \cup (Build \ {published[p][e.version]})
            BY <3>5, EntryAre
        <3> QED
            BY <3>3, <3>6, <3>7, <3>8 DEF Serves
    <2>7. ~(Extract(c) /\ CacheOf(c).archive \notin Build)
        <3> SUFFICES ASSUME Extract(c)
                     PROVE  CacheOf(c).archive \in Build
            OBVIOUS
        <3>1. /\ s.pc = "extract" /\ s.pc \in Named /\ HasEntry(s) /\ s.pc \notin Ended
            BY <1>1 DEF Extract, Chosen, Named, HasEntry, Ended
        <3>2. CacheOf(c).archive = s.entry.sum
            BY <1>1, <2>3, <3>1 DEF Undisturbed, CacheOf
        <3>3. s.entry.sum \in Build
            BY <2>3, <3>1, EntryAre DEF Choice
        <3> QED
            BY <3>2, <3>3
    <2>8. ~FinishFrozen(c)
        BY <1>1 DEF FinishFrozen
    <2> QED
        BY <1>1, <2>2, <2>5, <2>6, <2>7, <2>8, Fails
<1>2. TypeOK /\ IInv /\ [Next]_vars =>
          \A c \in Commands :
              LET s == commands[c] IN
              /\ Installing(c) /\ commands'[c].pc = "failed"
              /\ s.alone /\ s.options \cap {"offline", "frozen"} = {}
              => \E p \in Required(s.requires) :
                    IF Matches(s.existing, p, s.requires[p]) /\ "upgrade" \notin s.options
                    THEN s.existing[p].sum \in {Absent} \cup
                            (Build \ {published[p][s.existing[p].version]})
                    ELSE ~Installable(p, s.requires[p])
    BY <1>1
<1> QED
    BY <1>2, TypeCorrect, PTL DEF Spec, InitRepairs
=============================================================================
