---------------------------- MODULE MCAlgorithms ----------------------------
(***************************************************************************)
(* The pure parts of Kastor against what they promise, over all inputs of  *)
(* a small domain: a behaviour picks one input, and the invariants are     *)
(* about that input.                                                       *)
(***************************************************************************)
EXTENDS Naturals, Sequences, SequencesExt, FiniteSets, Functions, Dependencies

CONSTANTS None, Managed

VARIABLE case

Claude == INSTANCE Doctor
Load == INSTANCE ModuleLoad
Graph == INSTANCE DepOrder
Plugin == INSTANCE Versions
Text == INSTANCE TextDiff
-----------------------------------------------------------------------------
(* Agents of a Claude target: a platform tool, and tools of two MCP servers *)
(* of which three share two names.                                          *)
BuiltinTool(b) == [block |-> b, kind |-> "builtin", server |-> None, tool |-> b]
ServerTool(b, s, n) == [block |-> b, kind |-> "mcp", server |-> s, tool |-> n]

Declarable ==
    {BuiltinTool("bash"), ServerTool("find", "s1", "search"),
     ServerTool("look", "s2", "search"), ServerTool("open", "s1", "bash")}

ToolLists ==
    {ts \in SeqOf(Declarable, 2) : IsInjective(ts)}
    \cup {<<ServerTool("find", "s1", "search"), BuiltinTool("bash"),
            ServerTool("open", "s1", "bash")>>}

Blocks(ts) == {t.block : t \in Range(ts)}
Servers(ts) == {t.server : t \in {u \in Range(ts) : u.kind = "mcp"}}

Closure(ts, gated, model, description, auth) ==
    [addr |-> "agent.a", model |-> model, description |-> description,
     instructions |-> "do", tools |-> ts, gated |-> gated,
     servers |-> [s \in Servers(ts) |->
        [transport |-> "http", url |-> <<"url", s>>, auth |-> auth]]]

Model(params) == [vendor |-> "anthropic", id |-> "m", params |-> params, speed |-> "fast"]

Closures ==
    UNION {{Closure(ts, g, Model(p), d, None) :
                g \in SUBSET Blocks(ts), p \in {{}, {"speed"}}, d \in {None, "text"}} :
             ts \in ToolLists}

Plain(c) == c.model.params = {} /\ c.description = None

Stored(c) == Claude!PlatformStore(Claude!NormalizeAPIRequest(c), {})

(* What an operator or the platform may do to a stored agent. *)
ConfigEdits(config) ==
    {[config EXCEPT !.enabled = FALSE], [config EXCEPT !.policy = "denied"],
     [config EXCEPT !.policy = "always_allow"], [config EXCEPT !.policy = "always_ask"]}

ToolsetEdits(ts) ==
    {[ts EXCEPT !.enabled = TRUE], [ts EXCEPT !.policy = "denied"],
     [ts EXCEPT !.type = "custom"]}
    \cup {[ts EXCEPT !.server = s] : s \in IF ts.type = "mcp" THEN {"s1", "s2"} \ {ts.server} ELSE {}}
    \cup {[ts EXCEPT !.configs = RemoveAt(@, j)] : j \in DOMAIN ts.configs}
    \cup UNION {{[ts EXCEPT !.configs[j] = e] : e \in ConfigEdits(ts.configs[j])} :
                  j \in DOMAIN ts.configs}

ExtraToolset(server, tool) ==
    [type |-> IF server = None THEN "agent" ELSE "mcp", server |-> server,
     enabled |-> FALSE, policy |-> "always_allow",
     configs |-> <<[name |-> tool, enabled |-> TRUE, policy |-> "always_allow"]>>]

ToolsEdits(tools) ==
    {Append(tools, ExtraToolset(None, "read")), Append(tools, ExtraToolset("s2", "search")),
     Append(tools, ExtraToolset("s2", "bash")), Reverse(tools)}
    \cup {RemoveAt(tools, i) : i \in DOMAIN tools}
    \cup UNION {{[tools EXCEPT ![i] = e] : e \in ToolsetEdits(tools[i])} : i \in DOMAIN tools}

Edits(r) ==
    {r, [r EXCEPT !.description = "edited"], [r EXCEPT !.model.speed = None],
     [r EXCEPT !.marker = None], [r EXCEPT !.foreign = {"team"}]}
    \cup {[r EXCEPT !.mcp_servers[i].url = <<"url", "elsewhere">>] : i \in DOMAIN r.mcp_servers}
    \cup {[r EXCEPT !.tools = e] : e \in ToolsEdits(r.tools)}

PickAgent ==
    \E c \in Closures :
    \E r \in Edits(Stored(c)) \cup {Stored(o) : o \in {x \in Closures : Plain(x)}} :
        case' = [kind |-> "agent", desired |-> c, remote |-> r]

(* Jobs of doctor: one or two servers with one credential. *)
Credential(url, archived, expired, refresh) ==
    [url |-> url, archived |-> archived, expired |-> expired, refresh |-> refresh]

Vaults ==
    {[configured |-> FALSE, answers |-> FALSE, holds |-> <<>>],
     [configured |-> TRUE, answers |-> FALSE, holds |-> <<>>],
     [configured |-> TRUE, answers |-> TRUE, holds |-> <<>>]}
    \cup {[configured |-> TRUE, answers |-> TRUE,
           holds |-> [n \in {"cred"} |-> Credential(u, a, e, f)]] :
            u \in {None, <<"url", "s1">>, <<"url", "elsewhere">>}, a, e, f \in BOOLEAN}

Jobs(c) ==
    [desired : {c}, tracked : BOOLEAN, answers : BOOLEAN,
     remote : Edits(Stored(c)) \cup {None}, vault : Vaults,
     env : {<<>>} \cup [{"KEY"} -> BOOLEAN]]

JobClosures ==
    {Closure(ts, {"find"} \cap Blocks(ts), Model({}), None, auth) :
        ts \in {<<ServerTool("find", "s1", "search")>>,
                <<BuiltinTool("bash"), ServerTool("find", "s1", "search")>>,
                <<ServerTool("find", "s1", "search"), ServerTool("look", "s2", "search")>>},
        auth \in {None, "cred"}}

PickJob ==
    \E c \in JobClosures : \E job \in Jobs(c) :
        case' = [kind |-> "job", job |-> job]
-----------------------------------------------------------------------------
(* Modules: a good one in four files, after up to two edits; and, alone,    *)
(* every list of up to two auth blocks.                                     *)
Input(n, ref) == [name |-> n, ref |-> ref]
Output(a, o) == [agent |-> a, output |-> o]
Uri(s, t) == [server |-> s, tool |-> t]

BaseAgent ==
    [kind |-> "agent", name |-> "a", model |-> "m", prompt |-> "p",
     tools |-> <<"bash", "t">>, gated |-> <<"t">>, after |-> <<>>,
     inputs |-> <<Input("i", Output("b", "o"))>>, outputs |-> <<>>]
BaseServer ==
    [kind |-> "mcp_server", name |-> "s", transport |-> "http", url |-> "u",
     command |-> None, auth |-> <<[scheme |-> "connection", targets |-> {}]>>]
Project ==
    <<[kind |-> "model", name |-> "m", vendor |-> "anthropic", params |-> {}, id |-> "m"],
      [kind |-> "target", name |-> "claude_agents", type |-> "platform", output |-> None,
       plugin |-> None, vault |-> TRUE],
      [kind |-> "target", name |-> "x", type |-> "codegen", output |-> "out",
       plugin |-> "py", vault |-> FALSE],
      [kind |-> "plugin", name |-> "py"],
      BaseServer>>
Agents ==
    <<BaseAgent, [BaseAgent EXCEPT !.name = "b", !.prompt = None, !.tools = <<>>,
                                   !.gated = <<>>, !.inputs = <<>>, !.outputs = <<"o">>]>>
Tools ==
    <<[kind |-> "tool", name |-> "bash", source |-> [kind |-> "builtin", uri |-> None]],
      [kind |-> "tool", name |-> "t", source |-> [kind |-> "mcp", uri |-> Uri("s", "search")]]>>
Prompts == <<[kind |-> "prompt", name |-> "p", vars |-> {"i"}, requires |-> None]>>
BaseModule == <<Project, Agents, Tools, Prompts>>

AuthLists ==
    SeqOf([scheme : {None, "env", "connection"}, targets : SUBSET {"claude_agents", "x", "z"}], 2)

BlockEdits(b) ==
    IF b.kind = "agent" THEN
        {[b EXCEPT !.model = "z"], [b EXCEPT !.prompt = None], [b EXCEPT !.prompt = "z"],
         [b EXCEPT !.inputs = <<>>], [b EXCEPT !.inputs = <<Input("o", None)>>],
         [b EXCEPT !.inputs = <<Input("i", Output("z", "o"))>>],
         [b EXCEPT !.inputs = <<Input("i", Output("b", "z"))>>]}
        \cup {[b EXCEPT !.tools = ts] : ts \in {<<>>, <<"t">>, <<"t", "t">>, <<"t", "z">>}}
        \cup {[b EXCEPT !.gated = ts] : ts \in {<<>>, <<"bash", "t">>, <<"z">>}}
        \cup {[b EXCEPT !.after = <<a>>] : a \in {"a", "b", "z"}}
    ELSE IF b.kind = "tool" THEN
        {[b EXCEPT !.source = [kind |-> k, uri |-> u]] :
            k \in {"mcp", "http", "builtin"},
            u \in {None, Uri("s", "bash"), Uri("z", "t"), Uri(None, None)}}
    ELSE IF b.kind = "prompt" THEN
        {[b EXCEPT !.vars = v, !.requires = r] : v \in {{}, {"i"}, {"o"}}, r \in {None, {}, {"i"}}}
    ELSE IF b.kind = "target" THEN
        {[b EXCEPT !.type = "codegen"], [b EXCEPT !.output = "out"], [b EXCEPT !.plugin = "z"],
         [b EXCEPT !.plugin = "py"], [b EXCEPT !.vault = FALSE], [b EXCEPT !.name = "eve"]}
    ELSE IF b.kind = "mcp_server" THEN
        {[b EXCEPT !.transport = "stdio", !.url = None, !.command = "c", !.auth = a] :
            a \in {<<>>, b.auth}}
        \cup {[b EXCEPT !.url = None], [b EXCEPT !.command = "c"], [b EXCEPT !.auth = <<>>],
               [b EXCEPT !.auth = <<[scheme |-> "env", targets |-> {}]>>],
               [b EXCEPT !.auth = <<[scheme |-> "connection", targets |-> {"x"}]>>]}
    ELSE {[b EXCEPT !.name = "z"]}

FileEdits(f) ==
    {RemoveAt(f, j) : j \in DOMAIN f}
    \cup UNION {{[f EXCEPT ![j] = e] : e \in BlockEdits(f[j])} : j \in DOMAIN f}

ModuleEdits(files) ==
    {Append(files, <<files[i][1]>>) : i \in {k \in DOMAIN files : files[k] # <<>>}}
    \cup UNION {{[files EXCEPT ![i] = e] : e \in FileEdits(files[i])} : i \in DOMAIN files}

PickModule ==
    \/ \E one \in ModuleEdits(BaseModule) : \E files \in ModuleEdits(one) :
           case' = [kind |-> "module", files |-> files]
    \/ \E auth \in AuthLists :
           case' = [kind |-> "module", files |-> [BaseModule EXCEPT ![1][5].auth = auth]]
-----------------------------------------------------------------------------
(* All graphs of up to three addresses, some of which may depend on a       *)
(* further one, that is tracked no more; and of four without self loops.    *)
PickGraph ==
    \/ \E n \in 0 .. 3 : \E D \in [1 .. n -> SUBSET (1 .. (n + 1))] :
          case' = [kind |-> "graph", nodes |-> 1 .. n, deps |-> D]
    \/ \E D \in [1 .. 4 -> SUBSET (1 .. 4)] :
          /\ \A x \in 1 .. 4 : x \notin D[x]
          /\ case' = [kind |-> "graph", nodes |-> 1 .. 4, deps |-> D]

(* Versions of up to three components below three, and lists of releases. *)
Version(x, y, z, p) == <<x, y, z, p>>
SomeVersions ==
    {Version(x, y, z, p) : x, y, z \in 0 .. 2, p \in {1, Plugin!Released}}
Constraints ==
    {[op |-> "~>", parts |-> n, version |-> v] :
        n \in 1 .. 3, v \in {w \in SomeVersions : w[4] = Plugin!Released}}
    \cup {[op |-> "=", parts |-> 3, version |-> v] : v \in SomeVersions}
WellFormed(c) ==
    /\ c.parts <= 2 => c.version[3] = 0
    /\ c.parts = 1 => c.version[2] = 0
Releases ==
    {[version |-> Version(0, y, z, Plugin!Released), draft |-> d, prerelease |-> p] :
        y, z \in 0 .. 1, d, p \in BOOLEAN}

PickVersion ==
    \/ \E c \in Constraints : \E v \in SomeVersions :
           /\ WellFormed(c)
           /\ case' = [kind |-> "version", constraint |-> c, version |-> v]
    \/ \E list \in SeqOf(Releases, 3) : \E n \in 2 .. 3 :
           case' = [kind |-> "release", releases |-> list,
                    constraint |-> [op |-> "~>", parts |-> n, version |-> Version(0, 0, 0, Plugin!Released)]]

(* Short texts of two lines, and a long text with up to two lines changed:  *)
(* long enough for hunks to merge, touch and split.                         *)
LongText == [k \in 1 .. 12 |-> k]
LineEdits(t, k) == {t, RemoveAt(t, k), [t EXCEPT ![k] = 0], InsertAt(t, k, 0)}

PickText ==
    \/ \E a, b \in SeqOf(1 .. 2, 4) : case' = [kind |-> "text", old |-> a, new |-> b]
    \/ \E i \in 1 .. 10, j \in 2 .. 11 : \E t \in LineEdits(LongText, j) : \E u \in LineEdits(t, i) :
           /\ i < j
           /\ case' = [kind |-> "text", old |-> LongText, new |-> u]
-----------------------------------------------------------------------------
Init == case = [kind |-> "none"]

Next ==
    /\ case.kind = "none"
    /\ \/ PickAgent
       \/ PickJob
       \/ PickModule
       \/ PickGraph
       \/ PickVersion
       \/ PickText

Spec == Init /\ [][Next]_case
-----------------------------------------------------------------------------
(* After a create or an update of any agent the target can express, the    *)
(* next plan, from the configuration or from the state file, finds nothing *)
(* to do, whatever metadata of others the agent carries.                   *)
ApplySettles ==
    case.kind = "agent" =>
        LET d == case.desired
            s == Claude!NormalizeStateConfig(d)
            r == Claude!PlatformStore(Claude!NormalizeAPIRequest(d), {"team"})
            q == Claude!PlatformStore(Claude!NormalizeAPIRequest(s), {"team"})
        IN  /\ ~ Claude!DiffRejects(d, r) /\ Claude!Diff(d, r) = {}
            /\ ~ Claude!DiffRejects(s, r) /\ Claude!Diff(s, r) = {}
            /\ q = r

(* The configuration in the state file stands for the one that was applied: *)
(* both see the same differences, normalizing it again changes nothing, and *)
(* one written before permissions were stated reads as the plain grants.    *)
StateFormFaithful ==
    case.kind = "agent" =>
        LET d == case.desired
            s == Claude!NormalizeStateConfig(d)
            old == Claude!WithoutPermissions(s)
            r == case.remote
        IN  /\ Claude!NormalizeStateConfig(s) = s
            /\ Claude!DiffRejects(s, r) <=> Claude!DiffRejects(d, r)
            /\ ~ Claude!DiffRejects(d, r) =>
                /\ Claude!Diff(s, r) = Claude!Diff(d, r)
                /\ d.gated = {} => Claude!Diff(old, r) = Claude!Diff(d, r)

(* Every form of a configuration - declared, sent, echoed, stored, stored by *)
(* an earlier release - compares as what it stands for.                     *)
ConfigRoundTrips == ApplySettles /\ StateFormFaithful

(* A plan that finds nothing to do leaves no denial and no grant unseen: the *)
(* deployed agent may call exactly the declared tools, on the declared      *)
(* servers, and is asked for approval exactly where the module says so.     *)
NoGrantUnseen ==
    case.kind = "agent" =>
        LET d == case.desired
            r == case.remote
        IN  (~ Claude!DiffRejects(d, r) /\ Claude!Diff(d, r) = {}) =>
                /\ Claude!Grants(r.tools) = Claude!DeclaredGrants(d)
                /\ \A i \in DOMAIN r.tools : ~ r.tools[i].enabled
                /\ \A s \in DOMAIN d.servers : \E i \in DOMAIN r.mcp_servers :
                    r.mcp_servers[i] = [name |-> s, url |-> d.servers[s].url]

(* doctor says ready only if it is so: every needed variable is set, the    *)
(* agent is there, may call what it declares as it declares it, and every   *)
(* credential authenticates. check.go:192-291 compares tools by name and    *)
(* not by server: so this is for agents whose tools have distinct names,    *)
(* none of which the platform has on another server.                        *)
ReadyIsTrue ==
    case.kind = "job" =>
        LET d == case.job.desired
            r == case.job.remote
        IN  Claude!NamesDistinct(d) /\ (r # None => Claude!NamesPlaced(d, r)) =>
                (Claude!Ready(Claude!BuildReport(case.job)) => Claude!Serves(case.job))

(* doctor reports a failure only where somebody answered: a platform or a   *)
(* vault that cannot be reached is unknown, never a failure.                *)
FailureIsEstablished ==
    case.kind = "job" =>
        \A c \in Claude!BuildReport(case.job) :
            c.status = "failed" =>
                \/ c.kind = "environment" /\ ~ case.job.env[c.subject]
                \/ c.kind \in {"remote", "tool_permission"} /\ case.job.answers
                \/ /\ c.kind = "credential"
                   /\ case.job.answers /\ case.job.vault.answers
                   /\ ~ Claude!Authenticates(case.job.desired.servers[c.subject],
                                             case.job.vault)

(* doctor says neither more nor less than it has found out.                 *)
DoctorTruthful == ReadyIsTrue /\ FailureIsEstablished

(* doctor "checks that the deployed agent is actually permitted to call the *)
(* tools it declares" (check.go:46-47), so that a ready report means that   *)
(* it can (doctor.go:64), for every module and every deployed agent.        *)
ReadyServes ==
    case.kind = "job" =>
        (Claude!Ready(Claude!BuildReport(case.job)) => Claude!Serves(case.job))

(* A module that loads can be rendered and ordered: no declared block is    *)
(* lost, every lookup that rendering an agent makes succeeds, every edge of *)
(* the graph ends in a node, and each agent supplies what its prompt needs. *)
LoadedModuleRenders ==
    (case.kind = "module" /\ Load!Loads(case.files)) =>
        LET mod == Load!Symbols(case.files) IN
        /\ \A f \in Range(case.files) : \A b \in Range(f) : mod[Load!Addr(b)] = b
        /\ \A a \in Load!Blocks(mod, "agent") :
            /\ Load!LookupsSucceed(mod, a)
            /\ Load!GraphDependencies(a) \subseteq Load!Nodes(mod)
            /\ \A i \in DOMAIN a.gated : Contains(a.tools, a.gated[i])
            /\ a.prompt # None =>
                \A v \in mod[<<"prompt", a.prompt>>].vars :
                    \/ \E i \in DOMAIN a.inputs : a.inputs[i].name = v
                    \/ Contains(a.outputs, v)

(* On a module that loads, every server with auth that a tool uses has one  *)
(* credential on every target, and the order of its auth blocks is no       *)
(* matter.                                                                  *)
OneCredential ==
    (case.kind = "module" /\ Load!Loads(case.files)) =>
        LET mod == Load!Symbols(case.files) IN
        \A s \in Load!Blocks(mod, "mcp_server"), t \in Load!Blocks(mod, "target") :
            /\ Load!AuthFor(s, t.name) = Load!AuthFor([s EXCEPT !.auth = Reverse(@)], t.name)
            /\ (s.auth # <<>> /\ s.name \in Load!ReferencedServers(mod)) =>
                  Load!AuthFor(s, t.name) # None

(* A module that loads and validates for a claude_agents target fails in a  *)
(* plan for its models and the kinds of its tools only: every server of a   *)
(* closure can be dialed and its credential looked up in the target's vault. *)
ValidatedModulePlans ==
    (case.kind = "module" /\ Load!Loads(case.files)) =>
        LET mod == Load!Symbols(case.files) IN
        \A t \in Load!Blocks(mod, "target"), a \in Load!Blocks(mod, "agent") :
            (t.name = "claude_agents" /\ t.plugin = None /\ Load!ValidatesTarget(mod, t)) =>
                LET c == Load!DesiredConfig(mod, a, t.name) IN
                /\ \A s \in Range(c.servers) :
                    s.url # None /\ s.auth \in {None, "connection"} /\ (s.auth # None => t.vault)
                /\ Claude!Expressible(c) \/ ~ Claude!ModelExpressible(c.model)
                   \/ \E u \in Range(c.tools) : u.kind # "mcp" /\ (u.kind # "builtin" \/ u.tool \notin Managed)

(* What loading lets through, rendering, ordering, credentials and plans    *)
(* can take without a check of their own (module.Load).                     *)
LoadedModuleServes == LoadedModuleRenders /\ OneCredential /\ ValidatedModulePlans

(* The order of a graph lists every node once, and after all it depends on  *)
(* save for a circle, all of which it then lists in between.                *)
OrderRespectsDependencies ==
    case.kind = "graph" =>
        LET order == Graph!PostOrder(case.nodes, case.deps)
        IN  Lists(case.nodes, order) /\ DependenciesFirst(case.deps, order)

(* A graph is refused exactly when it has a cycle, and every cycle that the *)
(* error names is one.                                                      *)
CyclesReal ==
    case.kind = "graph" =>
        LET cycles == Graph!Cycles(case.nodes, case.deps)
            Knotted(T) == T # {} /\ \A x \in T : case.deps[x] \cap T # {}
        IN  /\ cycles # {} <=> \E T \in SUBSET case.nodes : Knotted(T)
            /\ \A c \in cycles : \A i \in DOMAIN c :
                    c[IF i = Len(c) THEN 1 ELSE i + 1] \in case.deps[c[i]]

(* Either an order or a true cycle, for every graph (sortTopologically).    *)
GraphSound == OrderRespectsDependencies /\ CyclesReal

(* A pessimistic constraint fixes all components but the last one written,  *)
(* and that one from below; a prerelease is in the range of its release.    *)
TildeIsRange ==
    case.kind = "version" =>
        LET c == case.constraint
            v == case.version
            fixed == IF c.parts = 3 THEN 2 ELSE 1
        IN  Plugin!VersionMatches(v, c) <=>
                IF c.op = "=" THEN v = c.version
                ELSE /\ \A k \in 1 .. fixed : v[k] = c.version[k]
                     /\ \/ v[fixed + 1] > c.version[fixed + 1]
                        \/ /\ v[fixed + 1] = c.version[fixed + 1]
                           /\ fixed = 1 => v[3] >= c.version[3]

(* The release of an install is a published one of the range, and none is   *)
(* higher, wherever the list has it; there is one whenever one fits.        *)
SelectionIsHighest ==
    case.kind = "release" =>
        LET c == case.constraint
            fits == {r \in Range(case.releases) : Plugin!Candidate(r, c)}
            selected == Plugin!SelectRelease(case.releases, c)
        IN  /\ selected = None <=> fits = {}
            /\ selected # None =>
                /\ selected \in fits
                /\ \A r \in fits : ~ Plugin!Precedes(selected.version, r.version)

(* A requirement selects the release its author meant (versionMatches,      *)
(* resolveRelease).                                                         *)
ReleaseIsMeant == TildeIsRange /\ SelectionIsHighest

(* Lines of one text matched with equal lines of another, in their order.   *)
InOrder(a, b, match) ==
    \A x \in DOMAIN match :
        /\ a[x] = b[match[x]]
        /\ \A y \in DOMAIN match : x < y => match[x] < match[y]

(* No lines of two texts that are equal and in their order are more than    *)
(* the script from one to the other keeps.                                  *)
KeepsMost(a, b) ==
    LET script == Text!EditScript(a, b)
        kept == {k \in DOMAIN script : script[k].kind = "keep"}
    IN  \A part \in SUBSET DOMAIN a : \A match \in [part -> DOMAIN b] :
            InOrder(a, b, match) => Cardinality(part) <= Cardinality(kept)

(* A diff is right for a program that applies it: its hunks make the new    *)
(* text of the old one, name the lines they stand for, do not overlap, and  *)
(* keep as many lines as any diff could.                                    *)
DiffApplies ==
    case.kind = "text" =>
        LET hunks == Text!Unified(case.old, case.new)
        IN  /\ Text!Patch(case.old, hunks) = case.new
            /\ \A k \in DOMAIN hunks :
                LET h == hunks[k].header IN
                /\ Text!OldLines(hunks[k].edits)
                     = SubSeq(case.old, Text!Before(h) + 1, Text!Before(h) + h.aCount)
                /\ k > 1 => Text!Before(h) >= Text!Before(hunks[k - 1].header)
                                                + hunks[k - 1].header.aCount
            /\ Len(case.old) <= 4 => KeepsMost(case.old, case.new)
=============================================================================
