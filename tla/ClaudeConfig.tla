---------------------------- MODULE ClaudeConfig ----------------------------
(***************************************************************************)
(* What the Claude provider makes of an agent: the object it compares, the *)
(* request it sends, what it reads out of an answer, and the differences   *)
(* it reports (internal/provider/claude/normalize.go, diff.go).            *)
(*                                                                         *)
(* A desired configuration comes in two forms. The closure is what         *)
(* provider.DesiredConfig renders of a module:                             *)
(*   addr, model, description, instructions;                               *)
(*   tools    in the agent's order: block, kind, and for a tool of an MCP  *)
(*            server the server and the server's name for it;              *)
(*   gated    the blocks under requires_approval;                          *)
(*   servers  the mcp_server blocks of these tools, by name: transport,    *)
(*            url and auth (a credential, or None).                        *)
(* The other form is the normalized object that the state file keeps.      *)
(* Metadata is the marker and the keys of others (foreign); skills, inputs *)
(* and outputs, which no module can set or the platform does not have, and *)
(* values of a wrong JSON type are left out.                               *)
(***************************************************************************)
EXTENDS Naturals, Sequences, SequencesExt, FiniteSets

CONSTANTS
    None,       \* a null or absent value
    Managed     \* the tools of the platform's own toolset

Allow == "always_allow"
Ask == "always_ask"

(* A closure the platform can express: normalizeSpec returns no error.      *)
ToolExpressible(c, t) ==
    \/ t.kind = "builtin" /\ t.tool \in Managed
    \/ /\ t.kind = "mcp"
       /\ t.server \in DOMAIN c.servers
       /\ c.servers[t.server].transport = "http"

ModelExpressible(m) == m.vendor = "anthropic" /\ m.params \subseteq {"speed"}

Expressible(c) ==
    /\ ModelExpressible(c.model)
    /\ \A i \in DOMAIN c.tools : ToolExpressible(c, c.tools[i])

(* Toolsets: one for all builtin tools (server None), one for each MCP      *)
(* server, in the order of their first tool.                                *)
ServerOf(t) == IF t.kind = "builtin" THEN None ELSE t.server

Groups(tools) ==
    LET add(gs, t) == IF Contains(gs, ServerOf(t)) THEN gs
                      ELSE Append(gs, ServerOf(t))
    IN  FoldLeft(add, <<>>, tools)

(* A declared tool is a granted tool; only approval makes it ask. *)
EnabledTool(c, t) ==
    [name |-> t.tool, enabled |-> TRUE,
     policy |-> IF t.block \in c.gated THEN Ask ELSE Allow]

(* The tools of a toolset, in the agent's order. *)
Members(tools, g) ==
    LET add(ts, t) == IF ServerOf(t) = g THEN Append(ts, t) ELSE ts
    IN  FoldLeft(add, <<>>, tools)

NewToolset(c, g) ==
    LET own == Members(c.tools, g)
    IN  [type |-> IF g = None THEN "agent" ELSE "mcp",
         server |-> g,
         enabled |-> FALSE,
         policy |-> IF g = None THEN Allow ELSE None,
         configs |-> [i \in DOMAIN own |-> EnabledTool(c, own[i])]]

(* The default of an MCP toolset is compared as the platform resolves it. *)
ToolsetDefaults(ts) ==
    LET resolved(t) == IF t.type = "mcp" THEN [t EXCEPT !.policy = Ask] ELSE t
    IN  [i \in DOMAIN ts |-> resolved(ts[i])]

SpecTools(c) ==
    LET gs == Groups(c.tools) IN
    ToolsetDefaults([i \in DOMAIN gs |-> NewToolset(c, gs[i])])

SpecMCPServers(c) ==
    LET add(ss, g) == IF g = None THEN ss
                      ELSE Append(ss, [name |-> g, url |-> c.servers[g].url])
    IN  FoldLeft(add, <<>>, Groups(c.tools))

SpecModel(m) ==
    [id |-> m.id, speed |-> IF "speed" \in m.params THEN m.speed ELSE "standard"]

NormalizeSpec(c) ==
    [name |-> c.addr,
     model |-> SpecModel(c.model),
     system |-> c.instructions,
     description |-> c.description,
     tools |-> SpecTools(c),
     mcp_servers |-> SpecMCPServers(c),
     marker |-> c.addr]

(* An object of the platform, or of the state file, projected on what       *)
(* Kastor owns: its fields and its own metadata key.                        *)
EchoModel(m) == [id |-> m.id, speed |-> IF m.speed = None THEN "standard" ELSE m.speed]

(* A permission that an old state file does not mention reads as the grant. *)
EchoToolPermission(policy) == IF policy = None THEN Allow ELSE policy

(* Mutant: an absent permission is compared as it is. *)
EchoToolsVerbatim(ts) == ts

EchoConfig(c) == [c EXCEPT !.policy = EchoToolPermission(c.policy)]

EchoToolset(t) == [t EXCEPT !.configs = [j \in DOMAIN t.configs |-> EchoConfig(t.configs[j])]]

EchoTools(ts) == [i \in DOMAIN ts |-> EchoToolset(ts[i])]

EchoReadable(r) ==
    \A i \in DOMAIN r.tools :
        r.tools[i].type \in {"agent", "mcp"} /\ r.tools[i].policy # None

NormalizeAPIEcho(r) ==
    [name |-> r.name,
     model |-> EchoModel(r.model),
     system |-> r.system,
     description |-> r.description,
     tools |-> EchoTools(r.tools),
     mcp_servers |-> r.mcp_servers,
     marker |-> r.marker]

(* Both forms of a desired configuration; only the normalized one has a name. *)
IsNormalized(d) == "name" \in DOMAIN d

Accepts(d) == IF IsNormalized(d) THEN EchoReadable(d) ELSE Expressible(d)

NormalizeDesired(d) ==
    IF IsNormalized(d) THEN NormalizeAPIEcho(d) ELSE NormalizeSpec(d)

(* What the engine writes to the state file as the last-applied config. *)
NormalizeStateConfig(d) == NormalizeDesired(d)

(* The request leaves the default of an MCP toolset to the platform. *)
NormalizeAPIRequest(d) ==
    LET spec == NormalizeDesired(d)
        open(t) == IF t.type = "mcp" THEN [t EXCEPT !.policy = None] ELSE t
    IN  [spec EXCEPT !.tools = [i \in DOMAIN spec.tools |-> open(spec.tools[i])]]

(* The platform: it replaces what the request states, resolves what the     *)
(* request leaves open and merges the metadata.                             *)
StoreConfig(c) == [c EXCEPT !.policy = IF c.policy = None THEN "denied" ELSE c.policy]

StoreToolset(t) ==
    [type |-> t.type, server |-> t.server, enabled |-> t.enabled,
     policy |-> IF t.policy = None THEN Ask ELSE t.policy,
     configs |-> [j \in DOMAIN t.configs |-> StoreConfig(t.configs[j])]]

PlatformStore(request, foreign) ==
    [name |-> request.name, model |-> request.model, system |-> request.system,
     description |-> request.description, mcp_servers |-> request.mcp_servers,
     marker |-> request.marker, foreign |-> foreign,
     tools |-> [i \in DOMAIN request.tools |-> StoreToolset(request.tools[i])]]
-----------------------------------------------------------------------------
(* A difference is the path of an attribute: a key, and an index where an   *)
(* update replaces the array as a whole. Absent and null are the same.      *)
DiffLeaf(key, want, got) == IF want = got THEN {} ELSE {<<key, 0>>}

(* Mutant: the elements that one side has and the other has not are dropped. *)
DiffCommonPrefix(key, want, got) ==
    {<<key, i>> : i \in {k \in DOMAIN want \cap DOMAIN got : want[k] # got[k]}}

DiffReplaceArray(key, want, got) ==
    LET at(s, i) == IF i \in DOMAIN s THEN s[i] ELSE None
    IN  {<<key, i>> : i \in {k \in DOMAIN want \cup DOMAIN got : at(want, k) # at(got, k)}}

DiffObjects(want, got) ==
    DiffLeaf("name", want.name, got.name)
    \cup DiffLeaf("model.id", want.model.id, got.model.id)
    \cup DiffLeaf("model.speed", want.model.speed, got.model.speed)
    \cup DiffLeaf("system", want.system, got.system)
    \cup DiffLeaf("description", want.description, got.description)
    \cup DiffReplaceArray("tools", want.tools, got.tools)
    \cup DiffReplaceArray("mcp_servers", want.mcp_servers, got.mcp_servers)

(* Diff refuses what it cannot express, read, or recognize as Kastor's. The *)
(* remote None is an agent that does not exist yet.                         *)
DiffRejects(d, r) ==
    \/ ~ Accepts(d)
    \/ /\ r # None
       /\ ~ EchoReadable(r) \/ r.marker # NormalizeDesired(d).marker

(* Before a create every attribute that is not null is an addition. *)
Additions(want) ==
    {<<key, 0>> : key \in {k \in DOMAIN want \ {"marker"} : want[k] # None}}

Diff(d, r) ==
    LET want == NormalizeDesired(d) IN
    IF r = None THEN Additions(want) ELSE DiffObjects(want, NormalizeAPIEcho(r))
-----------------------------------------------------------------------------
(* What a comparison without a difference must mean: the agent may call     *)
(* exactly the tools that are declared, asking where it should ask.         *)
Grants(tools) ==
    UNION {{<<tools[i].server, c>> : c \in Range(tools[i].configs)} :
             i \in DOMAIN tools}

DeclaredGrants(d) ==
    {<<ServerOf(t), [name |-> t.tool, enabled |-> TRUE,
                     policy |-> IF t.block \in d.gated THEN Ask ELSE Allow]>> :
        t \in Range(d.tools)}

(* An object of the state file as written before permissions were stated. *)
WithoutPermissions(object) ==
    LET open(c) == [c EXCEPT !.policy = None]
        old(t) == [t EXCEPT !.configs = [j \in DOMAIN t.configs |-> open(t.configs[j])]]
    IN  [object EXCEPT !.tools = [i \in DOMAIN object.tools |-> old(object.tools[i])]]
=============================================================================
