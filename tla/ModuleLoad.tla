----------------------------- MODULE ModuleLoad -----------------------------
(***************************************************************************)
(* From the files of a module to the closure of an agent: what the parser  *)
(* refuses (internal/parser), which references the module resolves         *)
(* (internal/module), what a target without a plugin is validated against  *)
(* (cmd/kastor/plugins.go), and the lookups that rendering an agent and    *)
(* building the graph then rely on (internal/provider/config.go,           *)
(* internal/graph).                                                        *)
(*                                                                         *)
(* A file is a sequence of blocks; a block has a kind and a name, its      *)
(* address, and by kind:                                                   *)
(*   agent       model, prompt (None when it has none), tools, gated,      *)
(*               after (depends_on), inputs (a name, and the output it     *)
(*               defaults to: [agent, output], or None), outputs;          *)
(*   tool        source: the kind and the uri (None, or a server and the   *)
(*               server's tool, both None when malformed);                 *)
(*   prompt      vars of the body, requires (None when absent);            *)
(*   model       vendor, params;                                           *)
(*   target      type, output (None when absent), plugin, vault;           *)
(*   mcp_server  transport, url and command (None when absent), auth: a    *)
(*               sequence of [scheme, targets], scheme None when malformed; *)
(*   plugin      nothing else.                                             *)
(* Text, types and literal defaults of inputs and parameters, and the HCL  *)
(* syntax itself are left out.                                             *)
(***************************************************************************)
EXTENDS Naturals, Sequences, SequencesExt, FiniteSets, FiniteSetsExt, Functions

CONSTANT None

Addr(b) == <<b.kind, b.name>>

Distinct(list) == IsInjective(list)

Field(records, f) == [i \in DOMAIN records |-> records[i][f]]
-----------------------------------------------------------------------------
(* Parsing: one wrong block refuses its file.                               *)
DecodesAgent(b) ==
    /\ Distinct(b.tools) /\ Distinct(b.gated) /\ Distinct(b.after)
    /\ Range(b.gated) \subseteq Range(b.tools)
    /\ Distinct(Field(b.inputs, "name")) /\ Distinct(b.outputs)
    /\ Range(Field(b.inputs, "name")) \cap Range(b.outputs) = {}

DecodesTool(b) ==
    \/ b.source.kind \in {"mcp", "http", "script"} /\ b.source.uri # None
    \/ b.source.kind \in {"builtin", "runtime"} /\ b.source.uri = None

DecodesPrompt(b) == b.requires \in {None, b.vars}

DecodesTarget(b) ==
    \/ b.type = "codegen" /\ b.output # None
    \/ b.type = "platform" /\ b.output = None

(* A target has one binding; at most one binding is the default. *)
DecodesAuth(auth) ==
    /\ \A i \in DOMAIN auth : auth[i].scheme # None
    /\ Cardinality({i \in DOMAIN auth : auth[i].targets = {}}) <= 1
    /\ \A i, j \in DOMAIN auth :
          i # j => auth[i].targets \cap auth[j].targets = {}

DecodesMCPServer(b) ==
    /\ \/ b.transport = "http" /\ b.url # None /\ b.command = None
       \/ /\ b.transport = "stdio" /\ b.command # None /\ b.url = None
          /\ b.auth = <<>>
    /\ DecodesAuth(b.auth)

Decodes(b) ==
    \/ b.kind = "agent" /\ DecodesAgent(b)
    \/ b.kind = "tool" /\ DecodesTool(b)
    \/ b.kind = "prompt" /\ DecodesPrompt(b)
    \/ b.kind = "target" /\ DecodesTarget(b)
    \/ b.kind = "mcp_server" /\ DecodesMCPServer(b)
    \/ b.kind \in {"model", "plugin"}

Parses(file) ==
    /\ \A i \in DOMAIN file : Decodes(file[i])
    /\ \A i, j \in DOMAIN file : Addr(file[i]) = Addr(file[j]) => i = j

(* The symbol table: of two blocks with one address the first file's stays. *)
Define(symbols, file) ==
    IF Parses(file)
    THEN [a \in (DOMAIN symbols) \cup {Addr(b) : b \in Range(file)} |->
             IF a \in DOMAIN symbols THEN symbols[a]
             ELSE CHOOSE b \in Range(file) : Addr(b) = a]
    ELSE symbols

Symbols(files) == FoldLeft(Define, <<>>, files)

DeclaredTwice(files) ==
    \E i, j \in DOMAIN files :
        /\ i # j /\ Parses(files[i]) /\ Parses(files[j])
        /\ {Addr(b) : b \in Range(files[i])} \cap {Addr(b) : b \in Range(files[j])} # {}
-----------------------------------------------------------------------------
(* Resolution, over a symbol table.                                         *)
Blocks(mod, kind) == {b \in Range(mod) : b.kind = kind}

Has(mod, kind, name) == <<kind, name>> \in DOMAIN mod

ResolvesInput(mod, in) ==
    \/ in.ref = None
    \/ /\ Has(mod, "agent", in.ref.agent)
       /\ in.ref.output \in Range(mod[<<"agent", in.ref.agent>>].outputs)

ValidatePromptVars(a, p) ==
    p.vars \subseteq Range(Field(a.inputs, "name")) \cup Range(a.outputs)

ResolvesAgent(mod, a) ==
    /\ Has(mod, "model", a.model)
    /\ a.prompt # None =>
        /\ Has(mod, "prompt", a.prompt)
        /\ ValidatePromptVars(a, mod[<<"prompt", a.prompt>>])
    /\ \A t \in Range(a.tools) : Has(mod, "tool", t)
    /\ \A d \in Range(a.after) : Has(mod, "agent", d)
    /\ \A i \in DOMAIN a.inputs : ResolvesInput(mod, a.inputs[i])

ResolvesToolSource(mod, t) ==
    t.source.kind = "mcp" =>
        /\ t.source.uri.server # None
        /\ Has(mod, "mcp_server", t.source.uri.server)

ResolvesMCPServer(mod, s) ==
    \A auth \in Range(s.auth) : \A t \in auth.targets : Has(mod, "target", t)

ResolvesTargetPlugin(mod, t) == t.plugin # None => Has(mod, "plugin", t.plugin)

ReferencedServers(mod) ==
    {t.source.uri.server : t \in {u \in Blocks(mod, "tool") : u.source.kind = "mcp"}}

(* Mutant: the first binding that fits is taken, the default among them. *)
FirstAuthFor(s, target) ==
    LET fits == {i \in DOMAIN s.auth : s.auth[i].targets = {} \/ target \in s.auth[i].targets}
    IN  IF fits = {} THEN None ELSE s.auth[Min(fits)].scheme

(* The credential of a server on a target: the binding that names it wins   *)
(* over the default, wherever the two stand.                                *)
AuthFor(s, target) ==
    LET named == {i \in DOMAIN s.auth : target \in s.auth[i].targets}
        default == {i \in DOMAIN s.auth : s.auth[i].targets = {}}
    IN  IF named # {} THEN s.auth[Min(named)].scheme
        ELSE IF default # {} THEN s.auth[Max(default)].scheme ELSE None

AuthCovered(mod) ==
    \A s \in Blocks(mod, "mcp_server") :
        (s.auth # <<>> /\ s.name \in ReferencedServers(mod)) =>
            \A t \in Blocks(mod, "target") : AuthFor(s, t.name) # None

Resolves(mod) ==
    /\ \A a \in Blocks(mod, "agent") : ResolvesAgent(mod, a)
    /\ \A t \in Blocks(mod, "tool") : ResolvesToolSource(mod, t)
    /\ \A s \in Blocks(mod, "mcp_server") : ResolvesMCPServer(mod, s)
    /\ \A t \in Blocks(mod, "target") : ResolvesTargetPlugin(mod, t)
    /\ AuthCovered(mod)

(* Load returns a module: no error anywhere. *)
Loads(files) ==
    /\ \A i \in DOMAIN files : Parses(files[i])
    /\ ~ DeclaredTwice(files)
    /\ Resolves(Symbols(files))
-----------------------------------------------------------------------------
(* What a target without a plugin can bind, by its name. *)
Capabilities(stdio, schemes, vault) ==
    [stdio |-> stdio, schemes |-> schemes, vault |-> vault]

BuiltinCapabilities ==
    [langgraph |-> Capabilities(TRUE, {"env"}, FALSE),
     eve |-> Capabilities(FALSE, {"env"}, FALSE),
     claude_agents |-> Capabilities(FALSE, {"connection"}, TRUE),
     memory |-> Capabilities(FALSE, {"env"}, FALSE)]

BindsServer(caps, t, s) ==
    /\ s.transport = "stdio" => caps.stdio
    /\ LET scheme == AuthFor(s, t.name) IN
       \/ scheme = None
       \/ /\ scheme \in caps.schemes
          /\ (scheme = "connection" /\ caps.vault) => t.vault

ValidatesTarget(mod, t) ==
    \/ t.plugin # None
    \/ t.name \notin DOMAIN BuiltinCapabilities
    \/ \A s \in Blocks(mod, "mcp_server") :
          s.name \in ReferencedServers(mod) =>
            BindsServer(BuiltinCapabilities[t.name], t, s)
-----------------------------------------------------------------------------
(* The lookups of an agent's closure: its model, its prompt, its tools and  *)
(* the servers of these.                                                    *)
LookupBlocks(a) ==
    {<<"model", a.model>>} \cup {<<"tool", t>> : t \in Range(a.tools)}
    \cup (IF a.prompt = None THEN {} ELSE {<<"prompt", a.prompt>>})

MCPServerFor(mod, t) ==
    IF t.source.kind = "mcp" THEN {<<"mcp_server", t.source.uri.server>>} ELSE {}

LookupsSucceed(mod, a) ==
    /\ LookupBlocks(a) \subseteq DOMAIN mod
    /\ \A t \in Range(a.tools) : MCPServerFor(mod, mod[<<"tool", t>>]) \subseteq DOMAIN mod

ToolConfig(t) ==
    [block |-> t.name, kind |-> t.source.kind,
     server |-> IF t.source.kind = "mcp" THEN t.source.uri.server ELSE None,
     tool |-> IF t.source.kind = "mcp" THEN t.source.uri.tool ELSE t.name]

MCPServerConfig(s, target) ==
    [transport |-> s.transport, url |-> s.url, auth |-> AuthFor(s, target)]

(* The closure that the platform compares; see ClaudeConfig. *)
DesiredConfig(mod, a, target) ==
    LET tools == [i \in DOMAIN a.tools |-> ToolConfig(mod[<<"tool", a.tools[i]>>])]
        servers == {t.server : t \in {u \in Range(tools) : u.kind = "mcp"}}
    IN  [addr |-> Addr(a), model |-> mod[<<"model", a.model>>],
         description |-> None, instructions |-> a.prompt,
         tools |-> tools, gated |-> Range(a.gated),
         servers |-> [s \in servers |-> MCPServerConfig(mod[<<"mcp_server", s>>], target)]]

(* The graph: servers and plugins are no nodes; an agent depends on what it *)
(* refers to.                                                               *)
Nodes(mod) ==
    {a \in DOMAIN mod : a[1] \in {"model", "prompt", "tool", "target", "agent"}}

(* owner: the agent of the output an input defaults to. *)
OwnerEdges(a) ==
    {<<"agent", a.inputs[i].ref.agent>> :
        i \in {j \in DOMAIN a.inputs : a.inputs[j].ref # None}}

GraphDependencies(a) ==
    LookupBlocks(a)
    \cup {<<"tool", t>> : t \in Range(a.gated)}
    \cup {<<"agent", d>> : d \in Range(a.after)}
    \cup OwnerEdges(a)
=============================================================================
