------------------------------- MODULE Doctor -------------------------------
(***************************************************************************)
(* kastor doctor for an agent on a Claude target: the readiness checks of  *)
(* internal/provider/doctor.go and internal/provider/claude/check.go.      *)
(*                                                                         *)
(* A job is what one report is made from:                                  *)
(*   desired   the closure of the agent;                                   *)
(*   tracked   whether the state file knows the agent;                     *)
(*   answers   whether the platform answers a read; remote is the object   *)
(*             it then returns, None when there is none;                   *)
(*   env       the environment variables the module needs, and whether     *)
(*             each is set;                                                *)
(*   vault     configured: the target names one; answers: it can be read;  *)
(*             holds: its credentials.                                     *)
(***************************************************************************)
EXTENDS ClaudeConfig

Check(kind, subject, status) ==
    [kind |-> kind, subject |-> subject, status |-> status]

(* A grant that lapsed and cannot renew itself. *)
Expired(credential) == credential.expired /\ ~ credential.refresh

(* Only a vault that answers can show that a credential is no good. *)
CredentialStatus(server, vault) ==
    IF ~ vault.configured \/ ~ vault.answers THEN "unknown"
    ELSE IF server.auth \notin DOMAIN vault.holds THEN "failed"
    ELSE LET credential == vault.holds[server.auth] IN
         IF \/ credential.archived
            \/ credential.url \notin {None, server.url}
            \/ Expired(credential)
         THEN "failed" ELSE "ok"

(* A server without auth is unauthenticated by declaration. *)
CredentialChecks(servers, vault) ==
    {Check("credential", s,
           IF servers[s].auth = None THEN "ok"
           ELSE CredentialStatus(servers[s], vault)) : s \in DOMAIN servers}

(* The tools of all toolsets by name; of two with one name the last counts. *)
DeclaredToolPolicies(toolsets) ==
    LET all == FlattenSeq([i \in DOMAIN toolsets |-> toolsets[i].configs])
        names == {all[i].name : i \in DOMAIN all}
        last(n) == CHOOSE i \in DOMAIN all :
                      /\ all[i].name = n
                      /\ \A j \in DOMAIN all : all[j].name = n => j <= i
    IN  [n \in names |-> all[last(n)]]

PermissionStatus(want, got, n) ==
    IF \/ n \notin DOMAIN got
       \/ ~ got[n].enabled
       \/ got[n].policy # want[n].policy
    THEN "failed" ELSE "ok"

PermissionChecks(desired, remote) ==
    LET want == DeclaredToolPolicies(NormalizeDesired(desired).tools)
        got == DeclaredToolPolicies(remote.tools)
    IN  {Check("tool_permission", n, PermissionStatus(want, got, n)) :
            n \in DOMAIN want}

(* Claude's Checker: it fails only on a closure the target cannot express. *)
ProviderChecks(desired, remote, vault) ==
    CredentialChecks(desired.servers, vault) \cup PermissionChecks(desired, remote)

EnvironmentChecks(env) ==
    {Check("environment", v, IF env[v] THEN "ok" ELSE "failed") : v \in DOMAIN env}

(* Mutant: an agent that could not be read is passed over. *)
ChecksOfReadable(job) ==
    IF ~ job.tracked \/ ~ job.answers THEN {}
    ELSE IF job.remote = None THEN {Check("remote", job.desired.addr, "failed")}
    ELSE {Check("remote", job.desired.addr, "ok")}
         \cup ProviderChecks(job.desired, job.remote, job.vault)

(* What is not deployed has nothing to check; what cannot be read is unknown. *)
ResourceChecks(job) ==
    IF ~ job.tracked THEN {}
    ELSE IF ~ job.answers THEN {Check("remote", job.desired.addr, "unknown")}
    ELSE IF job.remote = None THEN {Check("remote", job.desired.addr, "failed")}
    ELSE {Check("remote", job.desired.addr, "ok")}
         \cup ProviderChecks(job.desired, job.remote, job.vault)

BuildReport(job) == EnvironmentChecks(job.env) \cup ResourceChecks(job)

Ready(report) == \A c \in report : c.status = "ok"
-----------------------------------------------------------------------------
(* What the report is about: the deployed agent may call a tool it          *)
(* declares, asking as the module says; a credential authenticates.         *)
Granted(desired, remote, t) ==
    \E i \in DOMAIN remote.tools : \E j \in DOMAIN remote.tools[i].configs :
        /\ remote.tools[i].server = ServerOf(t)
        /\ remote.tools[i].configs[j] = EnabledTool(desired, t)

Authenticates(server, vault) ==
    /\ server.auth \in DOMAIN vault.holds
    /\ LET credential == vault.holds[server.auth] IN
       /\ ~ credential.archived
       /\ credential.url \in {None, server.url}
       /\ ~ Expired(credential)

Serves(job) ==
    /\ \A v \in DOMAIN job.env : job.env[v]
    /\ job.tracked =>
        /\ job.remote # None
        /\ \A i \in DOMAIN job.desired.tools :
            Granted(job.desired, job.remote, job.desired.tools[i])
        /\ \A s \in DOMAIN job.desired.servers :
            \/ job.desired.servers[s].auth = None
            \/ Authenticates(job.desired.servers[s], job.vault)

(* No two tools of the agent have one name on the platform. *)
NamesDistinct(desired) ==
    \A i, j \in DOMAIN desired.tools :
        desired.tools[i].tool = desired.tools[j].tool => i = j

(* The deployed agent has tools of these names on their own servers only.   *)
NamesPlaced(desired, remote) ==
    \A i \in DOMAIN desired.tools, j \in DOMAIN remote.tools :
        \A k \in DOMAIN remote.tools[j].configs :
            remote.tools[j].configs[k].name = desired.tools[i].tool =>
                remote.tools[j].server = ServerOf(desired.tools[i])
=============================================================================
