------------------------------ MODULE PluginRpc ------------------------------
(***************************************************************************)
(* A plugin process and the client that owns it (protocol/v1/rpc.go):      *)
(* the handshake, calls that several goroutines make under one mutex, the  *)
(* plugin's request loop, cancellation, which kills the process, and       *)
(* Close, which lets it go, waits and kills it after two seconds.          *)
(*                                                                         *)
(* The client writes a request to the plugin's stdin before it begins to   *)
(* watch the context. A pipe holds Capacity requests that fit into it; one *)
(* that does not is written while the plugin reads it, which it may begin  *)
(* late or leave off in the middle, for ever. Killing and the end          *)
(* of a process take time. A process the plugin started may have inherited *)
(* its pipes, and outlives it. A plugin may hang or die anywhere, and may  *)
(* write to stdout what is no answer, which protocol version 1 forbids.    *)
(***************************************************************************)
EXTENDS Naturals, Sequences

CONSTANTS
    Callers, None,
    Capacity,       \* the requests that stdin holds
    MaxCalls,       \* bound: calls after the handshake
    MaxStrays       \* bound: what the plugin writes that is no answer

ASSUME BoundsAssumption ==
    /\ None \notin Callers
    /\ Capacity \in Nat /\ MaxCalls \in Nat /\ MaxStrays \in Nat

(* A call's request fits into the pipe or not; a Diff has a context nobody *)
(* can cancel (internal/plugin/platform.go); an unfit one has no JSON.     *)
Kind == {"small", "big", "diff", "unfit"}

VARIABLES
    phase,      \* of the client: "starting", "open", or "failed" handshake
    callers,    \* what each goroutine is doing
    mu,         \* who holds the mutex
    log,        \* the requests, by id: whether they acted, what was returned
    begun,      \* calls after the handshake
    cancelled,  \* whether the command's context is
    closed, reaped,     \* whether Close began, and whether it returned
    broken,     \* whether the decoder met a line it could not read
    stdin, stdinClosed, stdout,
    plugin, killed, helper, strays

client == <<phase, callers, mu, log, begun, cancelled, closed, reaped, broken>>
process == <<plugin, killed, helper, strays>>
pipes == <<stdin, stdinClosed, stdout>>
vars == <<client, process, pipes>>

Idle == [pc |-> "idle", id |-> 0, kind |-> "small"]
Entry == [acted : BOOLEAN, outcome : {"pending", "ok", "error"}]
Answer(id, ok) == [id |-> id, ok |-> ok]
Garbage == Answer(0, FALSE)

Exited == plugin.pc = "exited"
(* Nobody is left to read what is written, or to write what is read. *)
PipesBroken == Exited /\ ~helper

Init ==
    /\ phase = "starting"
    /\ \E c \in Callers : callers = [d \in Callers |->
          IF d = c THEN [Idle EXCEPT !.pc = "lock"] ELSE Idle]
    /\ mu = None /\ log = <<>> /\ begun = 0
    /\ cancelled = FALSE /\ closed = FALSE /\ reaped = FALSE /\ broken = FALSE
    /\ stdin = <<>> /\ stdinClosed = FALSE /\ stdout = <<>>
    /\ plugin = [pc |-> "read", id |-> 0]
    /\ killed = FALSE /\ helper \in BOOLEAN /\ strays = 0

At(c, pc) == callers[c].pc = pc
Goto(c, pc) == callers' = [callers EXCEPT ![c].pc = pc]
-----------------------------------------------------------------------------
(* The client. *)
Call(c, kind) ==
    /\ phase = "open" /\ At(c, "idle") /\ begun < MaxCalls
    /\ begun' = begun + 1
    /\ callers' = [callers EXCEPT ![c] = [Idle EXCEPT !.pc = "lock", !.kind = kind]]
    /\ UNCHANGED <<phase, mu, log, cancelled, closed, reaped, broken, process, pipes>>

NextId == Len(log) + 1

Lock(c) ==
    /\ At(c, "lock") /\ mu = None
    /\ IF closed
       THEN Goto(c, "idle") /\ UNCHANGED <<mu, log>>
       ELSE /\ mu' = c
            /\ log' = Append(log, [acted |-> FALSE, outcome |-> "pending"])
            /\ callers' = [callers EXCEPT ![c].pc = "encode", ![c].id = NextId]
    /\ UNCHANGED <<phase, begun, cancelled, closed, reaped, broken, process, pipes>>

(* The request is written into the pipe. *)
Encode(c) ==
    /\ At(c, "encode") /\ ~PipesBroken
    /\ callers[c].kind \in {"small", "diff"} /\ Len(stdin) < Capacity
    /\ stdin' = Append(stdin, callers[c].id)
    /\ Goto(c, "wait")
    /\ UNCHANGED <<phase, mu, log, begun, cancelled, closed, reaped, broken,
                   process, stdinClosed, stdout>>

(* The write of a request that is larger than the pipe ends when the plugin *)
(* has read all of it: a step of the plugin, which it need never take.      *)
TakeBig(c) ==
    /\ At(c, "encode") /\ callers[c].kind = "big"
    /\ stdin = <<>> /\ plugin.pc = "read"
    /\ plugin' = [pc |-> "handle", id |-> callers[c].id]
    /\ Goto(c, "wait")
    /\ UNCHANGED <<phase, mu, log, begun, cancelled, closed, reaped, broken,
                   killed, helper, strays, pipes>>

(* What a call returns. A handshake that failed, or whose metadata does not *)
(* do, closes the client (startCommand).                                    *)
Return(c, outcome) ==
    /\ log' = [log EXCEPT ![callers[c].id].outcome = outcome]
    /\ mu' = None
    /\ \/ /\ phase = "starting"
          /\ phase' = "failed" /\ Goto(c, "close")
       \/ /\ phase # "starting" \/ outcome = "ok"
          /\ phase' = (IF phase = "starting" THEN "open" ELSE phase)
          /\ callers' = [callers EXCEPT ![c] = Idle]
    /\ UNCHANGED <<begun, cancelled, closed, reaped>>

EncodeFails(c) ==
    /\ At(c, "encode") /\ PipesBroken /\ callers[c].kind # "unfit"
    /\ Return(c, "error")
    /\ UNCHANGED <<broken, process, pipes>>

(* The id is taken, nothing is written, the mutex is free again. *)
MarshalFails(c) ==
    /\ At(c, "encode") /\ callers[c].kind = "unfit"
    /\ Return(c, "error")
    /\ UNCHANGED <<broken, process, pipes>>

(* The decoder has something for whoever waits: a line, or its last error. *)
Decodable == stdout # <<>> \/ broken \/ PipesBroken
Decode ==
    /\ broken' = (broken \/ stdout = <<>> \/ Head(stdout) = Garbage)
    /\ stdout' = (IF broken \/ stdout = <<>> THEN stdout ELSE Tail(stdout))

(* Mutant: whatever answer comes is taken for the call's. *)
AnyAnswer(c) == ~broken /\ stdout # <<>> /\ Head(stdout).ok

OwnAnswer(c) ==
    ~broken /\ stdout # <<>> /\ Head(stdout) = Answer(callers[c].id, TRUE)

Receive(c) ==
    /\ At(c, "wait") /\ Decodable /\ Decode
    /\ Return(c, IF OwnAnswer(c) THEN "ok" ELSE "error")
    /\ UNCHANGED <<process, stdin, stdinClosed>>

(* Mutant: the context is only looked at. *)
KillsNothing(c) == killed

Kills(c) == TRUE

Cancel(c) ==
    /\ At(c, "wait") /\ cancelled /\ callers[c].kind # "diff"
    /\ killed' = Kills(c)
    /\ Goto(c, "drain")
    /\ UNCHANGED <<phase, mu, log, begun, cancelled, closed, reaped, broken,
                   plugin, helper, strays, pipes>>

Drains == Decodable

Drain(c) ==
    /\ At(c, "drain") /\ Drains
    /\ IF Decodable THEN Decode ELSE UNCHANGED <<broken, stdout>>
    /\ Return(c, "error")
    /\ UNCHANGED <<process, stdin, stdinClosed>>

StartClose(c) ==
    /\ phase = "open" /\ At(c, "idle") /\ ~closed
    /\ Goto(c, "close")
    /\ UNCHANGED <<phase, mu, log, begun, cancelled, closed, reaped, broken,
                   process, pipes>>

(* The mutex is held for as long as it takes to close stdin. *)
Close(c) ==
    /\ At(c, "close") /\ mu = None
    /\ IF closed THEN Goto(c, "idle") /\ UNCHANGED <<closed, stdinClosed>>
       ELSE closed' = TRUE /\ stdinClosed' = TRUE /\ Goto(c, "reap")
    /\ UNCHANGED <<phase, mu, log, begun, cancelled, reaped, broken, process,
                   stdin, stdout>>

(* Mutant: after two seconds Close only goes on waiting. *)
TimeoutWaits(c) ==
    /\ At(c, "reap")
    /\ Goto(c, "reap killed")
    /\ UNCHANGED <<phase, mu, log, begun, cancelled, closed, reaped, broken,
                   process, pipes>>

Timeout(c) ==
    /\ At(c, "reap")
    /\ killed' = TRUE /\ Goto(c, "reap killed")
    /\ UNCHANGED <<phase, mu, log, begun, cancelled, closed, reaped, broken,
                   plugin, helper, strays, pipes>>

(* Wait returns when the process ended and stderr was read to its end. *)
Waited == PipesBroken

Reap(c) ==
    /\ At(c, "reap") \/ At(c, "reap killed")
    /\ Waited
    /\ reaped' = TRUE /\ killed' = TRUE /\ Goto(c, "idle")
    /\ UNCHANGED <<phase, mu, log, begun, cancelled, closed, broken, plugin,
                   helper, strays, pipes>>
-----------------------------------------------------------------------------
(* The plugin: Serve, one request after the other until stdin ends. *)
PluginRead ==
    /\ plugin.pc = "read" /\ stdin # <<>>
    /\ plugin' = [pc |-> "handle", id |-> Head(stdin)] /\ stdin' = Tail(stdin)
    /\ UNCHANGED <<client, killed, helper, strays, stdinClosed, stdout>>

AfterAnswer == [pc |-> "read", id |-> 0]

Handle ==
    /\ plugin.pc = "handle"
    /\ plugin' = [plugin EXCEPT !.pc = "answer"]
    /\ log' = [log EXCEPT ![plugin.id].acted = TRUE]
    /\ UNCHANGED <<phase, callers, mu, begun, cancelled, closed, reaped, broken,
                   killed, helper, strays, pipes>>

(* Another protocol, an unknown method, a payload that does not decode. *)
Reject ==
    /\ plugin.pc = "handle"
    /\ plugin' = [pc |-> "read", id |-> 0]
    /\ stdout' = Append(stdout, Answer(plugin.id, FALSE))
    /\ UNCHANGED <<client, killed, helper, strays, stdin, stdinClosed>>

(* The handler's answer, or its error. *)
Respond(ok) ==
    /\ plugin.pc = "answer"
    /\ plugin' = AfterAnswer
    /\ stdout' = Append(stdout, Answer(plugin.id, ok))
    /\ UNCHANGED <<client, killed, helper, strays, stdin, stdinClosed>>

PluginEnds ==
    /\ plugin.pc = "read" /\ stdin = <<>> /\ stdinClosed
    /\ plugin' = [plugin EXCEPT !.pc = "exited"]
    /\ UNCHANGED <<client, killed, helper, strays, pipes>>

PluginDies ==
    /\ ~Exited
    /\ plugin' = [plugin EXCEPT !.pc = "exited"]
    /\ UNCHANGED <<client, killed, helper, strays, pipes>>

(* The process dies some time after the kill. *)
Die == killed /\ PluginDies

(* A line that is not JSON, or a second or late answer to a call that is    *)
(* over.                                                                    *)
Stray(answer) ==
    /\ ~Exited /\ strays < MaxStrays
    /\ strays' = strays + 1
    /\ stdout' = Append(stdout, answer)
    /\ UNCHANGED <<client, plugin, killed, helper, stdin, stdinClosed>>

CancelContext ==
    /\ ~cancelled /\ cancelled' = TRUE
    /\ UNCHANGED <<phase, callers, mu, log, begun, closed, reaped, broken,
                   process, pipes>>

HostStep(c) ==
    \/ Lock(c) \/ Encode(c) \/ EncodeFails(c) \/ MarshalFails(c)
    \/ Receive(c) \/ Cancel(c) \/ Drain(c) \/ Close(c) \/ Timeout(c) \/ Reap(c)

Plugin ==
    \/ (\E c \in Callers : TakeBig(c))
    \/ PluginRead \/ Handle \/ Reject \/ PluginEnds \/ PluginDies
    \/ \E ok \in BOOLEAN : Respond(ok)
    \/ Stray(Garbage)
    \/ \E id \in DOMAIN log : log[id].outcome # "pending" /\ Stray(Answer(id, TRUE))

Next ==
    \/ \E c \in Callers :
          HostStep(c) \/ StartClose(c) \/ \E kind \in Kind : Call(c, kind)
    \/ Plugin \/ Die \/ CancelContext

(* Goroutines run, a kill arrives, the timer expires. Nothing is assumed of *)
(* the plugin - not that it reads on either -, of who cancels and who calls. *)
Fairness == WF_vars(Die) /\ \A c \in Callers : WF_vars(HostStep(c))

Spec == Init /\ [][Next]_vars /\ Fairness
-----------------------------------------------------------------------------
TypeOK ==
    /\ phase \in {"starting", "open", "failed"}
    /\ callers \in [Callers -> [pc : {"idle", "lock", "encode", "wait", "drain",
                                      "close", "reap", "reap killed"},
                                id : Nat, kind : Kind]]
    /\ mu \in Callers \cup {None}
    /\ log \in Seq(Entry)
    /\ begun \in 0 .. MaxCalls
    /\ cancelled \in BOOLEAN /\ closed \in BOOLEAN /\ reaped \in BOOLEAN
    /\ broken \in BOOLEAN /\ stdinClosed \in BOOLEAN
    /\ killed \in BOOLEAN /\ helper \in BOOLEAN
    /\ stdin \in Seq(Nat) /\ stdout \in Seq([id : Nat, ok : BOOLEAN])
    /\ plugin \in [pc : {"read", "handle", "answer", "exited"}, id : Nat]
    /\ strays \in 0 .. MaxStrays

(* Calls act at most once, succeed only if they acted, and act no more when *)
(* they have returned or the client was closed: a late answer, a killed     *)
(* process, a stray line change nothing in that (call, Close).              *)
Calls == INSTANCE RpcCalls WITH calls <- log, closed <- reaped, loose <- strays > 0
ImplementsCalls == Calls!Spec

(* Close, once it has the mutex, returns and leaves no process behind,      *)
(* however the plugin hangs, unless a process that it started holds its     *)
(* pipes; so does a handshake that failed (Close, startCommand).            *)
CloseEnds ==
    \A c \in Callers : ~helper /\ At(c, "reap") ~> At(c, "idle") /\ Exited

Calling(c) == callers[c].pc \in {"lock", "encode", "wait", "drain"}
Answering == ~helper /\ strays = 0
CallsOnly(kinds) == \A c \in Callers : callers[c].kind \in kinds

(* While requests fit the pipe, no Diff is made, nothing else holds the     *)
(* pipes and the plugin writes answers only, every call of a cancelled      *)
(* context returns, those that wait for the mutex too (call).               *)
CancelledEnd ==
    [](Answering /\ CallsOnly({"small", "unfit"})) =>
        \A c \in Callers : cancelled /\ Calling(c) ~> ~Calling(c)

(* "cancellation terminates the process so a stuck plugin cannot leave the  *)
(* host blocked indefinitely" (rpc.go:218): a call ends once its own        *)
(* context is cancelled, whatever the size of its request.                  *)
NeverBlocked ==
    [](Answering /\ CallsOnly({"small", "big", "unfit"})) =>
        \A c \in Callers : cancelled /\ Calling(c) ~> ~Calling(c)
=============================================================================
