---------------------------- MODULE ClaudeAgents ----------------------------
(***************************************************************************)
(* The calls of the Claude provider on the agents of a workspace           *)
(* (internal/provider/claude/claude.go): read, create, update under the    *)
(* version that was read, and delete by archiving, each request tried up   *)
(* to MaxAttempts times.                                                   *)
(*                                                                         *)
(* The platform is external. Between a call and the platform stand         *)
(* requests that are on their way. A request may be answered with a server *)
(* error or with nothing although it took effect, although it never will,  *)
(* or although it is still on its way: the answer then no longer matters,  *)
(* the effect does. Several calls may run at once, those of commands of    *)
(* other modules or machines; others change agents out of band.            *)
(*                                                                         *)
(* Pacing and backoff are left out but for the chance to be cancelled in   *)
(* them. Of what a request says, only who sent it matters here: an agent   *)
(* is the list of the authors of its versions. For its content, see        *)
(* ClaudeConfig.                                                           *)
(***************************************************************************)
EXTENDS Naturals, Sequences, FiniteSets

CONSTANTS
    None,
    MaxCalls,       \* bound: calls of the provider in one behaviour
    MaxEdits,       \* bound: edits and archivings by others
    MaxLate         \* bound: requests on their way whose call gave up on them

ASSUME NamesAssumption == None \notin Nat
ASSUME BoundsAssumption == MaxCalls \in Nat /\ MaxEdits \in Nat /\ MaxLate \in Nat

MaxAttempts == 3

Kind == {"read", "create", "update", "delete"}

(* An id that a state file names and the platform does not know. *)
Unknown == 0

(* The author of changes that no call made. *)
Other == 0

VARIABLES
    agents,     \* the platform's agents; an id is an index, never used again
    calls,      \* the provider's calls, in the order they began
    net         \* the requests on their way

vars == <<agents, calls, net>>

(* An agent remembers who wrote each of its versions and who archived it. *)
Agent(author) == [archived |-> None, history |-> <<author>>]
VersionOf(a) == Len(a.history)
Live(id) == id \in DOMAIN agents /\ agents[id].archived = None

Result(status, value) == [status |-> status, value |-> value]
Pending == Result("pending", None)

Status == {"ok", "notfound", "conflict", "transient", "failed"}

Call == [kind : Kind, id : Nat, step : {"read", "act"},
         pc : {"send", "wait", "done"}, attempt : 1 .. MaxAttempts, version : Nat,
         result : [status : Status \cup {"pending", "absent"}, value : Nat \cup {None}]]
-----------------------------------------------------------------------------
(* The client.                                                              *)
Begin(kind, id) ==
    /\ Len(calls) < MaxCalls
    /\ calls' = Append(calls,
          [kind |-> kind, id |-> id,
           step |-> IF kind = "create" THEN "act" ELSE "read",
           pc |-> "send", attempt |-> 1, version |-> 0, result |-> Pending])
    /\ UNCHANGED <<agents, net>>

Read(id) == Begin("read", id)
Create == Begin("create", Unknown)
Update(id) == Begin("update", id)
Delete(id) == Begin("delete", id)

(* Mutant: the update is sent without the version that was read. *)
RequestWithoutVersion(n) ==
    LET c == calls[n] IN
    [call |-> n, attempt |-> c.attempt, step |-> c.step,
     op |-> IF c.step = "read" THEN "read" ELSE c.kind,
     id |-> c.id, version |-> None]

Request(n) ==
    LET c == calls[n] IN
    [call |-> n, attempt |-> c.attempt, step |-> c.step,
     op |-> IF c.step = "read" THEN "read" ELSE c.kind,
     id |-> c.id,
     version |-> IF c.step = "act" /\ c.kind = "update" THEN c.version ELSE None]

Send(n) ==
    /\ calls[n].pc = "send"
    /\ net' = net \cup {Request(n)}
    /\ calls' = [calls EXCEPT ![n].pc = "wait"]
    /\ UNCHANGED agents

Finish(c, status, value) == [c EXCEPT !.pc = "done", !.result = Result(status, value)]

(* Mutant: the attempts are not counted. *)
RetryForever(c) == [c EXCEPT !.pc = "send"]

Retry(c) == [c EXCEPT !.pc = "send", !.attempt = @ + 1]

(* The second request of an update or a delete. *)
Act(c, version) == [c EXCEPT !.step = "act", !.pc = "send", !.attempt = 1, !.version = version]

(* Mutant: the archive request is sent and its answer is all that matters:  *)
(* a failed read counts as an agent that is gone.                           *)
DeletedUnlessFound(c, answer) ==
    IF answer.status = "ok" /\ ~ answer.archived THEN Act(c, answer.version)
    ELSE Finish(c, "ok", None)

AfterReadToDelete(c, answer) ==
    IF answer.status = "ok" /\ ~ answer.archived THEN Act(c, answer.version)
    ELSE IF answer.status \in {"ok", "notfound"} THEN Finish(c, "ok", None)
    ELSE Finish(c, answer.status, None)

AfterReadToUpdate(c, answer) ==
    IF answer.status = "ok" /\ ~ answer.archived THEN Act(c, answer.version)
    ELSE Finish(c, IF answer.status = "ok" THEN "notfound" ELSE answer.status, None)

AfterRead(c, answer) ==
    IF answer.status = "ok" /\ ~ answer.archived THEN Finish(c, "ok", answer.version)
    ELSE Finish(c, IF answer.status \in {"ok", "notfound"} THEN "absent"
                   ELSE answer.status, None)

AfterAct(c, answer) ==
    IF answer.status = "ok" THEN Finish(c, "ok", answer.id)
    ELSE Finish(c, IF c.kind = "delete" /\ answer.status = "notfound" THEN "ok"
                   ELSE answer.status, None)

(* Mutant: one attempt too many. *)
MayRetryAgain(c) == c.attempt <= MaxAttempts

MayRetry(c) == c.attempt < MaxAttempts

(* classifyError: only a server error or a rate limit is tried again.       *)
Received(c, answer) ==
    IF answer.status = "transient" /\ MayRetry(c) THEN Retry(c)
    ELSE IF c.step = "act" THEN AfterAct(c, answer)
    ELSE IF c.kind = "delete" THEN AfterReadToDelete(c, answer)
    ELSE IF c.kind = "update" THEN AfterReadToUpdate(c, answer)
    ELSE AfterRead(c, answer)

(* The context ends while a call waits for its turn or for its next attempt. *)
Interrupt(n) ==
    /\ calls[n].pc = "send"
    /\ calls' = [calls EXCEPT ![n] = Finish(@, "failed", None)]
    /\ UNCHANGED <<agents, net>>
-----------------------------------------------------------------------------
(* The platform.                                                            *)
Answer(status, id) ==
    [status |-> status, id |-> id, archived |-> FALSE, version |-> 0]

(* What a request finds. *)
AnswerTo(r) ==
    IF r.op = "create" THEN Answer("ok", Len(agents) + 1)
    ELSE IF r.id \notin DOMAIN agents THEN Answer("notfound", 0)
    ELSE IF r.op = "read"
    THEN [status |-> "ok", id |-> r.id, archived |-> ~ Live(r.id),
          version |-> VersionOf(agents[r.id])]
    ELSE IF ~ Live(r.id) THEN Answer("notfound", 0)
    ELSE IF r.version \notin {None, VersionOf(agents[r.id])} THEN Answer("conflict", 0)
    ELSE Answer("ok", r.id)

(* What it does if it is answered with ok. *)
EffectOf(r) ==
    IF r.op = "create" THEN Append(agents, Agent(r.call))
    ELSE IF AnswerTo(r).status # "ok" \/ r.op = "read" THEN agents
    ELSE IF r.op = "update"
    THEN [agents EXCEPT ![r.id].history = Append(@, r.call)]
    ELSE [agents EXCEPT ![r.id].archived = r.call]

AwaitedBy(r) ==
    LET c == calls[r.call] IN
    c.pc = "wait" /\ c.step = r.step /\ c.attempt = r.attempt

Deliver(r, answer) ==
    calls' = IF AwaitedBy(r) THEN [calls EXCEPT ![r.call] = Received(@, answer)]
             ELSE calls

(* A server error or a rate limit; and any other end: a connection that is  *)
(* lost, an answer that cannot be read, credentials that are refused.       *)
Fault == {Answer("transient", 0), Answer("failed", 0)}

(* A request is carried out, and answered truly or not. *)
Execute(r) ==
    /\ agents' = EffectOf(r)
    /\ net' = net \ {r}
    /\ \E answer \in {AnswerTo(r)} \cup Fault : Deliver(r, answer)

(* A request is turned down before it has any effect. *)
TurnDown(r) ==
    /\ net' = net \ {r}
    /\ \E answer \in Fault : Deliver(r, answer)
    /\ UNCHANGED agents

(* The call hears of an error, or is cancelled, with the request on its     *)
(* way. A read that is given up is as good as one turned down.              *)
GiveUp(r) ==
    /\ AwaitedBy(r) /\ r.op # "read"
    /\ Cardinality({q \in net : ~ AwaitedBy(q)}) < MaxLate
    /\ \E answer \in Fault : Deliver(r, answer)
    /\ UNCHANGED <<agents, net>>

(* How much others have done already. *)
OtherChanges ==
    Cardinality({v \in (DOMAIN agents) \X (2 .. (MaxCalls + MaxEdits + 1)) :
                    LET history == agents[v[1]].history IN
                    v[2] \in DOMAIN history /\ history[v[2]] = Other})
    + Cardinality({id \in DOMAIN agents : agents[id].archived = Other})

OutOfBandEdit(id) ==
    /\ Live(id) /\ OtherChanges < MaxEdits
    /\ agents' = [agents EXCEPT ![id].history = Append(@, Other)]
    /\ UNCHANGED <<calls, net>>

OutOfBandArchive(id) ==
    /\ Live(id) /\ OtherChanges < MaxEdits
    /\ agents' = [agents EXCEPT ![id].archived = Other]
    /\ UNCHANGED <<calls, net>>
-----------------------------------------------------------------------------
Init ==
    /\ agents = <<Agent(Other)>>
    /\ calls = <<>>
    /\ net = {}

Client ==
    \/ Create
    \/ \E id \in {Unknown} \cup DOMAIN agents : Read(id) \/ Update(id) \/ Delete(id)
    \/ \E n \in DOMAIN calls : Send(n) \/ Interrupt(n)

Platform ==
    \/ \E r \in net : Execute(r) \/ TurnDown(r) \/ GiveUp(r)
    \/ \E id \in DOMAIN agents :
          OutOfBandArchive(id) \/ OutOfBandEdit(id)

Next == Client \/ Platform

(* A call goes on, and a request is answered or given up some time.         *)
Fairness ==
    /\ \A n \in 1 .. MaxCalls : WF_vars(n \in DOMAIN calls /\ Send(n))
    /\ WF_vars(\E r \in net : AwaitedBy(r) /\ (Execute(r) \/ TurnDown(r) \/ GiveUp(r)))

Spec == Init /\ [][Next]_vars /\ Fairness
-----------------------------------------------------------------------------
TypeOK ==
    /\ agents \in Seq([archived : Nat \cup {None}, history : Seq(Nat)])
    /\ calls \in Seq(Call)
    /\ IsFiniteSet(net)
    /\ net \subseteq [call : DOMAIN calls, attempt : 1 .. MaxAttempts,
                      step : {"read", "act"}, op : Kind, id : Nat,
                      version : Nat \cup {None}]

Done(n) == calls[n].pc = "done"
Succeeded(n) == Done(n) /\ calls[n].result.status = "ok"
CreatedBy(n) == {id \in DOMAIN agents : agents[id].history[1] = n}
(* After its first, which is who created it. *)
Wrote(n, id, k) == k \in 2 .. VersionOf(agents[id]) /\ agents[id].history[k] = n

(* What a call has done that says it succeeded, or that its agent is gone.  *)
Truthful(n) ==
    LET c == calls[n] IN
    /\ Succeeded(n) /\ c.kind = "create" => c.result.value \in CreatedBy(n)
    /\ Succeeded(n) /\ c.kind = "update" =>
          c.id \in DOMAIN agents /\ Wrote(n, c.id, c.version + 1)
    /\ Succeeded(n) /\ c.kind = "delete" => ~ Live(c.id)
    /\ Done(n) /\ c.result.status = "absent" => ~ Live(c.id)

(* A call that succeeds has done what it was for, even after retries and    *)
(* with others at work: a create returns an agent of its own, an update     *)
(* wrote the version after the one it read, and what a delete or a read     *)
(* calls gone is gone. However often it was sent, no update writes twice    *)
(* (doRequest, Update).                                                     *)
SuccessIsEffect ==
    \A n \in DOMAIN calls :
        /\ Truthful(n)
        /\ \A id \in DOMAIN agents : \A k \in 2 .. VersionOf(agents[id]) :
              Wrote(n, id, k) => id = calls[n].id /\ k = calls[n].version + 1

(* Two creates never return one agent, and a create that returns one leaves *)
(* at most MaxAttempts - 1 others behind that nobody knows of.              *)
CreateOrphansBounded ==
    \A n \in DOMAIN calls :
        /\ Cardinality(CreatedBy(n)) <= MaxAttempts
        /\ \A m \in DOMAIN calls :
            (m # n /\ calls[n].kind = "create" /\ calls[m].kind = "create"
                /\ Succeeded(n) /\ Succeeded(m)) =>
                    calls[n].result.value # calls[m].result.value

(* An update never writes over a version that its call has not read: what   *)
(* others wrote in between stays, and an update that is tried again is not  *)
(* written twice.                                                           *)
NoBlindOverwrite ==
    [][\A id \in DOMAIN agents :
        LET was == VersionOf(agents[id])
            writer == agents'[id].history[was + 1]
        IN  (VersionOf(agents'[id]) > was /\ writer # Other) =>
                calls[writer].version = was]_vars

(* Every call ends, whatever the platform answers.                          *)
CallEnds == \A n \in 1 .. MaxCalls : [](n \in DOMAIN calls => <>(n \in DOMAIN calls /\ Done(n)))
=============================================================================
