------------------------- MODULE ClaudeAgentsProofs -------------------------
(***************************************************************************)
(* Theorems about ClaudeAgents, for any number of calls, of changes by     *)
(* others and of requests that are late.                                   *)
(***************************************************************************)
EXTENDS ClaudeAgents, SequenceTheorems, FiniteSetTheorems, TLAPS

(* A create needs no first request, a read no second one; a call names an   *)
(* agent that was there when it began, or none that will ever be.           *)
Begun ==
    \A n \in DOMAIN calls :
        /\ calls[n].kind = "create" => calls[n].step = "act"
        /\ calls[n].kind = "read" => calls[n].step = "read"
        /\ calls[n].id \in {Unknown} \cup DOMAIN agents

(* A request on its way says what its call is about; the second one of an   *)
(* update has the version that the call read.                               *)
Asked(r) ==
    LET c == calls[r.call] IN
    /\ r.id = c.id
    /\ r.op = IF r.step = "read" THEN "read" ELSE c.kind
    /\ r.step = "act" => c.step = "act"
    /\ r.op = "update" => r.version = c.version

(* Who is named as the author of a version sent the request for it: a       *)
(* create for the first, and an update for the one after what it read.      *)
Authored(id, k) ==
    LET n == agents[id].history[k] IN
    n # Other =>
        /\ n \in DOMAIN calls
        /\ k = 1 => calls[n].kind = "create"
        /\ k > 1 => /\ calls[n].kind = "update" /\ calls[n].step = "act"
                    /\ id = calls[n].id /\ k = calls[n].version + 1

Histories ==
    \A id \in DOMAIN agents :
        /\ VersionOf(agents[id]) > 0
        /\ \A k \in 1 .. VersionOf(agents[id]) : Authored(id, k)

(* The attempts that a call has sent. *)
Sent(c) == IF c.pc = "send" THEN c.attempt - 1 ELSE c.attempt

RequestsOf(n) == {r \in net : r.call = n}

(* Each attempt of a create is on its way, has made one agent, or is gone.  *)
Orphans ==
    \A n \in DOMAIN calls :
        calls[n].kind = "create" =>
            Cardinality(CreatedBy(n)) + Cardinality(RequestsOf(n)) <= Sent(calls[n])

IInv ==
    /\ Begun /\ Histories /\ Orphans
    /\ \A r \in net : Asked(r)
    /\ \A n \in DOMAIN calls : Truthful(n)
-----------------------------------------------------------------------------
(* Types. *)
AgentType == [archived : Nat \cup {None}, history : Seq(Nat)]
AnswerType == [status : Status, id : Nat, archived : BOOLEAN, version : Nat]

LEMMA AgentsType ==
    ASSUME TypeOK
    PROVE  /\ agents \in Seq(AgentType) /\ DOMAIN agents = 1 .. Len(agents)
           /\ Len(agents) \in Nat /\ Unknown \notin DOMAIN agents
           /\ \A id \in DOMAIN agents :
                 /\ id \in Nat /\ agents[id] \in AgentType
                 /\ agents[id].archived \in Nat \cup {None}
                 /\ agents[id].history \in Seq(Nat)
                 /\ VersionOf(agents[id]) \in Nat
                 /\ DOMAIN agents[id].history = 1 .. VersionOf(agents[id])
<1>1. agents \in Seq(AgentType)
    BY DEF TypeOK, AgentType
<1>2. /\ DOMAIN agents = 1 .. Len(agents) /\ Len(agents) \in Nat
      /\ \A id \in DOMAIN agents : id \in Nat /\ agents[id] \in AgentType
    BY <1>1, LenProperties, ElementOfSeq
<1>3. \A id \in DOMAIN agents :
          agents[id].archived \in Nat \cup {None} /\ agents[id].history \in Seq(Nat)
    BY <1>2 DEF AgentType
<1>4. \A id \in DOMAIN agents :
          /\ VersionOf(agents[id]) \in Nat
          /\ DOMAIN agents[id].history = 1 .. VersionOf(agents[id])
    BY <1>3, LenProperties, ElementOfSeq DEF VersionOf
<1>5. QED
    BY <1>1, <1>2, <1>3, <1>4 DEF Unknown

LEMMA CallsType ==
    ASSUME TypeOK
    PROVE  /\ calls \in Seq(Call) /\ DOMAIN calls = 1 .. Len(calls) /\ Len(calls) \in Nat
           /\ Other \notin DOMAIN calls
           /\ \A n \in DOMAIN calls : n \in Nat /\ calls[n] \in Call
<1>1. calls \in Seq(Call)
    BY DEF TypeOK
<1>2. QED
    BY <1>1, LenProperties, ElementOfSeq DEF Other

LEMMA NetType ==
    ASSUME TypeOK, NEW r \in net
    PROVE  /\ r \in [call : DOMAIN calls, attempt : 1 .. MaxAttempts,
                     step : {"read", "act"}, op : Kind, id : Nat,
                     version : Nat \cup {None}]
           /\ r.call \in DOMAIN calls /\ r.op \in Kind /\ r.id \in Nat
           /\ r.step \in {"read", "act"} /\ r.version \in Nat \cup {None}
<1>1. r \in [call : DOMAIN calls, attempt : 1 .. MaxAttempts, step : {"read", "act"},
             op : Kind, id : Nat, version : Nat \cup {None}]
    BY DEF TypeOK
<1>2. QED
    BY <1>1

(* How many agents a call has made, and requests on their way. *)
LEMMA Counted ==
    ASSUME TypeOK, NEW n
    PROVE  /\ IsFiniteSet(CreatedBy(n)) /\ Cardinality(CreatedBy(n)) \in Nat
           /\ IsFiniteSet(RequestsOf(n)) /\ Cardinality(RequestsOf(n)) \in Nat
<1>1. IsFiniteSet(1 .. Len(agents))
    BY AgentsType, FS_Interval
<1>2. CreatedBy(n) \in SUBSET (1 .. Len(agents))
    BY AgentsType DEF CreatedBy
<1>3. IsFiniteSet(CreatedBy(n))
    BY <1>1, <1>2, FS_Subset
<1>4. IsFiniteSet(net) /\ RequestsOf(n) \in SUBSET net
    BY DEF TypeOK, RequestsOf
<1>5. IsFiniteSet(RequestsOf(n))
    BY <1>4, FS_Subset
<1>6. QED
    BY <1>3, <1>5, FS_CardinalityType

LEMMA OneMore ==
    ASSUME NEW S, IsFiniteSet(S), NEW x
    PROVE  /\ Cardinality(S) \in Nat /\ Cardinality(S \cup {x}) \in Nat
           /\ Cardinality(S \cup {x}) <= Cardinality(S) + 1
<1>1. IsFiniteSet(S \cup {x}) /\ Cardinality(S) \in Nat
    BY FS_AddElement, FS_CardinalityType
<1>2. Cardinality(S \cup {x}) = Cardinality(S) \/ Cardinality(S \cup {x}) = Cardinality(S) + 1
    BY FS_AddElement
<1>3. QED
    BY <1>1, <1>2, FS_CardinalityType

LEMMA OneLess ==
    ASSUME NEW S, IsFiniteSet(S), NEW x \in S
    PROVE  /\ Cardinality(S) \in Nat /\ Cardinality(S \ {x}) \in Nat
           /\ Cardinality(S \ {x}) + 1 = Cardinality(S)
<1>1. IsFiniteSet(S \ {x}) /\ Cardinality(S \ {x}) = Cardinality(S) - 1
    BY FS_RemoveElement
<1>2. Cardinality(S) \in Nat /\ Cardinality(S \ {x}) \in Nat
    BY <1>1, FS_CardinalityType
<1>3. QED
    BY <1>1, <1>2

LEMMA FinishType ==
    ASSUME NEW c \in Call, NEW status \in Status \cup {"absent"},
           NEW value \in Nat \cup {None}, NEW d, d = Finish(c, status, value)
    PROVE  /\ d \in Call /\ d.kind = c.kind /\ d.id = c.id /\ d.pc = "done"
           /\ d.step = c.step /\ d.version = c.version /\ d.attempt = c.attempt
           /\ d.result.status = status /\ d.result.value = value
<1>1. c \in [kind : Kind, id : Nat, step : {"read", "act"},
             pc : {"send", "wait", "done"}, attempt : 1 .. MaxAttempts, version : Nat,
             result : [status : Status \cup {"pending", "absent"},
                       value : Nat \cup {None}]]
    BY DEF Call
<1>2. d = [kind |-> c.kind, id |-> c.id, step |-> c.step, pc |-> "done",
           attempt |-> c.attempt, version |-> c.version,
           result |-> [status |-> status, value |-> value]]
    BY <1>1 DEF Finish, Result
<1>3. QED
    BY <1>1, <1>2 DEF Call

(* What a call makes of an answer. *)
LEMMA ReceivedType ==
    ASSUME NEW c \in Call, c.pc = "wait", NEW answer \in AnswerType,
           NEW d, d = Received(c, answer)
    PROVE  /\ d \in Call /\ d.kind = c.kind /\ d.id = c.id
           /\ c.step = "act" => d.step = "act" /\ d.version = c.version
           /\ c.step = "act" => Sent(d) = Sent(c)
           /\ c.kind = "read" => d.step = c.step
           /\ d.pc = "done" /\ d.result.status = "ok" =>
                 /\ c.kind = "create" /\ c.step = "act" =>
                       answer.status = "ok" /\ d.result.value = answer.id
                 /\ c.kind = "update" =>
                       d.step = "act" /\ c.step = "act" /\ answer.status = "ok"
                 /\ c.kind = "delete" =>
                       \/ answer.status = "notfound"
                       \/ answer.status = "ok" /\ (c.step = "act" \/ answer.archived)
           /\ d.pc = "done" /\ d.result.status = "absent" =>
                 /\ c.step = "read"
                 /\ answer.status = "notfound" \/ (answer.status = "ok" /\ answer.archived)
<1>1. /\ c \in [kind : Kind, id : Nat, step : {"read", "act"},
                pc : {"send", "wait", "done"}, attempt : 1 .. MaxAttempts, version : Nat,
                result : [status : Status \cup {"pending", "absent"},
                          value : Nat \cup {None}]]
      /\ answer \in [status : Status, id : Nat, archived : BOOLEAN, version : Nat]
    BY DEF Call, AnswerType
<1>2. ASSUME NEW status \in Status \cup {"absent"}, NEW value \in Nat \cup {None},
             d = Finish(c, status, value)
      PROVE  /\ d \in Call /\ d.kind = c.kind /\ d.id = c.id /\ d.pc = "done"
             /\ d.step = c.step /\ d.version = c.version /\ d.attempt = c.attempt
             /\ d.result.status = status /\ d.result.value = value
    <2>1. \A f : f = Finish(c, status, value) =>
              /\ f \in Call /\ f.kind = c.kind /\ f.id = c.id /\ f.pc = "done"
              /\ f.step = c.step /\ f.version = c.version /\ f.attempt = c.attempt
              /\ f.result.status = status /\ f.result.value = value
        BY FinishType
    <2>2. QED
        BY <1>2, <2>1
<1>3. CASE d = Retry(c) /\ MayRetry(c)
    <2>1. d = [kind |-> c.kind, id |-> c.id, step |-> c.step, pc |-> "send",
               attempt |-> c.attempt + 1, version |-> c.version, result |-> c.result]
        BY <1>1, <1>3 DEF Retry
    <2>2. c.attempt \in 1 .. 3 /\ c.attempt + 1 \in 1 .. 3
        BY <1>1, <1>3 DEF MayRetry, MaxAttempts
    <2>3. d \in Call
        BY <1>1, <2>1, <2>2 DEF Call, MaxAttempts
    <2>4. Sent(d) = Sent(c)
        BY <2>1, <2>2 DEF Sent
    <2>5. QED
        BY <2>1, <2>3, <2>4
<1>4. CASE d = Act(c, answer.version) /\ c.step # "act" /\ c.kind \in {"delete", "update"}
    <2>1. d = [kind |-> c.kind, id |-> c.id, step |-> "act", pc |-> "send",
               attempt |-> 1, version |-> answer.version, result |-> c.result]
        BY <1>1, <1>4 DEF Act
    <2>2. d \in Call
        BY <1>1, <2>1 DEF Call, MaxAttempts
    <2>3. QED
        BY <1>4, <2>1, <2>2
<1>5. CASE d = AfterAct(c, answer) /\ c.step = "act"
    <2>1. \E status \in Status : \E value \in Nat \cup {None} :
              /\ d = Finish(c, status, value)
              /\ status = "ok" /\ c.kind # "delete" => answer.status = "ok" /\ value = answer.id
              /\ status = "ok" => answer.status \in {"ok", "notfound"}
        BY <1>1, <1>5 DEF AfterAct, Status
    <2>2. PICK status \in Status, value \in Nat \cup {None} :
              /\ d = Finish(c, status, value)
              /\ status = "ok" /\ c.kind # "delete" => answer.status = "ok" /\ value = answer.id
              /\ status = "ok" => answer.status \in {"ok", "notfound"}
        BY <2>1
    <2>3. QED
        BY <1>1, <1>2, <1>5, <2>2 DEF Sent, Status
<1>6. ASSUME c.step = "read",
             \/ d = AfterReadToDelete(c, answer) /\ c.kind = "delete"
             \/ d = AfterReadToUpdate(c, answer) /\ c.kind = "update"
             \/ d = AfterRead(c, answer) /\ c.kind \notin {"delete", "update"},
             d # Act(c, answer.version)
      PROVE  \E status \in Status \cup {"absent"} : \E value \in Nat \cup {None} :
                 /\ d = Finish(c, status, value)
                 /\ status = "ok" => c.kind # "update"
                 /\ status = "ok" /\ c.kind = "delete" =>
                       answer.status = "notfound" \/ (answer.status = "ok" /\ answer.archived)
                 /\ status = "absent" =>
                       answer.status = "notfound" \/ (answer.status = "ok" /\ answer.archived)
    <2>1. CASE d = AfterReadToDelete(c, answer) /\ c.kind = "delete"
        BY <1>1, <1>6, <2>1, ZenonT(60) DEF AfterReadToDelete, Status
    <2>2. CASE d = AfterReadToUpdate(c, answer) /\ c.kind = "update"
        BY <1>1, <1>6, <2>2, ZenonT(60) DEF AfterReadToUpdate, Status
    <2>3. CASE d = AfterRead(c, answer) /\ c.kind \notin {"delete", "update"}
        BY <1>1, <1>6, <2>3, ZenonT(60) DEF AfterRead, Status
    <2>4. QED
        BY <1>6, <2>1, <2>2, <2>3
<1>7. CASE /\ c.step = "read" /\ d # Act(c, answer.version)
           /\ \/ d = AfterReadToDelete(c, answer) /\ c.kind = "delete"
              \/ d = AfterReadToUpdate(c, answer) /\ c.kind = "update"
              \/ d = AfterRead(c, answer) /\ c.kind \notin {"delete", "update"}
    BY <1>1, <1>2, <1>6, <1>7
<1>8. CASE /\ c.step = "read" /\ d = Act(c, answer.version)
           /\ d = AfterRead(c, answer) /\ c.kind \notin {"delete", "update"}
    <2>1. d.pc = "done" /\ d.pc = "send"
        BY <1>1, <1>8 DEF AfterRead, Finish, Act
    <2>2. QED
        BY <2>1
<1>9. QED
    BY <1>1, <1>3, <1>4, <1>5, <1>7, <1>8 DEF Received
-----------------------------------------------------------------------------
(* What every step keeps: a call does not change what it is about, nor what *)
(* it returned, and an agent keeps its versions and stays archived.         *)
CallsGoOn ==
    /\ calls' \in Seq(Call)
    /\ \A n \in DOMAIN calls :
          /\ n \in DOMAIN calls'
          /\ calls'[n].kind = calls[n].kind /\ calls'[n].id = calls[n].id
          /\ calls[n].step = "act" =>
                calls'[n].step = "act" /\ calls'[n].version = calls[n].version
          /\ Done(n) => calls'[n] = calls[n]

AgentsGrow ==
    /\ agents' \in Seq(AgentType)
    /\ \A id \in DOMAIN agents :
          /\ id \in DOMAIN agents'
          /\ VersionOf(agents'[id]) >= VersionOf(agents[id])
          /\ \A k \in 1 .. VersionOf(agents[id]) :
                agents'[id].history[k] = agents[id].history[k]
          /\ agents[id].archived # None => agents'[id].archived # None

(* What was true of a call that is done stays true. *)
LEMMA TruthKept ==
    ASSUME TypeOK, IInv, CallsGoOn, AgentsGrow, NEW n \in DOMAIN calls, Done(n)
    PROVE  Truthful(n)'
<1>1. calls'[n] = calls[n] /\ Truthful(n) /\ Done(n)' /\ (Succeeded(n)' <=> Succeeded(n))
    BY DEF CallsGoOn, IInv, Done, Succeeded
<1>2. \A id \in DOMAIN agents :
          /\ id \in DOMAIN agents' /\ VersionOf(agents[id]) > 0
          /\ VersionOf(agents[id]) \in Nat /\ VersionOf(agents'[id]) \in Nat
          /\ VersionOf(agents'[id]) >= VersionOf(agents[id])
          /\ \A k \in 1 .. VersionOf(agents[id]) :
                agents'[id].history[k] = agents[id].history[k]
    <2>1. \A id \in DOMAIN agents' : agents'[id] \in AgentType
        BY LenProperties, ElementOfSeq DEF AgentsGrow
    <2>2. \A id \in DOMAIN agents' : VersionOf(agents'[id]) \in Nat
        BY <2>1, LenProperties, ElementOfSeq DEF AgentType, VersionOf
    <2>3. QED
        BY <2>2, AgentsType DEF AgentsGrow, IInv, Histories
<1>3. \A id \in DOMAIN agents : ~Live(id) => ~Live(id)'
    BY DEF AgentsGrow, Live
<1>4. calls[n].id \in DOMAIN agents \/ calls[n].id \notin DOMAIN agents'
    <2>1. Unknown \notin DOMAIN agents'
        BY LenProperties, ElementOfSeq DEF AgentsGrow, Unknown
    <2>2. QED
        BY <2>1 DEF IInv, Begun
<1>5. \A id : id = calls[n].id /\ ~Live(id) => ~Live(id)'
    BY <1>3, <1>4 DEF Live
<1>6. CreatedBy(n) \subseteq CreatedBy(n)'
    BY <1>2 DEF CreatedBy
<1>7. \A id \in DOMAIN agents : \A k : Wrote(n, id, k) => Wrote(n, id, k)'
    BY <1>2 DEF Wrote
<1>8. Succeeded(n)' /\ calls'[n].kind = "create" =>
          calls'[n].result.value \in CreatedBy(n)'
    BY <1>1, <1>6 DEF Truthful
<1>9. Succeeded(n)' /\ calls'[n].kind = "update" =>
          /\ calls'[n].id \in DOMAIN agents'
          /\ \A id, k : id = calls'[n].id /\ k = calls'[n].version + 1 => Wrote(n, id, k)'
    BY <1>1, <1>2, <1>7 DEF Truthful
<1>10. \A id : id = calls'[n].id /\ calls'[n].kind = "delete" /\ Succeeded(n)' => ~Live(id)'
    BY <1>1, <1>5 DEF Truthful
<1>11. \A id : id = calls'[n].id /\ Done(n)' /\ calls'[n].result.status = "absent" =>
          ~Live(id)'
    BY <1>1, <1>5 DEF Truthful
<1>12. QED
    BY <1>8, <1>9, <1>10, <1>11 DEF Truthful, Live, Wrote

(* The versions that are there keep their authors. *)
LEMMA AuthorsKept ==
    ASSUME TypeOK, IInv, CallsGoOn, AgentsGrow
    PROVE  \A id \in DOMAIN agents : \A k \in 1 .. VersionOf(agents[id]) : Authored(id, k)'
<1> SUFFICES ASSUME NEW id \in DOMAIN agents, NEW k \in 1 .. VersionOf(agents[id])
             PROVE  Authored(id, k)'
    OBVIOUS
<1>1. agents'[id].history[k] = agents[id].history[k] /\ Authored(id, k)
    BY DEF AgentsGrow, IInv, Histories
<1>2. QED
    BY <1>1 DEF Authored, CallsGoOn

(* The requests that are on their way say what they said. *)
LEMMA AskedKept ==
    ASSUME TypeOK, IInv, CallsGoOn
    PROVE  \A r \in net : Asked(r)'
<1> SUFFICES ASSUME NEW r \in net
             PROVE  Asked(r)'
    OBVIOUS
<1>1. Asked(r) /\ r.call \in DOMAIN calls
    BY NetType DEF IInv
<1>2. r.op = "update" => calls[r.call].step = "act"
    BY <1>1, NetType DEF Asked
<1>3. QED
    BY <1>1, <1>2 DEF Asked, CallsGoOn

(* While the platform does nothing, all that is left to show is about the   *)
(* call and the request that a step adds or changes.                        *)
LEMMA ClientStep ==
    ASSUME TypeOK, IInv, CallsGoOn, UNCHANGED agents, Begun', Orphans',
           \A r \in net' \ net : Asked(r)',
           \A n \in DOMAIN calls' : n \notin DOMAIN calls \/ ~Done(n) => Truthful(n)'
    PROVE  IInv'
<1>1. AgentsGrow
    BY AgentsType DEF AgentsGrow
<1>2. Histories'
    BY <1>1, AuthorsKept DEF IInv, Histories
<1>3. \A r \in net' : Asked(r)'
    BY AskedKept
<1>4. \A n \in DOMAIN calls' : Truthful(n)'
    BY <1>1, TruthKept
<1>5. QED
    BY <1>2, <1>3, <1>4 DEF IInv
-----------------------------------------------------------------------------
(* The client's steps. *)

LEMMA BeginKeeps ==
    ASSUME TypeOK, IInv, NEW kind \in Kind, NEW id \in {Unknown} \cup DOMAIN agents,
           Begin(kind, id)
    PROVE  TypeOK' /\ IInv'
<1> DEFINE d == [kind |-> kind, id |-> id,
                 step |-> IF kind = "create" THEN "act" ELSE "read",
                 pc |-> "send", attempt |-> 1, version |-> 0, result |-> Pending]
           m == Len(calls) + 1
<1>1. calls' = Append(calls, d) /\ UNCHANGED <<agents, net>>
    BY DEF Begin
<1>2. d \in Call
    <2>1. Pending \in [status : Status \cup {"pending", "absent"}, value : Nat \cup {None}]
        BY DEF Pending, Result
    <2>2. id \in Nat
        BY AgentsType DEF Unknown
    <2>3. QED
        BY <2>1, <2>2 DEF Call, MaxAttempts
<1>3. /\ calls' \in Seq(Call) /\ DOMAIN calls' = (DOMAIN calls) \cup {m}
      /\ m \notin DOMAIN calls /\ calls'[m] = d
      /\ \A n \in DOMAIN calls : calls'[n] = calls[n]
    BY <1>1, <1>2, CallsType, AppendProperties
<1>4. TypeOK'
    <2>1. net' \subseteq [call : DOMAIN calls', attempt : 1 .. MaxAttempts,
                          step : {"read", "act"}, op : Kind, id : Nat,
                          version : Nat \cup {None}]
        BY <1>1, <1>3 DEF TypeOK
    <2>2. QED
        BY <1>1, <1>3, <2>1 DEF TypeOK
<1>5. CallsGoOn
    BY <1>3 DEF CallsGoOn
<1>6. Begun'
    BY <1>1, <1>3 DEF IInv, Begun
<1>7. CreatedBy(m) = {} /\ RequestsOf(m) = {}
    <2>1. \A i \in DOMAIN agents : 1 \in 1 .. VersionOf(agents[i]) /\ Authored(i, 1)
        BY AgentsType DEF IInv, Histories
    <2>2. m # Other
        BY CallsType DEF Other
    <2>3. CreatedBy(m) = {}
        BY <1>3, <2>1, <2>2 DEF CreatedBy, Authored
    <2>4. RequestsOf(m) = {}
        BY <1>3, NetType DEF RequestsOf
    <2>5. QED
        BY <2>3, <2>4
<1>8. Orphans'
    <2>1. \A n : UNCHANGED <<CreatedBy(n), RequestsOf(n)>>
        BY <1>1 DEF CreatedBy, RequestsOf
    <2>2. Cardinality(CreatedBy(m)) + Cardinality(RequestsOf(m)) <= Sent(d)
        BY <1>7, FS_EmptySet DEF Sent
    <2>3. QED
        BY <1>3, <2>1, <2>2 DEF IInv, Orphans, Sent
<1>9. \A n \in DOMAIN calls' : n \notin DOMAIN calls \/ ~Done(n) => Truthful(n)'
    <2>1. \A n \in DOMAIN calls' : n \notin DOMAIN calls \/ ~Done(n) => ~Done(n)'
        BY <1>3 DEF Done
    <2>2. QED
        BY <2>1 DEF Truthful, Succeeded
<1>10. IInv'
    BY <1>1, <1>5, <1>6, <1>8, <1>9, ClientStep
<1>11. QED
    BY <1>4, <1>10

(* A call that goes on by itself, while its requests are counted.           *)
LEMMA CallChanges ==
    ASSUME TypeOK, NEW n \in DOMAIN calls, NEW d \in Call,
           calls' = [calls EXCEPT ![n] = d]
    PROVE  /\ calls' \in Seq(Call) /\ DOMAIN calls' = DOMAIN calls /\ calls'[n] = d
           /\ \A m \in DOMAIN calls : m # n => calls'[m] = calls[m]
<1>1. calls \in Seq(Call) /\ DOMAIN calls = 1 .. Len(calls)
    BY CallsType
<1>2. /\ [calls EXCEPT ![n] = d] \in Seq(Call)
      /\ \A k \in 1 .. Len(calls) :
            [calls EXCEPT ![n] = d][k] = IF k = n THEN d ELSE calls[k]
    BY <1>1, ExceptSeq
<1>3. QED
    BY <1>1, <1>2

LEMMA SendKeeps ==
    ASSUME TypeOK, IInv, NEW n \in DOMAIN calls, Send(n)
    PROVE  TypeOK' /\ IInv'
<1> DEFINE c == calls[n]
           d == [c EXCEPT !.pc = "wait"]
           q == Request(n)
<1>1. /\ c \in Call /\ c.pc = "send" /\ net' = net \cup {q} /\ UNCHANGED agents
      /\ calls' = [calls EXCEPT ![n] = d]
    BY CallsType DEF Send
<1>2. /\ d \in Call /\ d.pc = "wait" /\ d.kind = c.kind /\ d.id = c.id /\ d.step = c.step
      /\ d.version = c.version /\ d.attempt = c.attempt
    BY <1>1 DEF Call
<1>3. /\ calls' \in Seq(Call) /\ DOMAIN calls' = DOMAIN calls /\ calls'[n] = d
      /\ \A m \in DOMAIN calls : m # n => calls'[m] = calls[m]
    BY <1>1, <1>2, CallChanges
<1>4. /\ q \in [call : DOMAIN calls, attempt : 1 .. MaxAttempts, step : {"read", "act"},
                op : Kind, id : Nat, version : Nat \cup {None}]
      /\ q.call = n /\ q.id = c.id /\ q.step = c.step
      /\ q.op = IF c.step = "read" THEN "read" ELSE c.kind
      /\ q.step = "act" /\ c.kind = "update" => q.version = c.version
    BY <1>1 DEF Request, Call, Kind
<1>5. TypeOK'
    <2>1. IsFiniteSet(net')
        BY <1>1, FS_AddElement DEF TypeOK
    <2>2. net' \subseteq [call : DOMAIN calls', attempt : 1 .. MaxAttempts,
                          step : {"read", "act"}, op : Kind, id : Nat,
                          version : Nat \cup {None}]
        BY <1>1, <1>3, <1>4 DEF TypeOK
    <2>3. QED
        BY <1>1, <1>3, <2>1, <2>2 DEF TypeOK
<1>6. CallsGoOn
    BY <1>1, <1>2, <1>3 DEF CallsGoOn, Done
<1>7. Begun'
    BY <1>1, <1>2, <1>3 DEF IInv, Begun
<1>8. \A r \in net' \ net : Asked(r)'
    BY <1>1, <1>2, <1>3, <1>4 DEF Asked
<1>9. Orphans'
    <2> SUFFICES ASSUME NEW m \in DOMAIN calls, calls[m].kind = "create"
                 PROVE  Cardinality(CreatedBy(m)') + Cardinality(RequestsOf(m)')
                            <= Sent(calls'[m])
        BY <1>2, <1>3 DEF Orphans, Sent
    <2>1. CreatedBy(m)' = CreatedBy(m)
        BY <1>1 DEF CreatedBy
    <2>2. Cardinality(CreatedBy(m)) + Cardinality(RequestsOf(m)) <= Sent(calls[m])
        BY DEF IInv, Orphans
    <2>3. CASE m # n
        <3>1. RequestsOf(m)' = RequestsOf(m)
            BY <1>1, <1>4, <2>3 DEF RequestsOf
        <3>2. QED
            BY <1>3, <2>1, <2>2, <2>3, <3>1 DEF Sent
    <2>4. CASE m = n
        <3>1. RequestsOf(m)' = RequestsOf(m) \cup {q}
            BY <1>1, <1>4, <2>4 DEF RequestsOf
        <3>2. /\ Cardinality(RequestsOf(m)') <= Cardinality(RequestsOf(m)) + 1
              /\ Cardinality(RequestsOf(m)') \in Nat
            BY <3>1, Counted, OneMore
        <3>3. Sent(calls'[m]) = Sent(calls[m]) + 1 /\ Sent(calls[m]) \in Nat
            <4>1. c.attempt \in 1 .. 3
                BY <1>1 DEF Call, MaxAttempts
            <4>2. calls'[m].pc = "wait" /\ calls'[m].attempt = c.attempt
                BY <1>2, <1>3, <2>4
            <4>3. calls[m].pc = "send" /\ calls[m].attempt = c.attempt
                BY <1>1, <2>4
            <4>4. QED
                BY <4>1, <4>2, <4>3 DEF Sent
        <3>4. QED
            BY <2>1, <2>2, <3>2, <3>3, Counted
    <2>5. QED
        BY <2>3, <2>4
<1>10. \A m \in DOMAIN calls' : m \notin DOMAIN calls \/ ~Done(m) => Truthful(m)'
    <2>1. \A m \in DOMAIN calls' : m \notin DOMAIN calls \/ ~Done(m) => ~Done(m)'
        BY <1>2, <1>3 DEF Done
    <2>2. QED
        BY <2>1 DEF Truthful, Succeeded
<1>11. IInv'
    BY <1>1, <1>6, <1>7, <1>8, <1>9, <1>10, ClientStep
<1>12. QED
    BY <1>5, <1>11

LEMMA InterruptKeeps ==
    ASSUME TypeOK, IInv, NEW n \in DOMAIN calls, Interrupt(n)
    PROVE  TypeOK' /\ IInv'
<1> DEFINE c == calls[n]
           d == Finish(c, "failed", None)
<1>1. /\ c \in Call /\ c.pc = "send" /\ UNCHANGED <<agents, net>>
      /\ calls' = [calls EXCEPT ![n] = d]
    BY CallsType DEF Interrupt
<1>2. /\ d \in Call /\ d.pc = "done" /\ d.kind = c.kind /\ d.id = c.id /\ d.step = c.step
      /\ d.version = c.version /\ d.attempt = c.attempt /\ d.result.status = "failed"
    BY <1>1, FinishType DEF Status
<1>3. /\ calls' \in Seq(Call) /\ DOMAIN calls' = DOMAIN calls /\ calls'[n] = d
      /\ \A m \in DOMAIN calls : m # n => calls'[m] = calls[m]
    BY <1>1, <1>2, CallChanges
<1>4. TypeOK'
    BY <1>1, <1>3 DEF TypeOK
<1>5. CallsGoOn
    BY <1>1, <1>2, <1>3 DEF CallsGoOn, Done
<1>6. Begun'
    BY <1>1, <1>2, <1>3 DEF IInv, Begun
<1>7. Orphans'
    <2> SUFFICES ASSUME NEW m \in DOMAIN calls, calls[m].kind = "create"
                 PROVE  Cardinality(CreatedBy(m)') + Cardinality(RequestsOf(m)')
                            <= Sent(calls'[m])
        BY <1>2, <1>3 DEF Orphans, Sent
    <2>1. CreatedBy(m)' = CreatedBy(m) /\ RequestsOf(m)' = RequestsOf(m)
        BY <1>1 DEF CreatedBy, RequestsOf
    <2>2. Cardinality(CreatedBy(m)) + Cardinality(RequestsOf(m)) <= Sent(calls[m])
        BY DEF IInv, Orphans
    <2>3. Sent(calls[m]) <= Sent(calls'[m]) /\ Sent(calls[m]) \in Nat /\ Sent(calls'[m]) \in Nat
        <3>1. calls[m].attempt \in 1 .. 3 /\ c.attempt \in 1 .. 3
            BY CallsType DEF Call, MaxAttempts
        <3>2. QED
            BY <1>1, <1>2, <1>3, <3>1 DEF Sent
    <2>4. QED
        BY <2>1, <2>2, <2>3, Counted
<1>8. \A m \in DOMAIN calls' : m \notin DOMAIN calls \/ ~Done(m) => Truthful(m)'
    <2>1. \A m \in DOMAIN calls' :
              m \notin DOMAIN calls \/ ~Done(m) =>
                  \/ ~Succeeded(m)' /\ calls'[m].result.status # "absent"
                  \/ ~Done(m)'
        BY <1>2, <1>3 DEF Done, Succeeded
    <2>2. QED
        BY <2>1 DEF Truthful, Succeeded
<1>9. IInv'
    BY <1>1, <1>5, <1>6, <1>7, <1>8, ClientStep
<1>10. QED
    BY <1>4, <1>9
-----------------------------------------------------------------------------
(* The platform's steps. First, what carrying out a request comes to. *)

LEMMA EffectCases ==
    ASSUME TypeOK, NEW r \in net
    PROVE  \/ /\ EffectOf(r) = agents /\ r.op # "create"
              /\ r.op = "read" \/ AnswerTo(r).status # "ok"
           \/ r.op = "create" /\ EffectOf(r) = Append(agents, Agent(r.call))
           \/ /\ r.op = "update" /\ r.id \in DOMAIN agents
              /\ r.version = None \/ r.version = VersionOf(agents[r.id])
              /\ EffectOf(r) = [agents EXCEPT ![r.id].history = Append(@, r.call)]
           \/ /\ r.op = "delete" /\ r.id \in DOMAIN agents
              /\ EffectOf(r) = [agents EXCEPT ![r.id].archived = r.call]
    BY NetType DEF EffectOf, AnswerTo, Answer, Kind

(* And what it is truly answered with. *)
LEMMA AnswerFacts ==
    ASSUME TypeOK, NEW r \in net, NEW a, a = AnswerTo(r)
    PROVE  /\ a \in AnswerType
           /\ r.op = "create" => a.status = "ok" /\ a.id = Len(agents) + 1
           /\ a.status = "notfound" => ~Live(r.id)
           /\ a.status = "ok" /\ r.op # "create" => r.id \in DOMAIN agents
           /\ a.status = "ok" /\ a.archived => r.op = "read" /\ ~Live(r.id)
<1>1. Len(agents) + 1 \in Nat /\ r.id \in Nat /\ r.op \in Kind
    BY AgentsType, NetType
<1>2. CASE r.op = "create"
    <2>1. a = [status |-> "ok", id |-> Len(agents) + 1, archived |-> FALSE, version |-> 0]
        BY <1>2 DEF AnswerTo, Answer
    <2>2. QED
        BY <1>1, <1>2, <2>1 DEF AnswerType, Status
<1>3. CASE r.op # "create" /\ r.id \notin DOMAIN agents
    <2>1. a = [status |-> "notfound", id |-> 0, archived |-> FALSE, version |-> 0]
        BY <1>3 DEF AnswerTo, Answer
    <2>2. QED
        BY <1>1, <1>3, <2>1 DEF AnswerType, Status, Live
<1>4. CASE r.op = "read" /\ r.id \in DOMAIN agents
    <2>1. a = [status |-> "ok", id |-> r.id, archived |-> ~Live(r.id),
               version |-> VersionOf(agents[r.id])]
        BY <1>4 DEF AnswerTo
    <2>2. a.archived \in BOOLEAN /\ (a.archived <=> ~Live(r.id))
        <3>1. a.archived = ~Live(r.id)
            BY <2>1
        <3>2. QED
            BY <3>1, Zenon
    <2>3. a \in AnswerType
        BY <1>1, <1>4, <2>1, AgentsType DEF AnswerType, Status
    <2>4. QED
        BY <1>4, <2>1, <2>2, <2>3
<1>5. CASE r.op \in {"update", "delete"} /\ r.id \in DOMAIN agents
    <2>1. \/ a = Answer("notfound", 0) /\ ~Live(r.id)
          \/ a = Answer("conflict", 0)
          \/ a = Answer("ok", r.id)
        BY <1>5 DEF AnswerTo
    <2>2. ASSUME NEW status \in Status, NEW i \in Nat, a = Answer(status, i)
          PROVE  a \in AnswerType /\ a.status = status /\ a.archived = FALSE
        <3>1. a = [status |-> status, id |-> i, archived |-> FALSE, version |-> 0]
            BY <2>2 DEF Answer
        <3>2. QED
            BY <3>1 DEF AnswerType
    <2>3. QED
        BY <1>1, <1>5, <2>1, <2>2 DEF Status
<1>6. QED
    BY <1>1, <1>2, <1>3, <1>4, <1>5 DEF Kind

LEMMA EffectKeeps ==
    ASSUME TypeOK, IInv, NEW r \in net, agents' = EffectOf(r), CallsGoOn
    PROVE  /\ AgentsGrow /\ Histories'
           /\ \A n : CreatedBy(n)' = IF r.op = "create" /\ n = r.call
                                     THEN CreatedBy(n) \cup {Len(agents) + 1}
                                     ELSE CreatedBy(n)
<1>1. /\ agents \in Seq(AgentType) /\ DOMAIN agents = 1 .. Len(agents) /\ Len(agents) \in Nat
      /\ \A id \in DOMAIN agents :
            /\ id \in Nat /\ agents[id] \in AgentType /\ agents[id].history \in Seq(Nat)
            /\ VersionOf(agents[id]) \in Nat /\ VersionOf(agents[id]) > 0
            /\ DOMAIN agents[id].history = 1 .. VersionOf(agents[id])
    BY AgentsType DEF IInv, Histories
<1>2. /\ Asked(r) /\ r.call \in DOMAIN calls /\ r.call \in Nat /\ r.id \in Nat
      /\ r.op # "read" => r.step = "act" /\ calls[r.call].step = "act"
                          /\ r.op = calls[r.call].kind
    BY NetType, CallsType DEF IInv, Asked
<1>3. AgentsGrow => \A id \in DOMAIN agents :
          \A k \in 1 .. VersionOf(agents[id]) : Authored(id, k)'
    BY AuthorsKept
<1>4. CASE EffectOf(r) = agents /\ r.op # "create"
    <2>1. UNCHANGED agents
        BY <1>4
    <2>2. AgentsGrow
        BY <1>1, <2>1 DEF AgentsGrow
    <2>3. QED
        BY <1>1, <1>3, <1>4, <2>1, <2>2 DEF Histories, CreatedBy
<1>5. CASE r.op = "create" /\ EffectOf(r) = Append(agents, Agent(r.call))
    <2> DEFINE a == Agent(r.call)
               m == Len(agents) + 1
    <2>1. a = [archived |-> None, history |-> <<r.call>>]
        BY DEF Agent
    <2>2. a \in AgentType /\ VersionOf(a) = 1 /\ a.history[1] = r.call
        BY <1>2, <2>1 DEF AgentType, VersionOf
    <2>3. /\ agents' \in Seq(AgentType) /\ DOMAIN agents' = (DOMAIN agents) \cup {m}
          /\ m \notin DOMAIN agents /\ agents'[m] = a
          /\ \A id \in DOMAIN agents : agents'[id] = agents[id]
        BY <1>1, <1>5, <2>2, AppendProperties
    <2>4. AgentsGrow
        BY <1>1, <2>3 DEF AgentsGrow
    <2>5. \A i : i = m => Authored(i, 1)'
        <3>1. r.call \in DOMAIN calls' /\ calls'[r.call].kind = "create"
            BY <1>2, <1>5 DEF CallsGoOn
        <3>2. agents'[m].history[1] = r.call
            BY <2>2, <2>3
        <3>3. QED
            BY <3>1, <3>2 DEF Authored
    <2>6. Histories'
        <3>1. \A id \in DOMAIN agents' : id \in DOMAIN agents \/ id = m
            BY <2>3
        <3>2. \A id \in DOMAIN agents : VersionOf(agents'[id]) = VersionOf(agents[id])
            BY <2>3
        <3>3. VersionOf(agents'[m]) = 1
            BY <2>2, <2>3
        <3>4. \A k \in 1 .. VersionOf(agents'[m]) : k = 1
            BY <3>3
        <3>5. QED
            BY <1>1, <1>3, <2>4, <2>5, <3>1, <3>2, <3>3, <3>4 DEF Histories
    <2>7. \A n : CreatedBy(n)' = IF n = r.call THEN CreatedBy(n) \cup {m} ELSE CreatedBy(n)
        BY <2>2, <2>3 DEF CreatedBy
    <2>8. QED
        BY <1>5, <2>4, <2>6, <2>7
<1>6. CASE /\ r.op = "update" /\ r.id \in DOMAIN agents
           /\ r.version = None \/ r.version = VersionOf(agents[r.id])
           /\ EffectOf(r) = [agents EXCEPT ![r.id].history = Append(@, r.call)]
    <2> DEFINE h == agents[r.id].history
               a == [agents[r.id] EXCEPT !.history = Append(h, r.call)]
    <2>1. /\ Append(h, r.call) \in Seq(Nat) /\ Len(Append(h, r.call)) = Len(h) + 1
          /\ \A k \in 1 .. Len(h) : Append(h, r.call)[k] = h[k]
          /\ Append(h, r.call)[Len(h) + 1] = r.call
        BY <1>1, <1>2, <1>6, AppendProperties
    <2>2. a \in AgentType /\ a.history = Append(h, r.call)
          /\ a.archived = agents[r.id].archived
        BY <1>1, <1>6, <2>1 DEF AgentType
    <2>3. agents' = [agents EXCEPT ![r.id] = a] /\ agents[r.id].history = h
        BY <1>6
    <2> HIDE DEF a, h
    <2>4. /\ agents' \in Seq(AgentType) /\ DOMAIN agents' = DOMAIN agents
          /\ agents'[r.id] = a
          /\ \A id \in DOMAIN agents : id # r.id => agents'[id] = agents[id]
        <3>1. /\ [agents EXCEPT ![r.id] = a] \in Seq(AgentType)
              /\ \A k \in 1 .. Len(agents) :
                    [agents EXCEPT ![r.id] = a][k] = IF k = r.id THEN a ELSE agents[k]
            BY <1>1, <1>6, <2>2, ExceptSeq
        <3>2. QED
            BY <1>1, <1>6, <2>3, <3>1
    <2>5. VersionOf(a) = Len(h) + 1 /\ VersionOf(agents[r.id]) = Len(h) /\ Len(h) \in Nat
        BY <1>1, <1>6, <2>1, <2>2, <2>3 DEF VersionOf
    <2>6. AgentsGrow
        <3>1. \A k \in 1 .. Len(h) : a.history[k] = h[k]
            BY <2>1, <2>2
        <3>2. QED
            <4>1. ASSUME NEW id \in DOMAIN agents, id # r.id
                  PROVE  /\ VersionOf(agents'[id]) >= VersionOf(agents[id])
                         /\ \A k \in 1 .. VersionOf(agents[id]) :
                               agents'[id].history[k] = agents[id].history[k]
                         /\ agents[id].archived # None => agents'[id].archived # None
                <5>1. agents'[id] = agents[id] /\ VersionOf(agents[id]) \in Nat
                    BY <1>1, <2>4, <4>1
                <5>2. QED
                    BY <5>1
            <4>2. /\ VersionOf(agents'[r.id]) >= VersionOf(agents[r.id])
                  /\ \A k \in 1 .. VersionOf(agents[r.id]) :
                        agents'[r.id].history[k] = agents[r.id].history[k]
                  /\ agents[r.id].archived # None => agents'[r.id].archived # None
                BY <2>2, <2>3, <2>4, <2>5, <3>1
            <4>3. QED
                BY <1>6, <2>4, <4>1, <4>2 DEF AgentsGrow
    <2>7. r.version = calls[r.call].version /\ calls[r.call].version \in Nat
        BY <1>2, <1>6, CallsType DEF Asked, Call
    <2>8. Len(h) = calls[r.call].version
        BY <1>6, <2>5, <2>7, NamesAssumption
    <2>9. \A i, k : i = r.id /\ k = Len(h) + 1 => Authored(i, k)'
        <3>1. /\ r.call \in DOMAIN calls' /\ calls'[r.call].kind = "update"
              /\ calls'[r.call].step = "act" /\ calls'[r.call].id = r.id
              /\ Len(h) = calls'[r.call].version
            BY <1>2, <1>6, <2>8 DEF CallsGoOn, Asked
        <3>2. agents'[r.id].history[Len(h) + 1] = r.call
            BY <2>1, <2>2, <2>4
        <3>3. Len(h) + 1 # 1
            BY <1>1, <1>6, <2>5
        <3>4. QED
            BY <3>1, <3>2, <3>3 DEF Authored
    <2>10. Histories'
        <3>1. \A id \in DOMAIN agents : id # r.id =>
                  VersionOf(agents'[id]) = VersionOf(agents[id])
            BY <2>4
        <3>2. VersionOf(agents'[r.id]) = Len(h) + 1
            BY <2>4, <2>5
        <3>3. \A k \in 1 .. VersionOf(agents'[r.id]) :
                  k \in 1 .. VersionOf(agents[r.id]) \/ k = Len(h) + 1
            BY <2>5, <3>2
        <3>4. QED
            <4>1. ASSUME NEW id \in DOMAIN agents, id # r.id
                  PROVE  /\ VersionOf(agents'[id]) > 0
                         /\ \A k \in 1 .. VersionOf(agents'[id]) : Authored(id, k)'
                BY <1>1, <1>3, <2>6, <3>1, <4>1
            <4>2. ASSUME NEW id, id = r.id
                  PROVE  /\ VersionOf(agents'[id]) > 0
                         /\ \A k \in 1 .. VersionOf(agents'[id]) : Authored(id, k)'
                <5>1. VersionOf(agents'[id]) > 0
                    BY <2>5, <3>2, <4>2
                <5>2. \A k \in 1 .. VersionOf(agents[id]) : Authored(id, k)'
                    BY <1>3, <1>6, <2>6, <4>2
                <5>3. QED
                    BY <2>9, <3>3, <4>2, <5>1, <5>2
            <4>3. QED
                BY <2>4, <4>1, <4>2 DEF Histories
    <2>11. \A n : CreatedBy(n)' = CreatedBy(n)
        <3>1. \A id \in DOMAIN agents : agents'[id].history[1] = agents[id].history[1]
            BY <1>1, <2>6 DEF AgentsGrow
        <3>2. QED
            BY <2>4, <3>1 DEF CreatedBy
    <2>12. QED
        BY <1>6, <2>6, <2>10, <2>11
<1>7. CASE /\ r.op = "delete" /\ r.id \in DOMAIN agents
           /\ EffectOf(r) = [agents EXCEPT ![r.id].archived = r.call]
    <2> DEFINE a == [agents[r.id] EXCEPT !.archived = r.call]
    <2>1. a \in AgentType /\ a.history = agents[r.id].history /\ a.archived = r.call
        BY <1>1, <1>2, <1>7 DEF AgentType
    <2>2. agents' = [agents EXCEPT ![r.id] = a]
        BY <1>7
    <2> HIDE DEF a
    <2>3. /\ agents' \in Seq(AgentType) /\ DOMAIN agents' = DOMAIN agents
          /\ agents'[r.id] = a
          /\ \A id \in DOMAIN agents : id # r.id => agents'[id] = agents[id]
        <3>1. /\ [agents EXCEPT ![r.id] = a] \in Seq(AgentType)
              /\ \A k \in 1 .. Len(agents) :
                    [agents EXCEPT ![r.id] = a][k] = IF k = r.id THEN a ELSE agents[k]
            BY <1>1, <1>7, <2>1, ExceptSeq
        <3>2. QED
            BY <1>1, <1>7, <2>2, <3>1
    <2>4. \A id \in DOMAIN agents : agents'[id].history = agents[id].history
        BY <2>1, <2>3
    <2>5. AgentsGrow
        <3>1. r.call # None
            BY <1>2, NamesAssumption
        <3>2. QED
            <4>1. \A id \in DOMAIN agents :
                      /\ VersionOf(agents'[id]) = VersionOf(agents[id])
                      /\ agents[id].archived # None => agents'[id].archived # None
                BY <2>1, <2>3, <2>4, <3>1 DEF VersionOf
            <4>2. QED
                BY <1>1, <2>3, <2>4, <4>1 DEF AgentsGrow
    <2>6. Histories'
        <3>1. \A id \in DOMAIN agents : VersionOf(agents'[id]) = VersionOf(agents[id])
            BY <2>4 DEF VersionOf
        <3>2. QED
            BY <1>1, <1>3, <2>3, <2>5, <3>1 DEF Histories
    <2>7. \A n : CreatedBy(n)' = CreatedBy(n)
        BY <2>3, <2>4 DEF CreatedBy
    <2>8. QED
        BY <1>7, <2>5, <2>6, <2>7
<1>8. QED
    BY <1>4, <1>5, <1>6, <1>7, EffectCases

(* What an answer does to the call it is for. *)
LEMMA DeliverKeeps ==
    ASSUME TypeOK, IInv, NEW r \in net, NEW answer \in AnswerType, Deliver(r, answer)
    PROVE  /\ CallsGoOn /\ DOMAIN calls' = DOMAIN calls
           /\ \A n \in DOMAIN calls :
                 /\ calls[n].kind = "read" => calls'[n].step = calls[n].step
                 /\ calls[n].kind = "create" => Sent(calls'[n]) = Sent(calls[n])
                 /\ \/ calls'[n] = calls[n]
                    \/ n = r.call /\ AwaitedBy(r) /\ calls'[n] = Received(calls[n], answer)
<1> DEFINE c == calls[r.call]
<1>1. r.call \in DOMAIN calls /\ c \in Call /\ calls \in Seq(Call)
    BY NetType, CallsType
<1>2. CASE UNCHANGED calls
    BY <1>1, <1>2 DEF CallsGoOn
<1>3. CASE AwaitedBy(r) /\ calls' = [calls EXCEPT ![r.call] = Received(c, answer)]
    <2> DEFINE d == Received(c, answer)
    <2>1. c.pc = "wait"
        BY <1>3 DEF AwaitedBy
    <2>2. \A f : f = Received(c, answer) =>
              /\ f \in Call /\ f.kind = c.kind /\ f.id = c.id
              /\ c.step = "act" => f.step = "act" /\ f.version = c.version
              /\ c.step = "act" => Sent(f) = Sent(c)
              /\ c.kind = "read" => f.step = c.step
        BY <1>1, <2>1, ReceivedType
    <2>3. /\ d \in Call /\ d.kind = c.kind /\ d.id = c.id
          /\ c.step = "act" => d.step = "act" /\ d.version = c.version
          /\ c.step = "act" => Sent(d) = Sent(c)
          /\ c.kind = "read" => d.step = c.step
        BY <2>2
    <2> HIDE DEF d
    <2>4. calls' = [calls EXCEPT ![r.call] = d]
        BY <1>3 DEF d
    <2>5. /\ calls' \in Seq(Call) /\ DOMAIN calls' = DOMAIN calls /\ calls'[r.call] = d
          /\ \A m \in DOMAIN calls : m # r.call => calls'[m] = calls[m]
        BY <1>1, <2>3, <2>4, CallChanges
    <2>6. CallsGoOn
        BY <2>1, <2>3, <2>5 DEF CallsGoOn, Done
    <2>7. c.kind = "create" => c.step = "act"
        BY <1>1 DEF IInv, Begun
    <2>8. QED
        BY <1>3, <2>3, <2>5, <2>6, <2>7 DEF d
<1>4. QED
    BY <1>2, <1>3 DEF Deliver

(* The type of the calls and of what is on its way. *)
LEMMA NetKeeps ==
    ASSUME TypeOK, NEW r \in net, net' \in {net, net \ {r}}, CallsGoOn, AgentsGrow
    PROVE  TypeOK'
<1>1. IsFiniteSet(net')
    BY FS_RemoveElement DEF TypeOK
<1>2. \A q \in net' : q \in net
    OBVIOUS
<1>3. \A n \in DOMAIN calls : n \in DOMAIN calls'
    BY DEF CallsGoOn
<1>4. \A q \in net : q \in [call : DOMAIN calls', attempt : 1 .. MaxAttempts,
                            step : {"read", "act"}, op : Kind, id : Nat,
                            version : Nat \cup {None}]
    BY <1>3, NetType
<1>5. QED
    BY <1>1, <1>2, <1>4 DEF TypeOK, CallsGoOn, AgentsGrow, AgentType

LEMMA BegunKept ==
    ASSUME TypeOK, IInv, CallsGoOn, AgentsGrow, DOMAIN calls' = DOMAIN calls,
           \A n \in DOMAIN calls : calls[n].kind = "read" => calls'[n].step = calls[n].step
    PROVE  Begun'
<1>1. \A id \in DOMAIN agents : id \in DOMAIN agents'
    BY DEF AgentsGrow
<1>2. QED
    BY <1>1 DEF IInv, Begun, CallsGoOn, Unknown

(* A request that is answered, and carried out or not: what it leaves.      *)
LEMMA AnswerStep ==
    ASSUME TypeOK, IInv, NEW r \in net, net' \in {net, net \ {r}},
           NEW answer \in AnswerType, Deliver(r, answer),
           (agents' = EffectOf(r) /\ net' = net \ {r}) \/ UNCHANGED agents,
           Done(r.call)' => Done(r.call) \/ Truthful(r.call)'
    PROVE  TypeOK' /\ IInv'
<1>1. /\ CallsGoOn /\ DOMAIN calls' = DOMAIN calls
      /\ \A n \in DOMAIN calls :
            /\ calls[n].kind = "read" => calls'[n].step = calls[n].step
            /\ calls[n].kind = "create" => Sent(calls'[n]) = Sent(calls[n])
            /\ calls'[n] = calls[n] \/ n = r.call
    BY DeliverKeeps
<1>2. /\ AgentsGrow /\ Histories'
      /\ \A n : \/ CreatedBy(n)' = CreatedBy(n)
                \/ /\ CreatedBy(n)' = CreatedBy(n) \cup {Len(agents) + 1}
                   /\ n = r.call /\ net' = net \ {r}
    <2>1. CASE agents' = EffectOf(r) /\ net' = net \ {r}
        BY <1>1, <2>1, EffectKeeps
    <2>2. CASE UNCHANGED agents
        <3>1. AgentsGrow
            BY <2>2, AgentsType DEF AgentsGrow
        <3>2. Histories'
            BY <1>1, <2>2, <3>1, AuthorsKept DEF IInv, Histories
        <3>3. QED
            BY <2>2, <3>1, <3>2 DEF CreatedBy
    <2>3. QED
        BY <2>1, <2>2
<1>3. TypeOK'
    BY <1>1, <1>2, NetKeeps
<1>4. Begun'
    BY <1>1, <1>2, BegunKept
<1>5. \A q \in net' : Asked(q)'
    BY <1>1, AskedKept
<1>6. \A n \in DOMAIN calls' : Truthful(n)'
    <2> SUFFICES ASSUME NEW n \in DOMAIN calls
                 PROVE  Truthful(n)'
        BY <1>1
    <2>1. CASE Done(n)
        BY <1>1, <1>2, <2>1, TruthKept
    <2>2. CASE ~Done(n) /\ ~Done(n)'
        BY <2>2 DEF Truthful, Succeeded
    <2>3. CASE ~Done(n) /\ Done(n)' /\ n = r.call
        BY <2>3
    <2>4. CASE ~Done(n) /\ Done(n)' /\ n # r.call
        BY <1>1, <2>4 DEF Done
    <2>5. QED
        BY <2>1, <2>2, <2>3, <2>4
<1>7. Orphans'
    <2> SUFFICES ASSUME NEW n \in DOMAIN calls, calls[n].kind = "create"
                 PROVE  Cardinality(CreatedBy(n)') + Cardinality(RequestsOf(n)')
                            <= Sent(calls[n])
        BY <1>1 DEF Orphans, Sent, CallsGoOn
    <2>1. Cardinality(CreatedBy(n)) + Cardinality(RequestsOf(n)) <= Sent(calls[n])
        BY DEF IInv, Orphans
    <2>2. /\ IsFiniteSet(CreatedBy(n)) /\ Cardinality(CreatedBy(n)) \in Nat
          /\ IsFiniteSet(RequestsOf(n)) /\ Cardinality(RequestsOf(n)) \in Nat
        BY Counted
    <2>3. Sent(calls[n]) \in Int
        <3>1. calls[n].attempt \in 1 .. 3
            BY CallsType DEF Call, MaxAttempts
        <3>2. QED
            BY <3>1 DEF Sent
    <2>4. RequestsOf(n)' = RequestsOf(n) \/ RequestsOf(n)' = RequestsOf(n) \ {r}
        BY DEF RequestsOf
    <2>5. Cardinality(RequestsOf(n)') <= Cardinality(RequestsOf(n))
          /\ Cardinality(RequestsOf(n)') \in Nat
        <3>1. CASE RequestsOf(n)' = RequestsOf(n)
            BY <2>2, <3>1
        <3>2. CASE RequestsOf(n)' = RequestsOf(n) \ {r}
            <4>1. RequestsOf(n)' \in SUBSET RequestsOf(n)
                BY <3>2
            <4>2. IsFiniteSet(RequestsOf(n)')
                BY <2>2, <4>1, FS_Subset
            <4>3. QED
                BY <2>2, <4>1, <4>2, FS_Subset, FS_CardinalityType
        <3>3. QED
            BY <2>4, <3>1, <3>2
    <2>6. CASE CreatedBy(n)' = CreatedBy(n)
        BY <2>1, <2>2, <2>3, <2>5, <2>6
    <2>7. CASE /\ CreatedBy(n)' = CreatedBy(n) \cup {Len(agents) + 1}
               /\ n = r.call /\ net' = net \ {r}
        <3>1. r \in RequestsOf(n) /\ RequestsOf(n)' = RequestsOf(n) \ {r}
            BY <2>7 DEF RequestsOf
        <3>2. Cardinality(RequestsOf(n)') + 1 = Cardinality(RequestsOf(n))
            BY <2>2, <3>1, OneLess
        <3>3. Cardinality(CreatedBy(n)') <= Cardinality(CreatedBy(n)) + 1
              /\ Cardinality(CreatedBy(n)') \in Nat
            BY <2>2, <2>7, OneMore
        <3>4. QED
            BY <2>1, <2>2, <2>3, <2>5, <3>2, <3>3
    <2>8. QED
        BY <1>2, <2>6, <2>7
<1>8. QED
    BY <1>2, <1>3, <1>4, <1>5, <1>6, <1>7 DEF IInv

(* An error says nothing of what was done, and a call claims nothing then.  *)
LEMMA FaultKeeps ==
    ASSUME TypeOK, IInv, NEW r \in net, net' \in {net, net \ {r}},
           NEW answer \in Fault, Deliver(r, answer),
           (agents' = EffectOf(r) /\ net' = net \ {r}) \/ UNCHANGED agents
    PROVE  TypeOK' /\ IInv'
<1> DEFINE n == r.call
           c == calls[r.call]
<1>1. answer \in AnswerType /\ answer.status \in {"transient", "failed"}
    <2>1. \E status \in {"transient", "failed"} :
              answer = [status |-> status, id |-> 0, archived |-> FALSE, version |-> 0]
        BY DEF Fault, Answer
    <2>2. QED
        BY <2>1 DEF AnswerType, Status
<1>2. n \in DOMAIN calls /\ c \in Call /\ n \in DOMAIN calls'
    BY <1>1, NetType, CallsType, DeliverKeeps
<1>3. c.kind = "create" => c.step = "act"
    BY <1>2 DEF IInv, Begun
<1>4. Done(n)' => Done(n) \/ Truthful(n)'
    <2>1. CASE calls'[n] = c
        BY <2>1 DEF Done
    <2>2. CASE AwaitedBy(r) /\ calls'[n] = Received(c, answer)
        <3>1. c.pc = "wait"
            BY <2>2 DEF AwaitedBy
        <3>2. \A d : d = Received(c, answer) /\ d.pc = "done" =>
                  /\ d.kind = c.kind /\ d.result.status # "absent"
                  /\ d.result.status = "ok" => c.kind \notin {"create", "update", "delete"}
            BY <1>1, <1>2, <1>3, <3>1, ReceivedType
        <3>3. Done(n)' =>
                  /\ calls'[n].kind = c.kind /\ calls'[n].result.status # "absent"
                  /\ calls'[n].result.status = "ok" =>
                        c.kind \notin {"create", "update", "delete"}
            BY <2>2, <3>2 DEF Done
        <3>4. QED
            BY <3>3 DEF Truthful, Succeeded
    <2>3. QED
        BY <1>1, <1>2, <2>1, <2>2, DeliverKeeps
<1>5. QED
    BY <1>1, <1>4, AnswerStep

(* What is gone stays gone. *)
LEMMA GoneForGood ==
    ASSUME TypeOK, IInv, AgentsGrow, NEW n \in DOMAIN calls, ~Live(calls[n].id)
    PROVE  \A id : id = calls[n].id => ~Live(id)'
<1>1. Unknown \notin DOMAIN agents'
    BY LenProperties, ElementOfSeq DEF AgentsGrow, Unknown
<1>2. QED
    BY <1>1 DEF IInv, Begun, AgentsGrow, Live

(* A true answer to the call that waits for it: what it says it has done    *)
(* was done in that step, or had been.                                      *)
LEMMA TrueAnswer ==
    ASSUME TypeOK, IInv, NEW r \in net, net' = net \ {r}, agents' = EffectOf(r),
           Deliver(r, AnswerTo(r))
    PROVE  TypeOK' /\ IInv'
<1> DEFINE n == r.call
           c == calls[r.call]
<1>1. PICK a : a = AnswerTo(r)
    OBVIOUS
<1>2. /\ a \in AnswerType
      /\ r.op = "create" => a.status = "ok" /\ a.id = Len(agents) + 1
      /\ a.status = "notfound" => ~Live(r.id)
      /\ a.status = "ok" /\ r.op # "create" => r.id \in DOMAIN agents
      /\ a.status = "ok" /\ a.archived => r.op = "read" /\ ~Live(r.id)
    BY <1>1, AnswerFacts
<1>3. Deliver(r, a)
    BY <1>1
<1>4. /\ CallsGoOn /\ DOMAIN calls' = DOMAIN calls
      /\ calls'[n] = c \/ (AwaitedBy(r) /\ calls'[n] = Received(c, a))
    BY <1>2, <1>3, NetType, DeliverKeeps
<1>5. /\ n \in DOMAIN calls /\ c \in Call /\ n \in Nat
      /\ c.kind = "create" => c.step = "act"
      /\ r.id = c.id /\ r.op = (IF r.step = "read" THEN "read" ELSE c.kind)
      /\ r.op = "update" => r.version = c.version
    BY NetType, CallsType DEF IInv, Begun, Asked
<1>6. /\ AgentsGrow
      /\ r.op = "create" => CreatedBy(n)' = CreatedBy(n) \cup {Len(agents) + 1}
    BY <1>4, EffectKeeps
<1>7. ~Live(c.id) => \A id : id = c.id => ~Live(id)'
    BY <1>5, <1>6, GoneForGood
<1>8. ASSUME ~Done(n), Done(n)'
      PROVE  Truthful(n)'
    <2> DEFINE d == calls'[n]
    <2>1. AwaitedBy(r) /\ d = Received(c, a) /\ d.pc = "done"
        BY <1>4, <1>8 DEF Done
    <2>2. c.pc = "wait" /\ c.step = r.step
        BY <2>1 DEF AwaitedBy
    <2>3. \A f : f = Received(c, a) /\ f.pc = "done" =>
              /\ f.kind = c.kind /\ f.id = c.id
              /\ c.step = "act" => f.version = c.version
              /\ f.result.status = "ok" =>
                    /\ c.kind = "create" => a.status = "ok" /\ f.result.value = a.id
                    /\ c.kind = "update" => c.step = "act" /\ a.status = "ok"
                    /\ c.kind = "delete" =>
                          \/ a.status = "notfound"
                          \/ a.status = "ok" /\ (c.step = "act" \/ a.archived)
              /\ f.result.status = "absent" =>
                    a.status = "notfound" \/ (a.status = "ok" /\ a.archived)
        BY <1>2, <1>5, <2>2, ReceivedType
    <2>4. /\ d.kind = c.kind /\ d.id = c.id
          /\ c.step = "act" => d.version = c.version
          /\ d.result.status = "ok" =>
                /\ c.kind = "create" => a.status = "ok" /\ d.result.value = a.id
                /\ c.kind = "update" => c.step = "act" /\ a.status = "ok"
                /\ c.kind = "delete" =>
                      \/ a.status = "notfound"
                      \/ a.status = "ok" /\ (c.step = "act" \/ a.archived)
          /\ d.result.status = "absent" =>
                a.status = "notfound" \/ (a.status = "ok" /\ a.archived)
        BY <2>1, <2>3
    <2> HIDE DEF d
    <2>5. d.result.status = "ok" /\ d.kind = "create" => d.result.value \in CreatedBy(n)'
        BY <1>2, <1>5, <1>6, <2>2, <2>4
    <2>6. ASSUME d.result.status = "ok", d.kind = "update"
          PROVE  /\ d.id \in DOMAIN agents'
                 /\ \A id, k : id = d.id /\ k = d.version + 1 => Wrote(n, id, k)'
        <3>1. /\ r.op = "update" /\ a.status = "ok" /\ r.id \in DOMAIN agents
              /\ d.version = c.version /\ r.version = c.version
            BY <1>2, <1>5, <2>2, <2>4, <2>6
        <3>2. /\ r.version = None \/ r.version = VersionOf(agents[r.id])
              /\ EffectOf(r) = [agents EXCEPT ![r.id].history = Append(@, n)]
            BY <1>1, <3>1, EffectCases
        <3>3. c.version \in Nat /\ c.version = VersionOf(agents[r.id])
            BY <1>5, <3>1, <3>2, NamesAssumption DEF Call
        <3>4. /\ agents[r.id] \in AgentType /\ agents[r.id].history \in Seq(Nat)
              /\ c.version = Len(agents[r.id].history) /\ c.version > 0
            BY <3>1, <3>3, AgentsType DEF VersionOf, IInv, Histories
        <3>5. agents'[r.id].history = Append(agents[r.id].history, n)
            BY <3>1, <3>2, <3>4 DEF AgentType
        <3>6. /\ Len(agents'[r.id].history) = c.version + 1
              /\ agents'[r.id].history[c.version + 1] = n
            <4>1. PICK h \in Seq(Nat) : h = agents[r.id].history
                BY <3>4
            <4>2. Len(Append(h, n)) = Len(h) + 1 /\ Append(h, n)[Len(h) + 1] = n
                BY <1>5, AppendProperties
            <4>3. QED
                BY <3>4, <3>5, <4>1, <4>2
        <3>7. r.id \in DOMAIN agents'
            BY <1>6, <3>1 DEF AgentsGrow
        <3>8. d.id = r.id /\ d.version = Len(agents[r.id].history)
            BY <1>5, <2>4, <3>1, <3>4
        <3>9. \A k : k = d.version + 1 => Wrote(n, r.id, k)'
            BY <3>1, <3>4, <3>6, <3>8 DEF Wrote, VersionOf
        <3>10. QED
            BY <3>7, <3>8, <3>9
    <2>7. ASSUME d.result.status = "ok", d.kind = "delete"
          PROVE  \A id : id = d.id => ~Live(id)'
        <3>1. CASE ~Live(c.id)
            BY <1>7, <2>4, <3>1
        <3>2. CASE a.status = "ok" /\ c.step = "act"
            <4>1. r.op = "delete" /\ r.id \in DOMAIN agents
                BY <1>2, <1>5, <2>2, <2>4, <2>7, <3>2
            <4>2. EffectOf(r) = [agents EXCEPT ![r.id].archived = n]
                BY <1>1, <3>2, <4>1, EffectCases
            <4>3. agents[r.id] \in AgentType
                BY <4>1, AgentsType
            <4>4. agents'[r.id].archived = n
                BY <4>1, <4>2, <4>3 DEF AgentType
            <4>5. n # None
                BY <1>5, NamesAssumption
            <4>6. QED
                BY <1>5, <2>4, <4>4, <4>5 DEF Live
        <3>3. QED
            BY <1>2, <1>5, <2>4, <2>7, <3>1, <3>2
    <2>8. d.result.status = "absent" => \A id : id = d.id => ~Live(id)'
        BY <1>2, <1>5, <1>7, <2>4
    <2>9. QED
        BY <2>5, <2>6, <2>7, <2>8 DEF Truthful, Succeeded, Done, Live, Wrote, d
<1>9. QED
    BY <1>2, <1>3, <1>8, AnswerStep

LEMMA RequestStepsKeep ==
    ASSUME TypeOK, IInv, NEW r \in net, Execute(r) \/ TurnDown(r) \/ GiveUp(r)
    PROVE  TypeOK' /\ IInv'
<1>1. CASE Execute(r)
    <2>1. net' = net \ {r} /\ agents' = EffectOf(r)
        BY <1>1 DEF Execute
    <2>2. Deliver(r, AnswerTo(r)) \/ \E answer \in Fault : Deliver(r, answer)
        BY <1>1 DEF Execute
    <2>3. CASE Deliver(r, AnswerTo(r))
        BY <2>1, <2>3, TrueAnswer
    <2>4. ASSUME NEW answer \in Fault, Deliver(r, answer)
          PROVE  TypeOK' /\ IInv'
        BY <2>1, <2>4, FaultKeeps
    <2>5. QED
        BY <2>2, <2>3, <2>4
<1>2. CASE TurnDown(r) \/ GiveUp(r)
    <2>1. PICK answer \in Fault : Deliver(r, answer)
        BY <1>2 DEF TurnDown, GiveUp
    <2>2. net' \in {net, net \ {r}} /\ UNCHANGED agents
        BY <1>2 DEF TurnDown, GiveUp
    <2>3. QED
        BY <2>1, <2>2, FaultKeeps
<1>3. QED
    BY <1>1, <1>2

(* Others write a version, or archive an agent.                             *)
LEMMA OthersKeep ==
    ASSUME TypeOK, IInv, NEW i \in DOMAIN agents, OutOfBandEdit(i) \/ OutOfBandArchive(i)
    PROVE  TypeOK' /\ IInv'
<1> DEFINE h == agents[i].history
<1>1. /\ agents \in Seq(AgentType) /\ DOMAIN agents = 1 .. Len(agents)
      /\ agents[i] \in AgentType /\ h \in Seq(Nat) /\ VersionOf(agents[i]) = Len(h)
      /\ Len(h) \in Nat /\ Len(h) > 0 /\ agents[i].archived = None
      /\ \A id \in DOMAIN agents :
            VersionOf(agents[id]) \in Nat /\ VersionOf(agents[id]) > 0
      /\ UNCHANGED <<calls, net>>
    BY AgentsType DEF IInv, Histories, OutOfBandEdit, OutOfBandArchive, VersionOf, Live
<1>2. CallsGoOn
    BY <1>1, CallsType DEF CallsGoOn
<1>3. PICK a \in AgentType :
          /\ agents' = [agents EXCEPT ![i] = a]
          /\ VersionOf(a) \in {Len(h), Len(h) + 1}
          /\ \A k \in 1 .. Len(h) : a.history[k] = h[k]
          /\ VersionOf(a) = Len(h) + 1 => a.history[Len(h) + 1] = Other
    <2>1. CASE OutOfBandEdit(i)
        <3> DEFINE a == [agents[i] EXCEPT !.history = Append(h, Other)]
        <3>1. agents' = [agents EXCEPT ![i] = a]
            BY <2>1 DEF OutOfBandEdit
        <3>2. /\ Append(h, Other) \in Seq(Nat) /\ Len(Append(h, Other)) = Len(h) + 1
              /\ \A k \in 1 .. Len(h) : Append(h, Other)[k] = h[k]
              /\ Append(h, Other)[Len(h) + 1] = Other
            BY <1>1, AppendProperties DEF Other
        <3>3. a \in AgentType /\ a.history = Append(h, Other)
            BY <1>1, <3>2 DEF AgentType
        <3>4. QED
            BY <1>1, <3>1, <3>2, <3>3 DEF VersionOf
    <2>2. CASE OutOfBandArchive(i)
        <3> DEFINE a == [agents[i] EXCEPT !.archived = Other]
        <3>1. agents' = [agents EXCEPT ![i] = a]
            BY <2>2 DEF OutOfBandArchive
        <3>2. a \in AgentType /\ a.history = h
            BY <1>1 DEF AgentType, Other
        <3>3. VersionOf(a) = Len(h) /\ VersionOf(a) # Len(h) + 1
            BY <1>1, <3>2 DEF VersionOf
        <3> HIDE DEF a
        <3>4. QED
            BY <3>1, <3>2, <3>3
    <2>3. QED
        BY <2>1, <2>2
<1> HIDE DEF h
<1>4. /\ agents' \in Seq(AgentType) /\ DOMAIN agents' = DOMAIN agents /\ agents'[i] = a
      /\ \A id \in DOMAIN agents : id # i => agents'[id] = agents[id]
    <2>1. /\ [agents EXCEPT ![i] = a] \in Seq(AgentType)
          /\ \A k \in 1 .. Len(agents) :
                [agents EXCEPT ![i] = a][k] = IF k = i THEN a ELSE agents[k]
        BY <1>1, <1>3, ExceptSeq
    <2>2. QED
        BY <1>1, <1>3, <2>1
<1>5. \A id \in DOMAIN agents : \A k \in 1 .. VersionOf(agents[id]) :
          agents'[id].history[k] = agents[id].history[k]
    BY <1>1, <1>3, <1>4 DEF h
<1>6. AgentsGrow
    <2>1. \A id \in DOMAIN agents : VersionOf(agents'[id]) >= VersionOf(agents[id])
        BY <1>1, <1>3, <1>4
    <2>2. \A id \in DOMAIN agents : agents[id].archived # None => agents'[id].archived # None
        BY <1>1, <1>4
    <2>3. QED
        BY <1>4, <1>5, <2>1, <2>2 DEF AgentsGrow
<1>7. Histories'
    <2>1. \A id \in DOMAIN agents : \A k \in 1 .. VersionOf(agents[id]) : Authored(id, k)'
        BY <1>2, <1>6, AuthorsKept
    <2>2. \A id \in DOMAIN agents : VersionOf(agents'[id]) > 0
        BY <1>1, <1>3, <1>4
    <2>3. ASSUME NEW id \in DOMAIN agents, NEW k \in 1 .. VersionOf(agents'[id])
          PROVE  Authored(id, k)'
        <3>1. k \in 1 .. VersionOf(agents[id]) \/ agents'[id].history[k] = Other
            BY <1>1, <1>3, <1>4, <2>3
        <3>2. CASE agents'[id].history[k] = Other
            BY <3>2 DEF Authored
        <3>3. QED
            BY <2>1, <3>1, <3>2
    <2>4. QED
        BY <1>4, <2>2, <2>3 DEF Histories
<1>8. TypeOK'
    BY <1>1, <1>4 DEF TypeOK, AgentType
<1>9. Begun' /\ (\A r \in net' : Asked(r)')
    BY <1>1, <1>2, <1>4, <1>6, BegunKept, AskedKept
<1>10. \A n \in DOMAIN calls' : Truthful(n)'
    <2>1. \A n \in DOMAIN calls : Done(n) => Truthful(n)'
        BY <1>2, <1>6, TruthKept
    <2>2. \A n \in DOMAIN calls : ~Done(n) => Truthful(n)'
        BY <1>1 DEF Truthful, Succeeded, Done
    <2>3. QED
        BY <1>1, <2>1, <2>2
<1>11. Orphans'
    <2>1. \A id \in DOMAIN agents : 1 \in 1 .. VersionOf(agents[id])
        BY <1>1
    <2>2. \A n : CreatedBy(n)' = CreatedBy(n)
        BY <1>4, <1>5, <2>1 DEF CreatedBy
    <2>3. \A n : RequestsOf(n)' = RequestsOf(n)
        BY <1>1 DEF RequestsOf
    <2>4. QED
        BY <1>1, <2>2, <2>3 DEF IInv, Orphans
<1>12. QED
    BY <1>7, <1>8, <1>9, <1>10, <1>11 DEF IInv
-----------------------------------------------------------------------------
LEMMA InitHolds == Init => TypeOK /\ IInv
<1> SUFFICES ASSUME Init
             PROVE  TypeOK /\ IInv
    OBVIOUS
<1>1. agents = <<[archived |-> None, history |-> <<0>>]>> /\ calls = <<>> /\ net = {}
    BY DEF Init, Agent, Other
<1>2. /\ agents \in Seq([archived : Nat \cup {None}, history : Seq(Nat)])
      /\ DOMAIN agents = {1} /\ agents[1].history = <<0>>
    BY <1>1
<1>3. TypeOK
    BY <1>1, <1>2, FS_EmptySet DEF TypeOK
<1>4. Histories
    <2>1. VersionOf(agents[1]) = 1 /\ agents[1].history[1] = 0
        BY <1>2 DEF VersionOf
    <2>2. Authored(1, 1)
        BY <2>1 DEF Authored, Other
    <2>3. QED
        BY <1>2, <2>1, <2>2 DEF Histories
<1>5. Begun /\ Orphans /\ (\A r \in net : Asked(r)) /\ (\A n \in DOMAIN calls : Truthful(n))
    BY <1>1 DEF Begun, Orphans
<1>6. QED
    BY <1>3, <1>4, <1>5 DEF IInv

LEMMA NextKeeps ==
    ASSUME TypeOK, IInv, [Next]_vars
    PROVE  TypeOK' /\ IInv'
<1>1. CASE Client
    <2>1. ASSUME NEW kind \in Kind, NEW id \in {Unknown} \cup DOMAIN agents, Begin(kind, id)
          PROVE  TypeOK' /\ IInv'
        BY <2>1, BeginKeeps
    <2>2. ASSUME NEW n \in DOMAIN calls, Send(n) \/ Interrupt(n)
          PROVE  TypeOK' /\ IInv'
        BY <2>2, SendKeeps, InterruptKeeps
    <2>3. QED
        BY <1>1, <2>1, <2>2 DEF Client, Create, Read, Update, Delete, Kind
<1>2. CASE Platform
    BY <1>2, RequestStepsKeep, OthersKeep DEF Platform
<1>3. CASE UNCHANGED vars
    <2>1. UNCHANGED <<agents, calls, net>>
        BY <1>3 DEF vars
    <2>2. TypeOK' /\ CallsGoOn
        BY <2>1, CallsType DEF TypeOK, CallsGoOn
    <2>3. Begun' /\ Orphans'
        BY <2>1 DEF IInv, Begun, Orphans, CreatedBy, RequestsOf
    <2>4. \A n \in DOMAIN calls' : ~Done(n) => Truthful(n)'
        BY <2>1 DEF Truthful, Succeeded, Done
    <2>5. IInv'
        BY <2>1, <2>2, <2>3, <2>4, ClientStep
    <2>6. QED
        BY <2>2, <2>5
<1>4. QED
    BY <1>1, <1>2, <1>3 DEF Next

(* The invariant, of any number of calls at once: who wrote a version of an *)
(* agent had asked for it, and what a finished call says is true.           *)
THEOREM TypeCorrect == Spec => [](TypeOK /\ IInv)
<1>1. Init => TypeOK /\ IInv
    BY InitHolds
<1>2. TypeOK /\ IInv /\ [Next]_vars => (TypeOK /\ IInv)'
    BY NextKeeps
<1>3. QED
    BY <1>1, <1>2, PTL DEF Spec

(* Every call that succeeds has done what it was for, and no update writes  *)
(* twice, however often it was tried.                                       *)
THEOREM SuccessMeansEffect == Spec => []SuccessIsEffect
<1>1. TypeOK /\ IInv => SuccessIsEffect
    <2> SUFFICES ASSUME TypeOK, IInv, NEW n \in DOMAIN calls
                 PROVE  /\ Truthful(n)
                        /\ \A id \in DOMAIN agents : \A k \in 2 .. VersionOf(agents[id]) :
                              Wrote(n, id, k) =>
                                  id = calls[n].id /\ k = calls[n].version + 1
        BY DEF SuccessIsEffect
    <2>1. Truthful(n)
        BY DEF IInv
    <2>2. ASSUME NEW id \in DOMAIN agents, NEW k \in 2 .. VersionOf(agents[id]),
                 Wrote(n, id, k)
          PROVE  id = calls[n].id /\ k = calls[n].version + 1
        <3>1. agents[id].history[k] = n /\ n # Other
            BY <2>2, CallsType DEF Wrote
        <3>2. k \in 1 .. VersionOf(agents[id]) /\ k > 1
            BY AgentsType
        <3>3. Authored(id, k)
            BY <3>2 DEF IInv, Histories
        <3>4. QED
            BY <3>1, <3>2, <3>3 DEF Authored
    <2>3. QED
        BY <2>1, <2>2
<1>2. QED
    BY <1>1, TypeCorrect, PTL

(* A create leaves at most as many agents as it was tried, and no two       *)
(* creates return one agent.                                                *)
THEOREM OrphansAreBounded == Spec => []CreateOrphansBounded
<1>1. TypeOK /\ IInv => CreateOrphansBounded
    <2> SUFFICES ASSUME TypeOK, IInv
                 PROVE  CreateOrphansBounded
        OBVIOUS
    <2>1. ASSUME NEW n \in DOMAIN calls
          PROVE  Cardinality(CreatedBy(n)) <= MaxAttempts
        <3>1. CASE calls[n].kind = "create"
            <4>1. Cardinality(CreatedBy(n)) + Cardinality(RequestsOf(n)) <= Sent(calls[n])
                BY <3>1 DEF IInv, Orphans
            <4>2. calls[n].attempt \in 1 .. 3
                BY CallsType DEF Call, MaxAttempts
            <4>3. Sent(calls[n]) \in Nat /\ Sent(calls[n]) <= 3
                BY <4>2 DEF Sent
            <4>4. QED
                BY <4>1, <4>3, Counted DEF MaxAttempts
        <3>2. CASE calls[n].kind # "create"
            <4>1. \A id \in DOMAIN agents : 1 \in 1 .. VersionOf(agents[id]) /\ Authored(id, 1)
                BY AgentsType DEF IInv, Histories
            <4>2. n # Other
                BY CallsType
            <4>3. CreatedBy(n) = {}
                BY <3>2, <4>1, <4>2 DEF CreatedBy, Authored
            <4>4. QED
                BY <4>3, FS_EmptySet DEF MaxAttempts
        <3>3. QED
            BY <3>1, <3>2
    <2>2. ASSUME NEW n \in DOMAIN calls, NEW m \in DOMAIN calls, m # n,
                 calls[n].kind = "create", calls[m].kind = "create",
                 Succeeded(n), Succeeded(m)
          PROVE  calls[n].result.value # calls[m].result.value
        <3>1. Truthful(n) /\ Truthful(m)
            BY DEF IInv
        <3>2. /\ calls[n].result.value \in CreatedBy(n)
              /\ calls[m].result.value \in CreatedBy(m)
            BY <2>2, <3>1 DEF Truthful
        <3>3. QED
            BY <2>2, <3>2 DEF CreatedBy
    <2>3. QED
        BY <2>1, <2>2 DEF CreateOrphansBounded
<1>2. QED
    BY <1>1, TypeCorrect, PTL

(* A new version of an agent was written by somebody else, or by an update  *)
(* whose call had read the version before it.                               *)
LEMMA VersionsFollow ==
    ASSUME TypeOK, IInv, [Next]_vars, NEW i \in DOMAIN agents,
           VersionOf(agents'[i]) > VersionOf(agents[i]),
           agents'[i].history[VersionOf(agents[i]) + 1] # Other
    PROVE  calls[agents'[i].history[VersionOf(agents[i]) + 1]].version = VersionOf(agents[i])
<1> DEFINE h == agents[i].history
<1>1. /\ agents[i] \in AgentType /\ h \in Seq(Nat) /\ VersionOf(agents[i]) = Len(h)
      /\ Len(h) \in Nat /\ i \in DOMAIN agents
    BY AgentsType DEF VersionOf
<1>2. CASE UNCHANGED agents
    BY <1>1, <1>2
<1>3. ASSUME NEW j \in DOMAIN agents, OutOfBandEdit(j) \/ OutOfBandArchive(j)
      PROVE  FALSE
    <2>1. CASE j # i
        <3>1. agents'[i] = agents[i]
            BY <1>1, <1>3, <2>1, AgentsType DEF OutOfBandEdit, OutOfBandArchive
        <3>2. QED
            BY <1>1, <3>1
    <2>2. CASE j = i /\ OutOfBandEdit(j)
        <3>1. agents'[i].history = Append(h, Other)
            BY <1>1, <2>2, AgentsType DEF OutOfBandEdit, AgentType
        <3>2. Append(h, Other)[Len(h) + 1] = Other
            BY <1>1, AppendProperties DEF Other
        <3>3. QED
            BY <1>1, <3>1, <3>2
    <2>3. CASE j = i /\ OutOfBandArchive(j)
        <3>1. agents'[i].history = h
            BY <1>1, <2>3, AgentsType DEF OutOfBandArchive, AgentType
        <3>2. QED
            BY <1>1, <3>1 DEF VersionOf
    <2>4. QED
        BY <1>3, <2>1, <2>2, <2>3
<1>4. ASSUME NEW r \in net, Execute(r)
      PROVE  calls[agents'[i].history[Len(h) + 1]].version = Len(h)
    <2>1. agents' = EffectOf(r) /\ Asked(r) /\ r.call \in DOMAIN calls
        BY <1>4, NetType DEF Execute, IInv
    <2>2. CASE EffectOf(r) = agents
        BY <1>2, <2>1, <2>2, <1>1
    <2>3. CASE r.op = "create" /\ EffectOf(r) = Append(agents, Agent(r.call))
        <3>1. agents'[i] = agents[i]
            BY <1>1, <2>1, <2>3, AgentsType
        <3>2. QED
            BY <1>1, <3>1
    <2>4. CASE /\ r.op = "update" /\ r.id \in DOMAIN agents
               /\ r.version = None \/ r.version = VersionOf(agents[r.id])
               /\ EffectOf(r) = [agents EXCEPT ![r.id].history = Append(@, r.call)]
        <3>1. CASE r.id # i
            <4>1. agents'[i] = agents[i]
                BY <1>1, <2>1, <2>4, <3>1, AgentsType
            <4>2. QED
                BY <1>1, <4>1
        <3>2. CASE r.id = i
            <4>1. r.version = calls[r.call].version /\ calls[r.call].version \in Nat
                BY <2>1, <2>4, CallsType DEF Asked, Call
            <4>2. calls[r.call].version = Len(h)
                BY <1>1, <2>4, <3>2, <4>1, NamesAssumption
            <4>3. agents'[i].history = Append(h, r.call)
                BY <1>1, <2>1, <2>4, <3>2, AgentsType DEF AgentType
            <4>4. Append(h, r.call)[Len(h) + 1] = r.call
                BY <1>1, <2>1, CallsType, AppendProperties
            <4>5. QED
                BY <4>2, <4>3, <4>4
        <3>3. QED
            BY <3>1, <3>2
    <2>5. CASE /\ r.op = "delete" /\ r.id \in DOMAIN agents
               /\ EffectOf(r) = [agents EXCEPT ![r.id].archived = r.call]
        <3>1. agents'[i].history = h
            BY <1>1, <2>1, <2>5, AgentsType DEF AgentType
        <3>2. QED
            BY <1>1, <3>1 DEF VersionOf
    <2>6. QED
        BY <2>2, <2>3, <2>4, <2>5, EffectCases
<1>5. CASE Client
    BY <1>2, <1>5 DEF Client, Create, Read, Update, Delete, Begin, Send, Interrupt
<1>6. CASE Platform
    BY <1>1, <1>2, <1>3, <1>4, <1>6 DEF Platform, TurnDown, GiveUp
<1>7. QED
    BY <1>2, <1>5, <1>6 DEF Next, vars

(* No update writes over a version that its call has not read.              *)
THEOREM NothingOverwritten == Spec => NoBlindOverwrite
<1>1. TypeOK /\ IInv /\ [Next]_vars =>
          [\A id \in DOMAIN agents :
              LET was == VersionOf(agents[id])
                  writer == agents'[id].history[was + 1]
              IN  (VersionOf(agents'[id]) > was /\ writer # Other) =>
                      calls[writer].version = was]_vars
    BY VersionsFollow
<1>2. QED
    BY <1>1, TypeCorrect, PTL DEF Spec, NoBlindOverwrite
=============================================================================
