--------------------------- MODULE PluginRpcProofs ---------------------------
(***************************************************************************)
(* Theorems about PluginRpc, for any callers, any capacity of the pipe and *)
(* any number of calls and of stray lines.                                 *)
(***************************************************************************)
EXTENDS PluginRpc, SequenceTheorems, TLAPS

InCall(c) == callers[c].pc \in {"encode", "wait", "drain"}

(* Whoever is in a call has the mutex, and its call is the last that was    *)
(* sent, for which nothing was returned yet.                                *)
OneInCall ==
    /\ \A c \in Callers : InCall(c) =>
          /\ mu = c /\ callers[c].id = Len(log) /\ Len(log) > 0
          /\ log[Len(log)].outcome = "pending"
    /\ mu # None => InCall(mu)

(* A request is in the pipe, with the plugin, or past it, but never twice;  *)
(* it acted when it is past the handler and not before. The last call is    *)
(* nowhere before its request was written.                                  *)
Requests ==
    /\ \A k \in DOMAIN stdin : stdin[k] \in DOMAIN log /\ ~log[stdin[k]].acted
    /\ \A j, k \in DOMAIN stdin : stdin[j] = stdin[k] => j = k
    /\ plugin.pc = "handle" =>
          /\ plugin.id \in DOMAIN log /\ ~log[plugin.id].acted
          /\ \A k \in DOMAIN stdin : stdin[k] # plugin.id
    /\ plugin.pc = "answer" => plugin.id \in DOMAIN log /\ log[plugin.id].acted
    /\ \A c \in Callers : At(c, "encode") =>
          /\ ~log[Len(log)].acted
          /\ \A k \in DOMAIN stdin : stdin[k] # Len(log)
          /\ plugin.pc \in {"handle", "answer"} => plugin.id # Len(log)

(* A line that says ok is the answer to a call that acted, or to one that   *)
(* is over.                                                                 *)
Answers ==
    \A k \in DOMAIN stdout : stdout[k].ok =>
        /\ stdout[k].id \in DOMAIN log
        /\ log[stdout[k].id].acted \/ log[stdout[k].id].outcome # "pending"

Nothing == stdin = <<>> /\ plugin.pc = "read" /\ stdout = <<>>
Only(i) ==
    \/ stdin = <<i>> /\ plugin.pc = "read" /\ stdout = <<>>
    \/ stdin = <<>> /\ plugin.pc \in {"handle", "answer"} /\ plugin.id = i /\ stdout = <<>>
    \/ stdin = <<>> /\ plugin.pc = "read" /\ \E ok \in BOOLEAN : stdout = <<Answer(i, ok)>>

(* As long as a plugin that lives has kept to the protocol, the last call   *)
(* is all that is on its way, and nothing is when no call is.               *)
InStep ==
    strays = 0 /\ ~Exited =>
        /\ ~broken
        /\ \A c \in Callers : InCall(c) =>
              IF At(c, "encode") THEN Nothing ELSE Only(callers[c].id)
        /\ mu = None => Nothing

(* When Close has returned the process has ended; to wait for it is to have *)
(* closed its stdin.                                                        *)
ReapedIsOver ==
    /\ reaped => closed /\ Exited
    /\ \A c \in Callers : callers[c].pc \in {"reap", "reap killed"} => closed

IInv == OneInCall /\ Requests /\ Answers /\ InStep /\ ReapedIsOver
-----------------------------------------------------------------------------
(* Types. *)

(* The log with the answer to a call. *)
LEMMA OutcomeType ==
    ASSUME TypeOK, NEW i \in DOMAIN log, NEW outcome \in {"ok", "error"},
           NEW l, l = [log EXCEPT ![i].outcome = outcome]
    PROVE  /\ l \in Seq(Entry) /\ Len(l) = Len(log)
           /\ \A k \in DOMAIN log : l[k].acted = log[k].acted
           /\ \A k \in DOMAIN log : k # i => l[k] = log[k]
           /\ l[i].outcome = outcome
<1>1. log \in Seq(Entry) /\ log[i] \in Entry
    <2>1. log \in Seq(Entry)
        BY DEF TypeOK
    <2>2. QED
        BY <2>1
<1> DEFINE e == [log[i] EXCEPT !.outcome = outcome]
<1>2. e \in Entry /\ e.acted = log[i].acted /\ e.outcome = outcome
    BY <1>1 DEF Entry
<1>3. l = [log EXCEPT ![i] = e]
    OBVIOUS
<1>4. DOMAIN log = 1 .. Len(log)
    BY <1>1
<1>5. /\ [log EXCEPT ![i] = e] \in Seq(Entry) /\ Len([log EXCEPT ![i] = e]) = Len(log)
      /\ \A k \in 1 .. Len(log) : [log EXCEPT ![i] = e][k] = IF k = i THEN e ELSE log[k]
    BY <1>1, <1>2, ExceptSeq
<1>6. QED
    BY <1>2, <1>3, <1>4, <1>5

(* The log with a call that acted. *)
LEMMA ActedType ==
    ASSUME TypeOK, NEW i \in DOMAIN log,
           NEW l, l = [log EXCEPT ![i].acted = TRUE]
    PROVE  /\ l \in Seq(Entry) /\ Len(l) = Len(log)
           /\ \A k \in DOMAIN log : l[k].outcome = log[k].outcome
           /\ \A k \in DOMAIN log : k # i => l[k] = log[k]
           /\ l[i].acted = TRUE
<1>1. log \in Seq(Entry) /\ log[i] \in Entry
    <2>1. log \in Seq(Entry)
        BY DEF TypeOK
    <2>2. QED
        BY <2>1
<1> DEFINE e == [log[i] EXCEPT !.acted = TRUE]
<1>2. e \in Entry /\ e.outcome = log[i].outcome /\ e.acted = TRUE
    BY <1>1 DEF Entry
<1>3. l = [log EXCEPT ![i] = e]
    OBVIOUS
<1>4. DOMAIN log = 1 .. Len(log)
    BY <1>1
<1>5. /\ [log EXCEPT ![i] = e] \in Seq(Entry) /\ Len([log EXCEPT ![i] = e]) = Len(log)
      /\ \A k \in 1 .. Len(log) : [log EXCEPT ![i] = e][k] = IF k = i THEN e ELSE log[k]
    BY <1>1, <1>2, ExceptSeq
<1>6. QED
    BY <1>2, <1>3, <1>4, <1>5

(* A caller that goes on. *)
LEMMA GotoType ==
    ASSUME TypeOK, NEW c \in Callers,
           NEW step \in {"idle", "lock", "encode", "wait", "drain", "close",
                         "reap", "reap killed"},
           Goto(c, step)
    PROVE  /\ callers' \in [Callers -> [pc : {"idle", "lock", "encode", "wait", "drain",
                                              "close", "reap", "reap killed"},
                                        id : Nat, kind : Kind]]
           /\ callers'[c].pc = step /\ callers'[c].id = callers[c].id
           /\ callers'[c].kind = callers[c].kind
           /\ \A d \in Callers : d # c => callers'[d] = callers[d]
<1> DEFINE r == [callers[c] EXCEPT !.pc = step]
<1>1. callers' = [callers EXCEPT ![c] = r]
    BY DEF Goto
<1>2. /\ r \in [pc : {"idle", "lock", "encode", "wait", "drain", "close", "reap",
                      "reap killed"}, id : Nat, kind : Kind]
      /\ r.pc = step /\ r.id = callers[c].id /\ r.kind = callers[c].kind
    BY DEF TypeOK
<1>3. QED
    BY <1>1, <1>2 DEF TypeOK

(* What the decoder leaves. *)
LEMMA DecodeType ==
    ASSUME TypeOK, Decode
    PROVE  /\ broken' \in BOOLEAN /\ stdout' \in Seq([id : Nat, ok : BOOLEAN])
           /\ \A k \in DOMAIN stdout' :
                 \E j \in DOMAIN stdout : stdout'[k] = stdout[j]
<1>1. stdout \in Seq([id : Nat, ok : BOOLEAN])
    BY DEF TypeOK
<1>2. broken' \in BOOLEAN
    BY DEF Decode, TypeOK
<1>3. CASE stdout' = stdout
    BY <1>1, <1>2, <1>3
<1>4. CASE stdout # <<>> /\ stdout' = Tail(stdout)
    BY <1>1, <1>2, <1>4, HeadTailProperties
<1>5. QED
    BY <1>3, <1>4 DEF Decode

(* What is yes or no, and the rest. *)
Flags ==
    /\ cancelled \in BOOLEAN /\ closed \in BOOLEAN /\ reaped \in BOOLEAN
    /\ broken \in BOOLEAN /\ stdinClosed \in BOOLEAN
    /\ killed \in BOOLEAN /\ helper \in BOOLEAN

Values ==
    /\ phase \in {"starting", "open", "failed"}
    /\ callers \in [Callers -> [pc : {"idle", "lock", "encode", "wait", "drain",
                                      "close", "reap", "reap killed"},
                                id : Nat, kind : Kind]]
    /\ mu \in Callers \cup {None}
    /\ log \in Seq(Entry)
    /\ begun \in 0 .. MaxCalls
    /\ stdin \in Seq(Nat) /\ stdout \in Seq([id : Nat, ok : BOOLEAN])
    /\ plugin \in [pc : {"read", "handle", "answer", "exited"}, id : Nat]
    /\ strays \in 0 .. MaxStrays

LEMMA TypeParts == ASSUME Values', Flags' PROVE TypeOK'
    BY DEF Values, Flags, TypeOK

(* What a call that returns leaves: the mutex, and a log that says what it  *)
(* returned.                                                                *)
LEMMA ReturnType ==
    ASSUME TypeOK, OneInCall, NEW c \in Callers, InCall(c),
           NEW outcome \in {"ok", "error"}, Return(c, outcome)
    PROVE  /\ callers' \in [Callers -> [pc : {"idle", "lock", "encode", "wait", "drain",
                                              "close", "reap", "reap killed"},
                                        id : Nat, kind : Kind]]
           /\ phase' \in {"starting", "open", "failed"} /\ mu' = None
           /\ callers'[c].pc \in {"idle", "close"}
           /\ \A d \in Callers : d # c => callers'[d] = callers[d] /\ ~InCall(d)
           /\ callers[c].id = Len(log) /\ Len(log) \in DOMAIN log
           /\ log[Len(log)].outcome = "pending"
           /\ log' \in Seq(Entry) /\ Len(log') = Len(log)
           /\ \A k \in DOMAIN log : log'[k].acted = log[k].acted
           /\ \A k \in DOMAIN log : k # Len(log) => log'[k] = log[k]
           /\ log'[Len(log)].outcome = outcome
           /\ UNCHANGED <<begun, cancelled, closed, reaped>>
<1>1. callers[c].id = Len(log) /\ Len(log) > 0 /\ log[Len(log)].outcome = "pending"
    BY DEF OneInCall
<1>2. log \in Seq(Entry) /\ Len(log) \in DOMAIN log
    <2>1. log \in Seq(Entry)
        BY DEF TypeOK
    <2>2. QED
        BY <1>1, <2>1
<1>3. log' = [log EXCEPT ![Len(log)].outcome = outcome]
    BY <1>1 DEF Return
<1>4. /\ log' \in Seq(Entry) /\ Len(log') = Len(log)
      /\ \A k \in DOMAIN log : log'[k].acted = log[k].acted
      /\ \A k \in DOMAIN log : k # Len(log) => log'[k] = log[k]
      /\ log'[Len(log)].outcome = outcome
    BY <1>2, <1>3, OutcomeType, SMTT(30)
<1>5. /\ callers' \in [Callers -> [pc : {"idle", "lock", "encode", "wait", "drain",
                                         "close", "reap", "reap killed"},
                                   id : Nat, kind : Kind]]
      /\ callers'[c].pc \in {"idle", "close"}
      /\ \A d \in Callers : d # c => callers'[d] = callers[d]
    <2>1. CASE Goto(c, "close")
        BY <2>1, GotoType
    <2>2. CASE callers' = [callers EXCEPT ![c] = Idle]
        BY <2>2 DEF TypeOK, Idle, Kind
    <2>3. QED
        BY <2>1, <2>2 DEF Return
<1>6. \A d \in Callers : d # c => ~InCall(d)
    BY DEF OneInCall
<1>7. phase' \in {"starting", "open", "failed"} /\ mu' = None
    BY DEF Return, TypeOK
<1>8. QED
    BY <1>1, <1>2, <1>4, <1>5, <1>6, <1>7 DEF Return
-----------------------------------------------------------------------------
(* Types and invariant, action by action. First the steps that are not      *)
(* about a request: nobody begins or ends to be in a call.                  *)

LEMMA OffCallKeeps ==
    ASSUME TypeOK, IInv,
           UNCHANGED <<log, mu, stdin, stdout, plugin, strays, broken>>,
           \A d \in Callers :
              /\ InCall(d)' => InCall(d) /\ callers'[d].id = callers[d].id
              /\ InCall(d) => InCall(d)'
              /\ At(d, "encode")' => At(d, "encode")
              /\ At(d, "encode") => At(d, "encode")',
           ReapedIsOver'
    PROVE  IInv'
<1>1. OneInCall'
    BY DEF IInv, OneInCall, TypeOK, InCall
<1>2. Requests' /\ Answers'
    BY DEF IInv, Requests, Answers, At
<1>3. InStep'
    BY DEF IInv, InStep, Nothing, Only, Exited, InCall, At, Answer
<1>4. QED
    BY <1>1, <1>2, <1>3 DEF IInv

(* A caller that goes from one step outside calls to another. *)
LEMMA GotoKeeps ==
    ASSUME TypeOK, IInv, NEW c \in Callers,
           NEW step \in {"idle", "lock", "encode", "wait", "drain", "close",
                         "reap", "reap killed"},
           Goto(c, step), ~At(c, "encode"), step # "encode",
           InCall(c) <=> step \in {"wait", "drain"},
           UNCHANGED <<log, mu, stdin, stdout, plugin, strays, broken>>,
           ReapedIsOver'
    PROVE  IInv'
<1>1. /\ callers'[c].pc = step /\ callers'[c].id = callers[c].id
      /\ \A d \in Callers : d # c => callers'[d] = callers[d]
    BY GotoType
<1>2. \A d \in Callers :
          /\ InCall(d)' => InCall(d) /\ callers'[d].id = callers[d].id
          /\ InCall(d) => InCall(d)'
          /\ At(d, "encode")' => At(d, "encode")
          /\ At(d, "encode") => At(d, "encode")'
    BY <1>1 DEF InCall, At
<1>3. QED
    BY <1>2, OffCallKeeps

LEMMA CallKeeps ==
    ASSUME TypeOK, IInv, NEW c \in Callers, NEW kind \in Kind, Call(c, kind)
    PROVE  TypeOK' /\ IInv'
<1> DEFINE r == [Idle EXCEPT !.pc = "lock", !.kind = kind]
<1>1. callers' = [callers EXCEPT ![c] = r] /\ At(c, "idle")
    BY DEF Call
<1>2. r.pc = "lock" /\ r \in [pc : {"idle", "lock", "encode", "wait", "drain",
                                    "close", "reap", "reap killed"},
                              id : Nat, kind : Kind]
    BY DEF Idle
<1>3. begun' \in 0 .. MaxCalls
    <2>1. begun \in 0 .. MaxCalls /\ begun < MaxCalls /\ begun' = begun + 1
        BY DEF TypeOK, Call
    <2>2. QED
        BY <2>1, BoundsAssumption
<1>4. TypeOK'
    <2>1. Values'
        BY <1>1, <1>2, <1>3 DEF TypeOK, Values, Call, process, pipes
    <2>2. Flags'
        BY <1>1, <1>2, <1>3 DEF TypeOK, Flags, Call, process, pipes
    <2> QED
        BY <2>1, <2>2, TypeParts
<1>5. \A d \in Callers :
          /\ InCall(d)' => InCall(d) /\ callers'[d].id = callers[d].id
          /\ InCall(d) => InCall(d)'
          /\ At(d, "encode")' => At(d, "encode")
          /\ At(d, "encode") => At(d, "encode")'
    BY <1>1, <1>2 DEF InCall, At, TypeOK
<1>6. ReapedIsOver'
    BY <1>1, <1>2 DEF Call, process, IInv, ReapedIsOver, Exited, TypeOK
<1>7. IInv'
    BY <1>5, <1>6, OffCallKeeps DEF Call, process, pipes
<1>8. QED
    BY <1>4, <1>7

(* Close begins, closes stdin, kills after its time limit, and has waited;  *)
(* the context is cancelled.                                                *)
LEMMA CloseStepsKeep ==
    ASSUME TypeOK, IInv,
           \/ CancelContext
           \/ \E c \in Callers : StartClose(c) \/ Close(c) \/ Timeout(c) \/ Reap(c)
    PROVE  TypeOK' /\ IInv'
<1>1. CASE CancelContext
    <2>1. TypeOK'
        <3>1. Values'
            BY <1>1 DEF CancelContext, TypeOK, process, pipes, Values
        <3>2. Flags'
            BY <1>1 DEF CancelContext, TypeOK, process, pipes, Flags
        <3> QED
            BY <3>1, <3>2, TypeParts
    <2>2. ReapedIsOver'
        BY <1>1 DEF CancelContext, process, IInv, ReapedIsOver, Exited
    <2>3. IInv'
        BY <1>1, <2>2, OffCallKeeps DEF CancelContext, process, pipes, InCall, At
    <2>4. QED
        BY <2>1, <2>3
<1>2. ASSUME NEW c \in Callers, StartClose(c)
      PROVE  TypeOK' /\ IInv'
    <2>1. TypeOK'
        <3>1. Values'
            BY <1>2, GotoType DEF StartClose, TypeOK, process, pipes, Values
        <3>2. Flags'
            BY <1>2, GotoType DEF StartClose, TypeOK, process, pipes, Flags
        <3> QED
            BY <3>1, <3>2, TypeParts
    <2>2. ReapedIsOver'
        BY <1>2, GotoType DEF StartClose, process, IInv, ReapedIsOver, Exited
    <2>3. IInv'
        BY <1>2, <2>2, GotoKeeps DEF StartClose, process, pipes, InCall, At
    <2>4. QED
        BY <2>1, <2>3
<1>3. ASSUME NEW c \in Callers, Close(c)
      PROVE  TypeOK' /\ IInv'
    <2>1. \E step \in {"idle", "reap"} : Goto(c, step)
        BY <1>3 DEF Close
    <2>2. TypeOK'
        <3>1. Values'
            BY <1>3, <2>1, GotoType DEF Close, TypeOK, process, Values
        <3>2. Flags'
            BY <1>3, <2>1, GotoType DEF Close, TypeOK, process, Flags
        <3> QED
            BY <3>1, <3>2, TypeParts
    <2>3. ReapedIsOver'
        BY <1>3, <2>1, GotoType DEF Close, process, IInv, ReapedIsOver, Exited, Goto, TypeOK
    <2>4. IInv'
        BY <1>3, <2>1, <2>3, GotoKeeps DEF Close, process, InCall, At
    <2>5. QED
        BY <2>2, <2>4
<1>4. ASSUME NEW c \in Callers, Timeout(c)
      PROVE  TypeOK' /\ IInv'
    <2>1. TypeOK'
        <3>1. Values'
            BY <1>4, GotoType DEF Timeout, TypeOK, pipes, Values
        <3>2. Flags'
            BY <1>4, GotoType DEF Timeout, TypeOK, pipes, Flags
        <3> QED
            BY <3>1, <3>2, TypeParts
    <2>2. ReapedIsOver'
        BY <1>4, GotoType DEF Timeout, IInv, ReapedIsOver, Exited, At
    <2>3. IInv'
        BY <1>4, <2>2, GotoKeeps DEF Timeout, pipes, InCall, At
    <2>4. QED
        BY <2>1, <2>3
<1>5. ASSUME NEW c \in Callers, Reap(c)
      PROVE  TypeOK' /\ IInv'
    <2>1. TypeOK'
        <3>1. Values'
            BY <1>5, GotoType DEF Reap, TypeOK, pipes, Values
        <3>2. Flags'
            BY <1>5, GotoType DEF Reap, TypeOK, pipes, Flags
        <3> QED
            BY <3>1, <3>2, TypeParts
    <2>2. ReapedIsOver'
        BY <1>5, GotoType DEF Reap, Waited, PipesBroken, IInv, ReapedIsOver, Exited, At
    <2>3. IInv'
        BY <1>5, <2>2, GotoKeeps DEF Reap, pipes, InCall, At
    <2>4. QED
        BY <2>1, <2>3
<1>6. QED
    BY <1>1, <1>2, <1>3, <1>4, <1>5

(* The context is cancelled while a call waits: the call stays one. *)
LEMMA CancelKeeps ==
    ASSUME TypeOK, IInv, NEW c \in Callers, Cancel(c)
    PROVE  TypeOK' /\ IInv'
<1>1. TypeOK'
    <2>1. Values'
        BY GotoType DEF Cancel, Kills, TypeOK, pipes, Values
    <2>2. Flags'
        BY GotoType DEF Cancel, Kills, TypeOK, pipes, Flags
    <2> QED
        BY <2>1, <2>2, TypeParts
<1>2. ReapedIsOver'
    BY GotoType DEF Cancel, IInv, ReapedIsOver, Exited
<1>3. IInv'
    BY <1>2, GotoKeeps DEF Cancel, pipes, InCall, At
<1>4. QED
    BY <1>1, <1>3

(* A call takes the mutex and an id of its own. *)
LEMMA LockKeeps ==
    ASSUME TypeOK, IInv, NEW c \in Callers, Lock(c)
    PROVE  TypeOK' /\ IInv'
<1>1. CASE closed
    <2>1. /\ Goto(c, "idle") /\ At(c, "lock")
          /\ UNCHANGED <<phase, mu, log, begun, cancelled, closed, reaped, broken,
                         plugin, killed, helper, strays, stdin, stdinClosed, stdout>>
        BY <1>1 DEF Lock, process, pipes
    <2>2. TypeOK'
        <3>1. callers' \in [Callers -> [pc : {"idle", "lock", "encode", "wait", "drain",
                                              "close", "reap", "reap killed"},
                                        id : Nat, kind : Kind]]
            BY <2>1, GotoType
        <3>2. QED
            <4>1. Values'
                BY <2>1, <3>1 DEF TypeOK, Values
            <4>2. Flags'
                BY <2>1, <3>1 DEF TypeOK, Flags
            <4> QED
                BY <4>1, <4>2, TypeParts
    <2>3. ReapedIsOver'
        BY <1>1, <2>1, GotoType DEF IInv, ReapedIsOver, Exited
    <2>4. IInv'
        BY <2>1, <2>3, GotoKeeps DEF InCall, At
    <2>5. QED
        BY <2>2, <2>4
<1>2. CASE ~closed
    <2> DEFINE n == Len(log) + 1
               r == [callers[c] EXCEPT !.pc = "encode", !.id = n]
               new == [acted |-> FALSE, outcome |-> "pending"]
    <2>1. /\ log \in Seq(Entry) /\ stdin \in Seq(Nat)
          /\ stdout \in Seq([id : Nat, ok : BOOLEAN])
          /\ mu = None /\ mu' = c /\ c # None
          /\ log' = Append(log, new)
          /\ callers' = [callers EXCEPT ![c] = r]
          /\ UNCHANGED <<phase, begun, cancelled, closed, reaped, broken, process, pipes>>
        BY <1>2, BoundsAssumption DEF Lock, NextId, TypeOK
    <2>2. /\ n \in Nat /\ n > 0 /\ new \in Entry
          /\ log' \in Seq(Entry) /\ Len(log') = n
          /\ \A k \in DOMAIN log : k \in DOMAIN log' /\ log'[k] = log[k] /\ k # n
          /\ log'[n] = new
        BY <2>1 DEF Entry
    <2>3. /\ r \in [pc : {"idle", "lock", "encode", "wait", "drain", "close", "reap",
                          "reap killed"}, id : Nat, kind : Kind]
          /\ r.pc = "encode" /\ r.id = n
        <3>1. callers[c] \in [pc : {"idle", "lock", "encode", "wait", "drain", "close",
                                    "reap", "reap killed"}, id : Nat, kind : Kind]
            BY DEF TypeOK
        <3>2. QED
            BY <2>2, <3>1
    <2>4. /\ callers' \in [Callers -> [pc : {"idle", "lock", "encode", "wait", "drain",
                                             "close", "reap", "reap killed"},
                                       id : Nat, kind : Kind]]
          /\ callers'[c] = r /\ \A d \in Callers : d # c => callers'[d] = callers[d]
        BY <2>1, <2>3 DEF TypeOK
    <2>5. TypeOK'
        <3>1. Values'
            BY <2>1, <2>2, <2>4 DEF TypeOK, Values, process, pipes
        <3>2. Flags'
            BY <2>1, <2>2, <2>4 DEF TypeOK, Flags, process, pipes
        <3> QED
            BY <3>1, <3>2, TypeParts
    <2>6. \A d \in Callers : ~InCall(d) /\ (InCall(d)' <=> d = c)
        BY <2>1, <2>3, <2>4, BoundsAssumption DEF IInv, OneInCall, InCall
    <2>7. OneInCall'
        <3>1. log'[Len(log')].outcome = "pending" /\ Len(log') = n
            BY <2>2
        <3>2. QED
            BY <2>1, <2>2, <2>3, <2>4, <2>6, <3>1 DEF OneInCall
    <2>8. Requests'
        <3>1. UNCHANGED <<stdin, plugin>>
            BY <2>1 DEF process, pipes
        <3>2. \A d \in Callers : At(d, "encode")' => log'[Len(log')] = new /\ Len(log') = n
            BY <2>2
        <3>3. QED
            BY <2>2, <3>1, <3>2 DEF IInv, Requests
    <2>9. Answers'
        BY <2>1, <2>2 DEF IInv, Answers, pipes
    <2>10. InStep'
        <3>1. UNCHANGED <<stdin, stdout, plugin, strays, broken>>
            BY <2>1 DEF process, pipes
        <3>2. strays = 0 /\ ~Exited => ~broken /\ Nothing
            BY <2>1 DEF IInv, InStep
        <3>3. \A d \in Callers : InCall(d)' => At(d, "encode")'
            BY <2>3, <2>4, <2>6 DEF At
        <3>4. QED
            BY <2>1, <3>1, <3>2, <3>3 DEF InStep, Exited, Nothing
    <2>11. ReapedIsOver'
        BY <2>1, <2>3, <2>4 DEF IInv, ReapedIsOver, process, Exited
    <2>12. QED
        BY <2>5, <2>7, <2>8, <2>9, <2>10, <2>11 DEF IInv
<1>3. QED
    BY <1>1, <1>2

(* A call that returns leaves the mutex. *)
LEMMA ReturnKeeps ==
    ASSUME TypeOK, IInv, NEW c \in Callers, InCall(c),
           NEW outcome \in {"ok", "error"}, Return(c, outcome),
           Decode \/ UNCHANGED <<broken, stdout>>,
           UNCHANGED <<process, stdin, stdinClosed>>,
           strays = 0 /\ ~Exited => ~broken' /\ Nothing'
    PROVE  TypeOK' /\ IInv'
<1>1. /\ callers' \in [Callers -> [pc : {"idle", "lock", "encode", "wait", "drain",
                                         "close", "reap", "reap killed"},
                                   id : Nat, kind : Kind]]
      /\ phase' \in {"starting", "open", "failed"} /\ mu' = None
      /\ callers'[c].pc \in {"idle", "close"}
      /\ \A d \in Callers : d # c => callers'[d] = callers[d] /\ ~InCall(d)
      /\ Len(log) \in DOMAIN log
      /\ log' \in Seq(Entry) /\ Len(log') = Len(log)
      /\ \A k \in DOMAIN log : log'[k].acted = log[k].acted
      /\ \A k \in DOMAIN log : k # Len(log) => log'[k] = log[k]
      /\ log'[Len(log)].outcome = outcome
      /\ UNCHANGED <<begun, cancelled, closed, reaped>>
    BY ReturnType DEF IInv
<1>2. /\ broken' \in BOOLEAN /\ stdout' \in Seq([id : Nat, ok : BOOLEAN])
      /\ \A k \in DOMAIN stdout' : \E j \in DOMAIN stdout : stdout'[k] = stdout[j]
    BY DecodeType DEF TypeOK
<1>3. TypeOK'
    BY <1>1, <1>2 DEF TypeOK, process
<1>4. \A d \in Callers : ~InCall(d)'
    BY <1>1 DEF InCall
<1>5. DOMAIN log' = DOMAIN log
    <2>1. log \in Seq(Entry)
        BY DEF TypeOK
    <2>2. log' \in Seq(Entry) /\ Len(log') = Len(log)
        BY <1>1
    <2>3. QED
        BY <2>1, <2>2
<1>6. OneInCall'
    BY <1>1, <1>4 DEF OneInCall
<1>7. Requests'
    BY <1>1, <1>4, <1>5 DEF IInv, Requests, process, InCall, At
<1>8. Answers'
    <2>1. ASSUME NEW k \in DOMAIN stdout', stdout'[k].ok
          PROVE  /\ stdout'[k].id \in DOMAIN log'
                 /\ \/ log'[stdout'[k].id].acted
                    \/ log'[stdout'[k].id].outcome # "pending"
        <3>1. PICK j \in DOMAIN stdout : stdout'[k] = stdout[j]
            BY <1>2
        <3>2. /\ stdout'[k].id \in DOMAIN log
              /\ \/ log[stdout'[k].id].acted
                 \/ log[stdout'[k].id].outcome # "pending"
            BY <2>1, <3>1 DEF IInv, Answers
        <3>3. QED
            BY <1>1, <1>5, <3>2
    <2>2. QED
        BY <2>1 DEF Answers
<1>9. InStep'
    BY <1>4 DEF InStep, process, Exited
<1>10. ReapedIsOver'
    BY <1>1 DEF IInv, ReapedIsOver, process, Exited
<1>11. QED
    BY <1>3, <1>6, <1>7, <1>8, <1>9, <1>10 DEF IInv

LEMMA EncodeFailsKeeps ==
    ASSUME TypeOK, IInv, NEW c \in Callers, EncodeFails(c)
    PROVE  TypeOK' /\ IInv'
    BY ReturnKeeps DEF EncodeFails, At, InCall, PipesBroken, pipes

(* A call whose request is not written leaves nothing on the way. *)
LEMMA MarshalFailsKeeps ==
    ASSUME TypeOK, IInv, NEW c \in Callers, MarshalFails(c)
    PROVE  TypeOK' /\ IInv'
<1>1. /\ At(c, "encode") /\ InCall(c) /\ Return(c, "error")
      /\ UNCHANGED <<broken, process, stdin, stdinClosed, stdout>>
    BY DEF MarshalFails, At, InCall, pipes
<1>2. strays = 0 /\ ~Exited => ~broken' /\ Nothing'
    <2>1. strays = 0 /\ ~Exited => ~broken /\ Nothing
        BY <1>1, Zenon DEF IInv, InStep
    <2>2. QED
        BY <1>1, <2>1 DEF Nothing, process
<1>3. QED
    BY <1>1, <1>2, ReturnKeeps

(* A call that waits, or drains, has what was read consumed: the answer,    *)
(* while the plugin lives and keeps to the protocol.                        *)
LEMMA DecodedIsAnswer ==
    ASSUME TypeOK, IInv, NEW c \in Callers, At(c, "wait") \/ At(c, "drain"),
           Decodable, Decode, UNCHANGED <<process, stdin>>, strays = 0, ~Exited
    PROVE  ~broken' /\ Nothing'
<1>1. ~broken /\ Only(callers[c].id) /\ stdout # <<>>
    BY DEF IInv, InStep, InCall, At, Decodable, PipesBroken
<1>2. PICK ok \in BOOLEAN : stdout = <<Answer(callers[c].id, ok)>>
    BY <1>1 DEF Only
<1>3. callers[c].id > 0
    BY DEF IInv, OneInCall, InCall, At
<1>4. Head(stdout) # Garbage /\ Tail(stdout) = <<>>
    BY <1>2, <1>3 DEF Answer, Garbage
<1>5. stdin = <<>> /\ plugin.pc = "read"
    BY <1>1 DEF Only
<1>6. QED
    BY <1>1, <1>4, <1>5 DEF Decode, Nothing, process

LEMMA ReceiveKeeps ==
    ASSUME TypeOK, IInv, NEW c \in Callers, Receive(c)
    PROVE  TypeOK' /\ IInv'
<1>1. strays = 0 /\ ~Exited => ~broken' /\ Nothing'
    BY DecodedIsAnswer DEF Receive
<1>2. QED
    BY <1>1, ReturnKeeps DEF Receive, InCall, At

LEMMA DrainKeeps ==
    ASSUME TypeOK, IInv, NEW c \in Callers, Drain(c)
    PROVE  TypeOK' /\ IInv'
<1>1. Decodable /\ Decode
    BY DEF Drain, Drains
<1>2. strays = 0 /\ ~Exited => ~broken' /\ Nothing'
    BY <1>1, DecodedIsAnswer DEF Drain
<1>3. QED
    BY <1>1, <1>2, ReturnKeeps DEF Drain, InCall, At

(* The request of the call that has the mutex is sent, once: into the pipe  *)
(* or to the plugin that reads it.                                          *)
LEMMA EncodeKeeps ==
    ASSUME TypeOK, IInv, NEW c \in Callers, Encode(c) \/ TakeBig(c)
    PROVE  TypeOK' /\ IInv'
<1> DEFINE n == Len(log)
<1>1. /\ log \in Seq(Entry) /\ stdin \in Seq(Nat) /\ n \in Nat
      /\ At(c, "encode") /\ InCall(c) /\ Goto(c, "wait")
      /\ UNCHANGED <<phase, mu, log, begun, cancelled, closed, reaped, broken,
                     killed, helper, strays, stdinClosed, stdout>>
    <2>1. log \in Seq(Entry) /\ stdin \in Seq(Nat)
        BY DEF TypeOK
    <2>2. n \in Nat
        BY <2>1
    <2>3. At(c, "encode") /\ InCall(c)
        BY DEF Encode, TakeBig, At, InCall
    <2>4. QED
        BY <2>1, <2>2, <2>3 DEF Encode, TakeBig, process, pipes
<1>2. /\ mu = c /\ callers[c].id = n /\ n \in DOMAIN log /\ ~log[n].acted
      /\ log[n].outcome = "pending"
      /\ \A k \in DOMAIN stdin : stdin[k] # n
      /\ plugin.pc \in {"handle", "answer"} => plugin.id # n
    <2>1. mu = c /\ callers[c].id = n /\ n > 0 /\ log[n].outcome = "pending"
        BY <1>1 DEF IInv, OneInCall
    <2>2. n \in DOMAIN log
        BY <1>1, <2>1
    <2>3. /\ ~log[n].acted /\ \A k \in DOMAIN stdin : stdin[k] # n
          /\ plugin.pc \in {"handle", "answer"} => plugin.id # n
        BY <1>1 DEF IInv, Requests
    <2>4. QED
        BY <2>1, <2>2, <2>3
<1>3. /\ callers' \in [Callers -> [pc : {"idle", "lock", "encode", "wait", "drain",
                                         "close", "reap", "reap killed"},
                                   id : Nat, kind : Kind]]
      /\ callers'[c].pc = "wait" /\ callers'[c].id = n
      /\ \A d \in Callers : d # c => callers'[d] = callers[d]
    BY <1>1, <1>2, GotoType
<1>4. \A d \in Callers : (InCall(d) <=> d = c) /\ (InCall(d)' <=> d = c)
    <2>1. \A d \in Callers : InCall(d) => d = c
        BY <1>2 DEF IInv, OneInCall
    <2>2. InCall(c)'
        BY <1>3 DEF InCall
    <2>3. \A d \in Callers : d # c => (InCall(d)' <=> InCall(d))
        BY <1>3 DEF InCall
    <2>4. QED
        BY <1>1, <2>1, <2>2, <2>3
<1>5. OneInCall'
    BY <1>1, <1>2, <1>3, <1>4 DEF IInv, OneInCall
<1>6. Answers'
    BY <1>1 DEF IInv, Answers
<1>7. ReapedIsOver' \/ plugin'.pc # plugin.pc
    BY <1>1, <1>3 DEF IInv, ReapedIsOver, Exited
<1>8. CASE stdin' = Append(stdin, n) /\ UNCHANGED plugin
    <2>1. /\ stdin' \in Seq(Nat) /\ Len(stdin') = Len(stdin) + 1
          /\ \A k \in DOMAIN stdin : k \in DOMAIN stdin' /\ stdin'[k] = stdin[k]
          /\ \A k \in DOMAIN stdin' : k \in DOMAIN stdin \/ k = Len(stdin) + 1
          /\ stdin'[Len(stdin) + 1] = n
        BY <1>1, <1>8
    <2>2. TypeOK'
        <3>1. stdin' \in Seq(Nat) /\ UNCHANGED plugin
            BY <1>8, <2>1
        <3>2. callers' \in [Callers -> [pc : {"idle", "lock", "encode", "wait", "drain",
                                              "close", "reap", "reap killed"},
                                        id : Nat, kind : Kind]]
            BY <1>3
        <3>3. UNCHANGED <<phase, mu, log, begun, cancelled, closed, reaped, broken,
                          killed, helper, strays, stdinClosed, stdout>>
            BY <1>1
        <3>4. QED
            <4>1. Values'
                BY <3>1, <3>2, <3>3 DEF TypeOK, Values
            <4>2. Flags'
                BY <3>1, <3>2, <3>3 DEF TypeOK, Flags
            <4> QED
                BY <4>1, <4>2, TypeParts
    <2>3. Requests'
        <3>1. \A k \in DOMAIN stdin' : stdin'[k] \in DOMAIN log /\ ~log[stdin'[k]].acted
            BY <1>2, <2>1 DEF IInv, Requests
        <3>2. \A j, k \in DOMAIN stdin' : stdin'[j] = stdin'[k] => j = k
            BY <1>2, <2>1 DEF IInv, Requests
        <3>3. plugin.pc = "handle" =>
                  /\ plugin.id \in DOMAIN log /\ ~log[plugin.id].acted
                  /\ \A k \in DOMAIN stdin' : stdin'[k] # plugin.id
            BY <1>2, <2>1 DEF IInv, Requests
        <3>4. plugin.pc = "answer" => plugin.id \in DOMAIN log /\ log[plugin.id].acted
            BY DEF IInv, Requests
        <3>5. \A d \in Callers : ~At(d, "encode")'
            BY <1>3, <1>4 DEF InCall, At
        <3>6. QED
            BY <1>1, <1>8, <3>1, <3>2, <3>3, <3>4, <3>5 DEF Requests
    <2>4. InStep'
        <3>1. strays = 0 /\ ~Exited => ~broken /\ Nothing
            BY <1>1, Zenon DEF IInv, InStep
        <3>2. Nothing => stdin' = <<n>>
            BY <1>8 DEF Nothing
        <3>3. strays' = 0 /\ ~Exited' => ~broken' /\ Only(n)'
            BY <1>1, <1>8, <3>1, <3>2 DEF Nothing, Only, Exited
        <3>4. mu' # None
            BY <1>1, <1>2, BoundsAssumption
        <3>5. \A d \in Callers : InCall(d)' => ~At(d, "encode")' /\ callers'[d].id = n
            BY <1>3, <1>4 DEF At
        <3>6. QED
            BY <1>1, <3>3, <3>4, <3>5 DEF InStep, Only
    <2>5. QED
        BY <1>5, <1>6, <1>7, <1>8, <2>2, <2>3, <2>4 DEF IInv
<1>9. CASE /\ stdin = <<>> /\ plugin.pc = "read" /\ UNCHANGED stdin
           /\ plugin' = [pc |-> "handle", id |-> n]
    <2>1. TypeOK'
        BY <1>1, <1>3, <1>9 DEF TypeOK
    <2>2. \A d \in Callers : ~At(d, "encode")'
        BY <1>3, <1>4 DEF InCall, At
    <2>3. Requests'
        BY <1>1, <1>2, <1>9, <2>2 DEF IInv, Requests
    <2>4. InStep'
        <3>1. strays = 0 => ~broken /\ Nothing
            <4>1. ~Exited
                BY <1>9 DEF Exited
            <4>2. QED
                BY <1>1, <4>1, Zenon DEF IInv, InStep
        <3>2. strays' = 0 => ~broken' /\ Only(n)'
            BY <1>1, <1>9, <3>1 DEF Nothing, Only
        <3>3. mu' # None
            BY <1>1, <1>2, BoundsAssumption
        <3>4. \A d \in Callers : InCall(d)' => callers'[d].id = n
            BY <1>3, <1>4
        <3>5. QED
            BY <1>1, <2>2, <3>2, <3>3, <3>4 DEF InStep, Only
    <2>5. ~reaped
        BY <1>9 DEF IInv, ReapedIsOver, Exited
    <2>6. ReapedIsOver'
        BY <1>1, <1>3, <2>5 DEF IInv, ReapedIsOver
    <2>7. QED
        BY <1>5, <1>6, <2>1, <2>3, <2>4, <2>6 DEF IInv
<1>10. QED
    BY <1>2, <1>8, <1>9 DEF Encode, TakeBig, process, pipes

(* What the plugin does leaves the client as it is, and the log's outcomes. *)
LEMMA PluginStep ==
    ASSUME TypeOK, IInv,
           UNCHANGED <<phase, callers, mu, begun, cancelled, closed, reaped, broken>>,
           Len(log') = Len(log), log' \in Seq(Entry),
           \A k \in DOMAIN log : log'[k].outcome = log[k].outcome,
           ~Exited
    PROVE  OneInCall' /\ ReapedIsOver'
<1>1. ~reaped
    BY DEF IInv, ReapedIsOver
<1>2. ReapedIsOver'
    BY <1>1 DEF IInv, ReapedIsOver
<1>3. OneInCall'
    <2>1. log \in Seq(Entry)
        BY DEF TypeOK
    <2>2. Len(log) > 0 => Len(log) \in DOMAIN log
        BY <2>1
    <2>3. QED
        BY <2>2 DEF IInv, OneInCall, InCall
<1>4. QED
    BY <1>2, <1>3

(* The plugin takes the next request off its stdin. *)
LEMMA PluginReadKeeps ==
    ASSUME TypeOK, IInv, PluginRead
    PROVE  TypeOK' /\ IInv'
<1>1. /\ plugin.pc = "read" /\ stdin # <<>> /\ stdin \in Seq(Nat) /\ log \in Seq(Entry)
      /\ plugin' = [pc |-> "handle", id |-> Head(stdin)] /\ stdin' = Tail(stdin)
      /\ UNCHANGED <<phase, callers, mu, log, begun, cancelled, closed, reaped, broken,
                     killed, helper, strays, stdinClosed, stdout>>
    BY DEF PluginRead, TypeOK, client
<1>2. /\ Head(stdin) \in Nat /\ Tail(stdin) \in Seq(Nat) /\ Head(stdin) = stdin[1]
      /\ 1 \in DOMAIN stdin
      /\ \A k \in DOMAIN Tail(stdin) :
            k + 1 \in DOMAIN stdin /\ Tail(stdin)[k] = stdin[k + 1] /\ k + 1 # 1
    BY <1>1
<1>3. TypeOK'
    BY <1>1, <1>2 DEF TypeOK
<1>4. OneInCall' /\ ReapedIsOver'
    BY <1>1, PluginStep DEF Exited
<1>5. Answers'
    BY <1>1 DEF IInv, Answers
<1>6. Requests'
    <2>1. \A k \in DOMAIN stdin' : stdin'[k] \in DOMAIN log /\ ~log[stdin'[k]].acted
        BY <1>1, <1>2 DEF IInv, Requests
    <2>2. \A j, k \in DOMAIN stdin' : stdin'[j] = stdin'[k] => j = k
        <3> SUFFICES ASSUME NEW j \in DOMAIN stdin', NEW k \in DOMAIN stdin',
                            stdin'[j] = stdin'[k]
                     PROVE  j = k
            OBVIOUS
        <3>1. j + 1 \in DOMAIN stdin /\ k + 1 \in DOMAIN stdin
              /\ stdin[j + 1] = stdin[k + 1]
            BY <1>1, <1>2
        <3>2. j + 1 = k + 1
            BY <3>1 DEF IInv, Requests
        <3>3. j \in Nat /\ k \in Nat
            BY <1>1, <1>2, SMTT(30)
        <3>4. QED
            BY <3>2, <3>3
    <2>3. /\ Head(stdin) \in DOMAIN log /\ ~log[Head(stdin)].acted
          /\ \A k \in DOMAIN stdin' : stdin'[k] # Head(stdin)
        BY <1>1, <1>2 DEF IInv, Requests
    <2>4. \A d \in Callers : At(d, "encode") =>
              /\ ~log[Len(log)].acted
              /\ \A k \in DOMAIN stdin : stdin[k] # Len(log)
        BY DEF IInv, Requests
    <2>5. QED
        BY <1>1, <1>2, <2>1, <2>2, <2>3, <2>4 DEF Requests, At
<1>7. InStep'
    <2>1. ASSUME NEW i, Only(i)
          PROVE  Only(i)'
        <3>1. stdin = <<i>> /\ stdout = <<>>
            BY <1>1, <2>1 DEF Only
        <3>2. Head(stdin) = i /\ Tail(stdin) = <<>>
            BY <3>1
        <3>3. plugin'.pc = "handle" /\ plugin'.id = i
            BY <1>1, <3>2
        <3>4. QED
            BY <1>1, <3>1, <3>2, <3>3 DEF Only
    <2>2. QED
        BY <1>1, <2>1 DEF IInv, InStep, Exited, Nothing, InCall, At
<1>8. QED
    BY <1>3, <1>4, <1>5, <1>6, <1>7 DEF IInv

(* The plugin acts: what it handles is no longer in the pipe.               *)
LEMMA HandleKeeps ==
    ASSUME TypeOK, IInv, Handle
    PROVE  TypeOK' /\ IInv'
<1> DEFINE i == plugin.id
<1>1. /\ plugin.pc = "handle" /\ stdin \in Seq(Nat) /\ log \in Seq(Entry)
      /\ plugin' = [plugin EXCEPT !.pc = "answer"]
      /\ log' = [log EXCEPT ![i].acted = TRUE]
      /\ UNCHANGED <<phase, callers, mu, begun, cancelled, closed, reaped, broken,
                     killed, helper, strays, stdin, stdinClosed, stdout>>
    BY DEF Handle, TypeOK, pipes
<1>2. i \in DOMAIN log /\ ~log[i].acted /\ \A k \in DOMAIN stdin : stdin[k] # i
    BY <1>1 DEF IInv, Requests
<1>3. plugin' \in [pc : {"read", "handle", "answer", "exited"}, id : Nat]
      /\ plugin'.pc = "answer" /\ plugin'.id = i
    BY <1>1 DEF TypeOK
<1>4. /\ log' \in Seq(Entry) /\ Len(log') = Len(log)
      /\ \A k \in DOMAIN log : log'[k].outcome = log[k].outcome
      /\ \A k \in DOMAIN log : k # i => log'[k] = log[k]
      /\ log'[i].acted = TRUE
    <2>1. \A l : l = [log EXCEPT ![i].acted = TRUE] =>
              /\ l \in Seq(Entry) /\ Len(l) = Len(log)
              /\ \A k \in DOMAIN log : l[k].outcome = log[k].outcome
              /\ \A k \in DOMAIN log : k # i => l[k] = log[k]
              /\ l[i].acted = TRUE
        BY <1>2, ActedType
    <2>2. QED
        BY <1>1, <2>1
<1>5. DOMAIN log' = DOMAIN log
    BY <1>1, <1>4
<1>6. TypeOK'
    BY <1>1, <1>3, <1>4 DEF TypeOK
<1>7. OneInCall' /\ ReapedIsOver'
    BY <1>1, <1>4, PluginStep DEF Exited
<1>8. Answers'
    BY <1>1, <1>4, <1>5 DEF IInv, Answers
<1>9. Requests'
    <2>1. \A k \in DOMAIN stdin : stdin[k] \in DOMAIN log /\ ~log'[stdin[k]].acted
        BY <1>2, <1>4 DEF IInv, Requests
    <2>2. \A d \in Callers : At(d, "encode") =>
              /\ Len(log) \in DOMAIN log /\ Len(log) # i /\ ~log[Len(log)].acted
              /\ \A k \in DOMAIN stdin : stdin[k] # Len(log)
        <3>1. \A d \in Callers : At(d, "encode") => Len(log) > 0
            BY DEF IInv, OneInCall, InCall, At
        <3>2. QED
            BY <1>1, <3>1 DEF IInv, Requests
    <2>3. \A d \in Callers : At(d, "encode") => ~log'[Len(log')].acted
        BY <1>4, <2>2
    <2>4. \A j, k \in DOMAIN stdin : stdin[j] = stdin[k] => j = k
        BY DEF IInv, Requests
    <2>5. QED
        BY <1>1, <1>2, <1>3, <1>4, <1>5, <2>1, <2>2, <2>3, <2>4 DEF Requests, At
<1>10. InStep'
    <2>1. ~Nothing /\ ~Exited
        BY <1>1 DEF Nothing, Exited
    <2>2. ASSUME NEW n, Only(n)
          PROVE  Only(n)'
        BY <1>1, <1>3, <2>2 DEF Only
    <2>3. QED
        BY <1>1, <2>1, <2>2 DEF IInv, InStep, InCall, At
<1>11. QED
    BY <1>6, <1>7, <1>8, <1>9, <1>10 DEF IInv

(* The plugin answers what it handled; it says ok only if it acted.         *)
LEMMA AnswerKeeps ==
    ASSUME TypeOK, IInv, NEW ok \in BOOLEAN,
           plugin.pc \in {"handle", "answer"}, ok => plugin.pc = "answer",
           plugin' = [pc |-> "read", id |-> 0],
           stdout' = Append(stdout, Answer(plugin.id, ok)),
           UNCHANGED <<client, killed, helper, strays, stdin, stdinClosed>>
    PROVE  TypeOK' /\ IInv'
<1> DEFINE a == Answer(plugin.id, ok)
<1>1. /\ stdout \in Seq([id : Nat, ok : BOOLEAN]) /\ log \in Seq(Entry)
      /\ a \in [id : Nat, ok : BOOLEAN] /\ a.id = plugin.id /\ a.ok = ok
      /\ UNCHANGED <<phase, callers, mu, log, begun, cancelled, closed, reaped, broken,
                     killed, helper, strays, stdin, stdinClosed>>
    BY DEF TypeOK, client, Answer
<1>2. plugin'.pc = "read" /\ plugin' \in [pc : {"read", "handle", "answer", "exited"}, id : Nat]
    OBVIOUS
<1>3. /\ stdout' \in Seq([id : Nat, ok : BOOLEAN])
      /\ \A k \in DOMAIN stdout' :
            stdout'[k] = a \/ (k \in DOMAIN stdout /\ stdout'[k] = stdout[k])
    BY <1>1
<1>4. TypeOK'
    BY <1>1, <1>2, <1>3 DEF TypeOK
<1>5. OneInCall' /\ ReapedIsOver'
    BY <1>1, PluginStep DEF Exited
<1>6. Answers'
    <2>1. ok => plugin.id \in DOMAIN log /\ log[plugin.id].acted
        BY DEF IInv, Requests
    <2>2. QED
        BY <1>1, <1>3, <2>1 DEF IInv, Answers
<1>7. Requests'
    BY <1>1, <1>2 DEF IInv, Requests, At
<1>8. InStep'
    <2>1. ~Nothing /\ ~Exited
        BY DEF Nothing, Exited
    <2>2. ASSUME NEW n, Only(n)
          PROVE  Only(n)'
        <3>1. stdin = <<>> /\ plugin.id = n /\ stdout = <<>>
            BY <2>2 DEF Only
        <3>2. stdout' = <<Answer(n, ok)>>
            BY <3>1
        <3>3. QED
            BY <1>1, <1>2, <3>1, <3>2 DEF Only, Answer
    <2>3. QED
        BY <1>1, <2>1, <2>2 DEF IInv, InStep, InCall, At
<1>9. QED
    BY <1>4, <1>5, <1>6, <1>7, <1>8 DEF IInv

(* The process ends, by itself, or killed.                                  *)
LEMMA EndKeeps ==
    ASSUME TypeOK, IInv, PluginEnds \/ PluginDies
    PROVE  TypeOK' /\ IInv'
<1>1. /\ plugin' = [plugin EXCEPT !.pc = "exited"] /\ ~Exited
      /\ UNCHANGED <<phase, callers, mu, log, begun, cancelled, closed, reaped, broken,
                     killed, helper, strays, stdin, stdinClosed, stdout>>
    BY DEF PluginEnds, PluginDies, Exited, client, pipes
<1>2. plugin' \in [pc : {"read", "handle", "answer", "exited"}, id : Nat]
      /\ plugin'.pc = "exited"
    BY <1>1 DEF TypeOK
<1>3. TypeOK'
    BY <1>1, <1>2 DEF TypeOK
<1>4. OneInCall' /\ ReapedIsOver'
    <2>1. log \in Seq(Entry)
        BY DEF TypeOK
    <2>2. QED
        BY <1>1, <2>1, PluginStep
<1>5. Answers'
    BY <1>1 DEF IInv, Answers
<1>6. Requests'
    BY <1>1, <1>2 DEF IInv, Requests, At
<1>7. InStep'
    BY <1>2 DEF InStep, Exited
<1>8. QED
    BY <1>3, <1>4, <1>5, <1>6, <1>7 DEF IInv

(* Something is written to stdout that is no answer to a call under way:    *)
(* what breaks the protocol is counted, and no more is said of the order.   *)
LEMMA StrayKeeps ==
    ASSUME TypeOK, IInv, NEW a \in [id : Nat, ok : BOOLEAN], Stray(a),
           a.ok => a.id \in DOMAIN log /\ log[a.id].outcome # "pending"
    PROVE  TypeOK' /\ IInv'
<1>1. /\ stdout \in Seq([id : Nat, ok : BOOLEAN]) /\ log \in Seq(Entry) /\ ~Exited
      /\ stdout' = Append(stdout, a)
      /\ UNCHANGED <<phase, callers, mu, log, begun, cancelled, closed, reaped, broken,
                     plugin, killed, helper, stdin, stdinClosed>>
    BY DEF Stray, TypeOK, client
<1>2. strays' \in 0 .. MaxStrays /\ strays' # 0
    <2>1. strays \in 0 .. MaxStrays /\ strays < MaxStrays /\ strays' = strays + 1
        BY DEF TypeOK, Stray
    <2>2. QED
        BY <2>1, BoundsAssumption
<1>3. /\ stdout' \in Seq([id : Nat, ok : BOOLEAN])
      /\ \A k \in DOMAIN stdout' :
            stdout'[k] = a \/ (k \in DOMAIN stdout /\ stdout'[k] = stdout[k])
    BY <1>1
<1>4. TypeOK'
    <2>1. Values'
        BY <1>1, <1>2, <1>3 DEF TypeOK, Values
    <2>2. Flags'
        BY <1>1, <1>2, <1>3 DEF TypeOK, Flags
    <2> QED
        BY <2>1, <2>2, TypeParts
<1>5. OneInCall' /\ ReapedIsOver'
    BY <1>1, PluginStep
<1>6. Answers'
    BY <1>1, <1>3 DEF IInv, Answers
<1>7. Requests'
    BY <1>1 DEF IInv, Requests, At
<1>8. InStep'
    BY <1>2 DEF InStep
<1>9. QED
    BY <1>4, <1>5, <1>6, <1>7, <1>8 DEF IInv

LEMMA PluginKeeps ==
    ASSUME TypeOK, IInv, Plugin
    PROVE  TypeOK' /\ IInv'
<1>1. CASE PluginRead
    BY <1>1, PluginReadKeeps
<1>2. CASE Handle
    BY <1>2, HandleKeeps
<1>3. CASE Reject
    BY <1>3, AnswerKeeps DEF Reject
<1>4. CASE PluginEnds \/ PluginDies
    BY <1>4, EndKeeps
<1>5. ASSUME NEW ok \in BOOLEAN, Respond(ok)
      PROVE  TypeOK' /\ IInv'
    BY <1>5, AnswerKeeps DEF Respond, AfterAnswer
<1>6. CASE Stray(Garbage)
    <2>1. Garbage \in [id : Nat, ok : BOOLEAN] /\ Garbage.ok = FALSE
        BY DEF Garbage, Answer
    <2>2. QED
        BY <1>6, <2>1, StrayKeeps
<1>7. ASSUME NEW id \in DOMAIN log, log[id].outcome # "pending", Stray(Answer(id, TRUE))
      PROVE  TypeOK' /\ IInv'
    <2>1. log \in Seq(Entry)
        BY DEF TypeOK
    <2>2. Answer(id, TRUE) \in [id : Nat, ok : BOOLEAN] /\ Answer(id, TRUE).id = id
        BY <2>1 DEF Answer
    <2>3. QED
        BY <1>7, <2>2, StrayKeeps
<1>8. QED
    BY <1>1, <1>2, <1>3, <1>4, <1>5, <1>6, <1>7, EncodeKeeps DEF Plugin
-----------------------------------------------------------------------------
LEMMA InitHolds == Init => TypeOK /\ IInv
<1> SUFFICES ASSUME Init
             PROVE  TypeOK /\ IInv
    OBVIOUS
<1>1. PICK c \in Callers : callers = [d \in Callers |->
          IF d = c THEN [Idle EXCEPT !.pc = "lock"] ELSE Idle]
    BY DEF Init
<1>2. /\ callers \in [Callers -> [pc : {"idle", "lock", "encode", "wait", "drain",
                                        "close", "reap", "reap killed"},
                                  id : Nat, kind : Kind]]
      /\ \A d \in Callers : callers[d].pc \in {"idle", "lock"}
    BY <1>1 DEF Idle, Kind
<1>3. log = <<>> /\ stdin = <<>> /\ stdout = <<>> /\ plugin = [pc |-> "read", id |-> 0]
    BY DEF Init
<1>4. log \in Seq(Entry) /\ stdin \in Seq(Nat) /\ stdout \in Seq([id : Nat, ok : BOOLEAN])
    BY <1>3
<1>5. TypeOK
    <2>1. /\ phase \in {"starting", "open", "failed"} /\ mu \in Callers \cup {None}
          /\ cancelled \in BOOLEAN /\ closed \in BOOLEAN /\ reaped \in BOOLEAN
          /\ broken \in BOOLEAN /\ stdinClosed \in BOOLEAN
          /\ killed \in BOOLEAN /\ helper \in BOOLEAN
        BY DEF Init
    <2>2. begun \in 0 .. MaxCalls /\ strays \in 0 .. MaxStrays
        BY BoundsAssumption DEF Init
    <2>3. plugin \in [pc : {"read", "handle", "answer", "exited"}, id : Nat]
        BY <1>3
    <2>4. QED
        BY <1>2, <1>4, <2>1, <2>2, <2>3 DEF TypeOK
<1>6. \A d \in Callers : ~InCall(d) /\ ~At(d, "encode")
    BY <1>2 DEF InCall, At
<1>7. OneInCall
    BY <1>6 DEF Init, OneInCall
<1>8. Requests /\ Answers
    BY <1>3, <1>6 DEF Requests, Answers
<1>9. InStep
    BY <1>3, <1>6 DEF Init, InStep, Nothing
<1>10. ReapedIsOver
    BY <1>2 DEF Init, ReapedIsOver
<1>11. QED
    BY <1>5, <1>7, <1>8, <1>9, <1>10 DEF IInv

LEMMA NextKeeps ==
    ASSUME TypeOK, IInv, [Next]_vars
    PROVE  TypeOK' /\ IInv'
<1>1. ASSUME NEW c \in Callers, HostStep(c)
      PROVE  TypeOK' /\ IInv'
    <2>1. CASE Lock(c) \/ Encode(c) \/ EncodeFails(c) \/ MarshalFails(c)
        BY <2>1, LockKeeps, EncodeKeeps, EncodeFailsKeeps, MarshalFailsKeeps
    <2>2. CASE Receive(c) \/ Cancel(c) \/ Drain(c)
        BY <2>2, ReceiveKeeps, CancelKeeps, DrainKeeps
    <2>3. CASE Close(c) \/ Timeout(c) \/ Reap(c)
        BY <2>3, CloseStepsKeep
    <2>4. QED
        BY <1>1, <2>1, <2>2, <2>3 DEF HostStep
<1>2. ASSUME NEW c \in Callers, StartClose(c) \/ \E kind \in Kind : Call(c, kind)
      PROVE  TypeOK' /\ IInv'
    BY <1>2, CloseStepsKeep, CallKeeps
<1>3. CASE Plugin
    BY <1>3, PluginKeeps
<1>4. CASE Die
    BY <1>4, EndKeeps DEF Die
<1>5. CASE CancelContext
    BY <1>5, CloseStepsKeep
<1>6. CASE UNCHANGED vars
    <2>1. UNCHANGED <<phase, callers, mu, log, begun, cancelled, closed, reaped, broken,
                      plugin, killed, helper, strays, stdin, stdinClosed, stdout>>
        BY <1>6 DEF vars, client, process, pipes
    <2>2. TypeOK'
        <3>1. Values'
            BY <2>1 DEF TypeOK, Values
        <3>2. Flags'
            BY <2>1 DEF TypeOK, Flags
        <3> QED
            BY <3>1, <3>2, TypeParts
    <2>3. ReapedIsOver'
        BY <2>1 DEF IInv, ReapedIsOver, Exited
    <2>4. IInv'
        BY <2>1, <2>3, OffCallKeeps DEF InCall, At
    <2>5. QED
        BY <2>2, <2>4
<1>7. QED
    BY <1>1, <1>2, <1>3, <1>4, <1>5, <1>6 DEF Next

(* The invariant, of every client and plugin: one call at a time, every     *)
(* request handled once, and an ok only from a call that acted.             *)
THEOREM TypeCorrect == Spec => [](TypeOK /\ IInv)
<1>1. Init => TypeOK /\ IInv
    BY InitHolds
<1>2. TypeOK /\ IInv /\ [Next]_vars => (TypeOK /\ IInv)'
    BY NextKeeps
<1>3. QED
    BY <1>1, <1>2, PTL DEF Spec
-----------------------------------------------------------------------------
(* The calls of the client are what RpcCalls promises of them.              *)

(* A call that returns, and what it returns is true of it.                  *)
LEMMA ReturnReturns ==
    ASSUME TypeOK, IInv, NEW c \in Callers, InCall(c),
           NEW outcome \in {"ok", "error"}, Return(c, outcome), UNCHANGED strays,
           outcome = "ok" => OwnAnswer(c)
    PROVE  Calls!Next
<1> DEFINE i == callers[c].id
<1>1. i = Len(log) /\ Len(log) > 0 /\ log[i].outcome = "pending"
    BY DEF IInv, OneInCall
<1>2. i \in DOMAIN log
    <2>1. log \in Seq(Entry)
        BY DEF TypeOK
    <2>2. QED
        BY <1>1, <2>1
<1>3. outcome = "ok" => log[i].acted
    <2> SUFFICES ASSUME outcome = "ok"
                 PROVE  log[i].acted
        OBVIOUS
    <2>1. stdout # <<>> /\ Head(stdout) = Answer(i, TRUE)
        BY DEF OwnAnswer
    <2>2. stdout \in Seq([id : Nat, ok : BOOLEAN])
        BY DEF TypeOK
    <2>3. 1 \in DOMAIN stdout /\ stdout[1] = Answer(i, TRUE)
        <3>1. Head(stdout) = stdout[1] /\ Len(stdout) > 0
            BY <2>1, <2>2, HeadTailProperties
        <3>2. 1 \in DOMAIN stdout
            BY <2>2, <3>1
        <3>3. QED
            BY <2>1, <3>1, <3>2
    <2>4. stdout[1].ok /\ stdout[1].id = i
        BY <2>3 DEF Answer
    <2>5. QED
        BY <1>1, <2>3, <2>4 DEF IInv, Answers
<1>4. Calls!Return(i, outcome)
    BY <1>1, <1>3 DEF Calls!Return, Return
<1>5. QED
    BY <1>2, <1>4 DEF Calls!Next

(* The plugin handles the call that waits, if it kept to the protocol.      *)
LEMMA HandleActs ==
    ASSUME TypeOK, IInv, Handle
    PROVE  Calls!Next
<1> DEFINE i == plugin.id
<1>1. i \in DOMAIN log /\ ~log[i].acted
    BY DEF Handle, IInv, Requests
<1>2. ~Exited /\ ~Nothing
    BY DEF Handle, Exited, Nothing
<1>3. ~reaped
    BY <1>2 DEF IInv, ReapedIsOver
<1>4. log[i].outcome = "pending" \/ strays > 0
    <2>0. strays \in 0 .. MaxStrays
        BY DEF TypeOK
    <2> SUFFICES ASSUME strays = 0
                 PROVE  log[i].outcome = "pending"
        BY <2>0, BoundsAssumption
    <2>1. mu # None
        BY <1>2 DEF IInv, InStep
    <2>2. mu \in Callers /\ InCall(mu)
        BY <2>1 DEF TypeOK, IInv, OneInCall
    <2>3. Only(callers[mu].id)
        BY <1>2, <2>2 DEF IInv, InStep
    <2>4. callers[mu].id = i
        BY <2>3 DEF Only, Handle
    <2>5. QED
        BY <2>2, <2>4 DEF IInv, OneInCall
<1>5. Calls!Act(i)
    BY <1>1, <1>3, <1>4 DEF Calls!Act, Handle
<1>6. QED
    BY <1>1, <1>5 DEF Calls!Next

(* Whoever sends a request found the client open: nobody has reaped it.     *)
LEMMA LockSends ==
    ASSUME TypeOK, IInv, NEW c \in Callers, Lock(c)
    PROVE  Calls!Next \/ UNCHANGED <<log, reaped, strays>>
<1>1. CASE closed
    BY <1>1 DEF Lock, process
<1>2. CASE ~closed
    <2>1. ~reaped
        BY <1>2 DEF IInv, ReapedIsOver
    <2>2. Calls!Send
        BY <1>2, <2>1 DEF Lock, process, Calls!Send, Calls!New
    <2>3. QED
        BY <2>2 DEF Calls!Next
<1>3. QED
    BY <1>1, <1>2

LEMMA HostPromise ==
    ASSUME TypeOK, IInv, NEW c \in Callers, HostStep(c)
    PROVE  Calls!Next \/ UNCHANGED <<log, reaped, strays>>
<1>1. CASE Lock(c)
    BY <1>1, LockSends
<1>2. CASE EncodeFails(c) \/ MarshalFails(c)
    BY <1>2, ReturnReturns DEF EncodeFails, MarshalFails, At, InCall, process
<1>3. CASE Receive(c)
    BY <1>3, ReturnReturns DEF Receive, At, InCall, process
<1>4. CASE Drain(c)
    BY <1>4, ReturnReturns DEF Drain, At, InCall, process
<1>5. CASE Reap(c)
    <2>1. Calls!Close
        BY <1>5 DEF Reap, Calls!Close
    <2>2. QED
        BY <2>1 DEF Calls!Next
<1>6. CASE Encode(c)
    BY <1>6 DEF Encode, process
<1>7. CASE Cancel(c)
    BY <1>7 DEF Cancel
<1>8. CASE Close(c)
    BY <1>8 DEF Close, process
<1>9. CASE Timeout(c)
    BY <1>9 DEF Timeout
<1>10. QED
    BY <1>1, <1>2, <1>3, <1>4, <1>5, <1>6, <1>7, <1>8, <1>9 DEF HostStep

LEMMA PluginPromise ==
    ASSUME TypeOK, IInv, Plugin
    PROVE  Calls!Next \/ UNCHANGED <<log, reaped, strays>>
<1>1. CASE Handle
    BY <1>1, HandleActs
<1>2. CASE PluginRead \/ Reject \/ PluginEnds \/ PluginDies
    BY <1>2 DEF PluginRead, Reject, PluginEnds, PluginDies, client
<1>3. ASSUME NEW ok \in BOOLEAN, Respond(ok)
      PROVE  UNCHANGED <<log, reaped, strays>>
    BY <1>3 DEF Respond, client
<1>4. ASSUME NEW answer, Stray(answer)
      PROVE  Calls!Next
    <2>1. (strays > 0)' = TRUE /\ UNCHANGED <<log, reaped>>
        <3>1. strays \in 0 .. MaxStrays /\ strays' = strays + 1
            BY <1>4 DEF Stray, TypeOK
        <3>2. strays' > 0
            BY <3>1, BoundsAssumption
        <3>3. QED
            BY <1>4, <3>2 DEF Stray, client
    <2>2. Calls!Loosen
        BY <2>1 DEF Calls!Loosen
    <2>3. QED
        BY <2>2 DEF Calls!Next
<1>5. ASSUME NEW c \in Callers, TakeBig(c)
      PROVE  UNCHANGED <<log, reaped, strays>>
    BY <1>5 DEF TakeBig
<1>6. QED
    BY <1>1, <1>2, <1>3, <1>4, <1>5 DEF Plugin

(* Every client with its plugin implements RpcCalls: a call acts at most    *)
(* once, succeeds only if it acted, and acts no more once it has returned   *)
(* or the client is closed, unless the plugin wrote what is no answer.      *)
THEOREM CallsImplemented == Spec => ImplementsCalls
<1>1. Init => Calls!Init
    BY DEF Init, Calls!Init
<1>2. TypeOK /\ IInv /\ [Next]_vars => [Calls!Next]_<<log, reaped, strays > 0>>
    <2> SUFFICES ASSUME TypeOK, IInv, [Next]_vars
                 PROVE  Calls!Next \/ UNCHANGED <<log, reaped, strays>>
        OBVIOUS
    <2>1. ASSUME NEW c \in Callers, StartClose(c) \/ \E kind \in Kind : Call(c, kind)
          PROVE  UNCHANGED <<log, reaped, strays>>
        BY <2>1 DEF StartClose, Call, process
    <2>2. CASE CancelContext
        BY <2>2 DEF CancelContext, process
    <2>3. CASE Die
        BY <2>3 DEF Die, PluginDies, client
    <2>4. CASE UNCHANGED vars
        BY <2>4 DEF vars, client, process
    <2>5. QED
        BY <2>1, <2>2, <2>3, <2>4, HostPromise, PluginPromise DEF Next
<1>3. QED
    BY <1>1, <1>2, TypeCorrect, PTL DEF Spec, ImplementsCalls, Calls!Spec
=============================================================================
