------------------------------- MODULE DshRpc -------------------------------
(***************************************************************************)
(* pkg/dshutil/dshrpc.go: one endpoint of the RPC protocol.  Goroutines    *)
(* make calls: a command wants no response, a request wants one, a stream  *)
(* (dshclientutil.go) reads responses until the last.  runServer delivers  *)
(* the responses that come in, and the timeouts, to the channels the       *)
(* callers registered in RpcMap.  A transport empties OutputCh.  The peer  *)
(* answers a call, or not, and numbers its responses; number 0 is the      *)
(* error of a timeout.                                                     *)
(*                                                                         *)
(* Sends without response have the empty id: they share one entry of       *)
(* RpcMap.                                                                 *)
(***************************************************************************)
EXTENDS Integers, Sequences, FiniteSets

CONSTANTS
  Commands, Requests, Streams,  \* the calls made
  NoId,                         \* the id of a command
  None,
  OutSize, InSize, ResSize, DoneSize,  \* capacities of OutputCh, InputCh, a response channel, CtxDoneCh
  MaxResponses,                 \* bound: responses to one stream before the last one
  MayStop                       \* may the transport close InputCh?

Calls == Commands \cup Requests \cup Streams
Answered == Requests \cup Streams
Ids == Answered \cup {NoId}

ASSUME CallsAssumption ==
  /\ Commands \cap Answered = {} /\ Requests \cap Streams = {}
  /\ NoId \notin Calls /\ None \notin Calls \cup Ids
ASSUME CapacityAssumption ==
  /\ OutSize \in Nat \ {0} /\ InSize \in Nat \ {0} /\ ResSize \in Nat \ {0} /\ DoneSize \in Nat \ {0}
  /\ MaxResponses \in Nat /\ MayStop \in BOOLEAN

VARIABLES
  outputCh, inputCh, inputClosed, ctxDoneCh,
  rpcMap,                \* id -> the call registered under it, or None
  server, delivering,    \* where runServer is, the response it delivers
  stage, result, got,    \* per call: where its goroutine is, how it ended, the responses it read
  ctx, timer,            \* per call: its context, the goroutine waiting for the context to end
  respCh, respClosed,    \* per call: its channel; the calls whose channel is closed
  asked, answers, last   \* the peer: calls it received, responses it sent, calls it is done with

chVars     == <<outputCh, inputCh, inputClosed>>
serverVars == <<server, delivering>>
callVars   == <<stage, result, got>>
regVars    == <<rpcMap, respClosed, ctx>>
peerVars   == <<asked, answers, last>>
rpcVars == <<chVars, ctxDoneCh, serverVars, callVars, regVars, timer, respCh, peerVars>>

RpcInit ==
  /\ outputCh = <<>> /\ inputCh = <<>> /\ inputClosed = FALSE /\ ctxDoneCh = <<>>
  /\ rpcMap = [id \in Ids |-> None]
  /\ server = "run" /\ delivering = None
  /\ stage = [c \in Calls |-> "idle"]
  /\ result = [c \in Calls |-> "none"]
  /\ got = [c \in Calls |-> <<>>]
  /\ ctx = [c \in Calls |-> "live"]
  /\ timer = [c \in Calls |-> "off"]
  /\ respCh = [c \in Calls |-> <<>>] /\ respClosed = {}
  /\ asked = {} /\ answers = [c \in Calls |-> 0] /\ last = {}

IdOf(c) == IF c \in Commands THEN NoId ELSE c

OutputClosed == server \in {"closing", "done"}
ServerDone == server = "done"

Cancel(cs) == [c \in Calls |-> IF c \in cs /\ ctx[c] = "live" THEN "cancelled" ELSE ctx[c]]

\* mutant: the entry is deleted before its channel is looked up
UnregisterDeletesFirst(id, cs) ==
  /\ rpcMap' = [rpcMap EXCEPT ![id] = None]
  /\ respClosed' = respClosed \cup {rpcMap'[id]}
  /\ ctx' = Cancel(cs)

\* unregisterRpc, and the end of the contexts of the calls in cs.
Unregister(id, cs) ==
  LET c == rpcMap[id]
  IN  IF c = None
      THEN ctx' = Cancel(cs) /\ UNCHANGED <<rpcMap, respClosed>>
      ELSE /\ rpcMap' = [rpcMap EXCEPT ![id] = None]
           /\ respClosed' = respClosed \cup {c}
           /\ ctx' = Cancel(cs \cup {c})

-----------------------------------------------------------------------------
(* A caller: SendComplexRequest ... *)

Goes(c, from, to) == stage[c] = from /\ stage' = [stage EXCEPT ![c] = to]
Ends(c, r) == result' = [result EXCEPT ![c] = r]

Begin(c) ==
  /\ ~ServerDone
  /\ Goes(c, "idle", "register")
  /\ UNCHANGED <<chVars, ctxDoneCh, serverVars, result, got, regVars, timer, respCh, peerVars>>

Refused(c) ==
  /\ ServerDone
  /\ Goes(c, "idle", "end") /\ Ends(c, "down")
  /\ UNCHANGED <<chVars, ctxDoneCh, serverVars, got, regVars, timer, respCh, peerVars>>

Register(c) ==
  /\ Goes(c, "register", "sending")
  /\ rpcMap' = [rpcMap EXCEPT ![IdOf(c)] = c]
  /\ timer' = [timer EXCEPT ![c] = "wait"]
  /\ UNCHANGED <<chVars, ctxDoneCh, serverVars, result, got, respClosed, ctx, respCh, peerVars>>

Send(c) ==
  /\ ~OutputClosed /\ Len(outputCh) < OutSize
  /\ outputCh' = Append(outputCh, c)
  /\ Goes(c, "sending", IF c \in Commands THEN "finalize" ELSE IF c \in Requests THEN "next" ELSE "check")
  /\ IF c \in Commands THEN Ends(c, "sent") ELSE UNCHANGED result
  /\ UNCHANGED <<inputCh, inputClosed, ctxDoneCh, serverVars, got, regVars, timer, respCh, peerVars>>

\* The context ended before there was room in OutputCh.
SendTimeout(c) ==
  /\ ctx[c] # "live"
  /\ Goes(c, "sending", "finalize") /\ Ends(c, "timeout")
  /\ UNCHANGED <<chVars, ctxDoneCh, serverVars, got, regVars, timer, respCh, peerVars>>

\* A send on the closed channel panics; the recovered call returns neither handler nor error, and
\* its caller uses the handler.
SendClosed(c) ==
  /\ OutputClosed
  /\ Goes(c, "sending", "end") /\ Ends(c, "panic")
  /\ UNCHANGED <<chVars, ctxDoneCh, serverVars, got, regVars, timer, respCh, peerVars>>

\* ... and what its callers do then.  NextResponse blocks on the channel alone.
ResultOf(c, m) == IF m = 0 THEN "error" ELSE IF c \in Requests THEN "ok" ELSE "none"

NextResponse(c) ==
  /\ IF respCh[c] # <<>>
     THEN LET m == Head(respCh[c])
          IN  /\ Goes(c, "next", IF c \in Requests THEN "finalize" ELSE IF m = 0 THEN "end" ELSE "check")
              /\ respCh' = [respCh EXCEPT ![c] = Tail(@)]
              /\ got' = [got EXCEPT ![c] = Append(@, m)]
              /\ Ends(c, ResultOf(c, m))
     ELSE /\ c \in respClosed
          /\ Goes(c, "next", IF c \in Requests THEN "finalize" ELSE "end")
          /\ Ends(c, "closed")
          /\ UNCHANGED <<respCh, got>>
  /\ UNCHANGED <<chVars, ctxDoneCh, serverVars, regVars, timer, peerVars>>

\* ResponseDone: a stream looks, without blocking, whether there is another response.
ResponseDone(c) ==
  /\ IF respCh[c] # <<>>
     THEN LET m == Head(respCh[c])
          IN  /\ Goes(c, "check", IF m = 0 THEN "end" ELSE "check")
              /\ respCh' = [respCh EXCEPT ![c] = Tail(@)]
              /\ got' = [got EXCEPT ![c] = Append(@, m)]
              /\ Ends(c, ResultOf(c, m))
     ELSE /\ IF c \in respClosed
             THEN Goes(c, "check", "end") /\ Ends(c, "ended")
             ELSE Goes(c, "check", "next") /\ UNCHANGED result
          /\ UNCHANGED <<respCh, got>>
  /\ UNCHANGED <<chVars, ctxDoneCh, serverVars, regVars, timer, peerVars>>

\* finalize: the context is cancelled, and what has an id is unregistered.
Finalize(c) ==
  /\ Goes(c, "finalize", "end")
  /\ IF c \in Commands THEN ctx' = Cancel({c}) /\ UNCHANGED <<rpcMap, respClosed>>
                       ELSE Unregister(c, {c})
  /\ UNCHANGED <<chVars, ctxDoneCh, serverVars, result, got, timer, respCh, peerVars>>

Caller(c) ==
  \/ Register(c) \/ Send(c) \/ SendTimeout(c) \/ SendClosed(c)
  \/ NextResponse(c) \/ ResponseDone(c) \/ Finalize(c)

-----------------------------------------------------------------------------
(* Timeouts *)

Expire(c) ==
  /\ ctx[c] = "live" /\ timer[c] = "wait"
  /\ ctx' = [ctx EXCEPT ![c] = "expired"]
  /\ UNCHANGED <<chVars, ctxDoneCh, serverVars, callVars, rpcMap, respClosed, timer, respCh, peerVars>>

\* mutant: the goroutine unregisters the call itself
TimeoutUnregisters(c) ==
  /\ timer[c] = "wait" /\ ctx[c] # "live"
  /\ timer' = [timer EXCEPT ![c] = "gone"]
  /\ Unregister(IdOf(c), {})
  /\ UNCHANGED <<chVars, ctxDoneCh, serverVars, callVars, respCh, peerVars>>

\* mutant: a full CtxDoneCh is not tried again
TimeoutOnce(c) ==
  /\ timer[c] = "wait" /\ ctx[c] # "live"
  /\ timer' = [timer EXCEPT ![c] = "gone"]
  /\ IF Len(ctxDoneCh) < DoneSize /\ ~ServerDone
     THEN ctxDoneCh' = Append(ctxDoneCh, IdOf(c))
     ELSE UNCHANGED ctxDoneCh
  /\ UNCHANGED <<chVars, serverVars, callVars, regVars, respCh, peerVars>>

\* retrySendTimeout: whenever a context ends, also that of a call that is over.
Timeout(c) ==
  /\ timer[c] = "wait" /\ ctx[c] # "live"
  /\ timer' = [timer EXCEPT ![c] = "gone"]
  /\ IF ServerDone THEN UNCHANGED ctxDoneCh
     ELSE Len(ctxDoneCh) < DoneSize /\ ctxDoneCh' = Append(ctxDoneCh, IdOf(c))
  /\ UNCHANGED <<chVars, serverVars, callVars, regVars, respCh, peerVars>>

-----------------------------------------------------------------------------
(* runServer *)

\* mutant: the call is unregistered without the error of the timeout, and its channel stays open
ServerTimeoutSilent ==
  /\ server = "run" /\ ctxDoneCh # <<>>
  /\ ctxDoneCh' = Tail(ctxDoneCh)
  /\ rpcMap' = [rpcMap EXCEPT ![Head(ctxDoneCh)] = None]
  /\ UNCHANGED <<chVars, serverVars, callVars, respClosed, ctx, timer, respCh, peerVars>>

\* A timeout: the error goes into the channel if there is room, and the channel is closed.
ServerTimeout ==
  /\ server = "run" /\ ctxDoneCh # <<>>
  /\ ctxDoneCh' = Tail(ctxDoneCh)
  /\ Unregister(Head(ctxDoneCh), {})
  /\ LET c == rpcMap[Head(ctxDoneCh)]
     IN  IF c # None /\ Len(respCh[c]) < ResSize
         THEN respCh' = [respCh EXCEPT ![c] = Append(@, 0)]
         ELSE UNCHANGED respCh
  /\ UNCHANGED <<chVars, serverVars, callVars, timer, peerVars>>

\* A response: the channel of its call is looked up; nobody waits for it any more if there is none.
ServerReceives ==
  /\ server = "run" /\ inputCh # <<>>
  /\ inputCh' = Tail(inputCh)
  /\ IF rpcMap[Head(inputCh).id] = None
     THEN UNCHANGED serverVars
     ELSE server' = "deliver" /\ delivering' = Head(inputCh)
  /\ UNCHANGED <<outputCh, inputClosed, ctxDoneCh, callVars, regVars, timer, respCh, peerVars>>

\* A send on a channel that was closed after it was looked up makes runServer panic and stop.
Deliver ==
  LET c == delivering.id
  IN  /\ server = "deliver"
      /\ IF c \in respClosed
         THEN server' = "panicked" /\ UNCHANGED respCh
         ELSE /\ Len(respCh[c]) < ResSize
              /\ respCh' = [respCh EXCEPT ![c] = Append(@, delivering.num)]
              /\ server' = IF delivering.cont THEN "run" ELSE "unregister"
      /\ UNCHANGED <<chVars, ctxDoneCh, delivering, callVars, regVars, timer, peerVars>>

\* mutant: a response there is no room for is dropped, the next ones still arrive
DeliverDrops ==
  LET c == delivering.id
  IN  /\ server = "deliver" /\ c \notin respClosed /\ Len(respCh[c]) = ResSize
      /\ server' = IF delivering.cont THEN "run" ELSE "unregister"
      /\ UNCHANGED <<chVars, ctxDoneCh, delivering, callVars, regVars, timer, respCh, peerVars>>

\* The caller made no room for a second: its call is given up.
DeliverFails ==
  LET c == delivering.id
  IN  /\ server = "deliver" /\ c \notin respClosed /\ Len(respCh[c]) = ResSize
      /\ Unregister(c, {})
      /\ server' = "run"
      /\ UNCHANGED <<chVars, ctxDoneCh, delivering, callVars, timer, respCh, peerVars>>

ServerUnregisters ==
  /\ server = "unregister"
  /\ Unregister(delivering.id, {})
  /\ server' = "run"
  /\ UNCHANGED <<chVars, ctxDoneCh, delivering, callVars, timer, respCh, peerVars>>

\* The deferred end of runServer: OutputCh is closed first, then ServerDone is set and the input
\* drained.
CloseOutput ==
  /\ server \in {"run", "panicked"}
  /\ server = "run" => inputClosed /\ inputCh = <<>>
  /\ server' = "closing"
  /\ UNCHANGED <<chVars, ctxDoneCh, delivering, callVars, regVars, timer, respCh, peerVars>>

SetServerDone ==
  /\ server = "closing"
  /\ server' = "done"
  /\ inputCh' = <<>>
  /\ UNCHANGED <<outputCh, inputClosed, ctxDoneCh, delivering, callVars, regVars, timer, respCh, peerVars>>

Server ==
  \/ ServerTimeout \/ ServerReceives \/ Deliver \/ DeliverFails \/ ServerUnregisters
  \/ CloseOutput \/ SetServerDone

-----------------------------------------------------------------------------
(* The transport and the peer *)

TakeOutput ==
  /\ outputCh # <<>>
  /\ outputCh' = Tail(outputCh)
  /\ asked' = asked \cup ({Head(outputCh)} \cap Answered)
  /\ UNCHANGED <<inputCh, inputClosed, ctxDoneCh, serverVars, callVars, regVars, timer, respCh, answers,
                 last>>

\* A request gets one response; a stream any number, and a last one.
Respond(c, cont) ==
  /\ c \in asked \ last /\ ~inputClosed /\ Len(inputCh) < InSize
  /\ cont => c \in Streams /\ answers[c] < MaxResponses
  /\ inputCh' = Append(inputCh, [id |-> c, num |-> answers[c] + 1, cont |-> cont])
  /\ answers' = [answers EXCEPT ![c] = @ + 1]
  /\ last' = IF cont THEN last ELSE last \cup {c}
  /\ UNCHANGED <<outputCh, inputClosed, ctxDoneCh, serverVars, callVars, regVars, timer, respCh, asked>>

CloseInput ==
  /\ MayStop /\ ~inputClosed
  /\ inputClosed' = TRUE
  /\ UNCHANGED <<outputCh, inputCh, ctxDoneCh, serverVars, callVars, regVars, timer, respCh, peerVars>>

RpcNext ==
  \/ \E c \in Calls: Begin(c) \/ Refused(c) \/ Caller(c) \/ Expire(c) \/ Timeout(c)
  \/ Server \/ TakeOutput \/ CloseInput
  \/ \E c \in Answered, cont \in BOOLEAN: Respond(c, cont)

RpcSpec == RpcInit /\ [][RpcNext]_rpcVars

\* The goroutines of the endpoint run and contexts expire; the transport may stall and the peer
\* may never answer.
RpcFairSpec ==
  /\ RpcSpec /\ WF_rpcVars(Server)
  /\ \A c \in Calls: WF_rpcVars(Caller(c)) /\ WF_rpcVars(Expire(c)) /\ WF_rpcVars(Timeout(c))

-----------------------------------------------------------------------------
(* Properties *)

RpcTypeOK ==
  /\ outputCh \in Seq(Calls) /\ Len(outputCh) <= OutSize
  /\ Len(inputCh) <= InSize /\ inputClosed \in BOOLEAN
  /\ \A i \in DOMAIN inputCh: inputCh[i].id \in Answered /\ inputCh[i].num \in Nat
  /\ ctxDoneCh \in Seq(Ids) /\ Len(ctxDoneCh) <= DoneSize
  /\ rpcMap \in [Ids -> Calls \cup {None}]
  /\ server \in {"run", "deliver", "unregister", "panicked", "closing", "done"}
  /\ stage \in [Calls -> {"idle", "register", "sending", "next", "check", "finalize", "end"}]
  /\ result \in [Calls -> {"none", "sent", "ok", "error", "closed", "ended", "timeout", "down", "panic"}]
  /\ ctx \in [Calls -> {"live", "cancelled", "expired"}] /\ timer \in [Calls -> {"off", "wait", "gone"}]
  /\ \A c \in Calls: respCh[c] \in Seq(Nat) /\ Len(respCh[c]) <= ResSize
  /\ respClosed \subseteq Calls

\* runServer never sends on a closed response channel: closing is left to runServer (timeouts reach
\* it through CtxDoneCh) and to callers that expect nothing more.
ServerNeverPanics == server # "panicked"

\* Nobody waits on a channel out of reach: whoever waits for a response is registered under its
\* id, or something is in its channel, or the channel is closed.
WaiterIsRegistered ==
  \A c \in Answered:
    stage[c] \in {"next", "check"} => rpcMap[c] = c \/ respCh[c] # <<>> \/ c \in respClosed

\* A stream reads its responses in the order sent, without a hole, and a timeout's error last.
ResponsesInOrder ==
  \A c \in Answered: \A i \in 1 .. Len(got[c]): got[c][i] = i \/ (got[c][i] = 0 /\ i = Len(got[c]))

\* A call that began returns, whether the transport moves and the peer answers or not.
CallsReturn == \A c \in Calls: (stage[c] # "idle") ~> (stage[c] = "end")

\* ... at least as long as the transport keeps its input open.
CallsReturnWhileOpen == \A c \in Calls: (stage[c] # "idle") ~> (stage[c] = "end" \/ inputClosed)

\* A caller is told that it timed out only if its own time is up.
TimeoutMeansExpired == \A c \in Calls: result[c] = "timeout" => ctx[c] = "expired"

\* A call gets a response, an error or a refusal, but never brings its goroutine down.
NoCallerPanics == \A c \in Calls: result[c] # "panic"

\* A stream that ended without an error has read all the responses.
EndMeansComplete ==
  \A c \in Streams: result[c] = "ended" => c \in last /\ Len(got[c]) = answers[c]

\* A stream whose last response was read does not end with an error.
LastMeansEnded ==
  \A c \in Streams: result[c] = "closed" => ~(c \in last /\ Len(got[c]) = answers[c])
=============================================================================
