------------------------------ MODULE GinIdem -------------------------------
(***************************************************************************)
(* ginadapter/ginadapter.go: the Gin middleware, serving requests beside   *)
(* the net/http middleware over one Store.  handle takes the steps of      *)
(* ServeHTTP with three differences: its handlers write through GinWriter, *)
(* whose header may still be unsent when Finish runs; a panic leaves the   *)
(* capture in place for the Recovery above it; and rejections and replays  *)
(* are written to Gin's writer, after which the chain is aborted.          *)
(***************************************************************************)
EXTENDS HttpIdem, GinWriter

CONSTANTS GinCalls      \* the requests that Gin serves

ASSUME GinCallsAssumption == GinCalls \subseteq Call

(* Requests of matched routes: Gin holds 200 before the chain runs.  The   *)
(* 404 it holds for unmatched ones is GinCapture's and GinMirrored's.      *)
GinInit ==
    /\ Arrivals
    /\ cw = [c \in Call |-> IF c \in GinCalls THEN NewGin(StatusOK) ELSE NewCapture]

(* writeReplay, with the limit of the net/http one. *)
ginWriteReplay(c) ==
    /\ stage[c] = "begin" /\ pc[c] = "answered"
    /\ outcome[c].action = "Replay"
    /\ LET sr == captured[outcome[c].payload] IN
         \/ /\ oversized(sr)
            /\ WriteError(c, 500, "corrupted")
         \/ /\ ~oversized(sr)
            /\ send(c, GinReplay(sr))
            /\ goto(c, "done")
    /\ UNCHANGED <<coreVars, writes, herr, marked, own, captured, retry>>

GinHandlerWrite(c) ==
    \/ \E h \in Header : HandlerCall(c, GinSetHeader(cw[c], h))
    \/ \E code \in Statuses : HandlerCall(c, GinWriteHeader(cw[c], code))
    \/ HandlerCall(c, GinWrite(cw[c], 1))
    \/ HandlerCall(c, GinWriteHeaderNow(cw[c]))
    \/ HandlerCall(c, GinFlush(cw[c]))
    \/ HandlerCall(c, GinHijack(cw[c]))

(* The transactional join, written through Gin. *)
GinCompleteItself(c) ==
    /\ Join(c)
    /\ cw' = [cw EXCEPT ![c] =
          CASE own'[c] = "lost" -> GinWriteHeader(@, 409)
            [] own'[c] = "failed" -> GinWriteHeader(@, 500)
            [] OTHER -> @]

ginLastWrites(c) ==
    IF own[c] = "committed"
    THEN GinWrite(GinWriteHeader([cw[c] EXCEPT !.header = allow], ownResponse.status),
                  ownResponse.body)
    ELSE cw[c]

(* Mutant: no finalize after c.Next. *)
GinReturnUnfinished(c) ==
    /\ stage[c] = "handler"
    /\ cw' = [cw EXCEPT ![c] = ginLastWrites(c)]
    /\ goto(c, "returned")
    /\ writes' = [writes EXCEPT ![c] = 0]
    /\ UNCHANGED <<coreVars, herr, marked, own, captured, retry>>

(* c.Next returns; a header nobody sent stays unsent for now. *)
GinReturn(c) ==
    /\ stage[c] = "handler"
    /\ cw' = [cw EXCEPT ![c] = GinFinalize(ginLastWrites(c))]
    /\ goto(c, "returned")
    /\ writes' = [writes EXCEPT ![c] = 0]
    /\ UNCHANGED <<coreVars, herr, marked, own, captured, retry>>

(* Gin's Recovery answers 500 through the capture, which is still there.   *)
Recover(c) ==
    /\ stage[c] = "aborted" /\ ~cw[c].written
    /\ cw' = [cw EXCEPT ![c] = GinWriteHeaderNow(GinWriteHeader(@, 500))]
    /\ UNCHANGED <<coreVars, stage, writes, herr, marked, own, captured, retry>>

(* handle has returned: the engine sends what is not sent. *)
EngineSend(c) ==
    /\ stage[c] = "done" /\ outcome[c].action = "Proceed" /\ ~cw[c].written
    /\ cw' = [cw EXCEPT ![c] = ginServed(@)]
    /\ UNCHANGED <<coreVars, stage, writes, herr, marked, own, captured, retry>>

GinServe(c) ==
    \/ Receive(c)
    \/ BeginRun(c) \/ Refuse(c) \/ ginWriteReplay(c)
    \/ RunDirect(c) \/ GinHandlerWrite(c) \/ GinCompleteItself(c)
    \/ \E err \in Errors : SetError(c, err)
    \/ GinReturn(c) \/ Panic(c) \/ Settle(c)
    \/ Recover(c) \/ EngineSend(c)

GinNext ==
    \/ \E c \in GinCalls : GinServe(c) \/ Die(c)
    \/ \E c \in Call \ GinCalls : Serve(c) \/ Die(c)
    \/ Background

GinSpec == GinInit /\ [][GinNext]_allVars

(* As in HttpIdem: goroutines run and handlers return. *)
GinProgress(c) ==
    \/ BeginRun(c) \/ Refuse(c) \/ ginWriteReplay(c)
    \/ RunDirect(c) \/ GinReturn(c) \/ Settle(c) \/ EngineSend(c)

GinFairSpec ==
    /\ GinSpec
    /\ \A c \in GinCalls : WF_allVars(GinProgress(c))
    /\ \A c \in Call \ GinCalls : WF_allVars(Progress(c))

-----------------------------------------------------------------------------
(* Properties: those of HttpIdem, for requests of both kinds *)

(* The capture of a Gin request.  Its snapshot is what was stored; it is   *)
(* on the wire when the header is.                                         *)
GinCaptured(c) ==
    /\ Untouched(c) => cw[c] = NewGin(StatusOK)
    /\ outcome[c].action = "Proceed" /\ stage[c] # "aborted" =>
          /\ GinGood(cw[c], StatusOK)
          /\ Statuses \cap Informational = {} => cw[c].status \notin Informational
    /\ stage[c] = "handler" => GinOpen(cw[c])
    /\ outcome[c].action = "Proceed" /\ stage[c] \in {"returned", "unsettled", "done"}
          => cw[c].snapshotted
    /\ Judged(c)
    /\ Delivered(c) => Storable(cw[c].rec) /\ captured[c] = StoredResponse(cw[c].rec)
    /\ LET p == outcome[c].payload
       IN  Replayed(c) /\ own[p] # "failed" => cw[c].wire = GinReplay(captured[p])

(* The inductive invariant. *)
GinInv ==
    /\ MiddlewareInv
    /\ \A c \in GinCalls : GinCaptured(c)
    /\ \A c \in Call \ GinCalls : Captured(c)

=============================================================================
