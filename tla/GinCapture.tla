----------------------------- MODULE GinCapture -----------------------------
(***************************************************************************)
(* One response of the Gin adapter: the handlers behind the adapter call   *)
(* their writer in any order, the adapter takes its snapshot, the          *)
(* middlewares before the adapter may still write, then the engine sends   *)
(* whatever has not been sent.                                             *)
(***************************************************************************)
EXTENDS GinWriter

CONSTANTS
    GinStatuses,        \* the statuses handlers write
    Presets,            \* the status Gin starts with: 200, or 404 when no route
                        \* matched and the chain runs for NoRoute
    MaxGinCalls         \* bound: calls on the writer

ASSUME GinAssumption ==
    /\ GinStatuses \subseteq Informational \cup 200 .. 999
    /\ Presets \subseteq 200 .. 999
    /\ MaxGinCalls \in Nat

VARIABLES g,            \* the writer
          gcalls,       \* calls made on it
          gphase,       \* "chain", "outer" once finalize ran, "sent"
          preset,       \* history: the status Gin started with
          early,        \* history: the header was out when finalize ran
          outer         \* history: an outer middleware has changed something

ginVars == <<g, gcalls, gphase, preset, early, outer>>

GinInit ==
    /\ preset \in Presets
    /\ g = NewGin(preset)
    /\ gcalls = 0
    /\ gphase = "chain"
    /\ early = FALSE
    /\ outer = FALSE

(* A call of a handler behind the adapter, through the captureWriter. *)
GinCall(w) ==
    /\ gphase = "chain"
    /\ gcalls < MaxGinCalls
    /\ g' = w
    /\ gcalls' = gcalls + 1
    /\ UNCHANGED <<gphase, preset, early, outer>>

(* c.Next returns: finalize, and c.Writer is the original one again. *)
GinReturn ==
    /\ gphase = "chain"
    /\ g' = GinFinalize(g)
    /\ gphase' = "outer"
    /\ early' = g.written
    /\ UNCHANGED <<gcalls, preset, outer>>

(* A middleware before the adapter writes after it. *)
OuterCall(w) ==
    /\ gphase = "outer"
    /\ gcalls < MaxGinCalls
    /\ g' = w
    /\ gcalls' = gcalls + 1
    /\ outer' = TRUE
    /\ UNCHANGED <<gphase, preset, early>>

(* The engine sends the header if nobody did. *)
GinSend ==
    /\ gphase = "outer"
    /\ g' = ginServed(g)
    /\ gphase' = "sent"
    /\ UNCHANGED <<gcalls, preset, early, outer>>

GinNext ==
    \/ \E h \in Header : GinCall(GinSetHeader(g, h)) \/ GinCall(GinDelHeader(g, h))
    \/ \E code \in GinStatuses : GinCall(GinWriteHeader(g, code))
    \/ \E n \in {1, MaxResponseBody} : GinCall(GinWrite(g, n))
    \/ GinCall(GinWriteHeaderNow(g))
    \/ GinCall(GinFlush(g))
    \/ GinCall(GinHijack(g))
    \/ GinReturn
    \/ \E h \in Header : OuterCall(GinSetHeader(g, h))
    \/ \E code \in GinStatuses : OuterCall(ginWriteHeader(g, code))
    \/ OuterCall(ginWrite(g, 1))
    \/ GinSend

GinSpec == GinInit /\ [][GinNext]_ginVars

-----------------------------------------------------------------------------
sameHead ==
    LET replayed == GinReplay(StoredResponse(g.rec)) IN
    /\ replayed.status = g.wire.status
    /\ replayed.header = g.wire.header \cap allow

(* What a retry gets from the replay of a Gin response is what the first   *)
(* client got: status and allowed headers when the header was sent by the  *)
(* handlers or nobody touched it after them, and the body when nobody      *)
(* added to it.  Left out are chains that never set a status where Gin had *)
(* set one for them, and chains that leave a 1xx as their status, of which *)
(* Gin keeps no other.                                                     *)
GinFaithful ==
    /\ gphase = "sent"
    /\ Storable(g.rec)
    /\ g.status \notin Informational
    /\ g.pending # 0 \/ preset = StatusOK
    => /\ early \/ ~outer => sameHead
       /\ ~outer => GinReplay(StoredResponse(g.rec)).body = g.wire.body

(* The snapshot is taken "at the first body write (or finalize), mirroring *)
(* the moment Gin itself freezes the headers" (ginadapter.go): the stored  *)
(* status and headers are the ones Gin sends.                              *)
GinMirrored == gphase = "sent" /\ Storable(g.rec) => sameHead

(* The inductive strengthening of GinFaithful: until a middleware outside  *)
(* the adapter writes, Gin and the Recorder are in step, and after that    *)
(* what was sent before it stays sent.                                     *)
GinInv ==
    /\ gphase \in {"chain", "outer", "sent"}
    /\ preset \in 200 .. 999 /\ early \in BOOLEAN /\ outer \in BOOLEAN
    /\ g \in GinWriters
    /\ gphase = "chain" => ~outer /\ ~early /\ GinOpen(g)
    /\ gphase # "chain" => g.snapshotted
    /\ gphase = "sent" => g.written
    /\ early => g.written
    /\ ~outer => GinSynced(g, preset)
    /\ outer /\ early /\ ~g.rec.abandoned =>
          /\ g.rec.status = noted(g, StatusOK)
          /\ g.status \in Informational \/ g.status = noted(g, preset)
          /\ g.status \notin Informational =>
                g.wire.status = g.status /\ g.rec.header = g.wire.header \cap allow

=============================================================================
