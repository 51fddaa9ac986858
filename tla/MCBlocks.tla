------------------------------ MODULE MCBlocks ------------------------------
(***************************************************************************)
(* The sequential parts of the adapters for TLC: the two captures, the key *)
(* grammar with the fingerprint, and the payload codecs.  They share no    *)
(* state; a behaviour exercises one of them and leaves the others as they  *)
(* are.                                                                    *)
(***************************************************************************)
EXTENDS Capture, GinCapture, KeyGrammar, Codec

captureIdle == calls = 0 /\ phase = "running"

ginIdle == gcalls = 0 /\ gphase = "chain"

keysIdle == header = <<>> /\ request = <<>>

codecIdle == sr = <<>> /\ msg = <<>>

BlocksInit == Init /\ GinInit /\ KeyInit /\ CodecInit

BlocksNext ==
    \/ /\ ginIdle /\ keysIdle /\ codecIdle
       /\ Next
       /\ UNCHANGED <<ginVars, keyVars, codecVars>>
    \/ /\ captureIdle /\ keysIdle /\ codecIdle
       /\ GinNext
       /\ UNCHANGED <<vars, keyVars, codecVars>>
    \/ /\ captureIdle /\ ginIdle /\ codecIdle
       /\ KeyNext
       /\ UNCHANGED <<vars, ginVars, codecVars>>
    \/ /\ captureIdle /\ ginIdle /\ keysIdle
       /\ CodecNext
       /\ UNCHANGED <<vars, ginVars, keyVars>>

BlocksSpec == BlocksInit /\ [][BlocksNext]_<<vars, ginVars, keyVars, codecVars>>

=============================================================================
