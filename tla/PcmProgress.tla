---------------------------- MODULE PcmProgress -----------------------------
(***************************************************************************)
(* What a PCM stream promises about the progress it reports                *)
(* (lib_audio_pcm_progress in src/lib/audio/pcm/stream_interface.h):       *)
(* within an epoch consumed <= submitted <= accepted and no count ever     *)
(* decreases; only a clear begins a new epoch, with every count at zero.   *)
(***************************************************************************)
EXTENDS Naturals

VARIABLES epoch, accepted, submitted, consumed

progress == <<epoch, accepted, submitted, consumed>>

Init == progress = <<0, 0, 0, 0>>

\* The producer hands over more frames.
Accept ==
    /\ accepted' > accepted
    /\ UNCHANGED <<epoch, submitted, consumed>>

\* The backend takes and plays frames it was given.
Advance ==
    /\ submitted' >= submitted /\ submitted' <= accepted
    /\ consumed' >= consumed /\ consumed' <= submitted'
    /\ UNCHANGED <<epoch, accepted>>

Clear == progress' = <<epoch + 1, 0, 0, 0>>

Next == Accept \/ Advance \/ Clear

Spec == Init /\ [][Next]_progress
=============================================================================
