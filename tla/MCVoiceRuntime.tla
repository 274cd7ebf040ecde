--------------------------- MODULE MCVoiceRuntime ---------------------------
(* Instance of VoiceRuntime: a note of two layers, one modulated and one in  *)
(* an exclusive class, and a plain note.                                    *)
EXTENDS VoiceRuntime

MCLayers == ("chord" :> <<[exclusive |-> 0, periodic |-> {"pitch", "filter"}],
                          [exclusive |-> 1, periodic |-> {}]>>)
            @@ ("bass" :> <<[exclusive |-> 0, periodic |-> {}]>>)
=============================================================================
