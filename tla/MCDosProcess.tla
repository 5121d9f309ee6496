---------------------------- MODULE MCDosProcess -----------------------------
(***************************************************************************)
(* An instance of DosProcess for TLC: room for two blocks of a program     *)
(* beside its own, programs that fit, that end in the video memory of some *)
(* machines and that are too large for any, fix-ups in the image and       *)
(* elsewhere, and a table of descriptors that is full at the start.        *)
(***************************************************************************)
EXTENDS DosProcess

MCLengths    == {0, 24}
MCPointers   == {48, 112, 128}
MCEnvSizes   == {16, 24}
MCImageSizes == {32, 64, 160}
MCFixups     == {0, 46, 92}

(* Nothing, video memory right behind main memory, and behind a hole.      *)
MCMapsBehind == {{}, 176 .. 239, 208 .. 239}

(* All but what the calls returned, which no later step looks at.          *)
View == <<blocks, table, held, files, hostOpen, pc, procVars>>
==============================================================================
