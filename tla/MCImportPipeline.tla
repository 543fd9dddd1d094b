-------------------------- MODULE MCImportPipeline --------------------------
(***************************************************************************)
(* Instances of ImportPipeline for TLC.                                    *)
(***************************************************************************)
EXTENDS ImportPipeline
CONSTANTS img, txt
OneJob    == {img}
ImageText == {img, txt}
OnlyText  == {txt}
OneSlot   == [q \in Queues |-> 1]
=============================================================================
