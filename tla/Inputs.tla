------------------------------- MODULE Inputs -------------------------------
(***************************************************************************)
(* Everything the gateway reads: texts, request headers, response bodies   *)
(* and configuration files.  The functions that read them keep no state    *)
(* between two inputs, so one input is made at a time.                     *)
(***************************************************************************)
EXTENDS TextProps, ParamsProps, ResponseProps, ConfigProps

vars == <<src, chunks, lines, doc, raw, pieces>>

Init == TextInit /\ ParamsInit /\ ResponseInit /\ ConfigInit

NewText == ParamsInit /\ ResponseInit /\ ConfigInit /\ TextNext /\ UNCHANGED <<lines, doc, raw, pieces>>
NewHeader == TextInit /\ ResponseInit /\ ConfigInit /\ ParamsNext /\ UNCHANGED <<src, chunks, doc, raw, pieces>>
NewBody == TextInit /\ ParamsInit /\ ConfigInit /\ ResponseNext /\ UNCHANGED <<src, chunks, lines, raw, pieces>>
NewFile == TextInit /\ ParamsInit /\ ResponseInit /\ ConfigNext /\ UNCHANGED <<src, chunks, lines, doc>>

Next == NewText \/ NewHeader \/ NewBody \/ NewFile

Spec == Init /\ [][Next]_vars
=============================================================================
