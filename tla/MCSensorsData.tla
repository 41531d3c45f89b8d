--------------------------- MODULE MCSensorsData ---------------------------
(* Instances of SensorsData for TLC.                                       *)
EXTENDS SensorsData, TLC

CONSTANTS s1, s2, s3

\* s1 is defined after s2, s3 is not defined.
MCDefinition == s1 :> 2 @@ s2 :> 1 @@ s3 :> 0
=============================================================================
