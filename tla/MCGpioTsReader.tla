--------------------------- MODULE MCGpioTsReader ---------------------------
(* Instances of GpioTsReader for TLC.                                      *)
EXTENDS GpioTsReader
=============================================================================
