------------------------------- MODULE MCLink -------------------------------
(***************************************************************************)
(* A fast hop into a slow one with a small buffer: packets bunch up at the *)
(* second queue, which overflows, and events of different servers fall on  *)
(* the same time.                                                          *)
(***************************************************************************)
EXTENDS Link

MCPsPerByte == <<1, 2>>
MCMaxSize == <<6, 4>>
MCEcnThreshold == <<2, 1>>
MCDelay == <<2, 3>>
=============================================================================
