--------------------------- MODULE MCProgramLoad ---------------------------
(* Two descriptors, so that the table fills up, and thirteen objects: with *)
(* the ten that two loads of ELF files take there is room for a third load *)
(* to get half way, and the heap runs out at every step of one.            *)
EXTENDS ProgramLoad
=============================================================================
