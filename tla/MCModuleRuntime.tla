--------------------------- MODULE MCModuleRuntime ---------------------------
(* Small instances of ModuleRuntime. *)
EXTENDS ModuleRuntime, TLC

PartBodies == {<<>>, <<1>>}
=============================================================================
