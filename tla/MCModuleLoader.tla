--------------------------- MODULE MCModuleLoader ---------------------------
(***************************************************************************)
(* Instances of ModuleLoader for TLC.                                      *)
(***************************************************************************)
EXTENDS ModuleLoader, TLC

CONSTANTS main, reader, csv, pkg

\* A project file and two files of a package.
FileDef == {main, reader, csv}

HomeDef == (main :> Local) @@ (reader :> pkg) @@ (csv :> pkg)
=============================================================================
