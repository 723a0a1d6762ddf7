--------------------------- MODULE MCFileWatcher ---------------------------
(***************************************************************************)
(* A small workspace: a file in the root, a directory with a file, and a   *)
(* directory excluded by name with a file.                                 *)
(***************************************************************************)
EXTENDS FileWatcher

CONSTANTS root, src, target, rootFile, srcFile, targetFile

MCParent ==
  [p \in Paths \ {root} |->
     CASE p = srcFile -> src
       [] p = targetFile -> target
       [] OTHER -> root]

MCChain ==
  [p \in Paths |->
     CASE p = root -> {}
       [] p = srcFile -> {src, srcFile}
       [] p = targetFile -> {target, targetFile}
       [] OTHER -> {p}]
=============================================================================
