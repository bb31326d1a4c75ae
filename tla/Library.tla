------------------------------ MODULE Library ------------------------------
(***************************************************************************)
(* The parts of the kernel that nothing in it calls yet, each on its own:  *)
(* pages given back to the page list (free_page has no caller), and the    *)
(* files and the two caches of fs/, which the Makefile does not link.  A   *)
(* behaviour picks one of them by its first step and stays with it.        *)
(***************************************************************************)
EXTENDS Pages, FileSystem, BlockCache, InodeCache

LibraryInit == PagesInit /\ FilesInit /\ BlocksInit /\ InodesInit

LibraryNext ==
  \/ /\ FilesInit /\ BlocksInit /\ InodesInit
     /\ PagesNext
     /\ UNCHANGED <<filesVars, blockVars, inodeVars>>
  \/ /\ PagesInit /\ BlocksInit /\ InodesInit
     /\ FilesNext
     /\ UNCHANGED <<pageVars, blockVars, inodeVars>>
  \/ /\ PagesInit /\ FilesInit /\ InodesInit
     /\ BlocksNext
     /\ UNCHANGED <<pageVars, filesVars, inodeVars>>
  \/ /\ PagesInit /\ FilesInit /\ BlocksInit
     /\ InodesNext
     /\ UNCHANGED <<pageVars, filesVars, blockVars>>

LibrarySpec == LibraryInit /\ [][LibraryNext]_<<pageVars, filesVars, blockVars, inodeVars>>

\* Each part has its types.
LibraryTypeOK == PageTypeOK /\ FilesTypeOK /\ BlocksTypeOK /\ InodesTypeOK
=============================================================================
