-------------------------------- MODULE MCFiles --------------------------------
(* File access with two names in one directory, files that fit or do not,  *)
(* and inodes for two names, an upload and the rest of one that was cut off.*)
EXTENDS Files
=============================================================================
