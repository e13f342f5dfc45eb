-------------------------------- MODULE MCFs --------------------------------
(* Small instances of Fs: the superblock, one bitmap block, two directory   *)
(* blocks and a few blocks for two files.                                   *)
EXTENDS Fs, TLC
CONSTANTS fileA, fileB
TwoDirBlks == (fileA :> 3 @@ fileB :> 4)
=============================================================================
