\* Two dotfiles that may be directories, and a bin file.
SPECIFICATION Spec
CONSTANTS
  DotNames <- MCDotNames
  BinNames <- MCBinNames
  SymlinkNames <- MCSymlinkNames
  CygwinNames <- MCCygwinNames
  Dirs = {"minttyrc", "vim"}
  MaxRuns = 2
  MaxWrites = 2
  MaxMinutes = 2
INVARIANTS
  NothingLost
  InstallComplete
CHECK_DEADLOCK FALSE
