------------------------------ MODULE MCDotfiles -------------------------------
(* Dotfiles for TLC.                                                       *)
EXTENDS Dotfiles

MCDotNames == <<"minttyrc", "vim">>
MCBinNames == <<"st">>
MCSymlinkNames == <<"vim", "st">>
MCCygwinNames == <<"minttyrc">>

=============================================================================
