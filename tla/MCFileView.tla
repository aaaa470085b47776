----------------------------- MODULE MCFileView -----------------------------
(* Instances of FileView for TLC.                                          *)
EXTENDS FileView

\* Names 1 and 2: a directory with a directory and a file in it, and a file.
SmallDisk ==
  (<<1>> :> "dir" @@ <<1, 1>> :> "dir" @@ <<1, 2>> :> "file" @@ <<2>> :> "file")
=============================================================================
