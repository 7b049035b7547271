---------------------------- MODULE MCInstaller -----------------------------
(***************************************************************************)
(* Finite instances of Installer: version 2 adds a package file in a       *)
(* directory w, which may also be a file of the user.                      *)
(***************************************************************************)
EXTENDS Installer

TwoVersions == [v1 |-> {"a"}, v2 |-> {"a", "b"}]
InW == {<<"w", "b">>}
=============================================================================
