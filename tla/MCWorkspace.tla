---------------------------- MODULE MCWorkspace -----------------------------
(* Instances of Workspace for TLC. *)
EXTENDS Workspace, TLC

Symmetry == Permutations(Cmds)

NameParts == {"", "a", "txt", "msg", "enc", "dec"}

\* Two documents, one of which is the other without its suffix.
TwoDocuments == {<<"a">>, <<"a", "txt">>}
OneDocument  == {<<"a">>}

\* Packets that came under a name without a suffix, or as the .dec of another.
Bare == {<<"msg">>}
Dec  == {<<"msg", "dec">>}
=============================================================================
