-------------------------------- MODULE MCRbac --------------------------------
(* Instances of Rbac for TLC: one built-in role besides admin, which reads    *)
(* and is the identity of every user, a permission for other roles to give,  *)
(* scopes for everything and for one namespace of one cluster.               *)
EXTENDS Rbac, TLC

CONSTANTS Viewer, Read, Write, K1, N1

ViewerSeeds == [r \in Builtin |-> {Read}]
JustWrite == {{Write}}
Everyone == [u \in Users |-> Viewer]
Wide == [cluster |-> Wild, namespace |-> Wild]
Narrow == [cluster |-> K1, namespace |-> N1]
Everywhere == {Wide}
Lists == {{Wide}, {Narrow}, {}}
OldBindings == Groups \X Builtin

Symmetry == Permutations(Calls)
===============================================================================
