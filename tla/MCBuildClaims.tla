---------------------------- MODULE MCBuildClaims ----------------------------
(* A build of the directory dist, which also names a file in it, and one of  *)
(* that file and of a page overlap; either may extend its claims to the      *)
(* other's.  Two files of which one would be below the other cannot be.      *)
EXTENDS BuildClaims, TLC

Tree(p) == [path |-> p, kind |-> "tree"]
File(p) == [path |-> p, kind |-> "file"]

DistInside == {<<"dist", "dist/app.js">>}
Lists == {<<File("dist/app.js"), Tree("dist")>>,
          <<File("dist/app.js"), File("page")>>,
          <<File("dist"), File("dist/app.js")>>}

BuildSymmetry == Permutations(Builds)
=============================================================================
