-------------------------- MODULE MCStandaloneOutput --------------------------
(* The output, its source map and a stylesheet: the builds add and retire    *)
(* each, so that files are replaced, installed afresh and only removed.      *)
EXTENDS StandaloneOutput

Emitted ==
  [b \in 0 .. 4 |->
     CASE b = 0 -> {"main.js", "main.js.map"}
       [] b = 1 -> {"main.js", "main.css"}
       [] b = 2 -> {"main.js", "main.js.map", "main.css"}
       [] b = 3 -> {"main.js"}
       [] b = 4 -> {"main.js", "main.js.map"}]
Sorted ==
  [t \in {"main.css", "main.js", "main.js.map"} |->
     CASE t = "main.css" -> 1 [] t = "main.js" -> 2 [] t = "main.js.map" -> 3]
=============================================================================
