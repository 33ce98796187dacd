---------------------------- MODULE MCDeployment ----------------------------
(***************************************************************************)
(* Instances of Deployment for TLC: the modules of serverless-api and      *)
(* those that differ from them in one respect.                             *)
(***************************************************************************)
EXTENDS Deployment, TLC

Declared == {[field |-> n, sig |-> Api[n]] : n \in DOMAIN Api}
Unknown  == [field |-> "other", sig |-> Api["log"]]
Narrow   == [field |-> "tcp_read", sig |-> Sig(Api["tcp_read"].params, "I32")]

Guest(f, g) ==
  [exports |-> ("f" :> f @@ "g" :> g), imports |-> {}, memory |-> "import",
   pages |-> 1, start |-> FALSE]

SomeModules ==
  {[Guest("body", "body") EXCEPT !.imports = Declared],
   Guest("body", "none"), Guest("other", "import"),
   [Guest("body", "import") EXCEPT !.imports = Declared, !.memory = "own"],
   [Guest("body", "body") EXCEPT !.imports = {Unknown}],
   [Guest("body", "body") EXCEPT !.imports = {Narrow}],
   [Guest("body", "body") EXCEPT !.pages = 101],
   [Guest("none", "body") EXCEPT !.start = TRUE]}

Complete == [key : Keys, path : Paths, function : Functions]
SomeConfigs ==
  {<<a>> : a \in [key : Keys \cup {None}, path : Paths, function : Functions \cup {None}]}
    \cup {<<>>} \cup {<<a, b>> : a, b \in Complete}

Symmetry == Permutations(Keys) \cup Permutations(Paths)

=============================================================================
