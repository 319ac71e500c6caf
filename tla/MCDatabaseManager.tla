------------------------- MODULE MCDatabaseManager -------------------------
(* The default database, one database under the root with two spellings, a *)
(* name that is no path segment, and the literal name "default".           *)
EXTENDS DatabaseManager

CONSTANTS docs, docsPadded, spaces, dotdot, default, rootDocs, rootDefault, defaultPath, blank

MCNames == {None, docs, docsPadded, spaces, dotdot}
MCNamesWithDefault == MCNames \cup {default}

MCTrim ==
  [n \in Names \ {None} |-> CASE n = docsPadded -> docs
                              [] n = spaces -> blank
                              [] OTHER -> n]
MCJoin == [n \in {docs, default} |-> IF n = docs THEN rootDocs ELSE rootDefault]
=============================================================================
