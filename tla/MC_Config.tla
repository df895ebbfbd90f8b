----------------------------- MODULE MC_Config -----------------------------
EXTENDS Config

\* Option tables that between them reach every arm of the mapping switch
\* and of the resolver: a file name, a file list and a double with
\* storage; a string and a flag without storage; an integer followed by
\* an arg kind the switch does not handle; a file list without storage.
MCTables ==
    { << [arg |-> "FILENAME", data |-> TRUE],
         [arg |-> "FILENAME_ARRAY", data |-> TRUE],
         [arg |-> "DOUBLE", data |-> TRUE] >>,
      << [arg |-> "STRING", data |-> FALSE],
         [arg |-> "NONE", data |-> FALSE] >>,
      << [arg |-> "INT", data |-> TRUE],
         [arg |-> "CALLBACK", data |-> TRUE] >>,
      << [arg |-> "STRING_ARRAY", data |-> TRUE],
         [arg |-> "FILENAME_ARRAY", data |-> FALSE] >> }

\* Every string over '/' and one letter, up to three characters.
MCPathStrings == UNION {[1..n -> {"/", "a"}] : n \in 1..3}
=============================================================================
