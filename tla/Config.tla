------------------------------ MODULE Config -------------------------------
(***************************************************************************)
(* Configuration (chassis-keyfile.c, chassis-path.c): the base directory  *)
(* derived from argv[0], the options of the config file's group mapped    *)
(* onto the option table after the command line was parsed, and the      *)
(* relative filenames among them resolved against the base directory.     *)
(*                                                                         *)
(* A string value is abstracted to where it came from and whether it is   *)
(* an absolute path; whitespace, the text and the file's syntax are left  *)
(* out.  Scalars are abstracted to where their value came from.           *)
(***************************************************************************)
EXTENDS Integers, Sequences, FiniteSets, SequencesExt

CONSTANTS
    Tables,      \* the option tables the program may pass: sequences of
                 \* [arg |-> kind, data |-> whether arg_data is non-NULL]
    MaxArray,    \* bound on the length of a string list
    PathStrings  \* the path strings chassis_path_string_is_parent_of is checked on

StringKinds == {"STRING", "FILENAME"}
ArrayKinds  == {"STRING_ARRAY", "FILENAME_ARRAY"}
ScalarKinds == {"NONE", "INT", "DOUBLE"}
Kinds       == StringKinds \cup ArrayKinds \cup ScalarKinds \cup {"CALLBACK"}

ASSUME Tables \subseteq Seq([arg : Kinds, data : BOOLEAN])

\* An option's value: where it came from ("null" and "default" before any
\* source set it, "absent" and "invalid" for a key g_key_file_get_* could
\* not return) and its path strings, one for a string, one or more for a
\* list, none for a scalar.  A path string records whether
\* g_path_is_absolute holds and whether chassis_resolve_path rebuilt it.
Sources == {"null", "default", "cmd", "key", "garbled", "absent", "invalid"}
Path    == [abs : BOOLEAN, based : BOOLEAN]
Value(src, ps) == [src |-> src, paths |-> ps]
Lists(lo, hi) == UNION {[1..n -> [abs : BOOLEAN, based : {FALSE}]] : n \in lo..hi}
Given(src, lo, hi) == {Value(src, ps) : ps \in Lists(lo, hi)}

\* What the command line can have left in an entry's arg_data.
CmdValues(k) ==
    CASE k \in StringKinds -> {Value("null", <<>>)} \cup Given("cmd", 1, 1)
      [] k \in ArrayKinds  -> {Value("null", <<>>)} \cup Given("cmd", 1, MaxArray)
      [] k \in ScalarKinds -> {Value("default", <<>>), Value("cmd", <<>>)}
      [] OTHER             -> {Value("default", <<>>)}

\* What g_key_file_get_* returns for an entry's key: the key is missing,
\* its value does not parse (G_KEY_FILE_ERROR_INVALID_VALUE), or a value.
KeyValues(k) ==
    {Value("absent", <<>>), Value("invalid", <<>>)} \cup
        CASE k \in StringKinds -> Given("key", 1, 1)
          [] k \in ArrayKinds  -> Given("key", 1, MaxArray)
          [] OTHER             -> {Value("key", <<>>)}

Phases == {"start", "cmdline", "mapping", "mapped", "resolved",
           "failed", "crashed", "aborted"}

VARIABLES
    table,   \* the GOptionEntry array
    phase,   \* where startup is
    base,    \* base_dir: "none" (NULL), or the directory it names
    opts,    \* opts[i]: what entry i's arg_data holds
    i        \* the loop index of chassis_keyfile_to_options_with_error

vars == <<table, phase, base, opts, i>>

Values == [src : Sources, paths : UNION {[1..n -> Path] : n \in 0..MaxArray}]

Entries == DOMAIN table

TypeOK ==
    /\ table \in Tables
    /\ phase \in Phases
    /\ base \in {"unset", "none", "binary", "other"}
    /\ opts \in [Entries -> Values]
    /\ i \in 1..Len(table) + 1
    /\ phase = "mapping" => i <= Len(table)

\* Every arg_data contents the command line can leave for a table.
RECURSIVE CmdLines(_)
CmdLines(t) ==
    IF t = <<>> THEN {<<>>}
    ELSE {<<v>> \o r : v \in CmdValues(Head(t).arg), r \in CmdLines(Tail(t))}

\* g_option_context_parse has filled the table from the command line.
Init ==
    /\ table \in Tables
    /\ phase = "start"
    /\ base = "unset"
    /\ opts \in CmdLines(table)
    /\ i = 1

-----------------------------------------------------------------------------
(***************************************************************************)
(* chassis_get_basedir: an absolute argv[0] is taken as is; otherwise     *)
(* g_find_program_in_path looks it up (not found: NULL).  A relative      *)
(* result is replaced by cwd + argv[0], which names the binary only when  *)
(* argv[0] held the relative path itself, not when a relative PATH entry  *)
(* found it.  realpath (failure: NULL) and two dirnames follow.           *)
(***************************************************************************)
GetBasedir ==
    /\ phase = "start"
    /\ \E prg \in {"absolute", "with_slash", "bare"},
          found \in {"none", "absolute", "relative"},
          realpathOk \in BOOLEAN :
          LET target ==
                CASE prg = "absolute"                         -> "binary"
                  [] found = "none"                           -> "none"
                  [] found = "absolute"                       -> "binary"
                  [] prg = "with_slash"                       -> "binary"
                  [] OTHER                                    -> "other"
          IN  /\ prg = "absolute" => found = "none"
              /\ prg = "with_slash" => found # "absolute"
              /\ base' = IF target = "none" \/ ~realpathOk THEN "none" ELSE target
    /\ phase' = "cmdline"
    /\ UNCHANGED <<table, opts, i>>

(***************************************************************************)
(* chassis_keyfile_to_options_with_error, its entry checks: a NULL        *)
(* keyfile is an error, a missing group maps nothing and succeeds.        *)
(***************************************************************************)
StartMapping ==
    /\ phase = "cmdline"
    /\ \/ phase' = "failed"                         \* keyfile == NULL
       \/ phase' = "mapped"                         \* no such group
       \/ phase' = IF Len(table) = 0 THEN "mapped" ELSE "mapping"
    /\ UNCHANGED <<table, base, opts, i>>

\* What the switch stores for a value the keyfile returned: strings and
\* lists as they are (g_strchomp, g_strstrip only trim blanks), booleans
\* and integers as they are, a double through a gint * into the gdouble.
Stored(k, kv) == IF k = "DOUBLE" THEN [kv EXCEPT !.src = "garbled"] ELSE kv

\* The entry's "is this option set already" test, for string kinds only.
Skipped(j) ==
    /\ table[j].arg \in StringKinds \cup ArrayKinds
    /\ (~table[j].data \/ opts[j].src # "null")

(***************************************************************************)
(* One pass of the for loop over config_entries.  A string entry already  *)
(* set (or without storage) is left alone; every other kind is read and   *)
(* stored whatever the command line put there.  A missing key is ignored; *)
(* any other GError is propagated and ends the loop; an arg kind the      *)
(* switch does not know is g_error, which aborts the process.             *)
(***************************************************************************)
\* The for loop's i++ and its test of the next entry's long_name.
\* Mutant: the test reads one entry past the end.
NextEntryPastEnd ==
    /\ i' = i + 1
    /\ phase' = IF i > Len(table) THEN "mapped" ELSE "mapping"

NextEntry ==
    /\ i' = i + 1
    /\ phase' = IF i = Len(table) THEN "mapped" ELSE "mapping"

MapEntry ==
    /\ phase = "mapping"
    /\ LET k == table[i].arg IN
       \/ /\ k = "CALLBACK"
          /\ phase' = "aborted"
          /\ UNCHANGED <<opts, i>>
       \/ /\ k # "CALLBACK" /\ Skipped(i)
          /\ NextEntry
          /\ UNCHANGED opts
       \/ /\ k # "CALLBACK" /\ ~Skipped(i)
          /\ \E kv \in KeyValues(k) :
                CASE kv.src = "invalid" ->
                          phase' = "failed" /\ UNCHANGED <<opts, i>>
                      [] kv.src # "absent" /\ ~table[i].data ->   \* *(gint *)NULL = ...
                          phase' = "crashed" /\ UNCHANGED <<opts, i>>
                      [] OTHER ->
                          /\ opts' = IF kv.src = "absent" THEN opts
                                     ELSE [opts EXCEPT ![i] = Stored(k, kv)]
                          /\ NextEntry
    /\ UNCHANGED <<table, base>>

(***************************************************************************)
(* chassis_resolve_path: nothing without a base_dir or a string, nothing  *)
(* for an absolute path; otherwise base_dir "/" filename.                  *)
(***************************************************************************)
ResolvePath(p) ==
    IF base = "none" \/ p.abs THEN p ELSE [abs |-> TRUE, based |-> TRUE]

\* Every path string of a value through chassis_resolve_path (none for NULL).
ResolveAll(v) == [v EXCEPT !.paths = [n \in DOMAIN v.paths |-> ResolvePath(v.paths[n])]]

\* The FILENAME_ARRAY case reads *data without testing data for NULL.
ArrayDerefsNull == \E j \in Entries : table[j].arg = "FILENAME_ARRAY" /\ ~table[j].data

\* Mutant: the FILENAME_ARRAY case is missing from the switch.
ResolveFilenamesOnly ==
    /\ phase = "mapped"
    /\ phase' = "resolved"
    /\ opts' = [j \in Entries |->
                  IF table[j].arg = "FILENAME" THEN ResolveAll(opts[j]) ELSE opts[j]]
    /\ UNCHANGED <<table, base, i>>

(***************************************************************************)
(* chassis_keyfile_resolve_path, run once the file is mapped: every       *)
(* FILENAME entry and every member of a FILENAME_ARRAY entry goes through *)
(* chassis_resolve_path.                                                   *)
(***************************************************************************)
Resolve ==
    /\ phase = "mapped"
    /\ phase' = IF ArrayDerefsNull THEN "crashed" ELSE "resolved"
    /\ opts' = IF ArrayDerefsNull THEN opts
              ELSE [j \in Entries |->
                      IF table[j].arg \in {"FILENAME", "FILENAME_ARRAY"}
                      THEN ResolveAll(opts[j]) ELSE opts[j]]
    /\ UNCHANGED <<table, base, i>>

Next == GetBasedir \/ StartMapping \/ MapEntry \/ Resolve

Spec == Init /\ [][Next]_vars

-----------------------------------------------------------------------------
(***************************************************************************)
(* chassis_path_string_is_parent_of on C strings as sequences of chars.   *)
(* A parent not ending in '/' gets one appended before the strncmp, so     *)
(* that /foo/bar is not taken for a parent of /foo/bar-foo.                *)
(***************************************************************************)
\* Mutant: the separator is not appended; strncmp over parent_len only.
IsParentOfNoSeparator(p, c) ==
    /\ Len(c) >= Len(p) /\ Len(p) > 0
    /\ \/ p = <<"/">>
       \/ SubSeq(c, 1, Len(p)) = p

IsParentOf(p, c) ==
    /\ Len(c) >= Len(p) /\ Len(p) > 0
    /\ \/ p = <<"/">>
       \/ /\ p[Len(p)] # "/"
          /\ Len(c) > Len(p) /\ SubSeq(c, 1, Len(p) + 1) = Append(p, "/")
       \/ p[Len(p)] = "/" /\ SubSeq(c, 1, Len(p)) = p

\* The reference: the '/'-separated components of a path, empty ones dropped.
RECURSIVE Components(_, _)
Components(s, cur) ==
    IF s = <<>> THEN IF cur = <<>> THEN <<>> ELSE <<cur>>
    ELSE IF Head(s) # "/" THEN Components(Tail(s), Append(cur, Head(s)))
    ELSE IF cur = <<>> THEN Components(Tail(s), <<>>)
    ELSE <<cur>> \o Components(Tail(s), <<>>)

\* c names p or a path below it: both absolute or both relative, and p's
\* components begin c's.
InSubtree(p, c) ==
    /\ (p[1] = "/") = (c[1] = "/")
    /\ IsPrefix(Components(p, <<>>), Components(c, <<>>))

-----------------------------------------------------------------------------
\* After startup, every FILENAME option and every member of a FILENAME_ARRAY
\* option, whether the command line or the config file set it, is an
\* absolute path whenever chassis_get_basedir found a base directory.
FilenamesAbsolute ==
    phase = "resolved" /\ base # "none" =>
        \A j \in Entries : table[j].arg \in {"FILENAME", "FILENAME_ARRAY"} =>
            \A n \in DOMAIN opts[j].paths : opts[j].paths[n].abs

\* chassis_path_string_is_parent_of never calls a path a parent of a path
\* outside its subtree, such as /foo/bar of /foo/bar-foo, when both are
\* absolute or both relative ("/" is taken as the parent of any string).
\* It is stated of every reachable state so that TLC checks it as an
\* invariant of the configuration run.
ParentOfSound ==
    phase \in Phases =>
    \A p, c \in PathStrings :
        (p[1] = "/") = (c[1] = "/") /\ IsParentOf(p, c) => InSubtree(p, c)
=============================================================================
