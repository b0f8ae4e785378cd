----------------------------- MODULE MCStartup -----------------------------
(***************************************************************************)
(* Command lines and files of up to three options; the default file and    *)
(* another, of which one can be read; options that are not known, text     *)
(* that is no option, and options given twice.                             *)
(***************************************************************************)
EXTENDS Startup, Naturals, FiniteSets

Value(o, source) ==
    CASE o = "config_file" -> {"other.ini"}
      [] o = "working_directory" -> {source, "work/", EmptyPath}
      [] OTHER -> {source}

Given(source) ==
    {g \in UNION {[S -> UNION {Value(o, source) : o \in S}] :
                      S \in {T \in SUBSET Options : Cardinality(T) <= 3}} :
        \A o \in DOMAIN g : g[o] \in Value(o, source)}

Read(given, twice) == [fault |-> "none", given |-> given, twice |-> twice]
Broken(fault) == [fault |-> fault, given |-> NoOptions, twice |-> {}]

Source(name) ==
    {Read(g, {}) : g \in Given(name)}
    \union {Read([o \in {"input"} |-> name], {"input"})}
    \union {Broken(fault) : fault \in {"unknown", "syntax"}}

MCSlashed == {"temp/", "command/", "file/", "work/"}
MCCommands == Source("command")
MCDisks ==
    {[f \in {"config.ini", "other.ini"} |-> IF f = there THEN s ELSE Broken("unreadable")] :
        there \in {"config.ini", "other.ini"}, s \in Source("file")}
=============================================================================
