------------------------------ MODULE Startup ------------------------------
(***************************************************************************)
(* executor::execute: the options of the command line and of the           *)
(* configuration file are stored in one map, which decides whether a text  *)
(* is printed or the program runs; each part of the program takes what it  *)
(* needs from the map into a configuration of its own.                     *)
(*                                                                         *)
(* Parsing and storing are done by boost::program_options, external.       *)
(***************************************************************************)
EXTENDS Sequences

CONSTANTS Commands,  \* command lines
          Disks,     \* what the configuration files hold, by their names
          Slashed    \* the paths that end with a slash or a backslash

Defaults ==
    [output |-> "out.stp", working_directory |-> "temp", config_file |-> "config.ini",
     potrace |-> "potrace", mkbitmap |-> "mkbitmap"]

\* The last two have no value.
Options == DOMAIN Defaults \union {"input", "help", "version"}
NoOptions == [o \in {} |-> ""]

Parts == {"preprocessor", "vectorizer", "interpreter", "modeller", "executor"}

\* A source of options: those it gives, those it gives more than once, and why it
\* cannot be read.
IsSource(source) ==
    /\ DOMAIN source.given \subseteq Options
    /\ source.given \in [DOMAIN source.given -> STRING]
    /\ source.fault \in {"none", "unknown", "syntax", "unreadable"}

\* The working directories that may be given.
Directories == {Defaults.working_directory} \union
    {source.given["working_directory"] :
        source \in {s \in Commands \union UNION {{d[f] : f \in DOMAIN d} : d \in Disks} :
                       "working_directory" \in DOMAIN s.given}}

ASSUME SourcesAssumption ==
    /\ \A c \in Commands : IsSource(c) /\ c.fault # "unreadable"
    /\ \A d \in Disks : \A f \in DOMAIN d : IsSource(d[f])
    /\ \A d \in Disks : Defaults.config_file \in DOMAIN d
    /\ \A c \in Commands, d \in Disks :
          "config_file" \in DOMAIN c.given => c.given["config_file"] \in DOMAIN d

\* A slash behind a path makes it one of those that end with a slash.
EmptyPath == ""
ASSUME SlashedAssumption ==
    \A path \in Directories \ (Slashed \union {EmptyPath}) : path \o "/" \in Slashed

VARIABLES command, disk,
          vars_map,   \* the variables_map
          defaulted,  \* the options in it that only have their default value
          configs,    \* the configuration of each part
          printed,    \* "nothing", "options" or "version"
          phase,      \* "command line", "file", "decide", "configure", "run", "ended"
          result      \* the exit status, "terminated" by an exception, "aborted" by an
                      \* assertion, or "undefined"

startup_vars == <<command, disk, vars_map, defaulted, configs, printed, phase, result>>

StartupInit ==
    /\ command \in Commands /\ disk \in Disks
    /\ vars_map = NoOptions /\ defaulted = {}
    /\ configs = [part \in {} |-> NoOptions]
    /\ printed = "nothing"
    /\ phase = "command line" /\ result = "none"

End(how) ==
    /\ result' = how /\ phase' = "ended"
    /\ UNCHANGED <<command, disk, vars_map, defaulted, configs>>

\* Slip: what is stored later counts.
StoredOver(map, final, given) ==
    [o \in DOMAIN map \union DOMAIN given |-> IF o \in DOMAIN given THEN given[o] ELSE map[o]]

\* What a store puts in the map: options that were stored before are final.
Stored(map, final, given) ==
    [o \in DOMAIN map \union DOMAIN given |->
        IF o \in DOMAIN given /\ o \notin final THEN given[o] ELSE map[o]]

Final == DOMAIN vars_map \ defaulted

\* multiple_occurrences is thrown for an option that is not final.
Repeats(source) == source.twice \ Final # {}

\* exit(2), exit(3), and the exceptions that setup_parameters does not catch.  No
\* option is ambiguous, as guessing is not allowed.
RefuseCommandLine ==
    /\ phase = "command line"
    /\ \/ command.fault = "unknown" /\ End("2")
       \/ command.fault = "syntax" /\ End("3")
       \/ command.fault = "none" /\ Repeats(command) /\ End("terminated")
    /\ UNCHANGED printed

StoreCommandLine ==
    /\ phase = "command line"
    /\ command.fault = "none" /\ ~ Repeats(command)
    /\ vars_map' = Stored(Defaults, {}, command.given)
    /\ defaulted' = DOMAIN Defaults \ DOMAIN command.given
    /\ phase' = "file"
    /\ UNCHANGED <<command, disk, configs, printed, result>>

ConfigFile == disk[vars_map["config_file"]]

\* reading_file is caught, with a warning or without.
NoFile ==
    /\ phase = "file" /\ ConfigFile.fault = "unreadable"
    /\ phase' = "decide"
    /\ UNCHANGED <<command, disk, vars_map, defaulted, configs, printed, result>>

RefuseFile ==
    /\ phase = "file"
    /\ \/ ConfigFile.fault = "unknown" /\ End("2")
       \/ ConfigFile.fault = "syntax" /\ End("terminated")
       \/ ConfigFile.fault = "none" /\ Repeats(ConfigFile) /\ End("terminated")
    /\ UNCHANGED printed

StoreFile ==
    /\ phase = "file" /\ ConfigFile.fault = "none" /\ ~ Repeats(ConfigFile)
    /\ vars_map' = Stored(vars_map, Final, ConfigFile.given)
    /\ defaulted' = defaulted \ DOMAIN ConfigFile.given
    /\ phase' = "decide"
    /\ UNCHANGED <<command, disk, configs, printed, result>>

\* Slip: only the command line is asked.
NothingOnCommandLine == command.given = NoOptions

AllDefaulted == DOMAIN vars_map \subseteq defaulted

PrintOptions ==
    /\ phase = "decide"
    /\ "help" \in DOMAIN vars_map \/ AllDefaulted
    /\ printed' = "options"
    /\ End("0")

PrintVersion ==
    /\ phase = "decide"
    /\ "help" \notin DOMAIN vars_map /\ ~ AllDefaulted
    /\ "version" \in DOMAIN vars_map
    /\ printed' = "version"
    /\ End("0")

GoOn ==
    /\ phase = "decide"
    /\ {"help", "version"} \intersect DOMAIN vars_map = {} /\ ~ AllDefaulted
    /\ phase' = "configure"
    /\ UNCHANGED <<command, disk, vars_map, defaulted, configs, printed, result>>

\* set_workspace: back() of an empty path is undefined.
WorkspacePath(path) == IF path \in Slashed THEN path ELSE path \o "/"

\* The configuration of each part; executor's assigns input_filename twice.
Configured(part) ==
    LET workspace_path == WorkspacePath(vars_map["working_directory"])
    IN  CASE part = "preprocessor" ->
               [workspace_path |-> workspace_path, input_filename |-> vars_map["input"]]
          [] part = "vectorizer" ->
               [workspace_path |-> workspace_path, potrace_location |-> vars_map["potrace"],
                mkbitmap_location |-> vars_map["mkbitmap"]]
          [] part = "modeller" ->
               [workspace_path |-> workspace_path, output_filename |-> vars_map["output"]]
          [] part = "executor" ->
               [workspace_path |-> workspace_path, input_filename |-> vars_map["output"],
                output_filename |-> ""]
          [] OTHER -> [workspace_path |-> workspace_path]

Configure ==
    /\ phase = "configure"
    /\ vars_map["working_directory"] # EmptyPath /\ "input" \in DOMAIN vars_map
    /\ configs' = [part \in Parts |-> Configured(part)]
    /\ phase' = "run"
    /\ UNCHANGED <<command, disk, vars_map, defaulted, printed, result>>

\* Which of the configurations is made first is not said.
FailToConfigure ==
    /\ phase = "configure"
    /\ \/ "input" \notin DOMAIN vars_map /\ End("terminated")
       \/ vars_map["working_directory"] = EmptyPath /\ End("undefined")
    /\ UNCHANGED printed

\* whole_application::run: 0, an exception of a part that nobody catches, the
\* assertion of the interpreter, or a read it does before or instead of asserting.
RunApplication ==
    /\ phase = "run"
    /\ \E how \in {"0", "terminated", "aborted", "undefined"} : End(how)
    /\ UNCHANGED printed

StartupNext ==
    \/ RefuseCommandLine \/ StoreCommandLine
    \/ NoFile \/ RefuseFile \/ StoreFile
    \/ PrintOptions \/ PrintVersion \/ GoOn
    \/ Configure \/ FailToConfigure \/ RunApplication

StartupSpec == StartupInit /\ [][StartupNext]_startup_vars

-----------------------------------------------------------------------------
\* The types of the variables.
StartupTypes ==
    /\ DOMAIN vars_map \subseteq Options
    /\ defaulted \subseteq DOMAIN vars_map
    /\ DOMAIN configs \in {{}, Parts}
    /\ printed \in {"nothing", "options", "version"}
    /\ phase = "ended" <=> result # "none"

\* The file that is read, whatever it says of config_file itself.
Consulted ==
    disk[IF "config_file" \in DOMAIN command.given THEN command.given["config_file"]
         ELSE Defaults["config_file"]]

InFile == IF Consulted.fault = "none" THEN Consulted.given ELSE NoOptions

\* Options of two sources, of which the first comes before the second.
Over(first, second) ==
    [o \in DOMAIN first \union DOMAIN second |->
        IF o \in DOMAIN first THEN first[o] ELSE second[o]]

\* What the program was asked for.
Wanted == Over(command.given, Over(InFile, Defaults))

\* The variables keep their types.  What a part is configured with is what the
\* command line says, else what the file says that it names, else the default;
\* and all parts work in one directory.
Precedence ==
    /\ StartupTypes
    /\ DOMAIN configs # {} =>
        /\ configs["preprocessor"].input_filename = Wanted["input"]
        /\ configs["vectorizer"].potrace_location = Wanted["potrace"]
        /\ configs["vectorizer"].mkbitmap_location = Wanted["mkbitmap"]
        /\ configs["modeller"].output_filename = Wanted["output"]
        /\ \A part \in Parts :
              /\ configs[part].workspace_path \in Slashed
              /\ configs[part].workspace_path \in
                    {Wanted["working_directory"], Wanted["working_directory"] \o "/"}

Sources == {command.given, InFile}
Has(o) == \E given \in Sources : o \in DOMAIN given
Ran == DOMAIN configs # {}

\* How the program ends tells why.  3 and 2 are for an option that could not be
\* understood, on the command line or in the file.  0 is for a text that was
\* asked for in either, or for a run.  Only a run is aborted, and one that ends
\* undefined was either a run or wanted an empty working directory.  An exception
\* outside a run is for options given twice, for a file that is none, or for a
\* missing input.  And the parts are only run when there is an input and a
\* working directory, and when no text was asked for anywhere.
EndTellsWhy ==
    phase = "ended" =>
        /\ result = "3" <=> command.fault = "syntax"
        /\ result = "2" => "unknown" \in {command.fault, Consulted.fault}
        /\ result = "0" =>
              /\ printed = "options" <=> Has("help") \/ Sources = {NoOptions}
              /\ printed = "version" <=> Has("version") /\ ~ Has("help")
              /\ printed = "nothing" <=> Ran
        /\ result = "aborted" => Ran
        /\ result = "undefined" => Ran \/ Wanted["working_directory"] = EmptyPath
        /\ result = "terminated" =>
              \/ Ran \/ ~ Has("input")
              \/ command.twice \union Consulted.twice # {} \/ Consulted.fault = "syntax"
        /\ Ran => /\ Has("input") /\ ~ Has("help") /\ ~ Has("version")
                  /\ Wanted["working_directory"] # EmptyPath
=============================================================================
