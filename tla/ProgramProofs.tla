---------------------------- MODULE ProgramProofs ----------------------------
(***************************************************************************)
(* Proofs about the program as a whole: how it starts, for any command     *)
(* line and configuration file, what a run makes of the files of its       *)
(* workspace, for any number of runs, and how it thins a picture, of any   *)
(* size.                                                                   *)
(*                                                                         *)
(* The argument about the start is that the map of options is, after each  *)
(* store, what the sources and the defaults make one over the other        *)
(* (MapHolds).                                                             *)
(*                                                                         *)
(* The argument about the workspace follows one run: while no other run is *)
(* active, the file or the image its next step takes up was made from its  *)
(* own drawing (Own), and the two reads of the skeleton find the same file *)
(* (Same).  Alone is what keeps the steps of the others away from it.      *)
(*                                                                         *)
(* Of thinning, Thin speaks of the last round only.  Round says how im     *)
(* comes from prev in every round but the first, where prev is blank: when *)
(* the two are equal, neither half-round has taken a pixel.                *)
(*                                                                         *)
(* That a half-round keeps a piece together is a matter of the pixels      *)
(* around one that is taken off.  A part U of what remains that nothing    *)
(* remaining touches is made larger by the pixels taken off next to it:    *)
(* then no pixel of the picture at all touches it, so it is all of the     *)
(* piece (RestIsWhole).  For this, what remains around a pixel is in U or  *)
(* not in U as a whole (AroundTaken), and two neighbours that are taken    *)
(* off have a remaining one in common (Common).                            *)
(***************************************************************************)
EXTENDS Startup, Workspace, Thinning, ListLemmas

-----------------------------------------------------------------------------
\* What the map holds after the command line is stored; after the file is, Wanted.
FromCommandLine == Over(command.given, Defaults)

\* How far the program has come with its sources.
Progress ==
    /\ phase \in {"command line", "file", "decide", "configure", "run", "ended"}
    /\ phase \notin {"command line", "ended"} => command.fault = "none"
    /\ phase # "ended" => printed = "nothing"
    /\ phase \notin {"run", "ended"} => ~ Ran
    /\ phase = "run" => Ran

MapHolds ==
    /\ phase = "file" =>
          /\ vars_map = FromCommandLine
          /\ defaulted = DOMAIN Defaults \ DOMAIN command.given
    /\ phase \in {"decide", "configure", "run"} =>
          /\ vars_map = Wanted
          /\ defaulted = DOMAIN Defaults \ (DOMAIN command.given \union DOMAIN InFile)

\* What GoOn and Configure have found out.
Decided ==
    /\ phase \in {"configure", "run"} =>
          {"help", "version"} \intersect DOMAIN vars_map = {} /\ ~ AllDefaulted
    /\ phase = "run" =>
          "input" \in DOMAIN vars_map /\ vars_map["working_directory"] # EmptyPath

StartupInv ==
    /\ command \in Commands /\ disk \in Disks
    /\ Progress /\ MapHolds /\ Decided
    /\ Precedence /\ EndTellsWhy

\* What the sources can be.
LEMMA SourcesAre ==
    ASSUME command \in Commands, disk \in Disks
    PROVE  /\ IsSource(command) /\ command.fault # "unreadable"
           /\ IsSource(Consulted)
           /\ InFile \in [DOMAIN InFile -> STRING]
           /\ DOMAIN InFile \subseteq Options
<1>1. IsSource(command) /\ command.fault # "unreadable"
  BY SourcesAssumption
<1>2. IsSource(Consulted)
  BY SourcesAssumption DEF Consulted, Defaults
<1>3. NoOptions \in [DOMAIN NoOptions -> STRING] /\ DOMAIN NoOptions = {}
  BY DEF NoOptions
<1> QED
  BY <1>1, <1>2, <1>3 DEF InFile, IsSource

LEMMA DefaultsAre ==
    /\ DOMAIN Defaults = {"output", "working_directory", "config_file", "potrace", "mkbitmap"}
    /\ Defaults["config_file"] = "config.ini"
    /\ Defaults["working_directory"] = "temp"
BY DEF Defaults

\* Three sources one over the other.
LEMMA WantedIs ==
    ASSUME command \in Commands, disk \in Disks
    PROVE  /\ DOMAIN Wanted = DOMAIN command.given \union DOMAIN InFile \union DOMAIN Defaults
           /\ Wanted = [o \in DOMAIN Wanted |->
                  IF o \in DOMAIN command.given THEN command.given[o]
                  ELSE IF o \in DOMAIN InFile THEN InFile[o] ELSE Defaults[o]]
           /\ DOMAIN FromCommandLine = DOMAIN command.given \union DOMAIN Defaults
           /\ FromCommandLine = [o \in DOMAIN FromCommandLine |->
                  IF o \in DOMAIN command.given THEN command.given[o] ELSE Defaults[o]]
           /\ DOMAIN Wanted \subseteq Options
           /\ DOMAIN FromCommandLine \subseteq Options
<1>1. DOMAIN command.given \subseteq Options /\ DOMAIN InFile \subseteq Options
  BY SourcesAre DEF IsSource
<1> QED
  BY <1>1 DEF Wanted, FromCommandLine, Over, Options

\* Nothing was given if all that is in the map has its default value.
LEMMA NothingGiven ==
    ASSUME command \in Commands, disk \in Disks, vars_map = Wanted,
           defaulted = DOMAIN Defaults \ (DOMAIN command.given \union DOMAIN InFile)
    PROVE  AllDefaulted <=> Sources = {NoOptions}
<1>1. /\ command.given \in [DOMAIN command.given -> STRING]
      /\ InFile \in [DOMAIN InFile -> STRING]
  BY SourcesAre DEF IsSource
<1>2. ASSUME NEW T, NEW f \in [T -> STRING], T = {} PROVE f = NoOptions
  BY <1>2 DEF NoOptions
<1>3. DOMAIN NoOptions = {}
  BY DEF NoOptions
<1>4. AllDefaulted <=> DOMAIN command.given = {} /\ DOMAIN InFile = {}
  BY WantedIs DEF AllDefaulted
<1>5. DOMAIN command.given = {} <=> command.given = NoOptions
  BY <1>1, <1>2, <1>3
<1>6. DOMAIN InFile = {} <=> InFile = NoOptions
  BY <1>1, <1>2, <1>3
<1>7. Sources = {NoOptions} <=> command.given = NoOptions /\ InFile = NoOptions
  BY DEF Sources
<1> QED
  BY <1>4, <1>5, <1>6, <1>7

\* The slash behind a working directory.
LEMMA WorksInDirectory ==
    ASSUME command \in Commands, disk \in Disks, Wanted["working_directory"] # EmptyPath
    PROVE  /\ WorkspacePath(Wanted["working_directory"]) \in Slashed
           /\ WorkspacePath(Wanted["working_directory"]) \in
                 {Wanted["working_directory"], Wanted["working_directory"] \o "/"}
<1> DEFINE w == Wanted["working_directory"]
<1>1. w \in Directories
  <2>1. CASE "working_directory" \in DOMAIN command.given
    BY <2>1, WantedIs, DefaultsAre DEF Directories
  <2>2. CASE /\ "working_directory" \notin DOMAIN command.given
             /\ "working_directory" \in DOMAIN InFile
    <3>1. InFile = Consulted.given
      BY <2>2 DEF InFile, NoOptions
    <3>2. \E f \in DOMAIN disk : Consulted = disk[f]
      BY SourcesAssumption DEF Consulted, Defaults
    <3>3. w = Consulted.given["working_directory"]
      BY <2>2, <3>1, WantedIs, DefaultsAre
    <3> QED
      BY <2>2, <3>1, <3>2, <3>3 DEF Directories
  <2>3. CASE /\ "working_directory" \notin DOMAIN command.given
             /\ "working_directory" \notin DOMAIN InFile
    BY <2>3, WantedIs, DefaultsAre DEF Directories, Defaults
  <2> QED
    BY <2>1, <2>2, <2>3
<1> QED
  BY <1>1, SlashedAssumption DEF WorkspacePath

-----------------------------------------------------------------------------
LEMMA StartupBegins == StartupInit => StartupInv
<1> SUFFICES ASSUME StartupInit PROVE StartupInv
  OBVIOUS
<1>1. Progress /\ MapHolds /\ Decided
  BY DEF StartupInit, Progress, MapHolds, Decided, Ran
<1>2. Precedence
  BY DEF StartupInit, Precedence, StartupTypes, NoOptions
<1> QED
  BY <1>1, <1>2 DEF StartupInit, StartupInv, EndTellsWhy

\* Each step.  Nothing but the two stores changes the map.
LEMMA StepKeepsProgress ==
    ASSUME StartupInv, StartupNext PROVE Progress' /\ command' \in Commands /\ disk' \in Disks
<1> USE DEF StartupInv, Progress, Ran
<1>1. CASE RefuseCommandLine
  BY <1>1 DEF RefuseCommandLine, End
<1>2. CASE StoreCommandLine
  BY <1>2 DEF StoreCommandLine
<1>3. CASE NoFile
  BY <1>3 DEF NoFile
<1>4. CASE RefuseFile
  BY <1>4 DEF RefuseFile, End
<1>5. CASE StoreFile
  BY <1>5 DEF StoreFile
<1>6. CASE PrintOptions
  BY <1>6 DEF PrintOptions, End
<1>7. CASE PrintVersion
  BY <1>7 DEF PrintVersion, End
<1>8. CASE GoOn
  BY <1>8 DEF GoOn
<1>9. CASE Configure
  BY <1>9 DEF Configure, Parts
<1>10. CASE FailToConfigure
  BY <1>10 DEF FailToConfigure, End
<1>11. CASE RunApplication
  BY <1>11 DEF RunApplication, End
<1> QED
  BY <1>1, <1>2, <1>3, <1>4, <1>5, <1>6, <1>7, <1>8, <1>9, <1>10, <1>11 DEF StartupNext

LEMMA SameSources ==
    ASSUME StartupNext
    PROVE  /\ UNCHANGED <<command, disk>>
           /\ Consulted' = Consulted /\ InFile' = InFile /\ Sources' = Sources
           /\ Wanted' = Wanted /\ FromCommandLine' = FromCommandLine
<1>1. UNCHANGED <<command, disk>>
  BY DEF StartupNext, RefuseCommandLine, StoreCommandLine, NoFile, RefuseFile, StoreFile,
     PrintOptions, PrintVersion, GoOn, Configure, FailToConfigure, RunApplication, End
<1>2. Consulted' = Consulted
  BY <1>1 DEF Consulted
<1>3. InFile' = InFile
  BY <1>2 DEF InFile
<1> QED
  BY <1>1, <1>2, <1>3 DEF Sources, Wanted, FromCommandLine

\* The file that is read is the one that the command line or the default names.
LEMMA FileIsConsulted ==
    ASSUME StartupInv, phase = "file"
    PROVE  ConfigFile = Consulted
<1>1. vars_map["config_file"] = IF "config_file" \in DOMAIN command.given
                                THEN command.given["config_file"] ELSE Defaults["config_file"]
  BY WantedIs, DefaultsAre DEF StartupInv, MapHolds
<1> QED
  BY <1>1 DEF ConfigFile, Consulted

LEMMA StepKeepsMap ==
    ASSUME StartupInv, StartupNext PROVE MapHolds'
<1> USE SameSources DEF StartupInv, MapHolds
<1>1. CASE StoreCommandLine
  <2>1. Stored(Defaults, {}, command.given) = FromCommandLine
    BY DEF Stored, FromCommandLine, Over
  <2> QED
    BY <1>1, <2>1 DEF StoreCommandLine
<1>2. CASE NoFile
  <2>1. InFile = NoOptions
    BY <1>2, FileIsConsulted DEF NoFile, InFile
  <2>2. DOMAIN InFile = {}
    BY <2>1 DEF NoOptions
  <2>3. Wanted = FromCommandLine
    BY <2>2, WantedIs
  <2> QED
    BY <1>2, <2>2, <2>3 DEF NoFile
<1>3. CASE StoreFile
  <2>1. InFile = ConfigFile.given
    BY <1>3, FileIsConsulted DEF StoreFile, InFile
  <2>2. Final = DOMAIN command.given
    BY <1>3, WantedIs DEF StoreFile, Final
  <2>3. Stored(vars_map, Final, ConfigFile.given) = Wanted
    BY <1>3, <2>1, <2>2, WantedIs DEF StoreFile, Stored
  <2>4. vars_map' = Wanted' /\ defaulted' = defaulted \ DOMAIN InFile
    BY <1>3, <2>1, <2>3 DEF StoreFile
  <2> QED
    BY <1>3, <2>4 DEF StoreFile
<1>4. CASE GoOn \/ Configure
  BY <1>4 DEF GoOn, Configure
<1>5. CASE phase' = "ended"
  BY <1>5
<1> QED
  BY <1>1, <1>2, <1>3, <1>4, <1>5 DEF StartupNext, RefuseCommandLine, RefuseFile, PrintOptions,
     PrintVersion, FailToConfigure, RunApplication, End

LEMMA StepKeepsDecided ==
    ASSUME StartupInv, StartupNext PROVE Decided'
<1> USE DEF StartupInv, Decided, AllDefaulted
<1>1. CASE GoOn
  BY <1>1 DEF GoOn
<1>2. CASE Configure
  BY <1>2 DEF Configure
<1>3. CASE phase' \in {"file", "decide", "ended"}
  BY <1>3
<1> QED
  BY <1>1, <1>2, <1>3 DEF StartupNext, RefuseCommandLine, StoreCommandLine, NoFile, RefuseFile,
     StoreFile, PrintOptions, PrintVersion, FailToConfigure, RunApplication, End

-----------------------------------------------------------------------------
LEMMA StepKeepsTypes ==
    ASSUME StartupInv, StartupNext PROVE StartupTypes'
<1>1. DOMAIN vars_map' \subseteq Options /\ defaulted' \subseteq DOMAIN vars_map'
  <2>1. CASE UNCHANGED <<vars_map, defaulted>>
    BY <2>1 DEF StartupInv, Precedence, StartupTypes
  <2>2. CASE StoreCommandLine
    <3>1. MapHolds' /\ FromCommandLine' = FromCommandLine /\ command' = command
      BY StepKeepsMap, SameSources
    <3>2. vars_map' = FromCommandLine /\ defaulted' = DOMAIN Defaults \ DOMAIN command.given
      BY <2>2, <3>1 DEF StoreCommandLine, MapHolds
    <3> QED
      BY <3>2, WantedIs DEF StartupInv
  <2>3. CASE StoreFile
    <3>1. MapHolds' /\ Wanted' = Wanted /\ command' = command /\ InFile' = InFile
      BY StepKeepsMap, SameSources
    <3>2. /\ vars_map' = Wanted
          /\ defaulted' = DOMAIN Defaults \ (DOMAIN command.given \union DOMAIN InFile)
      BY <2>3, <3>1 DEF StoreFile, MapHolds
    <3> QED
      BY <3>2, WantedIs DEF StartupInv
  <2> QED
    BY <2>1, <2>2, <2>3 DEF StartupNext, RefuseCommandLine, NoFile, RefuseFile, PrintOptions,
       PrintVersion, GoOn, Configure, FailToConfigure, RunApplication, End
<1>2. DOMAIN configs' \in {{}, Parts}
  <2>1. CASE UNCHANGED configs
    BY <2>1 DEF StartupInv, Precedence, StartupTypes
  <2>2. CASE Configure
    BY <2>2 DEF Configure
  <2> QED
    BY <2>1, <2>2 DEF StartupNext, RefuseCommandLine, StoreCommandLine, NoFile, RefuseFile,
       StoreFile, PrintOptions, PrintVersion, GoOn, FailToConfigure, RunApplication, End
<1>3. printed' \in {"nothing", "options", "version"}
  BY DEF StartupInv, Precedence, StartupTypes, StartupNext, RefuseCommandLine,
     StoreCommandLine, NoFile, RefuseFile, StoreFile, PrintOptions, PrintVersion, GoOn, Configure,
     FailToConfigure, RunApplication, End
<1>4. phase' = "ended" <=> result' # "none"
  BY DEF StartupInv, Precedence, StartupTypes, StartupNext, RefuseCommandLine,
     StoreCommandLine, NoFile, RefuseFile, StoreFile, PrintOptions, PrintVersion, GoOn, Configure,
     FailToConfigure, RunApplication, End
<1> QED
  BY <1>1, <1>2, <1>3, <1>4 DEF StartupTypes

\* Every part is given what is wanted.
LEMMA PartsAreGiven ==
    ASSUME StartupInv, phase = "configure", Configure
    PROVE  /\ configs'["preprocessor"].input_filename = Wanted["input"]
           /\ configs'["vectorizer"].potrace_location = Wanted["potrace"]
           /\ configs'["vectorizer"].mkbitmap_location = Wanted["mkbitmap"]
           /\ configs'["modeller"].output_filename = Wanted["output"]
           /\ \A part \in Parts :
                 configs'[part].workspace_path = WorkspacePath(Wanted["working_directory"])
<1>1. vars_map = Wanted /\ configs' = [part \in Parts |-> Configured(part)]
  BY DEF StartupInv, MapHolds, Configure
<1> QED
  BY <1>1 DEF Parts, Configured

LEMMA StepKeepsPrecedence ==
    ASSUME StartupInv, StartupNext PROVE Precedence'
<1>1. StartupTypes'
  BY StepKeepsTypes
<1>2. CASE UNCHANGED configs
  <2>1. configs' = configs /\ Wanted' = Wanted
    BY <1>2, SameSources
  <2> QED
    BY <1>1, <2>1 DEF StartupInv, Precedence
<1>3. CASE Configure
  <2>1. vars_map = Wanted /\ Wanted["working_directory"] # EmptyPath
    BY <1>3 DEF StartupInv, MapHolds, Configure
  <2>2. /\ configs'["preprocessor"].input_filename = Wanted["input"]
        /\ configs'["vectorizer"].potrace_location = Wanted["potrace"]
        /\ configs'["vectorizer"].mkbitmap_location = Wanted["mkbitmap"]
        /\ configs'["modeller"].output_filename = Wanted["output"]
        /\ \A part \in Parts :
              configs'[part].workspace_path = WorkspacePath(Wanted["working_directory"])
    BY <1>3, PartsAreGiven DEF Configure
  <2>3. /\ WorkspacePath(Wanted["working_directory"]) \in Slashed
        /\ WorkspacePath(Wanted["working_directory"]) \in
              {Wanted["working_directory"], Wanted["working_directory"] \o "/"}
    BY <2>1, WorksInDirectory DEF StartupInv
  <2>4. Wanted' = Wanted
    BY SameSources
  <2> QED
    BY <1>1, <2>2, <2>3, <2>4 DEF Precedence
<1> QED
  BY <1>2, <1>3 DEF StartupNext, RefuseCommandLine, StoreCommandLine, NoFile, RefuseFile,
     StoreFile, PrintOptions, PrintVersion, GoOn, FailToConfigure, RunApplication, End

-----------------------------------------------------------------------------
\* An option is in the map if it has a default or one of the sources gives it.
LEMMA InTheMap ==
    ASSUME StartupInv, phase \in {"decide", "configure", "run"}
    PROVE  /\ \A o \in {"input", "help", "version"} : o \in DOMAIN vars_map <=> Has(o)
           /\ AllDefaulted <=> Sources = {NoOptions}
           /\ vars_map = Wanted
<1>1. /\ vars_map = Wanted
      /\ defaulted = DOMAIN Defaults \ (DOMAIN command.given \union DOMAIN InFile)
      /\ command \in Commands /\ disk \in Disks
  BY DEF StartupInv, MapHolds
<1>2. AllDefaulted <=> Sources = {NoOptions}
  BY <1>1, NothingGiven
<1>3. \A o \in {"input", "help", "version"} : o \in DOMAIN vars_map <=> Has(o)
  BY <1>1, WantedIs, DefaultsAre DEF Has, Sources
<1> QED
  BY <1>1, <1>2, <1>3

LEMMA StepKeepsReason ==
    ASSUME StartupInv, StartupNext PROVE EndTellsWhy'
<1> SUFFICES ASSUME phase' = "ended" PROVE EndTellsWhy'
  BY DEF EndTellsWhy
<1>1. SUFFICES
        /\ result' = "3" <=> command.fault = "syntax"
        /\ result' = "2" => "unknown" \in {command.fault, Consulted.fault}
        /\ result' = "0" =>
              /\ printed' = "options" <=> Has("help") \/ Sources = {NoOptions}
              /\ printed' = "version" <=> Has("version") /\ ~ Has("help")
              /\ printed' = "nothing" <=> Ran'
        /\ result' = "aborted" => Ran'
        /\ result' = "undefined" => Ran' \/ Wanted["working_directory"] = EmptyPath
        /\ result' = "terminated" =>
              \/ Ran' \/ ~ Has("input")
              \/ command.twice \union Consulted.twice # {} \/ Consulted.fault = "syntax"
        /\ Ran' => /\ Has("input") /\ ~ Has("help") /\ ~ Has("version")
                   /\ Wanted["working_directory"] # EmptyPath
  <2>1. /\ command' = command /\ Consulted' = Consulted /\ Sources' = Sources
        /\ Wanted' = Wanted /\ NoOptions' = NoOptions /\ EmptyPath' = EmptyPath
    BY SameSources DEF NoOptions, EmptyPath
  <2>2. /\ Has("help")' <=> Has("help")
        /\ Has("version")' <=> Has("version")
        /\ Has("input")' <=> Has("input")
    BY <2>1 DEF Has
  <2> QED
    BY <2>1, <2>2 DEF EndTellsWhy
<1> USE DEF StartupInv, Progress
<1>2. CASE RefuseCommandLine
  BY <1>2 DEF RefuseCommandLine, Repeats, End, Ran
<1>3. CASE RefuseFile
  BY <1>3, FileIsConsulted DEF RefuseFile, Repeats, End, Ran
<1>4. CASE PrintOptions
  <2>1. Has("help") \/ Sources = {NoOptions}
    BY <1>4, InTheMap DEF PrintOptions
  <2>2. ~ (Has("version") /\ ~ Has("help"))
    BY <2>1 DEF NoOptions, Has
  <2> QED
    BY <1>4, <2>1, <2>2 DEF PrintOptions, End, Ran
<1>5. CASE PrintVersion
  <2>1. Has("version") /\ ~ Has("help") /\ Sources # {NoOptions}
    BY <1>5, InTheMap DEF PrintVersion
  <2> QED
    BY <1>5, <2>1 DEF PrintVersion, End, Ran
<1>6. CASE FailToConfigure
  BY <1>6, InTheMap DEF FailToConfigure, End, Ran
<1>7. CASE RunApplication
  <2>1. /\ ~ Has("help") /\ ~ Has("version") /\ Sources # {NoOptions} /\ Has("input")
        /\ Wanted["working_directory"] # EmptyPath
    BY <1>7, InTheMap DEF RunApplication, Decided
  <2> QED
    BY <1>7, <2>1 DEF RunApplication, End, Ran
<1> QED
  BY <1>2, <1>3, <1>4, <1>5, <1>6, <1>7 DEF StartupNext, StoreCommandLine, NoFile, StoreFile,
     GoOn, Configure

-----------------------------------------------------------------------------
LEMMA StartupStays == StartupInv /\ [StartupNext]_startup_vars => StartupInv'
<1>1. ASSUME StartupInv, StartupNext PROVE StartupInv'
  BY <1>1, StepKeepsProgress, StepKeepsMap, StepKeepsDecided, StepKeepsPrecedence,
     StepKeepsReason DEF StartupInv
<1>2. ASSUME StartupInv, UNCHANGED startup_vars PROVE StartupInv'
  <2>1. /\ Consulted' = Consulted /\ InFile' = InFile /\ Sources' = Sources
        /\ Wanted' = Wanted /\ FromCommandLine' = FromCommandLine
    BY <1>2 DEF startup_vars, Consulted, InFile, Sources, Wanted, FromCommandLine
  <2>2. Progress' /\ MapHolds' /\ Decided'
    BY <1>2, <2>1 DEF startup_vars, StartupInv, Progress, MapHolds, Decided, AllDefaulted,
       Ran
  <2>3. Precedence'
    BY <1>2, <2>1 DEF startup_vars, StartupInv, Precedence, StartupTypes
  <2>4. EndTellsWhy'
    BY <1>2, <2>1 DEF startup_vars, StartupInv, EndTellsWhy, Has, Ran
  <2> QED
    BY <1>2, <2>2, <2>3, <2>4 DEF startup_vars, StartupInv
<1> QED
  BY <1>1, <1>2

\* Each part is configured with what the command line says, else with what the
\* file says, else with the default, whatever is in the two (setup_options and
\* the configurations), and all parts work in one directory.
THEOREM ConfiguredInOrder == StartupSpec => []Precedence
<1>1. StartupInv => Precedence
  BY DEF StartupInv
<1> QED
  BY <1>1, StartupBegins, StartupStays, PTL DEF StartupSpec

\* The exit status and what was printed tell why the program ended
\* (executor::execute), for every command line and every file.
THEOREM EndsForAReason == StartupSpec => []EndTellsWhy
<1>1. StartupInv => EndTellsWhy
  BY DEF StartupInv
<1> QED
  BY <1>1, StartupBegins, StartupStays, PTL DEF StartupSpec

-----------------------------------------------------------------------------
\* A run that has been the only one so far still is.
Alone(r) == alone[r] /\ Active(r) => \A q \in Run \ {r} : ~ Active(q)

\* What the next step takes up is the run's own, as long as nothing failed.
Own(r) ==
    alone[r] /\ failed[r] = {} =>
        /\ pc[r] = "write smooth" => image[r] \in {r, NoRun}
        /\ pc[r] = "binarize" => files["smooth.pgm"] = r
        /\ pc[r] = "separate text" => files["smooth.pbm"] = r
        /\ pc[r] = "pick wide lines" => files["graphics.pbm"] = r
        /\ pc[r] \in {"write skeleton", "read again", "write model"} => image[r] = r
        /\ pc[r] = "vectorize" => files["wide_skeleton.pgm"] = r
        /\ pc[r] = "read model" => files["model.stl"] = r
        /\ pc[r] = "displaying" => shown[r] = r

\* The second read of the skeleton finds what the first one found.
Same(r) ==
    alone[r] =>
        /\ pc[r] = "read again" => files["wide_skeleton.pgm"] = image[r]
        /\ pc[r] \in {"write model", "read model", "displaying"} => skeleton[r] = image[r]

-----------------------------------------------------------------------------
\* A failure is remembered, by the run it happened in.
LEMMA FailureKept ==
  ASSUME failed \in [Run -> SUBSET {"write", "tool"}], NEW r \in Run,
         NEW what \in {"write", "tool"}, Fails(r, what)
  PROVE  /\ failed' \in [Run -> SUBSET {"write", "tool"}]
         /\ failed'[r] # {}
         /\ \A q \in Run \ {r} : failed'[q] = failed[q]
<1> DEFINE now == failed[r] \union {what}
<1>1. now \in SUBSET {"write", "tool"} /\ now # {}
  OBVIOUS
<1>2. failed' = [failed EXCEPT ![r] = now]
  BY DEF Fails
<1> HIDE DEF now
<1>. QED
  BY <1>1, <1>2

\* A write keeps the types, and when it did not fail the file has its content.
LEMMA WrittenTyped ==
  ASSUME TypeOK, NEW r \in Run, NEW f \in File, NEW content \in Run \union {NoRun},
         Written(r, f, content)
  PROVE  /\ files' \in [File -> Run \union {NoRun}]
         /\ failed' \in [Run -> SUBSET {"write", "tool"}]
         /\ failed'[r] = {} => failed[r] = {} /\ content # NoRun
                                 /\ files' = [files EXCEPT ![f] = content]
         /\ \A q \in Run \ {r} : failed'[q] = failed[q]
<1>1. CASE files' = [files EXCEPT ![f] = content] /\ UNCHANGED failed /\ content # NoRun
  BY <1>1 DEF TypeOK
<1>2. CASE UNCHANGED files /\ Fails(r, "write")
  BY <1>2, FailureKept DEF TypeOK
<1>. QED
  BY <1>1, <1>2 DEF Written

\* The variables keep their types: every step a run goes to is one of the
\* steps, and every file, image and model is some run's or nobody's.
LEMMA TypeCorrect == Spec => []TypeOK
<1>1. Init => TypeOK
  BY DEF Init, TypeOK, Ended, Working
<1>2. TypeOK /\ [Next]_vars => TypeOK'
  <2> SUFFICES ASSUME TypeOK, [Next]_vars PROVE TypeOK'
    OBVIOUS
  <2> USE DEF TypeOK, Working, Ended, GoTo, File
  <2>1. ASSUME NEW r \in Run, StartRun(r) PROVE TypeOK'
    <3> DEFINE undisturbed(q) == IF q = r THEN \A s \in Run \ {r} : ~ Active(s)
                                          ELSE alone[q] /\ ~ Active(q)
    <3>1. \A q \in Run : undisturbed(q) \in BOOLEAN
      BY Zenon DEF Active
    <3>2. alone' = [q \in Run |-> undisturbed(q)]
      BY <2>1 DEF StartRun
    <3> HIDE DEF undisturbed
    <3>3. alone' \in [Run -> BOOLEAN]
      BY <3>1, <3>2, Zenon
    <3>4. image' \in [Run -> Run \union {NoRun}]
      <4>1. PICK drawing \in {r, NoRun} : image' = [image EXCEPT ![r] = drawing]
        BY <2>1, Zenon DEF StartRun
      <4>. QED
        BY <4>1
    <3>. QED
      BY ONLY TypeOK, <2>1, <3>3, <3>4 DEF StartRun
  <2>2. ASSUME NEW r \in Run, WriteSmooth(r) PROVE TypeOK'
    <3>1. Written(r, "smooth.pgm", image[r])
      BY <2>2 DEF WriteSmooth
    <3>2. /\ files' \in [File -> Run \union {NoRun}]
          /\ failed' \in [Run -> SUBSET {"write", "tool"}]
      BY <3>1, WrittenTyped
    <3>. QED
      BY <2>2, <3>2 DEF WriteSmooth
  <2>3. ASSUME NEW r \in Run, Binarize(r) PROVE TypeOK'
    BY <2>3 DEF Binarize
  <2>4. ASSUME NEW r \in Run, SeparateText(r) PROVE TypeOK'
    <3>1. failed' \in [Run -> SUBSET {"write", "tool"}]
      BY <2>4, FailureKept DEF SeparateText
    <3>2. files' \in [File -> Run \union {NoRun}]
      BY <2>4 DEF SeparateText
    <3>. QED
      BY <2>4, <3>1, <3>2 DEF SeparateText
  <2>5. ASSUME NEW r \in Run, PickWideLines(r) PROVE TypeOK'
    BY <2>5 DEF PickWideLines
  <2>6. ASSUME NEW r \in Run, WriteSkeleton(r) PROVE TypeOK'
    <3>1. Written(r, "wide_skeleton.pgm", image[r])
      BY <2>6 DEF WriteSkeleton
    <3>2. /\ files' \in [File -> Run \union {NoRun}]
          /\ failed' \in [Run -> SUBSET {"write", "tool"}]
      BY <3>1, WrittenTyped
    <3>. QED
      BY <2>6, <3>2 DEF WriteSkeleton
  <2>7. ASSUME NEW r \in Run, Vectorize(r) PROVE TypeOK'
    BY <2>7 DEF Vectorize
  <2>8. ASSUME NEW r \in Run, ReadAgain(r) PROVE TypeOK'
    BY <2>8 DEF ReadAgain
  <2>9. ASSUME NEW r \in Run, WriteModel(r) PROVE TypeOK'
    <3>1. Written(r, "model.stl", image[r])
      BY <2>9 DEF WriteModel
    <3>2. /\ files' \in [File -> Run \union {NoRun}]
          /\ failed' \in [Run -> SUBSET {"write", "tool"}]
      BY <3>1, WrittenTyped
    <3>. QED
      BY <2>9, <3>2 DEF WriteModel
  <2>10. ASSUME NEW r \in Run, ShowModel(r) PROVE TypeOK'
    BY <2>10 DEF ShowModel
  <2>11. ASSUME NEW r \in Run, Stop(r) PROVE TypeOK'
    BY <2>11 DEF Stop
  <2>12. CASE UNCHANGED vars
    BY <2>12 DEF vars
  <2>. QED
    BY <2>1, <2>2, <2>3, <2>4, <2>5, <2>6, <2>7, <2>8, <2>9, <2>10, <2>11, <2>12 DEF Next, Step
<1>. QED
  BY <1>1, <1>2, PTL DEF Spec

\* A step of one run leaves what another run holds in memory as it is.
LEMMA OthersKeep ==
  ASSUME TypeOK, NEW r \in Run, NEW q \in Run \ {r}, Step(q)
  PROVE  /\ pc'[r] = pc[r]
         /\ image'[r] = image[r]
         /\ skeleton'[r] = skeleton[r]
         /\ shown'[r] = shown[r]
         /\ failed'[r] = failed[r]
         /\ alone'[r] = alone[r]
BY DEF TypeOK, Step, WriteSmooth, Written, Binarize, SeparateText, PickWideLines,
   WriteSkeleton, Vectorize, ReadAgain, WriteModel, ShowModel, Stop, GoTo, Fails

\* Only a run that is active takes a step.
LEMMA StepsOfActive ==
  ASSUME NEW q \in Run, Step(q) PROVE Active(q)
BY DEF Active, Working, Step, WriteSmooth, Written, Binarize, SeparateText, PickWideLines,
   WriteSkeleton, Vectorize, ReadAgain, WriteModel, ShowModel, Stop

\* A step of the run itself keeps what the argument needs of it.
LEMMA OwnStep ==
  ASSUME TypeOK, NEW r \in Run, Own(r), Same(r), Step(r)
  PROVE  Own(r)' /\ Same(r)'
<1> USE DEF TypeOK, File, GoTo, Own, Same
<1>1. CASE WriteSmooth(r)
  <2>1. Written(r, "smooth.pgm", image[r])
    BY <1>1 DEF WriteSmooth
  <2>2. failed'[r] = {} => failed[r] = {} /\ image[r] # NoRun
                            /\ files' = [files EXCEPT !["smooth.pgm"] = image[r]]
    BY <2>1, WrittenTyped
  <2>. QED
    BY <1>1, <2>2 DEF WriteSmooth
<1>2. CASE Binarize(r)
  BY <1>2 DEF Binarize
<1>3. CASE SeparateText(r)
  BY <1>3, FailureKept DEF SeparateText
<1>4. CASE PickWideLines(r)
  BY <1>4 DEF PickWideLines
<1>5. CASE WriteSkeleton(r)
  <2>1. Written(r, "wide_skeleton.pgm", image[r])
    BY <1>5 DEF WriteSkeleton
  <2>2. failed'[r] = {} => failed[r] = {} /\ image[r] # NoRun
                            /\ files' = [files EXCEPT !["wide_skeleton.pgm"] = image[r]]
    BY <2>1, WrittenTyped
  <2>. QED
    BY <1>5, <2>2 DEF WriteSkeleton
<1>6. CASE Vectorize(r)
  BY <1>6 DEF Vectorize
<1>7. CASE ReadAgain(r)
  BY <1>7 DEF ReadAgain
<1>8. CASE WriteModel(r)
  <2>1. Written(r, "model.stl", image[r])
    BY <1>8 DEF WriteModel
  <2>2. failed'[r] = {} => failed[r] = {} /\ image[r] # NoRun
                            /\ files' = [files EXCEPT !["model.stl"] = image[r]]
    BY <2>1, WrittenTyped
  <2>. QED
    BY <1>8, <2>2 DEF WriteModel
<1>9. CASE ShowModel(r)
  BY <1>9 DEF ShowModel
<1>10. CASE Stop(r)
  BY <1>10 DEF Stop
<1>. QED
  BY <1>1, <1>2, <1>3, <1>4, <1>5, <1>6, <1>7, <1>8, <1>9, <1>10 DEF Step

\* A step of another run does not concern a run that is alone, and a run that
\* is not, or that has ended, does not look at the files any more.
LEMMA OthersStep ==
  ASSUME TypeOK, NEW r \in Run, NEW q \in Run \ {r}, Alone(r), Own(r), Same(r), Step(q)
  PROVE  Own(r)' /\ Same(r)'
<1>1. Active(q)
  BY StepsOfActive
<1>2. ~ (alone[r] /\ Active(r))
  BY <1>1 DEF Alone
<1>3. UNCHANGED <<pc[r], image[r], skeleton[r], shown[r], failed[r], alone[r]>>
  BY OthersKeep
<1>. QED
  BY <1>2, <1>3 DEF Own, Same, Active, Working

\* A run that starts is at a step before the first file, and disturbs no run
\* that counts as alone afterwards.
LEMMA StartStep ==
  ASSUME TypeOK, NEW r \in Run, NEW q \in Run, Own(r), Same(r), StartRun(q)
  PROVE  Own(r)' /\ Same(r)'
<1>1. CASE q = r
  BY <1>1 DEF TypeOK, StartRun, GoTo, Own, Same
<1>2. CASE q # r
  <2>1. UNCHANGED <<pc[r], image[r], skeleton[r], shown[r], failed[r]>> /\ UNCHANGED files
    BY <1>2 DEF TypeOK, StartRun, GoTo
  <2>2. alone'[r] => alone[r]
    BY <1>2 DEF TypeOK, StartRun
  <2>. QED
    BY <2>1, <2>2 DEF Own, Same
<1>. QED
  BY <1>1, <1>2

\* Whoever is alone stays alone until somebody starts.
LEMMA AloneStep ==
  ASSUME TypeOK, NEW r \in Run, Alone(r), Next
  PROVE  Alone(r)'
<1> SUFFICES ASSUME alone'[r], Active(r)', NEW s \in Run \ {r} PROVE ~ Active(s)'
  BY DEF Alone
<1>1. ASSUME NEW q \in Run, StartRun(q) PROVE ~ Active(s)'
  <2>1. pc' = [pc EXCEPT ![q] = "write smooth"]
    BY <1>1 DEF StartRun, GoTo
  <2>2. CASE q = r
    <3>1. alone'[r] = (\A t \in Run \ {r} : ~ Active(t))
      BY <1>1, <2>2, Zenon DEF StartRun
    <3>. QED
      BY <2>1, <2>2, <3>1 DEF TypeOK, Active
  <2>3. CASE q # r
    <3>1. alone'[r] = (alone[r] /\ ~ Active(r))
      BY <1>1, <2>3, Zenon DEF StartRun
    <3>2. Active(r)
      BY <2>1, <2>3 DEF TypeOK, Active
    <3>. QED
      BY <3>1, <3>2
  <2>. QED
    BY <2>2, <2>3
<1>2. ASSUME NEW q \in Run, Step(q) PROVE ~ Active(s)'
  <2>1. alone' = alone
    BY <1>2 DEF Step, WriteSmooth, Binarize, SeparateText, PickWideLines, WriteSkeleton,
       Vectorize, ReadAgain, WriteModel, ShowModel, Stop
  <2>2. Active(q) /\ \E next : pc' = [pc EXCEPT ![q] = next]
    BY <1>2, StepsOfActive DEF Step, WriteSmooth, Binarize, SeparateText, PickWideLines,
       WriteSkeleton, Vectorize, ReadAgain, WriteModel, ShowModel, Stop, GoTo
  <2>3. Active(r)
    BY <2>2 DEF TypeOK, Active
  <2>4. ~ Active(s)
    BY <2>1, <2>3 DEF Alone
  <2>. QED
    BY <2>2, <2>4 DEF TypeOK, Active
<1>. QED
  BY <1>1, <1>2 DEF Next

\* Together: what the argument needs of a run holds at every moment.
Followed == \A r \in Run : Alone(r) /\ Own(r) /\ Same(r)

LEMMA AlwaysFollowed == Spec => []Followed
<1>1. Init => Followed
  BY DEF Init, Followed, Alone, Own, Same, Active, Working
<1>2. TypeOK /\ Followed /\ [Next]_vars => Followed'
  <2> SUFFICES ASSUME TypeOK, Followed, [Next]_vars, NEW r \in Run
               PROVE  Alone(r)' /\ Own(r)' /\ Same(r)'
    BY DEF Followed
  <2> USE DEF Followed
  <2>1. CASE UNCHANGED vars
    BY <2>1 DEF vars, Alone, Own, Same, Active
  <2>2. ASSUME NEW q \in Run, StartRun(q) PROVE Own(r)' /\ Same(r)'
    BY <2>2, StartStep
  <2>3. ASSUME NEW q \in Run, Step(q) PROVE Own(r)' /\ Same(r)'
    BY <2>3, OwnStep, OthersStep
  <2>4. CASE Next
    BY <2>2, <2>3, <2>4, AloneStep DEF Next
  <2>. QED
    BY <2>1, <2>4
<1>. QED
  BY <1>1, <1>2, TypeCorrect, PTL DEF Spec

\* A run that had the workspace to itself and met no failure displays the model
\* of its own drawing: for any number of runs before it, ended or stopped
\* anywhere.
THEOREM OwnDrawing == Spec => []ShowsOwnDrawing
<1>1. Followed => ShowsOwnDrawing
  BY DEF Followed, Own, ShowsOwnDrawing
<1>. QED
  BY <1>1, AlwaysFollowed, PTL

\* A run that had the workspace to itself combines contours and skeleton of one
\* drawing, also when a write or the external program failed.
THEOREM SameDrawing == Spec => []OneDrawing
<1>1. Followed => OneDrawing
  BY DEF Followed, Same, OneDrawing
<1>. QED
  BY <1>1, AlwaysFollowed, PTL
-----------------------------------------------------------------------------
\* A picture after the first half-round, and after both.
Half(S) == S \ Marker(S, 0)
Full(S) == Half(S) \ Marker(Half(S), 1)

Round ==
    \A S : S = prev /\ S # {} =>
        /\ turn = "even" => im = S
        /\ turn = "odd" => im = Half(S)
        /\ turn = "compare" => im = Full(S)

\* What Thin says, of a picture.
Done(S) == Marker(S, 0) \cap S = {} /\ Marker(S, 1) \cap S = {}
ThinIm == \A S : S = im /\ turn = "done" => Done(S)

ThinningInv == ThinningTypes /\ Round /\ ThinIm

\* What is marked is inside the picture's border.
LEMMA MarkedInside == \A S, iter : Marker(S, iter) \subseteq Inner
BY DEF Marker

\* A round that changes nothing has taken nothing in either half.
LEMMA RoundOfNothing ==
    ASSUME NEW S, S = {} \/ S = Full(S)
    PROVE  Done(S)
<1>1. CASE S = {}
  BY <1>1 DEF Done
<1>2. CASE S = Full(S)
  <2>1. Half(S) = S
    BY <1>2 DEF Half, Full
  <2>2. S = S \ Marker(S, 0)
    BY <2>1 DEF Half
  <2>3. S = S \ Marker(S, 1)
    BY <1>2, <2>1 DEF Full
  <2> QED
    BY <2>2, <2>3 DEF Done
<1> QED
  BY <1>1, <1>2

\* The initial states satisfy the invariant.
LEMMA ThinningBegins == ThinningInit => ThinningInv
<1> SUFFICES ASSUME ThinningInit PROVE ThinningInv
  OBVIOUS
<1>1. original \in SUBSET Pixel /\ im = original /\ prev = {} /\ turn = "even"
  BY InputsAssumption DEF ThinningInit
<1>2. ThinningTypes
  BY <1>1 DEF ThinningTypes
<1> QED
  BY <1>1, <1>2 DEF ThinningInv, Round, ThinIm

\* Each half-round preserves the types.
LEMMA TakeOff ==
    ASSUME ThinningTypes, NEW iter, im' = im \ Marker(im, iter),
           UNCHANGED <<original, prev>>, turn' \in {"odd", "compare"}
    PROVE  ThinningTypes'
<1>1. Marker(im, iter) \subseteq (1 .. Rows - 2) \X (1 .. Cols - 2)
  BY MarkedInside DEF Inner
<1> QED
  BY <1>1 DEF ThinningTypes

\* Every step preserves the invariant.
LEMMA ThinningStays == ThinningInv /\ [ThinningNext]_thinning_vars => ThinningInv'
<1> SUFFICES ASSUME ThinningInv, [ThinningNext]_thinning_vars PROVE ThinningInv'
  OBVIOUS
<1> USE DEF ThinningInv
<1>1. CASE ThinEven
  <2>1. ThinningTypes'
    BY <1>1, TakeOff DEF ThinEven
  <2>2. /\ turn = "even" /\ turn' = "odd" /\ prev' = prev
        /\ im' = Half(im)
    BY <1>1 DEF ThinEven, Half
  <2>3. Round' /\ ThinIm'
    BY <2>2 DEF Round, ThinIm
  <2> QED
    BY <2>1, <2>3
<1>2. CASE ThinOdd
  <2>1. ThinningTypes'
    BY <1>2, TakeOff DEF ThinOdd
  <2>2. /\ turn = "odd" /\ turn' = "compare" /\ prev' = prev
        /\ im' = im \ Marker(im, 1)
    BY <1>2 DEF ThinOdd
  <2>3. \A S : S = prev /\ S # {} => im' = Full(S)
    BY <2>2 DEF Round, Full
  <2>4. Round' /\ ThinIm'
    BY <2>2, <2>3 DEF Round, ThinIm
  <2> QED
    BY <2>1, <2>4
<1>3. CASE Again
  BY <1>3 DEF Again, ThinningTypes, Round, ThinIm
<1>4. CASE Finish
  <2>1. im = {} \/ im = Full(im)
    BY <1>4 DEF Finish, Round
  <2>2. Done(im)
    BY <2>1, RoundOfNothing
  <2>3. /\ im' = im /\ prev' = prev /\ original' = original /\ turn' = "done"
    BY <1>4 DEF Finish
  <2>4. ThinIm' /\ Round'
    BY <2>2, <2>3 DEF ThinIm, Round
  <2> QED
    BY <2>3, <2>4 DEF ThinningTypes
<1>5. CASE UNCHANGED thinning_vars
  BY <1>5 DEF thinning_vars, ThinningTypes, Round, ThinIm
<1> QED
  BY <1>1, <1>2, <1>3, <1>4, <1>5 DEF ThinningNext

\* Thinning only takes pixels off, and none of the border of the picture.
THEOREM OnlyInside == ThinningSpec => []ThinningTypes
<1>1. ThinningInv => ThinningTypes
  BY DEF ThinningInv
<1> QED
  BY <1>1, ThinningBegins, ThinningStays, PTL DEF ThinningSpec

\* When thinning returns, no pixel is left that a half-round would take.
THEOREM ThinAtLast == ThinningSpec => []Thin
<1>1. ThinningInv => Thin
  BY DEF ThinningInv, ThinIm, Done, Thin
<1> QED
  BY <1>1, ThinningBegins, ThinningStays, PTL DEF ThinningSpec

-----------------------------------------------------------------------------
\* Pixels may be anywhere, and are counted from one of them, in the sense of the
\* rows and columns (w = 1) or against it (w = -1).
Grid == Int \X Int

At(p, w, r, c) == <<p[1] + w * r, p[2] + w * c>>

\* Counting nothing stays, and counting from there stays on the grid and adds.
LEMMA AtHome == \A p \in Grid, w \in {-1, 1} : At(p, w, 0, 0) = p
BY DEF Grid, At

LEMMA AtGrid ==
    \A p \in Grid, w \in {-1, 1} : \A r, c \in Int : At(p, w, r, c) \in Grid
BY DEF Grid, At

LEMMA AtFurther ==
    ASSUME NEW p \in Grid, NEW w \in {-1, 1},
           NEW r \in Int, NEW c \in Int, NEW i \in Int, NEW j \in Int
    PROVE  At(At(p, w, r, c), w, i, j) = At(p, w, r + i, c + j)
<1> USE DEF Grid, At
<1>1. CASE w = 1
  BY <1>1
<1>2. CASE w = -1
  BY <1>2
<1> QED
  BY <1>1, <1>2

\* Pixels that touch, or are the same.
Near(p, q) == q[1] - p[1] \in -1 .. 1 /\ q[2] - p[2] \in -1 .. 1

\* What is near is within one row and one column, counted either way.
LEMMA NearAt ==
    ASSUME NEW p \in Grid, NEW w \in {-1, 1}
    PROVE  /\ \A q \in Grid : Near(p, q) => \E r, c \in -1 .. 1 : q = At(p, w, r, c)
           /\ \A r, c, i, j \in Int :
                Near(At(p, w, r, c), At(p, w, i, j)) <=> i - r \in -1 .. 1 /\ j - c \in -1 .. 1
<1>1. ASSUME NEW q \in Grid, Near(p, q) PROVE \E r, c \in -1 .. 1 : q = At(p, w, r, c)
  <2> DEFINE r == q[1] - p[1]
             c == q[2] - p[2]
  <2>1. r \in -1 .. 1 /\ c \in -1 .. 1 /\ q = <<p[1] + r, p[2] + c>>
    BY <1>1 DEF Near, Grid
  <2>2. CASE w = 1
    BY <2>1, <2>2 DEF At, Grid
  <2>3. CASE w = -1
    <3>1. -r \in -1 .. 1 /\ -c \in -1 .. 1 /\ q = At(p, w, -r, -c)
      BY <2>1, <2>3 DEF At, Grid
    <3> QED
      BY <3>1
  <2> QED
    BY <2>2, <2>3
<1>2. ASSUME NEW r \in Int, NEW c \in Int, NEW i \in Int, NEW j \in Int
      PROVE  Near(At(p, w, r, c), At(p, w, i, j)) <=> i - r \in -1 .. 1 /\ j - c \in -1 .. 1
  <2>1. CASE w = 1
    BY <2>1 DEF At, Near, Grid
  <2>2. CASE w = -1
    BY <2>2 DEF At, Near, Grid
  <2> QED
    BY <2>1, <2>2
<1> QED
  BY <1>1, <1>2

LEMMA NearBoth == \A p, q \in Grid : Near(p, p) /\ (Near(p, q) <=> Near(q, p))
<1>1. ASSUME NEW p \in Grid, NEW q \in Grid
      PROVE  Near(p, p) /\ (Near(p, q) <=> Near(q, p))
  <2>1. p[1] \in Int /\ p[2] \in Int /\ q[1] \in Int /\ q[2] \in Int
    BY DEF Grid
  <2> QED
    BY <2>1 DEF Near
<1> QED
  BY <1>1

-----------------------------------------------------------------------------
\* T is a part of S that no pixel of the rest of S touches.
SetApart(S, T) == T \subseteq S /\ \A p \in T, q \in S : Near(p, q) => q \in T

\* What touches T has T in it, and what is near.
LEMMA TouchingIs ==
    ASSUME NEW S \in SUBSET Grid, NEW T \in SUBSET S
    PROVE  /\ Touching(S, T) = {q \in S : \E p \in T : Near(p, q)}
           /\ T \subseteq Touching(S, T)
           /\ Touching(S, T) \in SUBSET S
<1>1. ASSUME NEW q \in S
      PROVE  (\E d \in {-1, 0, 1} \X {-1, 0, 1} : <<q[1] + d[1], q[2] + d[2]>> \in T)
                <=> \E p \in T : Near(p, q)
  <2>1. ASSUME NEW d \in {-1, 0, 1} \X {-1, 0, 1}, <<q[1] + d[1], q[2] + d[2]>> \in T
        PROVE  Near(<<q[1] + d[1], q[2] + d[2]>>, q)
    <3>1. d[1] \in -1 .. 1 /\ d[2] \in -1 .. 1 /\ q[1] \in Int /\ q[2] \in Int
      BY DEF Grid
    <3> QED
      BY <3>1 DEF Near
  <2>2. ASSUME NEW p \in T, Near(p, q)
        PROVE  \E d \in {-1, 0, 1} \X {-1, 0, 1} : <<q[1] + d[1], q[2] + d[2]>> \in T
    <3> DEFINE d == <<p[1] - q[1], p[2] - q[2]>>
    <3>1. p[1] \in Int /\ p[2] \in Int /\ q[1] \in Int /\ q[2] \in Int /\ p = <<p[1], p[2]>>
      BY DEF Grid
    <3>2. d \in {-1, 0, 1} \X {-1, 0, 1}
      BY <3>1, <2>2 DEF Near
    <3>3. <<q[1] + d[1], q[2] + d[2]>> = p
      BY <3>1
    <3> QED
      BY <3>2, <3>3
  <2> QED
    BY <2>1, <2>2
<1>2. Touching(S, T) = {q \in S : \E p \in T : Near(p, q)}
  BY <1>1 DEF Touching
<1>3. \A q \in T : Near(q, q)
  BY NearBoth
<1> QED
  BY <1>2, <1>3

\* The equation of the recursive function in Reached.
Spreads(S, T, f) ==
    [n \in 0 .. Cardinality(S) |->
        IF n = 0 THEN T ELSE LET before == f[n - 1] IN Touching(S, before)]

\* There is such a function.
LEMMA Spreading ==
    ASSUME NEW S, NEW base \in S, NEW N \in Nat, NEW next \in [1 .. N -> [S -> S]]
    PROVE  \E f \in [0 .. N -> S] :
              f[0] = base /\ \A k \in 1 .. N : f[k] = next[k][f[k - 1]]
BY Stepwise

\* What is reached from a pixel is the least part of S with it that is closed.
LEMMA ReachedIs ==
    ASSUME NEW S \in SUBSET Grid, IsFiniteSet(S), NEW p \in S
    PROVE  /\ SetApart(S, Reached(S, {p})) /\ p \in Reached(S, {p})
           /\ \A T : SetApart(S, T) /\ p \in T => Reached(S, {p}) \subseteq T
<1> DEFINE N == Cardinality(S)
           f == CHOOSE h : h = Spreads(S, {p}, h)
           D == SUBSET S
           next == [k \in 1 .. N |-> [T \in D |-> Touching(S, T)]]
<1>1. N \in Nat
  BY FS_CardinalityType
<1>2. {p} \in D
  OBVIOUS
<1>3. next \in [1 .. N -> [D -> D]] /\ \A k \in 1 .. N, T \in D : next[k][T] = Touching(S, T)
  <2>1. \A T \in D : Touching(S, T) \in D
    BY TouchingIs
  <2> HIDE DEF D
  <2> QED
    BY <2>1
<1>4. Reached(S, {p}) = f[N]
  BY DEF Reached, Spreads
<1> HIDE DEF next, N
<1>5. \E h : h = Spreads(S, {p}, h)
  <2> DEFINE base == {p}
  <2>0. base \in D /\ next \in [1 .. N -> [D -> D]]
    BY <1>2, <1>3
  <2> HIDE DEF D, base, f
  <2>s. \E g \in [0 .. N -> D] : g[0] = base /\ \A k \in 1 .. N : g[k] = next[k][g[k - 1]]
    BY <1>1, <2>0, Spreading
  <2>1. PICK g \in [0 .. N -> D] : g[0] = {p} /\ \A k \in 1 .. N : g[k] = next[k][g[k - 1]]
    BY <1>1, <2>s DEF base
  <2>2. ASSUME NEW k \in 1 .. N PROVE g[k] = Touching(S, g[k - 1])
    <3>1. k - 1 \in 0 .. N
      BY <1>1
    <3>2. g[k - 1] \in D
      BY <2>1, <3>1
    <3> QED
      BY <2>1, <3>2, <1>3
  <2>3. ASSUME NEW n \in 0 .. N PROVE g[n] = IF n = 0 THEN {p} ELSE Touching(S, g[n - 1])
    <3>1. n = 0 \/ n \in 1 .. N
      BY <1>1
    <3>2. \A k \in 1 .. N : k # 0
      OBVIOUS
    <3> QED
      BY <3>1, <3>2, <2>1, <2>2
  <2>4. g = [n \in 0 .. N |-> IF n = 0 THEN {p} ELSE Touching(S, g[n - 1])]
    <3>1. g = [n \in 0 .. N |-> g[n]]
      BY <2>1
    <3> QED
      BY <3>1, <2>3
  <2>5. g = Spreads(S, {p}, g)
    BY <2>4 DEF Spreads, N
  <2> QED
    BY <2>5
<1>6. f = Spreads(S, {p}, f)
  BY <1>5
<1> HIDE DEF f
<1>7. f[0] = {p} /\ \A k \in 1 .. N : f[k] = Touching(S, f[k - 1])
  <2>1. f = [n \in 0 .. N |-> IF n = 0 THEN {p} ELSE Touching(S, f[n - 1])]
    BY <1>6 DEF Spreads, N
  <2>2. 0 \in 0 .. N /\ \A k \in 1 .. N : k \in 0 .. N /\ k # 0
    BY <1>1
  <2> QED
    BY <2>1, <2>2
<1>8. \A k \in 0 .. N : f[k] \in SUBSET S /\ p \in f[k]
  <2> DEFINE T == {k \in Nat : f[k] \in SUBSET S /\ p \in f[k]}
  <2>1. 0 \in T
    BY <1>7
  <2>2. ASSUME NEW k \in 1 .. N, k - 1 \in T PROVE k \in T
    <3>1. f[k - 1] \in SUBSET S /\ p \in f[k - 1]
      BY <2>2
    <3>2. f[k] = Touching(S, f[k - 1])
      BY <1>7
    <3>3. k \in Nat
      BY <1>1
    <3> QED
      BY <3>1, <3>2, <3>3, TouchingIs
  <2> HIDE DEF T
  <2>3. \A k \in 0 .. N : k \in T
    BY <1>1, <2>1, <2>2, NumbersUpTo
  <2> QED
    BY <2>3 DEF T
<1>9. \A k \in 0 .. N : IsFiniteSet(f[k]) /\ Cardinality(f[k]) \in Nat
  <2>1. \A X \in SUBSET S : IsFiniteSet(X) /\ Cardinality(X) \in Nat
    BY FS_Subset, FS_CardinalityType
  <2> QED
    BY <1>8, <2>1
\* As long as something is added, there is one pixel more at least.
<1>10. Touching(S, f[N]) = f[N]
  <2> DEFINE T == {k \in Nat : Touching(S, f[k]) = f[k] \/ Cardinality(f[k]) >= k + 1}
  <2>1. 0 \in T
    <3>1. Cardinality(f[0]) = 1
      BY <1>7, FS_Singleton
    <3> QED
      BY <3>1
  <2>2. ASSUME NEW k \in 1 .. N, k - 1 \in T PROVE k \in T
    <3>0. k \in Nat /\ k - 1 \in 0 .. N /\ k \in 0 .. N
      BY <1>1
    <3>1. f[k] = Touching(S, f[k - 1])
      BY <1>7
    <3>2. CASE Touching(S, f[k - 1]) = f[k - 1]
      BY <3>0, <3>1, <3>2
    <3>3. CASE Touching(S, f[k - 1]) # f[k - 1]
      <4>1. Cardinality(f[k - 1]) >= (k - 1) + 1
        BY <2>2, <3>3
      <4>2. f[k - 1] \subseteq f[k] /\ f[k - 1] # f[k]
        BY <3>0, <3>1, <3>3, <1>8, TouchingIs
      <4>3. Cardinality(f[k - 1]) < Cardinality(f[k])
        <5>1. /\ Cardinality(f[k - 1]) <= Cardinality(f[k])
              /\ Cardinality(f[k - 1]) = Cardinality(f[k]) => f[k - 1] = f[k]
          BY <3>0, <4>2, <1>9, FS_Subset
        <5> QED
          BY <5>1, <4>2, <3>0, <1>9
      <4>4. Cardinality(f[k]) >= k + 1
        BY <4>1, <4>3, <3>0, <1>9
      <4> QED
        BY <4>4, <3>0
    <3> QED
      BY <3>2, <3>3
  <2> HIDE DEF T
  <2>3. \A k \in 0 .. N : k \in T
    BY <1>1, <2>1, <2>2, NumbersUpTo
  <2>4. N \in T /\ N \in 0 .. N
    BY <1>1, <2>3
  <2>5. Cardinality(f[N]) <= N
    BY <1>8, <2>4, FS_Subset DEF N
  <2> QED
    BY <1>1, <1>9, <2>4, <2>5 DEF T
<1>11. N \in 0 .. N
  BY <1>1
<1>12. SetApart(S, f[N])
  <2>1. f[N] = {q \in S : \E x \in f[N] : Near(x, q)}
    BY <1>8, <1>10, <1>11, TouchingIs
  <2> QED
    BY <2>1 DEF SetApart
<1>13. ASSUME NEW V, SetApart(S, V), p \in V PROVE f[N] \subseteq V
  <2> DEFINE T == {k \in Nat : f[k] \subseteq V}
  <2>1. 0 \in T
    BY <1>7, <1>13
  <2>2. ASSUME NEW k \in 1 .. N, k - 1 \in T PROVE k \in T
    <3>0. k \in Nat /\ k - 1 \in 0 .. N
      BY <1>1
    <3>1. f[k - 1] \subseteq V /\ f[k - 1] \in SUBSET S
      BY <2>2, <3>0, <1>8
    <3>2. f[k] = {q \in S : \E x \in f[k - 1] : Near(x, q)}
      <4>1. f[k] = Touching(S, f[k - 1])
        BY <1>7
      <4> HIDE DEF T
      <4> QED
        BY <3>1, <4>1, TouchingIs
    <3>3. f[k] \subseteq V
      BY <3>1, <3>2, <1>13 DEF SetApart
    <3> QED
      BY <3>0, <3>3
  <2> HIDE DEF T
  <2>3. \A k \in 0 .. N : k \in T
    BY <1>1, <2>1, <2>2, NumbersUpTo
  <2> QED
    BY <2>3, <1>11 DEF T
<1> QED
  BY <1>4, <1>8, <1>11, <1>12, <1>13

\* A piece is closed, and no part of it is closed but the whole.
LEMMA PieceIs ==
    ASSUME NEW S \in SUBSET Grid, IsFiniteSet(S), NEW C \in Pieces(S)
    PROVE  /\ SetApart(S, C) /\ C # {}
           /\ \A T : SetApart(S, T) /\ T \intersect C # {} => C \subseteq T
<1>1. PICK p \in S : C = Reached(S, {p})
  BY DEF Pieces
<1>2. SetApart(S, C) /\ p \in C /\ \A T : SetApart(S, T) /\ p \in T => C \subseteq T
  BY <1>1, ReachedIs
<1>3. ASSUME NEW T, SetApart(S, T), T \intersect C # {} PROVE C \subseteq T
  <2>1. CASE p \in T
    BY <2>1, <1>2, <1>3
  <2>2. CASE p \notin T
    <3>1. SetApart(S, C \ T)
      <4>1. ASSUME NEW x \in C \ T, NEW y \in S, Near(x, y) PROVE y \in C \ T
        <5>1. y \in C /\ x \in S
          BY <4>1, <1>2 DEF SetApart
        <5>2. Near(y, x)
          BY <4>1, <5>1, NearBoth
        <5>3. y \notin T
          BY <4>1, <5>1, <5>2, <1>3 DEF SetApart
        <5> QED
          BY <5>1, <5>3
      <4> QED
        BY <4>1, <1>2 DEF SetApart
    <3>2. C \subseteq C \ T
      BY <2>2, <3>1, <1>2
    <3> QED
      BY <3>2, <1>3
  <2> QED
    BY <2>1, <2>2
<1> QED
  BY <1>2, <1>3

\* A picture of which no part is closed but the whole hangs together.
LEMMA WholeIs ==
    ASSUME NEW R \in SUBSET Grid, IsFiniteSet(R), R # {},
           \A T : SetApart(R, T) /\ T # {} => T = R
    PROVE  Whole(R)
<1>1. PICK p : p \in R
  OBVIOUS
<1>2. SetApart(R, Reached(R, {p})) /\ p \in Reached(R, {p})
  BY <1>1, ReachedIs
<1>3. Reached(R, {p}) = R
  BY <1>2
<1> QED
  BY <1>1, <1>3 DEF Whole

-----------------------------------------------------------------------------
\* One of the eight holds, and only one.
OneOf(a, b, c, d, e, f, g, h) ==
    /\ a \/ b \/ c \/ d \/ e \/ f \/ g \/ h
    /\ a => ~ (b \/ c \/ d \/ e \/ f \/ g \/ h)
    /\ b => ~ (c \/ d \/ e \/ f \/ g \/ h)
    /\ c => ~ (d \/ e \/ f \/ g \/ h)
    /\ d => ~ (e \/ f \/ g \/ h)
    /\ e => ~ (f \/ g \/ h)
    /\ f => ~ (g \/ h)
    /\ g => ~ h

\* What the neighbours of a pixel that is taken off have in common, of all that
\* the code asks of them: the one above and so on, clockwise.
Taken(a, b, c, d, e, f, g, h) ==
    /\ OneOf(~a /\ b, ~b /\ c, ~c /\ d, ~d /\ e, ~e /\ f, ~f /\ g, ~g /\ h, ~h /\ a)
    /\ ~ OneOf(a, b, c, d, e, f, g, h)
    /\ ~ (c /\ e /\ a) /\ ~ (c /\ e /\ g)

\* The same of the pixel at <<r, c>> from p.
TakenAt(S, p, w, r, c) ==
    Taken(At(p, w, r - 1, c) \in S, At(p, w, r - 1, c + 1) \in S, At(p, w, r, c + 1) \in S,
          At(p, w, r + 1, c + 1) \in S, At(p, w, r + 1, c) \in S, At(p, w, r + 1, c - 1) \in S,
          At(p, w, r, c - 1) \in S, At(p, w, r - 1, c - 1) \in S)

\* Next to a pixel that is taken off, what remains hangs together.
LEMMA AroundTaken ==
    ASSUME NEW S, NEW D, NEW U, NEW p, NEW w,
           \A r, c \in -1 .. 1 : At(p, w, r, c) \in D =>
                  At(p, w, r, c) \in S /\ TakenAt(S, p, w, r, c),
           \A r, c \in -1 .. 1 : \A i, j \in -1 .. 1 :
               /\ At(p, w, r, c) \in U /\ At(p, w, r, c) \in S \ D
               /\ At(p, w, i, j) \in S \ D
               /\ i - r \in -1 .. 1 /\ j - c \in -1 .. 1
               => At(p, w, i, j) \in U,
           At(p, w, 0, 0) \in D
    PROVE  \A r, c \in -1 .. 1 : \A i, j \in -1 .. 1 :
               /\ At(p, w, r, c) \in U /\ At(p, w, r, c) \in S \ D
               /\ At(p, w, i, j) \in S \ D
               => At(p, w, i, j) \in U
BY SMTT(120) DEF TakenAt, Taken, OneOf

\* A pixel that remains and is next to p and to the one at <<r, c>> from it.
Shares(S, D, p, w, r, c) ==
    \E i, j \in -1 .. 1 : /\ At(p, w, i, j) \in S \ D
                          /\ i - r \in -1 .. 1 /\ j - c \in -1 .. 1

\* A pixel that is taken off and touches another such one shares with it a pixel
\* that remains, if any remains next to it: one lemma for each direction.
LEMMA SharedEast ==
    ASSUME NEW S, NEW D, NEW p, NEW w,
           \A r, c \in -2 .. 2 : At(p, w, r, c) \in D =>
                  At(p, w, r, c) \in S /\ TakenAt(S, p, w, r, c),
           At(p, w, 0, 0) \in D, At(p, w, 0, 1) \in D,
           NEW a \in -1 .. 1, NEW b \in -1 .. 1, At(p, w, a, b) \in S \ D
    PROVE  Shares(S, D, p, w, 0, 1)
BY SMTT(120) DEF TakenAt, Taken, OneOf, Shares

LEMMA SharedSouthEast ==
    ASSUME NEW S, NEW D, NEW p, NEW w,
           \A r, c \in -2 .. 2 : At(p, w, r, c) \in D =>
                  At(p, w, r, c) \in S /\ TakenAt(S, p, w, r, c),
           At(p, w, 0, 0) \in D, At(p, w, 1, 1) \in D,
           NEW a \in -1 .. 1, NEW b \in -1 .. 1, At(p, w, a, b) \in S \ D
    PROVE  Shares(S, D, p, w, 1, 1)
BY SMTT(120) DEF TakenAt, Taken, OneOf, Shares

LEMMA SharedSouth ==
    ASSUME NEW S, NEW D, NEW p, NEW w,
           \A r, c \in -2 .. 2 : At(p, w, r, c) \in D =>
                  At(p, w, r, c) \in S /\ TakenAt(S, p, w, r, c),
           At(p, w, 0, 0) \in D, At(p, w, 1, 0) \in D,
           NEW a \in -1 .. 1, NEW b \in -1 .. 1, At(p, w, a, b) \in S \ D
    PROVE  Shares(S, D, p, w, 1, 0)
BY SMTT(120) DEF TakenAt, Taken, OneOf, Shares

LEMMA SharedSouthWest ==
    ASSUME NEW S, NEW D, NEW p, NEW w,
           \A r, c \in -2 .. 2 : At(p, w, r, c) \in D =>
                  At(p, w, r, c) \in S /\ TakenAt(S, p, w, r, c),
           At(p, w, 0, 0) \in D, At(p, w, 1, -1) \in D,
           NEW a \in -1 .. 1, NEW b \in -1 .. 1, At(p, w, a, b) \in S \ D
    PROVE  Shares(S, D, p, w, 1, -1)
BY SMTT(120) DEF TakenAt, Taken, OneOf, Shares

LEMMA SharedWest ==
    ASSUME NEW S, NEW D, NEW p, NEW w,
           \A r, c \in -2 .. 2 : At(p, w, r, c) \in D =>
                  At(p, w, r, c) \in S /\ TakenAt(S, p, w, r, c),
           At(p, w, 0, 0) \in D, At(p, w, 0, -1) \in D,
           NEW a \in -1 .. 1, NEW b \in -1 .. 1, At(p, w, a, b) \in S \ D
    PROVE  Shares(S, D, p, w, 0, -1)
BY SMTT(120) DEF TakenAt, Taken, OneOf, Shares

LEMMA SharedNorthWest ==
    ASSUME NEW S, NEW D, NEW p, NEW w,
           \A r, c \in -2 .. 2 : At(p, w, r, c) \in D =>
                  At(p, w, r, c) \in S /\ TakenAt(S, p, w, r, c),
           At(p, w, 0, 0) \in D, At(p, w, -1, -1) \in D,
           NEW a \in -1 .. 1, NEW b \in -1 .. 1, At(p, w, a, b) \in S \ D
    PROVE  Shares(S, D, p, w, -1, -1)
BY SMTT(120) DEF TakenAt, Taken, OneOf, Shares

LEMMA SharedNorth ==
    ASSUME NEW S, NEW D, NEW p, NEW w,
           \A r, c \in -2 .. 2 : At(p, w, r, c) \in D =>
                  At(p, w, r, c) \in S /\ TakenAt(S, p, w, r, c),
           At(p, w, 0, 0) \in D, At(p, w, -1, 0) \in D,
           NEW a \in -1 .. 1, NEW b \in -1 .. 1, At(p, w, a, b) \in S \ D
    PROVE  Shares(S, D, p, w, -1, 0)
BY SMTT(120) DEF TakenAt, Taken, OneOf, Shares

LEMMA SharedNorthEast ==
    ASSUME NEW S, NEW D, NEW p, NEW w,
           \A r, c \in -2 .. 2 : At(p, w, r, c) \in D =>
                  At(p, w, r, c) \in S /\ TakenAt(S, p, w, r, c),
           At(p, w, 0, 0) \in D, At(p, w, -1, 1) \in D,
           NEW a \in -1 .. 1, NEW b \in -1 .. 1, At(p, w, a, b) \in S \ D
    PROVE  Shares(S, D, p, w, -1, 1)
BY SMTT(120) DEF TakenAt, Taken, OneOf, Shares

\* Four pixels in a square, and none around them.
Dotted(S, p, w, r, c) ==
    /\ \A i, j \in 0 .. 1 : At(p, w, r + i, c + j) \in S
    /\ \A i, j \in -1 .. 2 : At(p, w, r + i, c + j) \in S => i \in 0 .. 1 /\ j \in 0 .. 1

\* A pixel that is taken off with all that is around it was of such a square.
LEMMA NothingAround ==
    ASSUME NEW S, NEW D, NEW p, NEW w,
           \A r, c \in -1 .. 1 : At(p, w, r, c) \in D =>
                  At(p, w, r, c) \in S /\ TakenAt(S, p, w, r, c),
           At(p, w, 0, 0) \in D, \A a, b \in -1 .. 1 : At(p, w, a, b) \notin S \ D
    PROVE  \E r, c \in -1 .. 0 : Dotted(S, p, w, r, c)
BY SMTT(120) DEF TakenAt, Taken, OneOf, Dotted

\* Where it is counted from does not matter.
LEMMA TakenFrom ==
    ASSUME NEW S, NEW p \in Grid, NEW w \in {-1, 1}, NEW r \in Int, NEW c \in Int,
           TakenAt(S, At(p, w, r, c), w, 0, 0)
    PROVE  TakenAt(S, p, w, r, c)
<1> DEFINE q == At(p, w, r, c)
<1>1. \A i, j \in Int : At(q, w, i, j) = At(p, w, r + i, c + j)
  BY AtFurther
<1> HIDE DEF q
<1>2. /\ At(q, w, 0 - 1, 0) = At(p, w, r - 1, c)
      /\ At(q, w, 0 - 1, 0 + 1) = At(p, w, r - 1, c + 1)
      /\ At(q, w, 0, 0 + 1) = At(p, w, r, c + 1)
      /\ At(q, w, 0 + 1, 0 + 1) = At(p, w, r + 1, c + 1)
      /\ At(q, w, 0 + 1, 0) = At(p, w, r + 1, c)
      /\ At(q, w, 0 + 1, 0 - 1) = At(p, w, r + 1, c - 1)
      /\ At(q, w, 0, 0 - 1) = At(p, w, r, c - 1)
      /\ At(q, w, 0 - 1, 0 - 1) = At(p, w, r - 1, c - 1)
  BY <1>1
<1>3. TakenAt(S, q, w, 0, 0)
  BY DEF q
<1> QED
  BY <1>2, <1>3 DEF TakenAt

LEMMA NearFurther ==
    ASSUME NEW p \in Grid, NEW w \in {-1, 1}, NEW r \in Int, NEW c \in Int,
           NEW q \in Grid, Near(At(p, w, r, c), q)
    PROVE  \E a, b \in -1 .. 1 : q = At(p, w, r + a, c + b)
<1>1. At(p, w, r, c) \in Grid
  BY AtGrid
<1>2. PICK a \in -1 .. 1, b \in -1 .. 1 : q = At(At(p, w, r, c), w, a, b)
  BY <1>1, NearAt
<1>3. \A i, j \in Int : At(At(p, w, r, c), w, i, j) = At(p, w, r + i, c + j)
  BY AtFurther
<1>4. a \in Int /\ b \in Int
  OBVIOUS
<1>5. q = At(p, w, r + a, c + b)
  BY <1>2, <1>3, <1>4, Zenon
<1> QED
  BY <1>5

\* What A and B count is 1.
LEMMA OneOfEight ==
    ASSUME NEW K \in SUBSET (2 .. 9)
    PROVE  Cardinality(K) = 1 <=>
              OneOf(2 \in K, 3 \in K, 4 \in K, 5 \in K, 6 \in K, 7 \in K, 8 \in K, 9 \in K)
<1>1. IsFiniteSet(K)
  <2>1. 2 \in Int /\ 9 \in Int
    OBVIOUS
  <2>2. IsFiniteSet(2 .. 9)
    BY <2>1, FS_Interval, Zenon
  <2> QED
    BY <2>2, FS_Subset
<1>2. Cardinality(K) = 1 <=> \E x : K = {x}
  BY <1>1, FS_Singleton
<1>3. ASSUME NEW x, K = {x}
      PROVE  OneOf(2 \in K, 3 \in K, 4 \in K, 5 \in K, 6 \in K, 7 \in K, 8 \in K, 9 \in K)
  <2>1. x \in 2 .. 9
    BY <1>3
  <2> QED
    BY <1>3, <2>1 DEF OneOf
<1>4. ASSUME OneOf(2 \in K, 3 \in K, 4 \in K, 5 \in K, 6 \in K, 7 \in K, 8 \in K, 9 \in K)
      PROVE  \E x : K = {x}
  <2>1. PICK x \in 2 .. 9 : x \in K
    BY <1>4 DEF OneOf
  <2>2. ASSUME NEW y \in K PROVE y = x
    <3>1. y \in 2 .. 9
      OBVIOUS
    <3> QED
      BY <3>1, <2>1, <1>4 DEF OneOf
  <2>3. K = {x}
    BY <2>1, <2>2
  <2> QED
    BY <2>3
<1> QED
  BY <1>2, <1>3, <1>4

\* The second half-round is the first one turned by 180 degrees.
Turned(iter) == IF iter = 0 THEN 1 ELSE -1

\* What is marked is taken off in this sense.
LEMMA MarkedTaken ==
    ASSUME NEW S, NEW iter \in {0, 1}, NEW p \in Marker(S, iter)
    PROVE  p \in Grid /\ TakenAt(S, p, Turned(iter), 0, 0)
<1>1. p \in Inner /\ A(S, p) = 1 /\ B(S, p) # 1 /\ Sides(S, p, iter)
  BY DEF Marker, Between
<1>2. p \in Grid
  BY <1>1, SizeAssumption DEF Inner, Grid
<1> DEFINE rises == {n \in 2 .. 9 : ~ Ink(S, p, n) /\ Ink(S, p, IF n = 9 THEN 2 ELSE n + 1)}
           inked == {n \in 2 .. 9 : Ink(S, p, n)}
<1>3. Cardinality(rises) = 1 /\ Cardinality(inked) # 1
  BY <1>1 DEF A, B
<1>4. /\ OneOf(2 \in rises, 3 \in rises, 4 \in rises, 5 \in rises,
               6 \in rises, 7 \in rises, 8 \in rises, 9 \in rises)
      /\ ~ OneOf(2 \in inked, 3 \in inked, 4 \in inked, 5 \in inked,
                 6 \in inked, 7 \in inked, 8 \in inked, 9 \in inked)
  BY <1>3, OneOfEight
<1> DEFINE k(n) == Ink(S, p, n)
<1>5. OneOf(~ k(2) /\ k(3), ~ k(3) /\ k(4), ~ k(4) /\ k(5), ~ k(5) /\ k(6),
            ~ k(6) /\ k(7), ~ k(7) /\ k(8), ~ k(8) /\ k(9), ~ k(9) /\ k(2))
  BY <1>4 DEF OneOf
<1>6. ~ OneOf(k(2), k(3), k(4), k(5), k(6), k(7), k(8), k(9))
  BY <1>4 DEF OneOf
<1>7. CASE iter = 0
  <2>1. ~ (k(4) /\ k(6) /\ k(2)) /\ ~ (k(4) /\ k(6) /\ k(8))
    BY <1>1, <1>7 DEF Sides, OneBlank
  <2>2. Taken(k(2), k(3), k(4), k(5), k(6), k(7), k(8), k(9))
    BY <2>1, <1>5, <1>6 DEF Taken
  <2>3. /\ P(p, 2) = At(p, 1, 0 - 1, 0) /\ P(p, 3) = At(p, 1, 0 - 1, 0 + 1)
        /\ P(p, 4) = At(p, 1, 0, 0 + 1) /\ P(p, 5) = At(p, 1, 0 + 1, 0 + 1)
        /\ P(p, 6) = At(p, 1, 0 + 1, 0) /\ P(p, 7) = At(p, 1, 0 + 1, 0 - 1)
        /\ P(p, 8) = At(p, 1, 0, 0 - 1) /\ P(p, 9) = At(p, 1, 0 - 1, 0 - 1)
    BY <1>2 DEF P, At, Grid
  <2> QED
    BY <1>2, <1>7, <2>2, <2>3 DEF TakenAt, Ink, Turned
<1>8. CASE iter = 1
  <2>1. ~ (k(8) /\ k(2) /\ k(6)) /\ ~ (k(8) /\ k(2) /\ k(4))
    BY <1>1, <1>8 DEF Sides, OneBlank
  <2>2. Taken(k(6), k(7), k(8), k(9), k(2), k(3), k(4), k(5))
    BY <2>1, <1>5, <1>6 DEF Taken, OneOf
  <2>3. /\ P(p, 6) = At(p, -1, 0 - 1, 0) /\ P(p, 7) = At(p, -1, 0 - 1, 0 + 1)
        /\ P(p, 8) = At(p, -1, 0, 0 + 1) /\ P(p, 9) = At(p, -1, 0 + 1, 0 + 1)
        /\ P(p, 2) = At(p, -1, 0 + 1, 0) /\ P(p, 3) = At(p, -1, 0 + 1, 0 - 1)
        /\ P(p, 4) = At(p, -1, 0, 0 - 1) /\ P(p, 5) = At(p, -1, 0 - 1, 0 - 1)
    BY <1>2 DEF P, At, Grid
  <2> QED
    BY <1>2, <1>8, <2>2, <2>3 DEF TakenAt, Ink, Turned
<1> QED
  BY <1>7, <1>8

-----------------------------------------------------------------------------
\* D is a set of pixels of S that a half-round may take off.
TakesOff(S, D, w) == D \subseteq S /\ \A p \in D : TakenAt(S, p, w, 0, 0)

\* The pixels of D around p are all such.
Around(S, D, p, w) ==
    \A r, c \in Int : At(p, w, r, c) \in D =>
        At(p, w, r, c) \in S /\ TakenAt(S, p, w, r, c)

LEMMA TakenAround ==
    ASSUME NEW S \in SUBSET Grid, NEW D, NEW w \in {-1, 1}, TakesOff(S, D, w), NEW p \in D
    PROVE  p \in Grid /\ At(p, w, 0, 0) = p /\ Around(S, D, p, w)
<1>1. p \in Grid
  BY DEF TakesOff
<1>2. ASSUME NEW r \in Int, NEW c \in Int, At(p, w, r, c) \in D
      PROVE  At(p, w, r, c) \in S /\ TakenAt(S, p, w, r, c)
  BY <1>1, <1>2, TakenFrom DEF TakesOff
<1> QED
  BY <1>1, <1>2, AtHome DEF Around

\* Two pixels that are taken off and touch have one that remains in common, or
\* none that remains next to the first.
LEMMA Common ==
    ASSUME NEW S \in SUBSET Grid, NEW D, NEW w \in {-1, 1}, TakesOff(S, D, w),
           NEW p \in D, NEW q \in D, Near(p, q), NEW u \in S \ D, Near(p, u)
    PROVE  \E z \in S \ D : Near(p, z) /\ Near(q, z)
<1>1. p \in Grid /\ At(p, w, 0, 0) = p /\ Around(S, D, p, w)
  BY TakenAround
<1>i. q \in Grid /\ u \in Grid
  BY DEF TakesOff
<1>2. PICK a \in -1 .. 1, b \in -1 .. 1 : u = At(p, w, a, b)
  BY <1>1, <1>i, NearAt
<1>3. PICK r \in -1 .. 1, c \in -1 .. 1 : q = At(p, w, r, c)
  BY <1>1, <1>i, NearAt
<1>4. At(p, w, 0, 0) \in D /\ At(p, w, r, c) \in D /\ At(p, w, a, b) \in S \ D
  BY <1>1, <1>2, <1>3
<1>5. \A i, j \in -2 .. 2 : At(p, w, i, j) \in D =>
            At(p, w, i, j) \in S /\ TakenAt(S, p, w, i, j)
  BY <1>1 DEF Around
<1>6. CASE r = 0 /\ c = 0
  BY <1>1, <1>3, <1>6
<1>7. CASE ~ (r = 0 /\ c = 0)
  <2>1. Shares(S, D, p, w, r, c)
    <3>1. CASE r = 0 /\ c = 1
      BY <3>1, <1>4, <1>5, SharedEast
    <3>2. CASE r = 1 /\ c = 1
      BY <3>2, <1>4, <1>5, SharedSouthEast
    <3>3. CASE r = 1 /\ c = 0
      BY <3>3, <1>4, <1>5, SharedSouth
    <3>4. CASE r = 1 /\ c = -1
      BY <3>4, <1>4, <1>5, SharedSouthWest
    <3>5. CASE r = 0 /\ c = -1
      BY <3>5, <1>4, <1>5, SharedWest
    <3>6. CASE r = -1 /\ c = -1
      BY <3>6, <1>4, <1>5, SharedNorthWest
    <3>7. CASE r = -1 /\ c = 0
      BY <3>7, <1>4, <1>5, SharedNorth
    <3>8. CASE r = -1 /\ c = 1
      BY <3>8, <1>4, <1>5, SharedNorthEast
    <3> QED
      BY <1>7, <3>1, <3>2, <3>3, <3>4, <3>5, <3>6, <3>7, <3>8
  <2>2. PICK i \in -1 .. 1, j \in -1 .. 1 :
            At(p, w, i, j) \in S \ D /\ i - r \in -1 .. 1 /\ j - c \in -1 .. 1
    BY <2>1 DEF Shares
  <2>3. Near(At(p, w, 0, 0), At(p, w, i, j)) /\ Near(At(p, w, r, c), At(p, w, i, j))
    BY <2>2, <1>1, NearAt
  <2> QED
    BY <2>2, <2>3, <1>1, <1>3
<1> QED
  BY <1>6, <1>7

\* If one of what remains around p is in U, and U is closed, they all are.
LEMMA AllAround ==
    ASSUME NEW S \in SUBSET Grid, NEW D, NEW w \in {-1, 1}, TakesOff(S, D, w),
           NEW U, SetApart(S \ D, U),
           NEW p \in D, NEW u \in U, Near(p, u), NEW z \in S \ D, Near(p, z)
    PROVE  z \in U
<1>1. p \in Grid /\ At(p, w, 0, 0) = p /\ Around(S, D, p, w)
  BY TakenAround
<1>2. u \in S \ D /\ u \in Grid /\ z \in Grid
  BY DEF SetApart
<1>3. PICK r \in -1 .. 1, c \in -1 .. 1 : u = At(p, w, r, c)
  BY <1>1, <1>2, NearAt
<1>4. PICK i \in -1 .. 1, j \in -1 .. 1 : z = At(p, w, i, j)
  BY <1>1, <1>2, NearAt
<1>5. ASSUME NEW a \in -1 .. 1, NEW b \in -1 .. 1, NEW d \in -1 .. 1, NEW e \in -1 .. 1,
             At(p, w, a, b) \in U, At(p, w, d, e) \in S \ D,
             d - a \in -1 .. 1, e - b \in -1 .. 1
      PROVE  At(p, w, d, e) \in U
  <2>1. Near(At(p, w, a, b), At(p, w, d, e))
    BY <1>1, <1>5, NearAt
  <2> QED
    BY <2>1, <1>5 DEF SetApart
<1>6. /\ \A a, b \in -1 .. 1 : At(p, w, a, b) \in D =>
            At(p, w, a, b) \in S /\ TakenAt(S, p, w, a, b)
      /\ At(p, w, 0, 0) \in D
      /\ At(p, w, r, c) \in U /\ At(p, w, r, c) \in S \ D /\ At(p, w, i, j) \in S \ D
  BY <1>1, <1>2, <1>3, <1>4 DEF Around
<1>7. \A a, b \in -1 .. 1 : \A d, e \in -1 .. 1 :
         /\ At(p, w, a, b) \in U /\ At(p, w, a, b) \in S \ D
         /\ At(p, w, d, e) \in S \ D
         => At(p, w, d, e) \in U
  BY <1>5, <1>6, AroundTaken
<1> QED
  BY <1>4, <1>6, <1>7

\* What remains of a piece hangs together.
LEMMA RestIsWhole ==
    ASSUME NEW S \in SUBSET Grid, IsFiniteSet(S), NEW D, NEW w \in {-1, 1},
           TakesOff(S, D, w), NEW C \in Pieces(S), C \ D # {}
    PROVE  Whole(C \ D)
<1> DEFINE R == C \ D
<1>1. /\ SetApart(S, C) /\ C \subseteq S
      /\ \A T : SetApart(S, T) /\ T \intersect C # {} => C \subseteq T
  BY PieceIs DEF SetApart
<1>2. R \in SUBSET Grid /\ IsFiniteSet(R) /\ D \subseteq S
  BY <1>1, FS_Subset DEF TakesOff
<1>3. ASSUME NEW U, SetApart(R, U), U # {} PROVE U = R
  <2>1. U \subseteq R /\ U \subseteq S \ D
    BY <1>1, <1>3 DEF SetApart
  <2>2. SetApart(S \ D, U)
    <3>1. ASSUME NEW x \in U, NEW y \in S \ D, Near(x, y) PROVE y \in U
      <4>1. y \in R
        BY <2>1, <1>1, <3>1 DEF SetApart
      <4> QED
        BY <4>1, <3>1, <1>3 DEF SetApart
    <3> QED
      BY <2>1, <3>1 DEF SetApart
  <2> DEFINE V == U \union {p \in C \intersect D : \E u \in U : Near(p, u)}
  <2>3. SetApart(S, V)
    <3>1. V \subseteq C /\ V \subseteq S
      BY <2>1, <1>1
    <3>2. ASSUME NEW x \in V, NEW y \in S, Near(x, y) PROVE y \in V
      <4>1. y \in C /\ x \in Grid /\ y \in Grid
        BY <3>1, <3>2, <1>1 DEF SetApart
      <4>2. Near(y, x)
        BY <4>1, <3>2, NearBoth
      <4>3. CASE x \in U /\ y \notin D
        BY <4>3, <3>2, <2>2 DEF SetApart
      <4>4. CASE x \in U /\ y \in D
        BY <4>1, <4>2, <4>4
      <4>5. CASE x \notin U /\ y \notin D
        <5>1. PICK u \in U : Near(x, u)
          BY <4>5
        <5>2. x \in D /\ y \in S \ D
          BY <4>5
        <5>3. y \in U
          BY <5>1, <5>2, <3>2, <2>2, AllAround
        <5> QED
          BY <5>3
      <4>6. CASE x \notin U /\ y \in D
        <5>1. PICK u \in U : Near(x, u)
          BY <4>6
        <5>2. x \in D /\ u \in S \ D
          BY <4>6, <2>1
        <5>3. PICK z \in S \ D : Near(x, z) /\ Near(y, z)
          BY <5>1, <5>2, <4>6, <3>2, Common
        <5>4. z \in U
          BY <5>1, <5>2, <5>3, <2>2, AllAround
        <5> QED
          BY <5>3, <5>4, <4>1, <4>6
      <4> QED
        BY <4>3, <4>4, <4>5, <4>6
    <3> HIDE DEF V
    <3> QED
      BY <3>1, <3>2 DEF SetApart
  <2>4. V \intersect C # {}
    BY <2>1, <1>3
  <2>5. C \subseteq V
    BY <2>3, <2>4, <1>1
  <2> QED
    BY <2>1, <2>5
<1> HIDE DEF R
<1>4. R # {}
  BY DEF R
<1>5. Whole(R)
  BY <1>2, <1>3, <1>4, WholeIs
<1> QED
  BY <1>5 DEF R

\* A square with nothing around is the whole of the piece of each of its pixels.
LEMMA DotIs ==
    ASSUME NEW S \in SUBSET Grid, IsFiniteSet(S), NEW w \in {-1, 1},
           NEW C \in Pieces(S), NEW p \in C, NEW r \in -1 .. 0, NEW c \in -1 .. 0,
           Dotted(S, p, w, r, c)
    PROVE  Dot(C)
<1>1. /\ SetApart(S, C) /\ C \subseteq S
      /\ \A T : SetApart(S, T) /\ T \intersect C # {} => C \subseteq T
  BY PieceIs DEF SetApart
<1>2. p \in Grid /\ At(p, w, 0, 0) = p
  BY <1>1, AtHome
<1> DEFINE Q == {At(p, w, r + i, c + j) : i \in 0 .. 1, j \in 0 .. 1}
<1>3. Q \subseteq S
  BY DEF Dotted
<1>4. p \in Q
  <2>1. -r \in 0 .. 1 /\ -c \in 0 .. 1 /\ r + (-r) = 0 /\ c + (-c) = 0
    OBVIOUS
  <2> QED
    BY <2>1, <1>2
<1>5. SetApart(S, Q)
  <2>1. ASSUME NEW i \in 0 .. 1, NEW j \in 0 .. 1, NEW y \in S, Near(At(p, w, r + i, c + j), y)
        PROVE  y \in Q
    <3>0. r + i \in Int /\ c + j \in Int /\ y \in Grid
      OBVIOUS
    <3>2. PICK a \in -1 .. 1, b \in -1 .. 1 : y = At(p, w, (r + i) + a, (c + j) + b)
      BY <2>1, <3>0, <1>2, NearFurther
    <3>3. y = At(p, w, r + (i + a), c + (j + b))
      <4>1. (r + i) + a = r + (i + a) /\ (c + j) + b = c + (j + b)
        OBVIOUS
      <4> QED
        BY <4>1, <3>2
    <3>4. i + a \in -1 .. 2 /\ j + b \in -1 .. 2
      OBVIOUS
    <3>5. i + a \in 0 .. 1 /\ j + b \in 0 .. 1
      BY <3>3, <3>4 DEF Dotted
    <3> QED
      BY <3>3, <3>5
  <2> QED
    BY <1>3, <2>1 DEF SetApart
<1>6. C \subseteq Q
  BY <1>1, <1>4, <1>5
<1>7. Q \subseteq C
  <2>1. ASSUME NEW i \in 0 .. 1, NEW j \in 0 .. 1 PROVE At(p, w, r + i, c + j) \in C
    <3>1. r + i \in Int /\ c + j \in Int /\ (r + i) - 0 \in -1 .. 1 /\ (c + j) - 0 \in -1 .. 1
      OBVIOUS
    <3>2. Near(At(p, w, 0, 0), At(p, w, r + i, c + j))
      BY <3>1, <1>2, NearAt
    <3>3. At(p, w, r + i, c + j) \in S
      BY DEF Dotted
    <3> QED
      BY <3>2, <3>3, <1>1, <1>2 DEF SetApart
  <2> QED
    BY <2>1
<1>8. C = {At(p, w, r, c), At(p, w, r, c + 1), At(p, w, r + 1, c + 1), At(p, w, r + 1, c)}
  <2>1. Q = {At(p, w, r + 0, c + 0), At(p, w, r + 0, c + 1),
             At(p, w, r + 1, c + 1), At(p, w, r + 1, c + 0)}
    <3>1. \A i : i \in 0 .. 1 <=> i = 0 \/ i = 1
      OBVIOUS
    <3> QED
      BY <3>1
  <2>2. r + 0 = r /\ c + 0 = c
    OBVIOUS
  <2> QED
    BY <1>6, <1>7, <2>1, <2>2
<1>9. CASE w = 1
  <2> DEFINE q == At(p, w, r, c)
  <2>1. /\ P(q, 4) = At(p, w, r, c + 1) /\ P(q, 5) = At(p, w, r + 1, c + 1)
        /\ P(q, 6) = At(p, w, r + 1, c)
    BY <1>2, <1>9 DEF P, At, Grid
  <2> HIDE DEF q
  <2>2. C = {q, P(q, 4), P(q, 5), P(q, 6)}
    BY <1>8, <2>1 DEF q
  <2> QED
    BY <2>2 DEF Dot
<1>10. CASE w = -1
  <2> DEFINE q == At(p, w, r + 1, c + 1)
  <2>1. /\ P(q, 4) = At(p, w, r + 1, c) /\ P(q, 5) = At(p, w, r, c)
        /\ P(q, 6) = At(p, w, r, c + 1)
    BY <1>2, <1>10 DEF P, At, Grid
  <2> HIDE DEF q
  <2>2. C = {q, P(q, 4), P(q, 5), P(q, 6)}
    BY <1>8, <2>1 DEF q
  <2> QED
    BY <2>2 DEF Dot
<1> QED
  BY <1>9, <1>10

\* A piece of which nothing remains was a dot.
LEMMA GoneWasDot ==
    ASSUME NEW S \in SUBSET Grid, IsFiniteSet(S), NEW D, NEW w \in {-1, 1},
           TakesOff(S, D, w), NEW C \in Pieces(S), C \ D = {}
    PROVE  Dot(C)
<1>1. SetApart(S, C) /\ C # {}
  BY PieceIs
<1>2. PICK p \in D : p \in C
  BY <1>1
<1>3. p \in Grid /\ At(p, w, 0, 0) = p /\ Around(S, D, p, w)
  BY TakenAround
<1>4. ASSUME NEW a \in -1 .. 1, NEW b \in -1 .. 1 PROVE At(p, w, a, b) \notin S \ D
  <2>1. Near(At(p, w, 0, 0), At(p, w, a, b))
    BY <1>3, NearAt
  <2> QED
    BY <2>1, <1>1, <1>2, <1>3 DEF SetApart
<1>5. \A r, c \in -1 .. 1 : At(p, w, r, c) \in D =>
            At(p, w, r, c) \in S /\ TakenAt(S, p, w, r, c)
  BY <1>3 DEF Around
<1>6. At(p, w, 0, 0) \in D
  BY <1>2, <1>3
<1>7. \E r, c \in -1 .. 0 : Dotted(S, p, w, r, c)
  BY <1>4, <1>5, <1>6, NothingAround
<1> QED
  BY <1>2, <1>7, DotIs

\* A half-round keeps the pieces of any finite picture.
LEMMA HalfRoundKeeps ==
    ASSUME NEW S \in SUBSET Pixel, NEW iter \in {0, 1}, NEW C \in Pieces(S)
    PROVE  Dot(C) \/ Whole(C \intersect (S \ Marker(S, iter)))
<1> DEFINE D == S \intersect Marker(S, iter)
           w == Turned(iter)
<1>1. S \in SUBSET Grid /\ IsFiniteSet(S)
  <2>1. IsFiniteSet(0 .. Rows - 1) /\ IsFiniteSet(0 .. Cols - 1)
    BY SizeAssumption, FS_Interval
  <2>2. IsFiniteSet(Pixel)
    BY <2>1, FS_Product DEF Pixel
  <2>3. Pixel \subseteq Grid
    BY SizeAssumption DEF Pixel, Grid
  <2> QED
    BY <2>2, <2>3, FS_Subset
<1>2. w \in {-1, 1}
  BY DEF Turned
<1>3. TakesOff(S, D, w)
  BY MarkedTaken DEF TakesOff
<1>4. C \subseteq S
  BY <1>1, PieceIs DEF SetApart
<1>5. C \intersect (S \ Marker(S, iter)) = C \ D
  BY <1>4
<1> HIDE DEF D, w
<1>6. CASE C \ D = {}
  BY <1>6, <1>1, <1>2, <1>3, GoneWasDot
<1>7. CASE C \ D # {}
  <2>1. Whole(C \ D)
    BY <1>7, <1>1, <1>2, <1>3, RestIsWhole
  <2> QED
    BY <2>1, <1>5
<1> QED
  BY <1>6, <1>7

\* A half-round may eat into a piece of the picture, but never cuts it in two, and
\* takes it off altogether only if it was a dot of two by two pixels.
THEOREM PiecesStayWhole == ThinningSpec => PiecesStay
<1> DEFINE Kept == \A C \in Pieces(im) : Dot(C) \/ Whole(C \intersect im')
<1>1. ThinningInv /\ [ThinningNext]_thinning_vars => [Kept]_im
  <2> SUFFICES ASSUME ThinningInv, [ThinningNext]_thinning_vars, im' # im PROVE Kept
    OBVIOUS
  <2>1. im \in SUBSET Pixel
    BY DEF ThinningInv, ThinningTypes
  <2>2. PICK iter \in {0, 1} : im' = im \ Marker(im, iter)
    BY DEF ThinningNext, ThinEven, ThinOdd, Again, Finish, thinning_vars
  <2>3. ASSUME NEW C \in Pieces(im) PROVE Dot(C) \/ Whole(C \intersect im')
    BY <2>1, <2>2, HalfRoundKeeps
  <2> QED
    BY <2>3
<1>2. PiecesStay <=> [][Kept]_im
  BY DEF PiecesStay
<1> QED
  BY <1>1, <1>2, ThinningBegins, ThinningStays, PTL DEF ThinningSpec
=============================================================================
