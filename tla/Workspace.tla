------------------------------ MODULE Workspace ------------------------------
(***************************************************************************)
(* The whole program, seen through the files of its workspace: the stages  *)
(* of processor::process hand each other file names, an external program   *)
(* works on files, and the files of earlier runs stay behind.  A run may   *)
(* stop at any step, and runs may overlap: nothing in the program locks    *)
(* or cleans the directory.                                                *)
(*                                                                         *)
(* A file, an image in memory and a model are abstracted to the run whose  *)
(* drawing they were made from; every run has a drawing of its own.        *)
(***************************************************************************)
CONSTANTS Run,   \* executions of the program with one workspace
          NoRun  \* the content of a file that does not exist

ASSUME NoRunAssumption == NoRun \notin Run

\* Files of the workspace that a later step reads, and the file of the model.
File == {"smooth.pgm", "smooth.pbm", "graphics.pbm", "wide_skeleton.pgm", "model.stl"}

VARIABLES files,     \* what each file was made from
          pc,        \* the step each run is at
          image,     \* the image a run holds in memory
          skeleton,  \* vectorizer::output::skeleton_image
          shown,     \* the model a run displays
          failed,    \* history: what failed in this run, a "write" or the "tool"
          alone      \* history: no other run was active during this one

vars == <<files, pc, image, skeleton, shown, failed, alone>>

Working == {"write smooth", "binarize", "separate text", "pick wide lines", "write skeleton",
            "vectorize", "read again", "write model", "read model"}
Ended == {"idle", "displaying", "stopped"}
Active(r) == pc[r] \in Working

\* The workspace is empty at first.
Init ==
    /\ files = [f \in File |-> NoRun]
    /\ pc = [r \in Run |-> "idle"]
    /\ image = [r \in Run |-> NoRun]
    /\ skeleton = [r \in Run |-> NoRun]
    /\ shown = [r \in Run |-> NoRun]
    /\ failed = [r \in Run |-> {}]
    /\ alone = [r \in Run |-> TRUE]

Fails(r, what) == failed' = [failed EXCEPT ![r] = @ \union {what}]

GoTo(r, step) == pc' = [pc EXCEPT ![r] = step]

\* The program starts: cv::imread of the drawing, into memory.  When there is
\* no such file the image is empty, and nobody looks.
StartRun(r) ==
    /\ pc[r] = "idle"
    /\ \E drawing \in {r, NoRun} : image' = [image EXCEPT ![r] = drawing]
    /\ GoTo(r, "write smooth")
    /\ alone' = [q \in Run |->
                    IF q = r THEN \A s \in Run \ {r} : ~ Active(s)
                             ELSE alone[q] /\ ~ Active(q)]
    /\ UNCHANGED <<files, skeleton, shown, failed>>

\* A file is written from what is in memory.  cv::imwrite and vtkSTLWriter
\* report a failure that nobody looks at: the file stays as it was.  There is
\* nothing to write when the image is empty.
Written(r, f, content) ==
    \/ /\ content # NoRun
       /\ files' = [files EXCEPT ![f] = content]
       /\ UNCHANGED failed
    \/ /\ UNCHANGED files
       /\ Fails(r, "write")

\* cv::imwrite(workspace + "smooth.pgm", greyscale)
WriteSmooth(r) ==
    /\ pc[r] = "write smooth"
    /\ Written(r, "smooth.pgm", image[r])
    /\ GoTo(r, "binarize")
    /\ UNCHANGED <<image, skeleton, shown, alone>>

\* smooth.pgm is read back, thresholded and written as smooth.pbm; the library
\* throws when it cannot open a file, so this step does what it says or stops.
Binarize(r) ==
    /\ pc[r] = "binarize"
    /\ files["smooth.pgm"] # NoRun
    /\ files' = [files EXCEPT !["smooth.pbm"] = files["smooth.pgm"]]
    /\ GoTo(r, "separate text")
    /\ UNCHANGED <<image, skeleton, shown, failed, alone>>

\* Slip: the external program leaves a graphics.pbm that is already there.
SeparateTextOnce(r) ==
    /\ pc[r] = "separate text"
    /\ files' = [files EXCEPT !["graphics.pbm"] =
                     IF @ = NoRun THEN files["smooth.pbm"] ELSE @]
    /\ GoTo(r, "pick wide lines")
    /\ UNCHANGED <<image, skeleton, shown, failed, alone>>

\* QAtextGraphicSeparation.exe makes graphics.pbm from smooth.pbm; when it
\* fails, system_call_failure is caught and logged, and the run goes on.
SeparateText(r) ==
    /\ pc[r] = "separate text"
    /\ \/ /\ files' = [files EXCEPT !["graphics.pbm"] = files["smooth.pbm"]]
          /\ UNCHANGED failed
       \/ /\ UNCHANGED files
          /\ Fails(r, "tool")
    /\ GoTo(r, "pick wide lines")
    /\ UNCHANGED <<image, skeleton, shown, alone>>

\* pick_wide_lines reads graphics.pbm, whichever run it is from.  Without the
\* file the image is empty; what OpenCV does then is to throw or to go on.
PickWideLines(r) ==
    /\ pc[r] = "pick wide lines"
    /\ image' = [image EXCEPT ![r] = files["graphics.pbm"]]
    /\ GoTo(r, "write skeleton")
    /\ UNCHANGED <<files, skeleton, shown, failed, alone>>

\* cv::imwrite(... "wide_lines_only_skeleton.pgm", wide_skeleton)
WriteSkeleton(r) ==
    /\ pc[r] = "write skeleton"
    /\ Written(r, "wide_skeleton.pgm", image[r])
    /\ GoTo(r, "vectorize")
    /\ UNCHANGED <<image, skeleton, shown, alone>>

\* The vectorizer reads the skeleton by its name, for the contours ...
Vectorize(r) ==
    /\ pc[r] = "vectorize"
    /\ image' = [image EXCEPT ![r] = files["wide_skeleton.pgm"]]
    /\ GoTo(r, "read again")
    /\ UNCHANGED <<files, skeleton, shown, failed, alone>>

\* Slip: skeleton_image is read from original_filename, smooth.pgm.
ReadOriginalAgain(r) ==
    /\ pc[r] = "read again"
    /\ skeleton' = [skeleton EXCEPT ![r] = files["smooth.pgm"]]
    /\ GoTo(r, "write model")
    /\ UNCHANGED <<files, image, shown, failed, alone>>

\* ... and once more for skeleton_image.
ReadAgain(r) ==
    /\ pc[r] = "read again"
    /\ skeleton' = [skeleton EXCEPT ![r] = files["wide_skeleton.pgm"]]
    /\ GoTo(r, "write model")
    /\ UNCHANGED <<files, image, shown, failed, alone>>

\* The interpreter and the modeller work in memory; the model is written ...
WriteModel(r) ==
    /\ pc[r] = "write model"
    /\ Written(r, "model.stl", image[r])
    /\ GoTo(r, "read model")
    /\ UNCHANGED <<image, skeleton, shown, alone>>

\* ... and what is displayed is read back from the file.
ShowModel(r) ==
    /\ pc[r] = "read model"
    /\ shown' = [shown EXCEPT ![r] = files["model.stl"]]
    /\ GoTo(r, "displaying")
    /\ UNCHANGED <<files, image, skeleton, failed, alone>>

\* The run ends early: an exception that nobody catches, or the process is
\* killed, and the external program with it.
Stop(r) ==
    /\ Active(r)
    /\ GoTo(r, "stopped")
    /\ UNCHANGED <<files, image, skeleton, shown, failed, alone>>

Step(r) ==
    \/ WriteSmooth(r)
    \/ Binarize(r)
    \/ SeparateText(r)
    \/ PickWideLines(r)
    \/ WriteSkeleton(r)
    \/ Vectorize(r)
    \/ ReadAgain(r)
    \/ WriteModel(r)
    \/ ShowModel(r)
    \/ Stop(r)

Next == \E r \in Run : StartRun(r) \/ Step(r)

Spec == Init /\ [][Next]_vars

-----------------------------------------------------------------------------
TypeOK ==
    /\ files \in [File -> Run \union {NoRun}]
    /\ pc \in [Run -> Working \union Ended]
    /\ image \in [Run -> Run \union {NoRun}]
    /\ skeleton \in [Run -> Run \union {NoRun}]
    /\ shown \in [Run -> Run \union {NoRun}]
    /\ failed \in [Run -> SUBSET {"write", "tool"}]
    /\ alone \in [Run -> BOOLEAN]

\* A run that had the workspace to itself and met no failure displays the model
\* of its own drawing, whatever earlier runs, even stopped half-way, left in
\* the files it goes through.
ShowsOwnDrawing ==
    \A r \in Run : pc[r] = "displaying" /\ alone[r] /\ failed[r] = {} => shown[r] = r

\* A run that had the workspace to itself combines contours and skeleton_image
\* of one and the same drawing, even when a write or the external program
\* failed.
OneDrawing ==
    \A r \in Run : pc[r] = "displaying" /\ alone[r] => skeleton[r] = image[r]

\* preprocessor.cpp:200 logs, after the external program failed: "Continuing,
\* but expect crashes".  A run that had the workspace to itself, and in which
\* the external program failed, would crash, and not go on to display the model
\* of a drawing that is not its own.
CrashesAfterFailure ==
    \A r \in Run :
        pc[r] = "displaying" /\ alone[r] /\ failed[r] = {"tool"}
            => shown[r] \notin Run \ {r}
=============================================================================
