-------------------------- MODULE MCFramePipeline --------------------------
(* Instances of FramePipeline: a four-pixel image with runs of 2 to 4      *)
(* zeros.                                                                  *)
EXTENDS FramePipeline

\* All zero, a run then a pixel, a pixel then a run, and no run at all.
SomeImages == {<<0, 0, 0, 0>>, <<0, 0, 0, 1>>, <<1, 0, 0, 0>>, <<1, 0, 1, 1>>}
MCImages == {[i \in Index |-> s[i + 1]] : s \in SomeImages}
=============================================================================
