---------------------------- MODULE MCTrainingQueue ----------------------------
(* Instances of TrainingQueue for TLC.                                     *)
EXTENDS TrainingQueue
=============================================================================
