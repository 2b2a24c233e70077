---------------------------- MODULE MCExportJob ----------------------------
(* Instances of ExportJob for TLC: workers are interchangeable.            *)
EXTENDS ExportJob, TLC

WorkerSymmetry == Permutations(Workers)
=============================================================================
