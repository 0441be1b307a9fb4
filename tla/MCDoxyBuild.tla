----------------------------- MODULE MCDoxyBuild -----------------------------
(* Every class of the binding.                                             *)
EXTENDS DoxyBuild

AllClasses == DOMAIN Xml!Schema
=============================================================================
