------------------------------ MODULE MCScripts ------------------------------
(* Instances of Scripts for TLC. *)
EXTENDS Scripts

CONSTANTS access, history, bot

MCFiles == <<access, history, bot>>
==============================================================================
