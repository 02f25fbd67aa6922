----------------------------- MODULE MCAgentTask -----------------------------
(* AgentTask as TLC checks it: every combination of the options, with a      *)
(* retry or none.                                                            *)
EXTENDS AgentTask

AllOptions == [retry : 0..1, rollback : BOOLEAN, ignore : BOOLEAN, timeout : BOOLEAN]
=============================================================================
