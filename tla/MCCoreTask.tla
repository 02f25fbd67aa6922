----------------------------- MODULE MCCoreTask -----------------------------
(* CoreTask as TLC checks it: subtasks with a timeout, a retry or none, and *)
(* every combination of the other options.                                  *)
EXTENDS CoreTask

AllOptions == [retry : 0..1, rollback : BOOLEAN, ignore : BOOLEAN,
               timeout : {TRUE}, shouldRetry : BOOLEAN, valid : {TRUE}]
              \cup [retry : {0}, rollback : BOOLEAN, ignore : BOOLEAN,
                    timeout : {FALSE}, shouldRetry : {FALSE}, valid : {FALSE}]
=============================================================================
