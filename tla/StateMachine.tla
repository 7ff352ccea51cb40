---------------------------- MODULE StateMachine ----------------------------
(***************************************************************************)
(* The per-language states of src/pipeline/state_machine.py and the order  *)
(* in which advance() walks them.  Shared by the modules that drive a      *)
(* LanguageRun.                                                            *)
(***************************************************************************)
EXTENDS Naturals

\* class State: the eight values of the enumeration.
States == {"pending", "inference", "light_metrics", "model_metrics",
           "judge", "report", "done", "failed"}

\* _FORWARD_PATH / _next_state: the successor on the canonical forward path.
\* FAILED is off the path and DONE ends it.
NextState == [pending       |-> "inference",
              inference     |-> "light_metrics",
              light_metrics |-> "model_metrics",
              model_metrics |-> "judge",
              judge         |-> "report",
              report        |-> "done"]

\* _TRANSITIONS: the states whose entry does work.  "done" has no function.
WorkStates == {"inference", "light_metrics", "model_metrics", "judge", "report"}

=============================================================================
