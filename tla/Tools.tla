------------------------------- MODULE Tools -------------------------------
(***************************************************************************)
(* The sequential command-line tools: an execution is one of file (A0) or  *)
(* one of a query program (A1).                                            *)
(***************************************************************************)
EXTENDS FileFormat, Queries

Idle == predicate = "off" /\ file = << >> /\ pos = 0 /\ multiByteCharacters = 0 /\ format = "none"

IdleQueries ==
  /\ program = "none" /\ table = << >> /\ header = "none" /\ qpc = "off"
  /\ at_line = 0 /\ rs = << >> /\ capacity = 0 /\ index = << >>
  /\ at = NULL /\ from = <<NULL, "root">> /\ left = 0 /\ right = 0
  /\ needle = 0 /\ hit = NULL /\ queries = 0

ToolsInit == (FormatInit /\ IdleQueries) \/ (Idle /\ QueriesInit)

ToolsNext ==
  \/ FormatNext /\ UNCHANGED query_vars
  \/ QueriesNext /\ UNCHANGED format_vars

\* A program that nothing blocks goes on, and its input is finite.
ToolsSpec ==
  /\ ToolsInit
  /\ [][ToolsNext]_<<format_vars, query_vars>>
  /\ WF_<<format_vars, query_vars>>(ToolsNext)

=============================================================================
