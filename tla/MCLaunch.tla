------------------------------ MODULE MCLaunch ------------------------------
(* Launch for TLC: both provider kinds, three attempts of two prompts, a few *)
(* faults, and a launcher killed where its death cannot cost the task.       *)
EXTENDS Launch

Both == {"claude", "codex"}

\* Not "read", "bind", "receipt", "close" and "record": killed there, the launcher leaves
\* a worker that may hold the task and nothing on disk that says so.
Harmless == Points \ {"read", "bind", "receipt", "close", "record"}
=============================================================================
