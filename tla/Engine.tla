------------------------------- MODULE Engine -------------------------------
(* What the modules of one engine (nexinfer/engine/runtime.py) share.      *)
CONSTANTS
    Requests,   \* the requests clients make
    None        \* Python's None

=============================================================================
