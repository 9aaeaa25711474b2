----------------------------- MODULE MCWindowHost -----------------------------
(* A small instance of WindowHost for TLC: a detached session with one      *)
(* surface, and a frame counter of two values.                             *)
EXTENDS WindowHost

FrameCounters == 1 .. 2

\* What guides the loop.  No step of it reads what the session answered last, the
\* tokens it has issued, or a size that it keeps for others to read.
LoopState ==
  <<state, attached, renderer, surf, workGen, devGen, latest, highest, pending,
    retained, nextFence, cache, presented, driver, step, exiting, condition,
    revision, closed, noted, screenVars, redraw, events, hostVars>>
=============================================================================
