--------------------------- MODULE MCTaskSubprocess ---------------------------
EXTENDS TaskSubprocess

Opts(cgroup, group, canary, n, max) ==
  [cgroup |-> cgroup, group |-> group, canary |-> canary, linesPerPoll |-> n, maxLines |-> max]

MCOptionSets == {Opts("off", TRUE, TRUE, 0, 1), Opts("watch", FALSE, FALSE, 1, 2),
                 Opts("kill", TRUE, FALSE, 0, 0), Opts("freezer", FALSE, FALSE, 0, 0)}

Req(method, ticks) == [method |-> method, ticks |-> ticks]
MCRequests == {Req("TERM", 0), Req("KILL", 0), Req("TERM_WAIT_KILL", 1)}

\* What the theorem about EarliestKillWins asks for
ASSUME Hypotheses == WaitsTakePolls
=============================================================================
