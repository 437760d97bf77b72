--------------------------- MODULE MCCommandClient ---------------------------
(* Small instances of CommandClient. *)
EXTENDS CommandClient

\* What the session loop takes for aborts is remembered while no request is under way:
\* nothing that requests do depends on it.
FewAborts == aborts # {} => \A r \in Requests : req[r].pc \in {"idle", "done"}

\* Live calls, whose contexts end.
ReturnSpec ==
  /\ Init /\ [][Next /\ FewAborts']_vars
  /\ \A r \in Requests : RequestFairness(r) /\ WF_vars(~panicked /\ EndContext(r))
  /\ \A k \in Clients : WF_vars(~panicked /\ ConnectionStep(k))
=============================================================================
