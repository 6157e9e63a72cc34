---------------------------- MODULE MCPluginWork ----------------------------
EXTENDS PluginWork

MCRequests ==
  { [schedule |-> [kind |-> "interval", amount |-> 1, unit |-> 1], start |-> [kind |-> "none"]],
    [schedule |-> [kind |-> "cron", fields |->
        << {[from |-> 0, to |-> Star, step |-> 0]}, {[from |-> Star, to |-> Star, step |-> 0]},
           {[from |-> 2, to |-> Star, step |-> 0]}, {[from |-> Star, to |-> Star, step |-> 0]},
           {[from |-> 2, to |-> Star, step |-> 0]} >>],
     start |-> [kind |-> "date", at |-> 1]] }

\* The scheduler with two jobs; items worked on by the actions of a job and by
\* workflows; setups.  Each with a crash.
Budget(schedule, enqueue, claim, setup, start, gate, crash) ==
  [schedule |-> schedule, enqueue |-> enqueue, claim |-> claim, setup |-> setup,
   start |-> start, gate |-> gate, crash |-> crash]

MCBudgets ==
  { Budget(2, 0, 0, 0, 0, 0, 1), Budget(1, 1, 1, 0, 0, 0, 0), Budget(0, 2, 1, 0, 1, 0, 0),
    Budget(0, 1, 3, 0, 2, 0, 0), Budget(0, 1, 2, 0, 1, 1, 1), Budget(0, 0, 0, 5, 0, 0, 1) }

MCConfirms == [s \in Setups |-> TRUE]
=============================================================================
