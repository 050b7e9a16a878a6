---------------------------- MODULE QueueContract ----------------------------
(***************************************************************************)
(* What the job queue promises the code that enqueues work, with neither   *)
(* rows nor locks: a job is in the hands of one worker at a time, only     *)
(* that worker settles it, it is handed out again only after it was given  *)
(* back or lost, and a completed job is only ever discarded.               *)
(***************************************************************************)
CONSTANTS Job, Worker, None

VARIABLES stage, owner

contractVars == <<stage, owner>>

Stage == {"new", "waiting", "taken", "orphaned", "completed", "dead", "deleted"}

ContractInit ==
    /\ stage = [j \in Job |-> "new"]
    /\ owner = [j \in Job |-> None]

Move(S, from, to, w) ==
    /\ \A j \in S : stage[j] \in from
    /\ stage' = [j \in Job |-> IF j \in S THEN to ELSE stage[j]]
    /\ owner' = [j \in Job |-> IF j \in S THEN w ELSE owner[j]]

Submit(j)  == Move({j}, {"new"}, "waiting", None)
Take(w, S) == Move(S, {"waiting"}, "taken", w)

\* The worker that has the job settles it, or gives it back for a retry.
Settle(w, j, outcome) ==
    /\ owner[j] = w
    /\ Move({j}, {"taken"}, outcome, None)

\* The process that took jobs is gone, or does not know that it has them.
Lose(S)    == Move(S, {"waiting", "taken"}, "orphaned", None)
Reclaim(S) == Move(S, {"orphaned"}, "waiting", None)
Retry(j)   == Move({j}, {"dead"}, "waiting", None)
Discard(S) == Move(S, {"completed", "dead"}, "deleted", None)

ContractNext ==
    \/ \E j \in Job : Submit(j) \/ Retry(j)
    \/ \E S \in SUBSET Job : Lose(S) \/ Reclaim(S) \/ Discard(S)
    \/ \E w \in Worker, S \in SUBSET Job : Take(w, S)
    \/ \E w \in Worker, j \in Job, outcome \in {"completed", "dead", "waiting"} :
          Settle(w, j, outcome)

ContractSpec == ContractInit /\ [][ContractNext]_contractVars

=============================================================================
