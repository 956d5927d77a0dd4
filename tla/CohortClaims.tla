---------------------------- MODULE CohortClaims ----------------------------
(***************************************************************************)
(* What holds of the members a run has committed, and what a claim that    *)
(* goes away and comes back does to it.  A claim is a run and a worker id: *)
(* a worker that gets back a run it still has a task for passes every      *)
(* ownership check with a task begun under the earlier claim.  History     *)
(* variables tell the claims apart; no guard and no row depends on them.   *)
(***************************************************************************)
EXTENDS CohortSafety

VARIABLES
    taken,      \* taken[w][r]: another worker held r since w's task of it began
    astray,     \* astray[r]: such a task has written for r after r came back
    crossed     \* crossed[r]: another run has blocked an item r committed

claimVars == <<vars, taken, astray, crossed>>

HistoryInit ==
    /\ Init
    /\ taken = [w \in Workers |-> [r \in Runs |-> FALSE]]
    /\ astray = [r \in Runs |-> FALSE]
    /\ crossed = [r \in Runs |-> FALSE]

\* A task of w writes the children, items or evidence of run r.
Writes(w, r) ==
    /\ task'[w][r] # task[w][r]
    /\ <<child, item, evidence>>' # <<child, item, evidence>>

CommittedBy(r, m) == item[m].ref # None /\ item[m].ref[1] = r

\* A task of another run blocks what r committed for one of its members.
BlockedFor(r) ==
    /\ \E w \in Workers, x \in Runs \ {r} : task'[w][x] # task[w][x]
    /\ \E m \in Items : CommittedBy(r, m) /\ item'[m].ref = item[m].ref
                        /\ ~item[m].blocked /\ item'[m].blocked

HistoryNext ==
    /\ Next
    /\ taken' = [w \in Workers |-> [r \in Runs |->
                   task'[w][r].pc # "idle" /\ (taken[w][r] \/ run'[r].owner # w)]]
    /\ astray' = [r \in Runs |->
                   astray[r] \/ \E w \in Workers : taken[w][r] /\ Writes(w, r)]
    /\ crossed' = [r \in Runs |-> crossed[r] \/ BlockedFor(r)]

HistorySpec == HistoryInit /\ [][HistoryNext]_claimVars

\* A task that has lost its claim writes no more, its claim come back or not:
\* what "no write after the claim moved" would have to mean for the worker that
\* lost it (cohort-lease-keeper.ts).  False once a claim can come back.
NoWriteAfterTakeover ==
    [][\A w \in Workers, r \in Runs : taken[w][r] => ~Writes(w, r)]_claimVars

-----------------------------------------------------------------------------
(* The rest holds of every run no such task has written for.               *)

\* Stored OCR of another authority shows as such.
OcrTold(e, auth) == e.stale <=> e.ocr # auth

\* Every member of a frozen run executes under the authority the run froze,
\* however many interrupted freezes under other authorities came before: its
\* child's snapshot is of it, and so is its OCR unless it is marked stale, as
\* it is past the cap on re-runs.
FrozenUnderOneAuthority ==
    \A r \in Runs : run[r].frozen # None /\ ~astray[r] =>
        \A m \in Members(r) :
            /\ child[r][m].n > 0
            /\ child[r][m].snap = run[r].frozen.authority
            /\ OcrTold(run[r].frozen.evidence[m], run[r].frozen.authority)

\* "Old OCR under a changed model policy is NEVER accepted" by a freeze
\* (freezeCohortForExecution).  False for a family larger than the cap.
FrozenOcrIsCurrent ==
    \A r \in Runs : run[r].frozen # None /\ ~astray[r] =>
        \A m \in Members(r) : run[r].frozen.evidence[m].ocr = run[r].frozen.authority

\* Curation data and the success of the child run that made it are committed
\* together, so what an item refers to did complete.
CommittedTogether ==
    \A m \in Items : item[m].ref # None /\ ~astray[item[m].ref[1]] =>
        LET ch == child[item[m].ref[1]][m] IN
        /\ ch.n >= item[m].ref[2]
        /\ ch.n = item[m].ref[2] => ch.st = "completed"

\* A member that stands completed under a run is not executed again by it,
\* whoever resumes the run and however often (the resume guard of
\* processCohort).
CommittedOncePerRun ==
    [][\A m \in Items :
         /\ item[m].ref # None
         /\ item[m].status = "completed"
         /\ item'[m].ref \notin {None, item[m].ref}
         /\ ~astray'[item[m].ref[1]]
         => item'[m].ref[1] # item[m].ref[1]]_claimVars

\* A task that kept its claim completes the run without member failures only
\* if every member was committed and none of what the run committed is
\* blocked, earlier executions included.
CleanCompletion ==
    [][\A w \in Workers, r \in Runs :
         /\ run[r].owner = w
         /\ run[r].status # "completed" /\ run'[r].status = "completed"
         /\ ~taken[w][r] /\ ~astray[r] /\ ~crossed[r]
         => \A m \in Members(r) :
              /\ child[r][m].st = "completed"
              /\ CommittedBy(r, m) => ~item[m].blocked]_claimVars
=============================================================================
