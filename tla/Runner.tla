------------------------------- MODULE Runner -------------------------------
(***************************************************************************)
(* Running the requests of a collection, by the window or by the command   *)
(* line, as often as there are iterations: one at a time, or in waves of   *)
(* tasks that run at once.  A run writes no variable and no history.       *)
(***************************************************************************)
EXTENDS Sends

CONSTANTS RequestsIn,      \* collection -> how many requests it has itself
          CollectionName,  \* collection -> its name, in one case
          Names,
          Iterations,      \* what the user may ask for
          Rows,            \* numbers of rows that a data file may have
          MaxParallel

ASSUME RunnerAssumption ==
    /\ RequestsIn \in [Collections -> Nat]
    /\ Iterations \subseteq Nat
    /\ Rows \subseteq Nat
    /\ MaxParallel \in Nat \ {0}

(* run : the run; tasks : the requests it started, by iteration and place. *)
VARIABLES run, tasks

runVars == <<run, tasks>>
vars == <<sendVars, runVars>>

NoRun == [stage |-> "none", count |-> 0, coll |-> None, size |-> 0, rounds |-> 0,
          width |-> 1, at |-> <<1, 1>>, handles |-> <<>>, results |-> <<>>]

IterationCount(asked, dataRows) ==
    IF dataRows = 0 THEN (IF asked > 1 THEN asked ELSE 1) ELSE dataRows

(* By id, else by a name that only one has. *)
Chosen(needle) ==
    IF needle \in collections THEN {needle}
    ELSE {c \in collections : CollectionName[c] = needle}

Start(coll, asked, dataRows, parallel) ==
    /\ run.stage # "running"
    /\ Takes(4)
    /\ run' = [NoRun EXCEPT !.stage = "running", !.count = run.count + 1, !.coll = coll,
                            !.size = IF coll \in collections THEN RequestsIn[coll] ELSE 0,
                            !.rounds = IterationCount(asked, dataRows),
                            !.width = IF parallel THEN MaxParallel ELSE 1]
    /\ UNCHANGED <<tables, sends, history, retention, now, tasks>>

StartByName(needle, asked, dataRows, parallel) ==
    /\ Cardinality(Chosen(needle)) = 1
    /\ \E coll \in Chosen(needle) : Start(coll, asked, dataRows, parallel)

-----------------------------------------------------------------------------
(* The loop of a run.                                                      *)

Wave == LET i == run.at[2]
            last == IF i + run.width - 1 < run.size THEN i + run.width - 1 ELSE run.size
        IN  i .. last

Handles(wave) ==
    [n \in 1 .. Cardinality(wave) |-> <<run.count, run.at[1], run.at[2] + n - 1>>]

Spawned(wave) ==
    /\ run' = [run EXCEPT !.handles = @ \o Handles(wave),
                          !.at = IF run.size \in wave THEN <<@[1] + 1, 1>>
                                 ELSE <<@[1], @[2] + Cardinality(wave)>>]
    /\ tasks' = Over(tasks, [t \in Range(Handles(wave)) |->
                                [stage |-> "started", coll |-> run.coll]])
    /\ UNCHANGED sendVars

Left == run.stage = "running" /\ run.size > 0 /\ run.at[1] <= run.rounds

(* Mistake: the next wave does not wait for the last. *)
SpawnWaveAtOnce == Left /\ Spawned(Wave)

SpawnWave ==
    /\ Left
    /\ run.handles = <<>>
    /\ Spawned(Wave)

StageOf(t) == IF t \in DOMAIN tasks THEN tasks[t].stage ELSE "started"

(* Mistake: whichever ends first is taken first. *)
AwaitAny ==
    /\ run.stage = "running"
    /\ \E i \in DOMAIN run.handles :
          /\ StageOf(run.handles[i]) = "done"
          /\ run' = [run EXCEPT !.handles = RemoveAt(@, i),
                                !.results = Append(@, run.handles[i])]
    /\ UNCHANGED <<sendVars, tasks>>

AwaitNext ==
    /\ run.stage = "running"
    /\ run.handles # <<>>
    /\ StageOf(Head(run.handles)) = "done"
    /\ run' = [run EXCEPT !.handles = Tail(@), !.results = Append(@, Head(run.handles))]
    /\ UNCHANGED <<sendVars, tasks>>

(* An error ends the run; what else it started goes on without it. *)
AwaitError ==
    /\ run.stage = "running"
    /\ run.handles # <<>>
    /\ StageOf(Head(run.handles)) = "failed"
    /\ run' = [run EXCEPT !.stage = "failed", !.handles = <<>>]
    /\ UNCHANGED <<sendVars, tasks>>

Summarise ==
    /\ run.stage = "running"
    /\ run.handles = <<>> /\ ~Left
    /\ run' = [run EXCEPT !.stage = "done"]
    /\ UNCHANGED <<sendVars, tasks>>

-----------------------------------------------------------------------------
(* One request.  All that it reads or sends is its own; its collection has *)
(* to be there when its auth is looked up.                                 *)

Moves(t, from, to) ==
    /\ tasks[t].stage = from
    /\ tasks' = [tasks EXCEPT ![t].stage = to]
    /\ UNCHANGED <<sendVars, run>>

LookUp(t) ==
    IF tasks[t].coll \in collections THEN Moves(t, "started", "sending")
    ELSE Moves(t, "started", "failed")

(* Failing to send, or to pass a test, is a result as well. *)
Execute(t) == Moves(t, "sending", "done")

Panic(t) == Moves(t, "sending", "failed")

-----------------------------------------------------------------------------

Init == SendsInit /\ run = NoRun /\ tasks = <<>>

Loop == SpawnWave \/ AwaitNext \/ AwaitError \/ Summarise

Task(t) == LookUp(t) \/ Execute(t) \/ Panic(t)

Next ==
    \/ (\E s \in SendIds : Sending(s)) /\ UNCHANGED runVars
    \/ User /\ UNCHANGED runVars
    \/ Tick /\ UNCHANGED runVars
    \/ \E asked \in Iterations, n \in Rows, parallel \in BOOLEAN :
          \/ \E coll \in Collections : Start(coll, asked, n, parallel)
          \/ \E needle \in Collections \union Names : StartByName(needle, asked, n, parallel)
    \/ Loop
    \/ \E t \in DOMAIN tasks : Task(t)

Spec == Init /\ [][Next]_vars

-----------------------------------------------------------------------------

Plan == [i \in 1 .. run.rounds * run.size |->
            <<run.count, ((i - 1) \div run.size) + 1, ((i - 1) % run.size) + 1>>]

(* The results of a run, however its tasks overtake each other, are those  *)
(* of its requests in their order, once per iteration, and all of them     *)
(* when it succeeds.                                                       *)
ResultsAreAligned ==
    /\ IsPrefix(run.results, Plan)
    /\ run.stage = "done" => run.results = Plan

Unfinished == {t \in DOMAIN tasks : t[1] = run.count /\ tasks[t].stage \in {"started", "sending"}}

(* No request of a wave is on its way once one of the next is: there are   *)
(* never more than MaxParallel, all of one iteration.  Only a run that     *)
(* failed leaves any behind.                                               *)
OneWaveAtATime ==
    /\ Cardinality(Unfinished) <= run.width
    /\ \A t, u \in Unfinished : t[2] = u[2]
    /\ run.stage = "done" => Unfinished = {}
=============================================================================
