------------------------------- MODULE SlowJobs -------------------------------
(***************************************************************************)
(* The pool for jobs that may take longer than a tick: a queue for each     *)
(* configured kind of job, limits of how many of a kind run, and the order  *)
(* in which queued jobs are started.  The operations take a state of the    *)
(* pool and return the next, as their callers hold its lock throughout.     *)
(***************************************************************************)
EXTENDS Integers, FiniteSetsExt, SequencesExt

CONSTANTS
  global_limit,     \* threads of the pool
  Configs           \* the configured kinds in order, each with its limit by configuration

Kind == {Configs[k].name : k \in DOMAIN Configs}

ASSUME SlowJobsAssumption ==
  /\ global_limit \in Nat \ {0}
  /\ Configs \in Seq(Range(Configs))
  /\ \A k \in DOMAIN Configs : Configs[k].limit \in Nat
  /\ \A k, m \in DOMAIN Configs : Configs[k].name = Configs[m].name => k = m

VARIABLE pool

local_limit == [n \in Kind |-> LET k == CHOOSE k \in DOMAIN Configs : Configs[k].name = n
                               IN  Max({Configs[k].limit, 1})]

NewPool == [queue   |-> [n \in Kind |-> <<>>],    \* jobs that wait
            running |-> [n \in Kind |-> <<>>],    \* jobs given to a thread and not finished
            last    |-> [k \in DOMAIN Configs |-> Configs[k].name]]  \* last_spawned_configs

TotalOf(f) == FoldFunctionOnSet(+, 0, f, Kind)

(* The kinds that wait and of which no job runs, the one longest not        *)
(* started first.                                                           *)
waiting_idle(p, limit) ==
  FoldLeft(LAMBDA acc, n : IF p.queue[n] # <<>> /\ p.running[n] = <<>> /\ Len(acc) < limit
                           THEN Append(acc, n) ELSE acc,
           <<>>, p.last)

(* Kinds by their share of what the limits let start, the largest first;    *)
(* starting one lowers its rate.  Rates are multiples of 1/total.  (Equal   *)
(* rates: the order of the HashMap.)                                        *)
Take(acc, total) ==
  LET n == CHOOSE n \in Kind : \A m \in Kind : acc.rate[m] <= acc.rate[n]
  IN  IF acc.rate[n] <= 0 THEN acc
      ELSE [order |-> Append(acc.order, n), rate |-> [acc.rate EXCEPT ![n] = @ - total]]

by_rate(capped, limit) ==
  LET total == TotalOf(capped)
      rates == [n \in Kind |-> Min({capped[n] * limit, capped[n] * total})]
  IN  FoldLeft(LAMBDA acc, k : Take(acc, total), [order |-> <<>>, rate |-> rates],
               [k \in 1..limit |-> k]).order

calc_queued_order(p, limit) ==
  LET first  == waiting_idle(p, limit)
      left   == limit - Len(first)
      capped == [n \in Kind |-> Min({Len(p.queue[n]), local_limit[n] - Len(p.running[n])})
                                  - (IF Contains(first, n) THEN 1 ELSE 0)]
  IN  IF left = 0 \/ \A n \in Kind : capped[n] = 0 THEN first
      ELSE first \o by_rate(capped, left)

start(p, n) ==
  [queue   |-> [p.queue EXCEPT ![n] = Tail(@)],
   running |-> [p.running EXCEPT ![n] = Append(@, Head(p.queue[n]))],
   last    |-> Append(RemoveFirst(p.last, n), n)]

(* The limit is that of the whole pool, however much runs.                  *)
spawn_queued(p) == FoldLeft(start, p, calc_queued_order(p, global_limit))

spawn(p, n, job) == spawn_queued([p EXCEPT !.queue[n] = Append(@, job)])

finish(p, n, k) == spawn_queued([p EXCEPT !.running[n] = RemoveAt(@, k)])

----------------------------------------------------------------------------
(* Jobs of a kind wait only while as many of it run as may: no step leaves  *)
(* a thread idle that one of them could use, nor starts more than the limit *)
(* (calc_queued_order subtracts what runs from the limit, unsigned).        *)
PoolWorks ==
  \A n \in Kind :
    /\ Len(pool.running[n]) <= local_limit[n]
    /\ pool.queue[n] # <<>> => Len(pool.running[n]) = local_limit[n]

(* "At least 1 job of a configuration is allowed to run if global limit     *)
(* isn't hit": no more jobs run than the pool has threads.  (Does not hold, *)
(* as the limit given to calc_queued_order does not count what runs.)       *)
GlobalLimitHolds == TotalOf([n \in Kind |-> Len(pool.running[n])]) <= global_limit
=============================================================================
