------------------------------ MODULE PoolConfig ------------------------------
(***************************************************************************)
(* ThreadPool::set_threadpool_config (src/src/thread.cc) as a sequence of  *)
(* calls of the application: each field of the request is tested on its    *)
(* own and kept or dropped, so what a sequence of calls leaves behind      *)
(* depends on the order.                                                   *)
(***************************************************************************)
EXTENDS Integers, TLAPS

CONSTANTS
  MAX_THREADS_NUM,       \* 500 in the code
  MAX_THREAD_IDLE_LIFE,  \* 1800 in the code
  DefaultConfig,         \* what the constructor sets
  Sizes,                 \* thread numbers asked for; size_t, so a negative
                         \* argument is a number above MAX_THREADS_NUM
  Lives                  \* idle_thread_life asked for; int

Actions == {"UNKNOWN", "WAIT", "SHUTDOWN"}

Configs == [min : Sizes, max : Sizes, life : Lives, action : Actions]

ASSUME ConfigAssumption ==
  /\ MAX_THREADS_NUM \in Nat /\ MAX_THREAD_IDLE_LIFE \in Nat
  /\ Sizes \subseteq Nat /\ Lives \subseteq Int
  /\ DefaultConfig \in Configs
  /\ DefaultConfig.min <= MAX_THREADS_NUM /\ DefaultConfig.max <= MAX_THREADS_NUM

VARIABLE config   \* thread_pool_config_

LifeInRange(life) == life > 0 /\ life <= MAX_THREAD_IDLE_LIFE

\* Mutant: the limit off by one.
SetConfigOffByOne(c) ==
  config' = [config EXCEPT !.min = IF c.min > MAX_THREADS_NUM + 1 THEN @ ELSE c.min]

\* The tests of max compare with the request's min, accepted or not; the test
\* of idle_thread_life looks at the value the pool has, not at the request's.
SetConfig(c) ==
  config' =
    [min    |-> IF c.min > MAX_THREADS_NUM THEN config.min ELSE c.min,
     max    |-> IF c.max < c.min \/ c.max > MAX_THREADS_NUM THEN config.max ELSE c.max,
     life   |-> IF LifeInRange(config.life) THEN c.life ELSE config.life,
     action |-> IF c.action = "WAIT" THEN "WAIT" ELSE config.action]

Init == config = DefaultConfig

Next == \E c \in Configs : SetConfig(c)

Spec == Init /\ [][Next]_config

\* No sequence of calls brings either number of threads above the limit
\* (thread.cc:417, 423).
LimitsKept == config.min <= MAX_THREADS_NUM /\ config.max <= MAX_THREADS_NUM

-----------------------------------------------------------------------------

\* No sequence of calls, of any length and with any arguments, takes a number
\* of threads beyond the limit.
THEOREM LimitsNeverPassed == Spec => []LimitsKept
<1> DEFINE Inv == config.min \in 0..MAX_THREADS_NUM /\ config.max \in 0..MAX_THREADS_NUM
<1>1. Init => Inv
  <2>1. DefaultConfig.min \in Nat /\ DefaultConfig.max \in Nat
    BY ConfigAssumption DEF Configs
  <2> QED BY <2>1, ConfigAssumption DEF Init
<1>2. Inv /\ [Next]_config => Inv'
  <2> SUFFICES ASSUME Inv, [Next]_config PROVE Inv'
    OBVIOUS
  <2>1. ASSUME NEW c \in Configs, SetConfig(c) PROVE Inv'
    <3>1. c.min \in Nat /\ c.max \in Nat /\ MAX_THREADS_NUM \in Nat
      BY ConfigAssumption DEF Configs
    <3> QED BY <2>1, <3>1 DEF SetConfig
  <2> QED BY <2>1 DEF Next
<1>3. Inv => LimitsKept
  BY ConfigAssumption DEF LimitsKept
<1> QED BY <1>1, <1>2, <1>3, PTL DEF Spec

=============================================================================
