------------------------------ MODULE ManageNow ------------------------------
(***************************************************************************)
(* The manager thread's loop over the timer wheel                          *)
(* (onlp/module/src/platform_manager.c): management_entries, each with its *)
(* rate, onlp_sys_platform_manage_now, and the sleep until the next        *)
(* deadline.  Time is counted in ticks and kept relative to now: a         *)
(* callback takes ticks to run, because it waits for the API lock and for  *)
(* the platform's buses.                                                   *)
(***************************************************************************)
EXTENDS Integers, FiniteSetsExt

CONSTANTS Entries,      \* management_entries
          Rate,         \* their rates, in ticks
          MaxDuration,  \* the longest a callback runs, in ticks
          SleepTicks,   \* sleep(1), in ticks
          MaxLate       \* bound on the lateness that is told apart

ASSUME RateAssumption == Rate \in [Entries -> Nat \ {0}]
ASSUME BoundsAssumption == MaxDuration \in Nat /\ SleepTicks \in Nat /\ MaxLate \in Nat

VARIABLES
  left,  \* per entry: its deadline minus now
  pc,    \* the thread: in select(), in manage_now, or gone
  stop   \* the eventfd is readable

tvars == <<left, pc, stop>>

TimerTypeOK == /\ left \in [Entries -> Int]
               /\ \A e \in Entries : left[e] \in -MaxLate..Rate[e]
               /\ pc \in {"select", "now", "gone"}
               /\ stop \in BOOLEAN

\* onlp_sys_platform_manage_init: every entry is inserted at now + rate.
TimerInit == left = Rate /\ pc = "select" /\ stop = FALSE

Expired == {e \in Entries : left[e] <= 0}

\* d ticks pass.
After(d) == [e \in Entries |-> Max({left[e] - d, -MaxLate})]

\* Mutant: the timeout does not depend on the deadlines.
SleepOn == /\ pc = "select" /\ ~stop
           /\ left' = After(1)
           /\ UNCHANGED <<pc, stop>>

\* select() sleeps towards the earliest deadline.
Sleep == /\ pc = "select" /\ ~stop
         /\ Expired = {}
         /\ left' = After(1)
         /\ UNCHANGED <<pc, stop>>

\* The deadline is reached: manage_now is entered.
Wake == /\ pc = "select" /\ ~stop
        /\ Expired # {}
        /\ pc' = "now"
        /\ UNCHANGED <<left, stop>>

\* select() fails, interrupted or not, and a sleep of a second follows that a signal
\* may cut short; then manage_now is entered.  It does not fail with the eventfd
\* readable.
SelectFails == /\ pc = "select" /\ ~stop
               /\ \E d \in 0..SleepTicks : left' = After(d)
               /\ pc' = "now"
               /\ UNCHANGED stop

\* select() finds the eventfd readable.
Terminate == pc = "select" /\ stop /\ pc' = "gone" /\ UNCHANGED <<left, stop>>

\* Mutant: an entry is inserted again for the moment its callback returns.
ManageAtOnce(e) == /\ pc = "now"
                   /\ e \in Expired
                   /\ \E d \in 0..MaxDuration : left' = [After(d) EXCEPT ![e] = 0]
                   /\ UNCHANGED <<pc, stop>>

\* Mutant: the next deadline is a tick late.
ManageLate(e) == /\ pc = "now"
                 /\ e \in Expired
                 /\ \E d \in 0..MaxDuration : left' = [After(d) EXCEPT ![e] = Rate[e] + 1]
                 /\ UNCHANGED <<pc, stop>>

\* An expired entry is taken off the wheel, its callback runs for d ticks, and
\* it is inserted again at the new now plus its rate.
Manage(e) == /\ pc = "now"
             /\ e \in Expired
             /\ \E d \in 0..MaxDuration :
                  left' = [After(d) EXCEPT ![e] = Rate[e]]
             /\ UNCHANGED <<pc, stop>>

\* The wheel has nothing left for the time it is now.
Done == pc = "now" /\ Expired = {} /\ pc' = "select" /\ UNCHANGED <<left, stop>>

\* onlp_sys_platform_manage_stop writes the eventfd.
Stop == ~stop /\ stop' = TRUE /\ UNCHANGED <<left, pc>>

Thread == Sleep \/ Wake \/ SelectFails \/ Terminate \/ Done \/ \E e \in Entries : Manage(e)

TimerNext == Thread \/ Stop

TimerSpec == TimerInit /\ [][TimerNext]_tvars

FairTimerSpec == TimerSpec /\ WF_tvars(Thread)
-----------------------------------------------------------------------------
\* The manager thread notices a stop request, though it looks at the eventfd
\* only when manage_now has run out of expired entries.
StopNoticed == stop ~> pc = "gone"

\* No entry is starved by the faster ones: a callback starts at most MaxLate - 1
\* ticks after its deadline.
Punctual == \A e \in Entries : left[e] > -MaxLate

\* What kept the thread busy for n ticks while e was overdue, after the second it may
\* have slept at first: s[p] is the entry whose callback ran p ticks ago.
Busy(n, e) == [0..n - 1 -> Entries \ {e}]

\* Two ticks of an entry belong to one run of its callback, or lie further apart than
\* its rate.
Feasible(s, n) == \A p, q \in 0..n - 1 :
                    p < q /\ s[p] = s[q] => q - p < MaxDuration \/ q - p > Rate[s[p]]

\* The rates leave time for every entry: no callbacks of others fill the ticks of
\* MaxLate that follow the sleep.
Schedulable == \A e \in Entries : \A s \in Busy(MaxLate - SleepTicks, e) :
                 ~Feasible(s, MaxLate - SleepTicks)

\* How long callbacks have run while e was overdue.
Backlog(e) == -left[e] - SleepTicks

\* The inductive invariant of Punctual: nothing is overdue while the thread is in
\* select(), and all the time since an entry's deadline, but for one sleep, went into
\* callbacks of other entries, each inserted again when its callback returned.
RestInv == pc = "select" => \A e \in Entries : left[e] >= 0

BusyInv == \A e \in Expired :
             \E s \in Busy(Backlog(e), e) :
                /\ Feasible(s, Backlog(e))
                /\ \A p \in 0..Backlog(e) - 1 : p >= Rate[s[p]] - left[s[p]]

\* manage_now "is not intended to block for an extended period of time"
\* (sys.h): it returns.  It need not, if two callbacks of a second each keep the
\* other one's entry expired (MaxDuration = 2).
ManageNowReturns == pc = "now" ~> pc = "select"
=============================================================================
