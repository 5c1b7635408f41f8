------------------------------- MODULE Governor -------------------------------
(***************************************************************************)
(* CpuGovernor: how a scan slows itself down so that the host keeps its     *)
(* share of the CPU.  After each file the readings are looked at, if they   *)
(* are due, and the worker sleeps for as long as the file took, times a     *)
(* ratio.  Both editions.                                                   *)
(*                                                                          *)
(* Shares are percent of the machine; the ratio is counted in steps of GAIN *)
(* (a twentieth), which is what one point of error adds to it.              *)
(***************************************************************************)
EXTENDS Integers

CONSTANTS
    Settings,   \* [policy, headroom, budget, floor, cores] the scans come with
    Shares,     \* readings
    RatioMax    \* RATIO_MAX / GAIN

ASSUME GovernorAssumption ==
    /\ Settings \subseteq [policy : {"headroom", "budget", "none"}, headroom : Int, budget : Int,
                          floor : Int, cores : Nat \ {0}]
    /\ Shares \subseteq 0..100 /\ RatioMax \in Nat

VARIABLES
    set,        \* the settings of this scan
    governing,  \* enabled, and the process can be read
    ratio,      \* sleep_ratio
    reading     \* the last: the share the scanner has, and that of everyone

governor == <<set, governing, ratio, reading>>

NotRead == [own |-> 0, system |-> 0]

GovernorInit ==
    /\ set \in Settings
    /\ governing \in {FALSE, set.policy \in {"headroom", "budget"}}
    /\ ratio = 0 /\ reading = NotRead

Most(a, b) == IF a >= b THEN a ELSE b
Least(a, b) == IF a <= b THEN a ELSE b

(* psutil's reading of a process is in percent of one core. *)
Raw(own) == own * set.cores

(* Seeded fault: the reading is taken as it comes. *)
AsRead(raw) == raw
NormaliseOwn(raw) == IF set.cores <= 0 THEN raw ELSE raw \div set.cores

(* Under "headroom" the target shrinks with what the others use, down to    *)
(* the floor; under "budget" it is fixed.                                    *)
Target(others) ==
    IF set.policy = "budget" THEN set.budget
    ELSE Most(set.floor, 100 - set.headroom - Most(0, others))

(* Seeded fault: the ratio only ever grows. *)
OnlyUp(own, others) == Least(RatioMax, ratio + Most(0, own - Target(others)))
NewRatio(own, others) == Most(0, Least(RatioMax, ratio + own - Target(others)))

Update(raw, system) ==
    LET own == NormaliseOwn(raw)
    IN ratio' = NewRatio(own, Most(0, system - own))

(* _sample_governor: a reading when one is due; if it cannot be had the scan *)
(* goes on without a governor.                                               *)
Sample ==
    /\ governing
    /\ \E own, system \in Shares :
          /\ own <= system
          /\ reading' = [own |-> own, system |-> system]
          /\ Update(Raw(own), system)
    /\ UNCHANGED <<set, governing>>

CannotRead ==
    /\ governing /\ governing' = FALSE
    /\ UNCHANGED <<set, ratio, reading>>

(* pace(): does the scan sleep after a file? *)
Sleeps == governing /\ ratio > 0

-----------------------------------------------------------------------------
(* "The scanner bounds its OWN share of the host; it does not react to load  *)
(* that other processes create" (CONFIG_CPU_GUARANTEE), and "cannot stall:   *)
(* the target is floored" (CpuGovernor): it is slowed further only when it  *)
(* has more than its floor and the host less than its guarantee, or when it *)
(* has more than its budget.                                                 *)
SlowedForCause ==
    ratio' > ratio =>
        IF set.policy = "budget" THEN reading'.own > set.budget
        ELSE reading'.own > set.floor /\ reading'.system > 100 - set.headroom

(* Once the scan keeps below its target it no longer sleeps, however far    *)
(* the others had slowed it.                                                 *)
Below == reading.own < Target(reading.system - reading.own)
SleepsNoLonger == <>[]Below => <>[]~Sleeps
=============================================================================
