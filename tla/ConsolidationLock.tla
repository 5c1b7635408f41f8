------------------------- MODULE ConsolidationLock -------------------------
(***************************************************************************)
(* The overlap guard of xdr/xdr_consolidate.py: a lookup dataset whose     *)
(* existence is the lock and whose one row carries when its holder started.*)
(* Every writer takes it: consolidate_all, the CLI's --consolidate, and    *)
(* the v4 automations that merge, prune and wipe.  Each client call is one *)
(* step, so runners interleave between any two of them; a runner may die   *)
(* at any point and leaves the tenant as it is.                            *)
(*                                                                         *)
(* Time is counted in ages: of a runner since its now_ms was read, of a    *)
(* row since its started_ms.  The row carries its writer's now_ms, so it   *)
(* is born with its writer's age.                                          *)
(***************************************************************************)
EXTENDS Naturals

CONSTANTS
    Runners,       \* processes that consolidate, prune or wipe
    Careful,       \* those that pass unreadable_is_held=True
    Bounded,       \* those the platform kills at its task timeout
    StaleAfter,    \* [Runners -> Nat]: stale_after_secs
    TaskTimeout,   \* the 900 s no bounded runner outlives
    Horizon,       \* bound: ages at or past it are not told apart
    MaxDeaths,     \* bound: runners killed, or raised out of a lock call
    MaxLost        \* bound: delete_dataset calls whose reply is lost

ASSUME LockAssumption ==
    /\ Careful \subseteq Runners /\ Bounded \subseteq Runners
    /\ TaskTimeout \in Nat /\ Horizon \in Nat
    /\ StaleAfter \in [Runners -> Nat]
    /\ \A r \in Runners : /\ TaskTimeout < StaleAfter[r]
                          /\ StaleAfter[r] + TaskTimeout <= Horizon
    /\ MaxDeaths \in Nat /\ MaxLost \in Nat

VARIABLES
    exists,   \* is the lock dataset there?
    stamps,   \* the ages of the started_ms rows in it
    where,    \* [Runners -> ...]: where each runner is
    age,      \* [Runners -> 0..Horizon]: time since its now_ms
    alone,    \* do two runners never overlap inside acquire? as scheduled
    deaths, lost

marker == <<exists, stamps>>
lockVars == <<marker, where, age, alone, deaths, lost>>

Acquiring == {"create", "read", "takeover", "recreate", "stamp"}
Steps == Acquiring \cup {"idle", "work", "release"}

LockInit ==
    /\ exists = FALSE /\ stamps = {}
    /\ where = [r \in Runners |-> "idle"] /\ age = [r \in Runners |-> 0]
    /\ alone \in BOOLEAN /\ deaths = 0 /\ lost = 0

Goto(r, step) == where' = [where EXCEPT ![r] = step]

-----------------------------------------------------------------------------
(* acquire_consolidation_lock, one client call at a time. *)
Ask(r) ==
    /\ where[r] = "idle"
    /\ alone => \A s \in Runners : where[s] \notin Acquiring
    /\ Goto(r, "create")
    /\ age' = [age EXCEPT ![r] = 0]
    /\ UNCHANGED <<marker, deaths, lost, alone>>

(* "dataset_name" in the reply means a fresh create. *)
CreateFresh(r) ==
    /\ where[r] = "create" /\ ~exists
    /\ exists' = TRUE
    /\ Goto(r, "stamp")
    /\ UNCHANGED <<stamps, age, deaths, lost, alone>>

CreateFinds(r) ==
    /\ where[r] = "create" /\ exists
    /\ Goto(r, "read")
    /\ UNCHANGED <<marker, age, deaths, lost, alone>>

(* now_ms - held_ms < stale_after_secs, now_ms being the reader's own. *)
Within(r, a) == a < age[r] + StaleAfter[r]

(* Seeded fault: the knob is ignored. *)
HeldForAll(r) == FALSE

(* A marker without a readable row: free unless unreadable_is_held. *)
UnreadableIsFree(r) == r \notin Careful

(* _read_lock takes rows[0] of however many rows there are. *)
LooksHeld(r) ==
    \/ stamps = {} /\ ~UnreadableIsFree(r)
    \/ \E a \in stamps : Within(r, a)

LooksStale(r) ==
    \/ stamps = {} /\ UnreadableIsFree(r)
    \/ \E a \in stamps : ~Within(r, a)

StandDown(r) ==
    /\ where[r] = "read" /\ exists /\ LooksHeld(r)
    /\ Goto(r, "idle")
    /\ UNCHANGED <<marker, age, deaths, lost, alone>>

(* The query of a dataset deleted since the create raises. *)
ReadRaises(r) ==
    /\ where[r] = "read" /\ ~exists
    /\ Goto(r, "idle")
    /\ UNCHANGED <<marker, age, deaths, lost, alone>>

TakeOver(r) ==
    /\ where[r] = "read" /\ exists /\ LooksStale(r)
    /\ Goto(r, "takeover")
    /\ UNCHANGED <<marker, age, deaths, lost, alone>>

(* delete_dataset: the marker is gone whoever's it was; "not found" is      *)
(* success.  A call whose reply is lost has landed and is sent again.       *)
Delete(r, next) ==
    /\ exists' = FALSE /\ stamps' = {}
    /\ \/ Goto(r, next) /\ UNCHANGED lost
       \/ /\ lost < MaxLost /\ lost' = lost + 1
          /\ Goto(r, IF where[r] = "work" THEN "release" ELSE where[r])
    /\ UNCHANGED <<age, deaths, alone>>

(* Seeded fault: a row appended to the marker instead. *)
AppendToMarker(r) ==
    /\ where[r] = "takeover"
    /\ Goto(r, "recreate")
    /\ UNCHANGED <<marker, age, deaths, lost, alone>>

DeleteStale(r) == where[r] = "takeover" /\ Delete(r, "recreate")

(* The reply is not looked at: an existing marker is kept with its rows. *)
Recreate(r) ==
    /\ where[r] = "recreate"
    /\ exists' = TRUE
    /\ Goto(r, "stamp")
    /\ UNCHANGED <<stamps, age, deaths, lost, alone>>

Stamp(r) ==
    /\ where[r] = "stamp" /\ exists
    /\ stamps' = stamps \cup {age[r]}
    /\ Goto(r, "work")
    /\ UNCHANGED <<exists, age, deaths, lost, alone>>

(* add_lookup_data gives up on "not found" after its retries. *)
StampRaises(r) ==
    /\ where[r] = "stamp" /\ ~exists
    /\ Goto(r, "idle")
    /\ UNCHANGED <<marker, age, deaths, lost, alone>>

(* The pass is over; its finally deletes the marker without looking at the *)
(* holder column.                                                          *)
Release(r) == where[r] \in {"work", "release"} /\ Delete(r, "idle")

(* The runner is killed, or a call of acquire or release raises for good.  *)
(* Neither undoes what it has done to the marker.                          *)
Die(r) ==
    /\ where[r] # "idle" /\ deaths < MaxDeaths
    /\ deaths' = deaths + 1
    /\ Goto(r, "idle")
    /\ UNCHANGED <<marker, age, lost, alone>>

(* Client calls are bounded, so nobody is inside acquire for longer than a *)
(* task may take; only an unbounded runner can work for longer.            *)
Overdue(r) ==
    /\ where[r] # "idle" /\ age[r] >= TaskTimeout
    /\ r \in Bounded \/ where[r] # "work"

Older(a) == IF a < Horizon THEN a + 1 ELSE a

Tick ==
    /\ \A r \in Runners : ~Overdue(r)
    /\ stamps' = {Older(a) : a \in stamps}
    /\ age' = [r \in Runners |-> IF where[r] = "idle" THEN age[r] ELSE Older(age[r])]
    /\ UNCHANGED <<exists, where, deaths, lost, alone>>

Step(r) ==
    \/ CreateFresh(r) \/ CreateFinds(r)
    \/ StandDown(r) \/ ReadRaises(r) \/ TakeOver(r)
    \/ DeleteStale(r) \/ Recreate(r)
    \/ Stamp(r) \/ StampRaises(r)
    \/ Release(r)

LockNext == Tick \/ \E r \in Runners : Ask(r) \/ Step(r) \/ Die(r)

LockSpec == LockInit /\ [][LockNext]_lockVars

(* A scheduled runner is started again and again, whatever the others do;  *)
(* a started one gets on with it, and time passes.                         *)
LockFairness ==
    /\ WF_lockVars(Tick)
    /\ \A r \in Runners : WF_lockVars(Step(r)) /\ SF_lockVars(Ask(r))

LockFairSpec == LockSpec /\ LockFairness

-----------------------------------------------------------------------------
LockTypeOK ==
    /\ exists \in BOOLEAN
    /\ stamps \subseteq 0..Horizon
    /\ where \in [Runners -> Steps]
    /\ age \in [Runners -> 0..Horizon]
    /\ alone \in BOOLEAN /\ deaths \in 0..MaxDeaths /\ lost \in 0..MaxLost

(* The deployments the guard is sound in: nobody outlives the timeout and  *)
(* no delete is repeated; and either acquisitions do not overlap (a Job    *)
(* that does not start a second instance) or nobody dies and everybody     *)
(* takes an unreadable marker for held.                                    *)
SoundDeployment ==
    /\ Bounded = Runners /\ MaxLost = 0
    /\ alone \/ (Careful = Runners /\ MaxDeaths = 0)

(* In these no two runners write at once: "Passes are serialised           *)
(* tenant-wide".                                                           *)
MutualExclusion ==
    SoundDeployment =>
        \A r, s \in Runners : where[r] = "work" /\ where[s] = "work" => r = s

(* While a runner works the marker is there and says so: nobody deleted it *)
(* by standing down, releasing twice or taking over, and every other       *)
(* reader sees this runner's own start and no older one.                   *)
MarkerIsTheWorkers ==
    \A r \in Runners : where[r] = "work" => exists /\ stamps = {age[r]}

(* A runner that has decided to take the marker over takes it from a dead  *)
(* one: "if a run is genuinely dead ... another run treats it as stale".   *)
TakeoverOnlyFromTheDead ==
    \A r \in Runners :
        where[r] \in {"takeover", "recreate"} => \A s \in Runners : where[s] # "work"

(* A crashed pass does not park the pipeline: whatever a runner left       *)
(* behind when it died, some runner gets to work again.                    *)
LockRecovers == []<>(\E r \in Runners : where[r] = "work")

-----------------------------------------------------------------------------
Owning == {"takeover", "recreate", "stamp", "work"}
OneOwner ==
    \A r, s \in Runners : where[r] \in Owning /\ where[s] \in Owning => r = s

OneAcquirer ==
    alone =>
        \A r, s \in Runners : where[r] \in Acquiring /\ where[s] \in Acquiring => r = s

OwnerInv ==
    \A r \in Runners :
        /\ where[r] # "release"
        /\ where[r] = "recreate" => ~exists
        /\ where[r] = "stamp" => exists /\ stamps = {}
        /\ where[r] = "work" => exists /\ stamps = {age[r]}
        /\ where[r] # "idle" => age[r] <= TaskTimeout

(* Where acquisitions overlap, a marker always has a living owner. *)
MarkerInv ==
    /\ ~exists => stamps = {}
    /\ ~alone =>
        /\ \A r \in Runners : where[r] \notin {"takeover", "recreate"}
        /\ exists => \E r \in Runners : where[r] \in {"stamp", "work"}

(* The inductive invariant: the guard is a mutual exclusion of OWNERS, of  *)
(* which the working runner is one.                                        *)
LockInv == LockTypeOK /\ OneOwner /\ OneAcquirer /\ OwnerInv /\ MarkerInv

=============================================================================
