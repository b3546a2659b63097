------------------------------ MODULE IkdRebuild ------------------------------
(***************************************************************************)
(* ikd_Tree.cpp: how a subtree is rebuilt in the background while the      *)
(* odometry goes on using it.                                              *)
(*                                                                         *)
(* The rebuild thread copies the valid points of the subtree, builds a new *)
(* one, repeats on it the operations that were logged meanwhile, and puts  *)
(* it in the place of the old one, which it deletes.  The odometry has     *)
(* searchers that run in parallel, and between the searches of two scans   *)
(* one thread that inserts and deletes.  That thread alone requests        *)
(* rebuilds.                                                               *)
(*                                                                         *)
(* The model is about one subtree, the root's or a son's, large enough to  *)
(* be rebuilt in the background, and about what its father has still to    *)
(* push down to it.  Its content is the bag of its valid points.  A        *)
(* section under working_flag_mutex is one step, and so is the look at     *)
(* Rebuild_Ptr that decides whether to lock.                               *)
(***************************************************************************)
EXTENDS Integers, Sequences, FiniteSetsExt

CONSTANTS
  Points,    \* numbered by their distance to the centre of their cell
  Cells,     \* the cells of the downsampling: a partition of Points
  Boxes,     \* what is deleted: sets of points
  Searchers, \* the threads of the parallel search
  Places,    \* where the subtree may be: "root" or "son"
  MaxOps     \* bound: operations of the odometry on the subtree

ASSUME IkdAssumption ==
  /\ Points \subseteq Nat /\ UNION Cells = Points
  /\ \A c, d \in Cells : c = d \/ c \intersect d = {}
  /\ Boxes \subseteq SUBSET Points
  /\ IsFiniteSet(Searchers) /\ "user" \notin Searchers
  /\ Places \subseteq {"root", "son"} /\ MaxOps \in Nat

VARIABLES
  place,        \* where the subtree is
  requested,    \* Rebuild_Ptr points to it
  rebuild_flag, \* operations are logged
  logger,       \* Rebuild_Logger
  counter,      \* search_mutex_counter
  working,      \* the rebuild thread holds working_flag_mutex
  rebuild,      \* where the rebuild thread is
  new,          \* what it copied and built
  current,      \* the operation it repeats
  live,         \* the subtree the others see
  pend,         \* the deletion the father has still to push down, and whence
  phase,        \* what the odometry is at: "search" or "update"
  searcher, counted, \* where each searcher is; whether it is in the counter
  stale,        \* who is inside a subtree that was replaced
  user,         \* the updating thread: "ready", "lock", "searchlock", "range", "range locked"
  todo,         \* what it has to do to complete the call
  map,          \* history: the points there should be
  late,         \* history: something was logged after its rebuild had ended
  ops, fate

rebuildVars == <<requested, rebuild_flag, logger, counter, working, rebuild, new, current>>
searchVars == <<phase, searcher, counted>>
userVars == <<user, todo>>
vars == <<place, rebuildVars, live, pend, searchVars, stale, userVars, map, late, ops, fate>>

Add(p)       == [op |-> "ADD_POINT", points |-> {p}]
Delete(box)  == [op |-> "DELETE_BOX", points |-> box]
DownDelete(cell) == [op |-> "DOWNSAMPLE_DELETE", points |-> cell]
PushDown     == [op |-> "PUSH_DOWN", points |-> Points]
Operations   == {Add(p) : p \in Points} \union {Delete(box) : box \in Boxes}
                  \union {DownDelete(cell) : cell \in Cells} \union {PushDown}

\* What the updating thread has to do: apply operations to the subtree in one
\* go, or search it by range before it inserts.
Apply(os) == [kind |-> "apply", ops |-> os]
Unlocked(os) == [kind |-> "unlocked", ops |-> os]
Around(p)  == [kind |-> "around", point |-> p]

Bags  == [Points -> Nat]
Empty == [p \in Points |-> 0]

Init ==
  /\ place \in Places
  /\ requested = FALSE /\ rebuild_flag = FALSE /\ logger = <<>> /\ counter = 0
  /\ working = FALSE /\ rebuild = "idle" /\ new = Empty /\ current = PushDown
  /\ live \in [Points -> {0, 1}] /\ pend = "no" /\ map = live
  /\ phase = "update" /\ searcher = [s \in Searchers |-> "done"]
  /\ counted = [s \in Searchers |-> FALSE] /\ stale = {}
  /\ user = "ready" /\ todo = <<>> /\ late = FALSE /\ ops = 0 /\ fate = "running"

-----------------------------------------------------------------------------
(* What an operation does to a subtree, and to the tree the father sees.   *)

Run(bag, o) ==
  [p \in Points |-> CASE p \notin o.points -> bag[p]
                      [] o.op = "ADD_POINT" -> bag[p] + 1
                      [] OTHER -> 0]

\* One operation, or a deletion and the insertion after it.
RunAll(bag, os) ==
  IF Len(os) = 1 THEN Run(bag, os[1]) ELSE Run(Run(bag, os[1]), os[2])

\* What is still to be pushed down deletes everything.
Content == IF pend = "no" THEN live ELSE Empty

\* search_flag_mutex: a search by range of a son keeps it all the while.
SearchHeld == user = "range locked"

\* Who is inside the subtree.
Ranging == user \in {"range", "range locked"}
Inside  == {s \in Searchers : searcher[s] = "in"}
             \union (IF Ranging THEN {"user"} ELSE {})

-----------------------------------------------------------------------------
(* multi_thread_rebuild.                                                   *)

\* rebuild_ptr_mutex_lock is taken, and kept till the end.
Begin ==
  /\ rebuild = "idle" /\ requested
  /\ rebuild' = "begin"
  /\ UNCHANGED <<requested, rebuild_flag, logger, counter, working, new, current, live, pend, stale, fate>>

\* Mutant of Start: a log that is not empty makes it give up, not only say so.
StartGivesUp ==
  /\ rebuild = "begin"
  /\ IF logger = <<>> THEN working' = TRUE /\ rebuild_flag' = TRUE /\ rebuild' = "quiet"
                     ELSE rebuild' = "idle" /\ UNCHANGED <<working, rebuild_flag>>
  /\ UNCHANGED <<requested, logger, counter, new, current, live, pend, stale, fate>>

Start ==
  /\ rebuild = "begin"
  /\ working' = TRUE /\ rebuild_flag' = TRUE /\ rebuild' = "quiet"
  /\ UNCHANGED <<requested, logger, counter, new, current, live, pend, stale, fate>>

\* Mutant of LockSearch: who is inside is not waited for.
LockSearchAtOnce(from, to) ==
  /\ rebuild = from /\ ~SearchHeld
  /\ counter' = -1 /\ rebuild' = to
  /\ UNCHANGED <<requested, rebuild_flag, logger, working, new, current, live, pend, stale, fate>>

LockSearch(from, to) ==
  /\ rebuild = from /\ ~SearchHeld /\ counter = 0
  /\ counter' = -1 /\ rebuild' = to
  /\ UNCHANGED <<requested, rebuild_flag, logger, working, new, current, live, pend, stale, fate>>

Flatten ==
  /\ rebuild = "flatten"
  /\ new' = live /\ rebuild' = "flattened"
  /\ UNCHANGED <<requested, rebuild_flag, logger, counter, working, current, live, pend, stale, fate>>

\* The search is unlocked, then working_flag_mutex is.
Flattened ==
  /\ rebuild = "flattened" /\ ~SearchHeld
  /\ counter' = 0 /\ working' = FALSE /\ rebuild' = "build"
  /\ UNCHANGED <<requested, rebuild_flag, logger, new, current, live, pend, stale, fate>>

\* BuildTree, and the lock.  Without a point there is no new tree: the lock is
\* not taken, the log not looked at and a null pointer read, if the build reads it.
BuildTree ==
  /\ rebuild = "build"
  /\ IF new = Empty THEN fate' = "emptied" /\ UNCHANGED <<working, rebuild>>
                    ELSE working' = TRUE /\ rebuild' = "replay" /\ UNCHANGED fate
  /\ UNCHANGED <<requested, rebuild_flag, logger, counter, new, current, live, pend, stale>>

\* The log's front is repeated with both locks released.
Pop ==
  /\ rebuild = "replay" /\ logger # <<>>
  /\ current' = Head(logger) /\ logger' = Tail(logger)
  /\ working' = FALSE /\ rebuild' = "run"
  /\ UNCHANGED <<requested, rebuild_flag, counter, new, live, pend, stale, fate>>

\* Mutant of RunOperation: the lock is not taken again.
RunOperationUnlocked ==
  /\ rebuild = "run"
  /\ new' = Run(new, current) /\ current' = PushDown
  /\ rebuild' = "replay"
  /\ UNCHANGED <<requested, rebuild_flag, logger, counter, working, live, pend, stale, fate>>

RunOperation ==
  /\ rebuild = "run"
  /\ new' = Run(new, current) /\ current' = PushDown
  /\ working' = TRUE /\ rebuild' = "replay"
  /\ UNCHANGED <<requested, rebuild_flag, logger, counter, live, pend, stale, fate>>

\* The lock is held from the look at the empty log to the swap.
Replayed ==
  /\ rebuild = "replay" /\ logger = <<>>
  /\ rebuild' = "quiet again"
  /\ UNCHANGED <<requested, rebuild_flag, logger, counter, working, new, current, live, pend, stale, fate>>

\* Update makes a father deleted exactly if its point and its sons are.  A father
\* that was deleted from above no longer is, for its new son is not.  It is not
\* updated if it is to be pushed down to itself or an operation marked it as being
\* at work: a mark may be left over from an operation that returned early, as it
\* is when the father was what was deleted.
Updated == IF pend = "pushed" THEN {fate, "undeleted"} ELSE {fate}

Swap ==
  /\ rebuild = "swap"
  /\ live' = new
  /\ stale' = stale \union Inside
  /\ rebuild' = "swapped"
  /\ fate' \in Updated
  /\ UNCHANGED <<requested, rebuild_flag, logger, counter, working, new, current, pend>>

\* The search is unlocked, Rebuild_Ptr reset, and working_flag_mutex unlocked.
Swapped ==
  /\ rebuild = "swapped" /\ ~SearchHeld
  /\ counter' = 0 /\ requested' = FALSE /\ working' = FALSE /\ rebuild' = "clear"
  /\ UNCHANGED <<rebuild_flag, logger, new, current, live, pend, stale, fate>>

ClearFlag ==
  /\ rebuild = "clear"
  /\ rebuild_flag' = FALSE /\ rebuild' = "free"
  /\ UNCHANGED <<requested, logger, counter, working, new, current, live, pend, stale, fate>>

\* delete_tree_nodes, under the feet of whoever is still inside.
Free ==
  /\ rebuild = "free"
  /\ fate' = IF stale = {} THEN fate ELSE "freed"
  /\ rebuild' = "idle" /\ new' = Empty
  /\ UNCHANGED <<requested, rebuild_flag, logger, counter, working, current, live, pend, stale>>

RebuildThread ==
  /\ \/ Begin \/ Start \/ LockSearch("quiet", "flatten") \/ Flatten \/ Flattened
     \/ BuildTree \/ Pop \/ RunOperation \/ Replayed
     \/ LockSearch("quiet again", "swap") \/ Swap \/ Swapped \/ ClearFlag \/ Free
  /\ UNCHANGED <<place, searchVars, userVars, map, late, ops>>

-----------------------------------------------------------------------------
(* Nearest_Search and Search: once per searcher and scan.                  *)

StartSearches ==
  /\ phase = "update" /\ user = "ready" /\ todo = <<>>
  /\ phase' = "search" /\ searcher' = [s \in Searchers |-> "due"]
  /\ UNCHANGED <<place, rebuildVars, live, pend, counted, stale, userVars, map, late, ops, fate>>

\* A deleted father is not searched.
SearchBegins(s) ==
  /\ searcher[s] = "due"
  /\ searcher' = [searcher EXCEPT ![s] = IF pend # "no" THEN "done"
                                         ELSE IF requested THEN "waiting" ELSE "in"]
  /\ UNCHANGED <<place, rebuildVars, live, pend, phase, counted, stale, userVars, map, late, ops, fate>>

SearchEnters(s) ==
  /\ searcher[s] = "waiting" /\ counter # -1
  /\ counter' = counter + 1
  /\ searcher' = [searcher EXCEPT ![s] = "in"] /\ counted' = [counted EXCEPT ![s] = TRUE]
  /\ UNCHANGED <<place, requested, rebuild_flag, logger, working, rebuild, new, current,
                 live, pend, phase, stale, userVars, map, late, ops, fate>>

SearchLeaves(s) ==
  /\ searcher[s] = "in"
  /\ searcher' = [searcher EXCEPT ![s] = "done"] /\ counted' = [counted EXCEPT ![s] = FALSE]
  /\ counter' = IF counted[s] THEN counter - 1 ELSE counter
  /\ stale' = stale \ {s}
  /\ UNCHANGED <<place, requested, rebuild_flag, logger, working, rebuild, new, current,
                 live, pend, phase, userVars, map, late, ops, fate>>

EndSearches ==
  /\ phase = "search" /\ \A s \in Searchers : searcher[s] = "done"
  /\ phase' = "update"
  /\ UNCHANGED <<place, rebuildVars, live, pend, searcher, counted, stale, userVars, map, late, ops, fate>>

-----------------------------------------------------------------------------
(* Add_Points and Delete_Point_Boxes, with the recursive functions they    *)
(* call down to the subtree.                                               *)

\* A call begins.  On its way down it pushes down what is pending.
Call(steps) ==
  /\ phase = "update" /\ user = "ready" /\ todo = <<>> /\ ops < MaxOps
  /\ todo' = (IF pend = "no" THEN <<>> ELSE <<Apply(<<PushDown>>)>>) \o steps
  /\ ops' = ops + 1
  /\ UNCHANGED <<place, rebuildVars, live, pend, searchVars, stale, user, map, late, fate>>

AddPoint(p) == Call(<<Apply(<<Add(p)>>)>>)
AddDownsampled(p) == Call(<<Around(p)>>)
\* A deletion does not go below what is deleted.
DeleteBox(box) == pend = "no" /\ Call(<<Apply(<<Delete(box)>>)>>)

\* A box that covers the father, or more, deletes it without a look inside.
DeleteAbove ==
  /\ place = "son" /\ pend = "no"
  /\ phase = "update" /\ user = "ready" /\ todo = <<>> /\ ops < MaxOps
  /\ pend' \in {"own", "above"} /\ map' = Empty /\ ops' = ops + 1
  /\ UNCHANGED <<place, rebuildVars, live, searchVars, stale, userVars, late, fate>>

\* An operation on another part of the tree pushes the deletion down to the father.
PushAbove ==
  /\ pend = "above" /\ phase = "update" /\ user = "ready" /\ todo = <<>>
  /\ pend' = "pushed"
  /\ UNCHANGED <<place, rebuildVars, live, searchVars, stale, userVars, map, late, ops, fate>>

\* Operations change the subtree, and the map the odometry asked for; what was
\* pending is pushed down with them.
Applied(os) ==
  /\ live' = RunAll(live, os) /\ map' = RunAll(map, os)
  /\ pend' = IF os = <<PushDown>> THEN "no" ELSE pend
  /\ user' = "ready"

\* Rebuild: a subtree out of balance, or with many deleted points, has its rebuild
\* requested if rebuild_ptr_mutex_lock can be had at once.
Requests == IF rebuild = "idle" THEN {requested, TRUE} ELSE {requested}

\* Without a request nothing is locked and nothing logged.  A second
\* operation in one go is not held back by a request the first has made: while a
\* rebuild runs it is lost, or the node it changes is.
ApplyDirectly ==
  /\ user = "ready" /\ todo # <<>>
  /\ Head(todo).kind = "unlocked" \/ (Head(todo).kind = "apply" /\ ~requested)
  /\ LET os == Head(todo).ops
         rest == IF Len(os) = 1 THEN <<>> ELSE <<Unlocked(Tail(os))>>
     IN Applied(<<Head(os)>>) /\ todo' = rest \o Tail(todo)
  /\ requested' \in Requests
  /\ fate' = IF requested /\ rebuild \notin {"idle", "begin"} THEN "unlogged" ELSE fate
  /\ UNCHANGED <<place, rebuild_flag, logger, counter, working, rebuild, new, current,
                 searchVars, stale, late, ops>>

WantLock ==
  /\ user = "ready" /\ todo # <<>> /\ Head(todo).kind = "apply" /\ requested
  /\ user' = "lock"
  /\ UNCHANGED <<place, rebuildVars, live, pend, searchVars, stale, todo, map, late, ops, fate>>

\* The rebuild may have ended while the lock was waited for, and its flag
\* still be set: then the operations wait in the log for the next one.
ApplyLocked ==
  /\ user = "lock" /\ ~working
  /\ Applied(Head(todo).ops) /\ todo' = Tail(todo)
  /\ logger' = IF rebuild_flag THEN logger \o Head(todo).ops ELSE logger
  /\ late' = (late \/ (rebuild_flag /\ ~requested))
  /\ UNCHANGED <<place, requested, rebuild_flag, counter, working, rebuild, new, current,
                 searchVars, stale, ops, fate>>

\* Search_by_range of the cell.  Nothing is locked at the root.
RangeBegins ==
  /\ user = "ready" /\ todo # <<>> /\ Head(todo).kind = "around"
  /\ user' = IF place = "son" /\ requested THEN "searchlock" ELSE "range"
  /\ UNCHANGED <<place, rebuildVars, live, pend, searchVars, stale, todo, map, late, ops, fate>>

RangeEnters ==
  /\ user = "searchlock"
  /\ user' = "range locked"
  /\ UNCHANGED <<place, rebuildVars, live, pend, searchVars, stale, todo, map, late, ops, fate>>

\* The new point is inserted if no other of its cell is closer to the centre;
\* the closest replaces the others.  At the root this is one section under the
\* lock, below it the deletion and the insertion go down one after the other.
Inserted(p) ==
  LET cell    == CHOOSE c \in Cells : p \in c
      found   == {q \in cell : live[q] > 0}
      closer  == {q \in found : q < p}
      result  == IF closer = {} THEN p ELSE Min(closer)
      several == \E q, r \in found : q # r \/ live[q] > 1
      delete  == IF found = {} THEN <<>> ELSE <<DownDelete(cell)>>
  IN IF ~several /\ result # p THEN <<>>
     ELSE IF place = "root" THEN <<Apply(delete \o <<Add(result)>>)>>
     ELSE [i \in DOMAIN delete |-> Apply(<<delete[i]>>)] \o <<Apply(<<Add(result)>>)>>

RangeEnds ==
  /\ Ranging
  /\ user' = "ready" /\ todo' = Inserted(Head(todo).point)
  /\ stale' = stale \ {"user"}
  /\ UNCHANGED <<place, rebuildVars, live, pend, searchVars, map, late, ops, fate>>

-----------------------------------------------------------------------------
Search == \E s \in Searchers : SearchBegins(s) \/ SearchEnters(s) \/ SearchLeaves(s)
Update == ApplyDirectly \/ WantLock \/ ApplyLocked \/ RangeBegins \/ RangeEnters \/ RangeEnds
Choose ==
  \/ \E p \in Points : AddPoint(p) \/ AddDownsampled(p)
  \/ \E box \in Boxes : DeleteBox(box)
  \/ DeleteAbove \/ PushAbove

\* What comes after memory was misused, an insertion lost or a deletion undone is
\* not followed.
Running == RebuildThread \/ StartSearches \/ Search \/ EndSearches \/ Update \/ Choose
Next == (fate = "running" /\ Running) \/ (fate # "running" /\ UNCHANGED vars)

Spec == Init /\ [][Next]_vars

\* The threads go on.  The rebuild thread looks every microsecond whether the
\* searchers are out, which they are again and again: each searches once per
\* scan.
FairSpec ==
  /\ Spec
  /\ SF_vars(fate = "running" /\ RebuildThread)
  /\ WF_vars(fate = "running" /\ Update)
  /\ WF_vars(fate = "running" /\ EndSearches)
  /\ \A s \in Searchers :
       WF_vars(fate = "running" /\ (SearchBegins(s) \/ SearchEnters(s) \/ SearchLeaves(s)))
=============================================================================
