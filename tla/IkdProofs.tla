------------------------------ MODULE IkdProofs ------------------------------
(***************************************************************************)
(* However many threads search the tree, none of them is inside a subtree  *)
(* while the rebuild thread copies or replaces it, and none in the nodes   *)
(* it deletes.  Whatever is inserted and deleted meanwhile, the subtree    *)
(* that replaces the old one holds the same points.                        *)
(***************************************************************************)
EXTENDS IkdRebuildProperties, FiniteSetTheorems, SequenceTheorems, WellFoundedInduction, TLAPS

\* Who is in search_mutex_counter; while the search is locked nobody is.
Counted   == {s \in Searchers : counted[s]}
Excluding == {"flatten", "flattened", "swap", "swapped"}

SearchType ==
  /\ place \in Places /\ requested \in BOOLEAN /\ counter \in Int
  /\ rebuild \in {"idle", "begin", "quiet", "flatten", "flattened", "build", "replay",
                  "run", "quiet again", "swap", "swapped", "clear", "free"}
  /\ phase \in {"search", "update"}
  /\ user \in {"ready", "lock", "searchlock", "range", "range locked"}
  /\ searcher \in [Searchers -> {"due", "waiting", "in", "done"}]
  /\ counted \in [Searchers -> BOOLEAN] /\ stale \subseteq {"user"}

CountInv ==
  /\ rebuild \in Excluding => counter = -1 /\ Counted = {}
  /\ rebuild \notin Excluding => counter = Cardinality(Counted)
  /\ \A s \in Searchers : counted[s] => searcher[s] = "in"

\* The odometry searches and updates by turns.
PhaseInv ==
  /\ phase = "update" => \A s \in Searchers : searcher[s] = "done"
  /\ todo # <<>> \/ user # "ready" => phase = "update"

\* Who is inside without being counted came before a rebuild was requested, and
\* none is requested while he is.
RequestInv ==
  /\ rebuild \notin {"idle", "clear", "free"} => requested
  /\ \A s \in Searchers : searcher[s] = "in" /\ ~counted[s] => ~requested
  /\ place = "son" /\ user = "range" => ~requested

\* Only the updating thread is ever left behind in a subtree that was replaced;
\* below the root the rebuild thread cannot go on until it has left.
StaleInv ==
  /\ fate = "running" /\ stale # {} =>
       /\ Ranging /\ rebuild \in {"swapped", "clear", "free"}
       /\ place = "son" => rebuild = "swapped" /\ user = "range locked"
  /\ fate = "freed" => place = "root" /\ stale = {"user"}

SearchInv == SearchType /\ CountInv /\ PhaseInv /\ RequestInv /\ StaleInv

-----------------------------------------------------------------------------
LEMMA CountedFinite ==
  ASSUME SearchType
  PROVE  /\ IsFiniteSet(Counted) /\ Cardinality(Counted) \in Nat
         /\ Cardinality(Counted) = 0 <=> Counted = {}
<1>1. IsFiniteSet(Counted)
  BY IkdAssumption, FS_Subset DEF Counted
<1> QED
  BY <1>1, FS_CardinalityType, FS_EmptySet

\* With the search locked nobody searches the subtree.
LEMMA NobodyIn ==
  ASSUME SearchInv, rebuild \in Excluding
  PROVE  {s \in Searchers : searcher[s] = "in"} = {}
<1>1. \A s \in Searchers : ~counted[s]
  BY DEF SearchInv, CountInv, Counted
<1>2. requested
  BY DEF SearchInv, RequestInv, Excluding
<1> QED
  BY <1>1, <1>2 DEF SearchInv, RequestInv

LEMMA InitSearch == Init => SearchInv
<1> SUFFICES ASSUME Init PROVE SearchInv
  OBVIOUS
<1> USE DEF Init
<1>1. SearchType
  <2>1. counter \in Int /\ stale \subseteq {"user"}
    OBVIOUS
  <2>2. searcher \in [Searchers -> {"due", "waiting", "in", "done"}]
        /\ counted \in [Searchers -> BOOLEAN]
    OBVIOUS
  <2> QED
    BY <2>1, <2>2 DEF SearchType
<1>2. Counted = {}
  BY DEF Counted
<1>3. CountInv
  BY <1>1, <1>2, CountedFinite DEF CountInv, Excluding
<1>4. PhaseInv /\ RequestInv /\ StaleInv
  BY DEF PhaseInv, RequestInv, StaleInv
<1> QED
  BY <1>1, <1>3, <1>4 DEF SearchInv

-----------------------------------------------------------------------------
(* The rebuild thread.                                                     *)
LEMMA RebuildStep ==
  ASSUME SearchInv, fate = "running", RebuildThread PROVE SearchInv'
<1> USE DEF SearchInv
<1>1. UNCHANGED <<place, phase, searcher, counted, user, todo>>
  BY DEF RebuildThread, searchVars, userVars
<1>2. Counted' = Counted
  BY <1>1 DEF Counted
<1>3. PhaseInv'
  BY <1>1 DEF PhaseInv
<1>4. place \in {"root", "son"} /\ (stale # {} => stale = {"user"})
  <2>1. stale \subseteq {"user"} /\ place \in Places
    BY DEF SearchType
  <2>2. ASSUME stale # {} PROVE stale = {"user"}
    BY <2>1, <2>2
  <2> QED
    BY <2>1, <2>2, IkdAssumption
<1>5. CASE Begin
  <2>1. SearchType' /\ CountInv'
    BY <1>1, <1>2, <1>5 DEF Begin, SearchType, CountInv, Excluding
  <2> QED
    BY <1>1, <1>3, <1>5, <2>1 DEF Begin, RequestInv, StaleInv, Ranging
<1>6. CASE Start
  <2>1. SearchType' /\ CountInv'
    BY <1>1, <1>2, <1>6 DEF Start, SearchType, CountInv, Excluding
  <2> QED
    BY <1>1, <1>3, <1>6, <2>1 DEF Start, RequestInv, StaleInv, Ranging
<1>7. CASE LockSearch("quiet", "flatten") \/ LockSearch("quiet again", "swap")
  <2>1. Counted = {}
    BY <1>7, CountedFinite DEF LockSearch, CountInv, Excluding
  <2>2. counter' = -1 /\ counter' \in Int /\ rebuild' \in {"flatten", "swap"}
        /\ requested' = requested /\ UNCHANGED stale
    <3>1. -1 \in Int
      OBVIOUS
    <3>2. counter' = -1
      BY <1>7 DEF LockSearch
    <3>3. rebuild' \in {"flatten", "swap"} /\ requested' = requested /\ UNCHANGED stale
      BY <1>7 DEF LockSearch
    <3> QED
      BY <3>1, <3>2, <3>3
  <2>3. SearchType'
    BY <1>1, <2>2 DEF SearchType
  <2>4. CountInv'
    BY <1>1, <1>2, <2>1, <2>2 DEF CountInv, Excluding
  <2> QED
    BY <1>1, <1>3, <1>7, <2>3, <2>4 DEF LockSearch, RequestInv, StaleInv, Ranging
<1>8. CASE Flatten
  <2>1. SearchType' /\ CountInv'
    BY <1>1, <1>2, <1>8 DEF Flatten, SearchType, CountInv, Excluding
  <2> QED
    BY <1>1, <1>3, <1>8, <2>1 DEF Flatten, RequestInv, StaleInv, Ranging
<1>9. CASE Flattened
  <2>1. Cardinality(Counted) = 0
    BY <1>9, CountedFinite DEF Flattened, CountInv, Excluding
  <2>2. counter' = 0 /\ counter' \in Int /\ rebuild' = "build" /\ requested' = requested
        /\ UNCHANGED stale
    BY <1>9 DEF Flattened
  <2>3. SearchType'
    BY <1>1, <2>2 DEF SearchType
  <2>4. CountInv'
    BY <1>1, <1>2, <2>1, <2>2 DEF CountInv, Excluding
  <2> QED
    BY <1>1, <1>3, <1>9, <2>3, <2>4 DEF Flattened, RequestInv, StaleInv, Ranging
<1>10. CASE BuildTree
  <2>1. SearchType' /\ CountInv'
    BY <1>1, <1>2, <1>10 DEF BuildTree, SearchType, CountInv, Excluding
  <2> QED
    BY <1>1, <1>3, <1>10, <2>1 DEF BuildTree, RequestInv, StaleInv, Ranging
<1>11. CASE Pop
  <2>1. SearchType' /\ CountInv'
    BY <1>1, <1>2, <1>11 DEF Pop, SearchType, CountInv, Excluding
  <2> QED
    BY <1>1, <1>3, <1>11, <2>1 DEF Pop, RequestInv, StaleInv, Ranging
<1>12. CASE RunOperation
  <2>1. SearchType' /\ CountInv'
    BY <1>1, <1>2, <1>12 DEF RunOperation, SearchType, CountInv, Excluding
  <2> QED
    BY <1>1, <1>3, <1>12, <2>1 DEF RunOperation, RequestInv, StaleInv, Ranging
<1>13. CASE Replayed
  <2>1. SearchType' /\ CountInv'
    BY <1>1, <1>2, <1>13 DEF Replayed, SearchType, CountInv, Excluding
  <2> QED
    BY <1>1, <1>3, <1>13, <2>1 DEF Replayed, RequestInv, StaleInv, Ranging
<1>14. CASE Swap
  <2>1. {s \in Searchers : searcher[s] = "in"} = {}
    BY <1>14, NobodyIn DEF Swap, Excluding
  <2>2. stale = {}
    BY <1>14 DEF Swap, StaleInv
  <2>3. stale' = IF Ranging THEN {"user"} ELSE {}
    BY <1>14, <2>1, <2>2 DEF Swap, Inside
  <2>4. SearchType' /\ CountInv'
    BY <1>1, <1>2, <1>14, <2>3 DEF Swap, SearchType, CountInv, Excluding
  <2>5. requested /\ UNCHANGED requested /\ rebuild' = "swapped"
        /\ fate' \in {"running", "undeleted"}
    BY <1>14 DEF Swap, RequestInv, Updated
  <2>6. RequestInv'
    BY <1>1, <2>5 DEF RequestInv
  <2>7. StaleInv'
    BY <1>1, <1>4, <2>3, <2>5 DEF StaleInv, RequestInv, Ranging
  <2> QED
    BY <1>3, <2>4, <2>6, <2>7
<1>15. CASE Swapped
  <2>1. Cardinality(Counted) = 0
    BY <1>15, CountedFinite DEF Swapped, CountInv, Excluding
  <2>2. counter' = 0 /\ counter' \in Int /\ rebuild' = "clear" /\ requested' = FALSE
        /\ UNCHANGED stale
    BY <1>15 DEF Swapped
  <2>3. SearchType'
    BY <1>1, <2>2 DEF SearchType
  <2>4. CountInv'
    BY <1>1, <1>2, <2>1, <2>2 DEF CountInv, Excluding
  <2> QED
    BY <1>1, <1>3, <1>15, <2>3, <2>4 DEF Swapped, RequestInv, StaleInv, Ranging, SearchHeld
<1>16. CASE ClearFlag
  <2>1. SearchType' /\ CountInv'
    BY <1>1, <1>2, <1>16 DEF ClearFlag, SearchType, CountInv, Excluding
  <2> QED
    BY <1>1, <1>3, <1>16, <2>1 DEF ClearFlag, RequestInv, StaleInv, Ranging
<1>17. CASE Free
  <2>1. SearchType' /\ CountInv'
    BY <1>1, <1>2, <1>17 DEF Free, SearchType, CountInv, Excluding
  <2> QED
    BY <1>1, <1>3, <1>4, <1>17, <2>1 DEF Free, RequestInv, StaleInv, Ranging
<1> QED
  BY <1>5, <1>6, <1>7, <1>8, <1>9, <1>10, <1>11, <1>12, <1>13, <1>14, <1>15, <1>16, <1>17
     DEF RebuildThread

-----------------------------------------------------------------------------
(* The searchers.                                                          *)

\* Nothing is requested between two searches, and everybody leaves in between.
LEMMA PhaseStep ==
  ASSUME SearchInv, fate = "running", StartSearches \/ EndSearches PROVE SearchInv'
<1> USE DEF SearchInv
<1>1. UNCHANGED <<place, rebuildVars, counted, stale, user, todo, fate>>
  BY DEF StartSearches, EndSearches, userVars
<1>2. Counted' = Counted
  BY <1>1 DEF Counted
<1>3. (\A s \in Searchers : searcher[s] # "in") /\ (\A s \in Searchers : searcher'[s] # "in")
      /\ searcher' \in [Searchers -> {"due", "waiting", "in", "done"}]
      /\ phase' \in {"search", "update"}
  BY DEF StartSearches, EndSearches, SearchType, PhaseInv
<1>4. SearchType' /\ CountInv'
  BY <1>1, <1>2, <1>3 DEF rebuildVars, SearchType, CountInv
<1>5. PhaseInv'
  BY <1>1 DEF StartSearches, EndSearches, PhaseInv
<1>6. RequestInv' /\ StaleInv'
  BY <1>1, <1>3 DEF rebuildVars, RequestInv, StaleInv, Ranging
<1> QED
  BY <1>4, <1>5, <1>6

LEMMA SearcherStep ==
  ASSUME SearchInv, fate = "running", NEW s \in Searchers,
         SearchBegins(s) \/ SearchEnters(s) \/ SearchLeaves(s)
  PROVE  SearchInv'
<1> USE DEF SearchInv
<1>1. UNCHANGED <<place, requested, rebuild, phase, user, todo, fate>>
  BY DEF SearchBegins, SearchEnters, SearchLeaves, rebuildVars, userVars
<1>2. phase = "search"
  BY DEF SearchBegins, SearchEnters, SearchLeaves, PhaseInv, SearchType
<1>3. PhaseInv'
  BY <1>1, <1>2 DEF PhaseInv
<1>4. searcher \in [Searchers -> {"due", "waiting", "in", "done"}]
      /\ counted \in [Searchers -> BOOLEAN]
  BY DEF SearchType
<1>5. CASE SearchBegins(s)
  <2>1. UNCHANGED <<counter, counted, stale>>
    BY <1>5 DEF SearchBegins, rebuildVars
  <2>2. Counted' = Counted
    BY <2>1 DEF Counted
  <2>3. \A t \in Searchers \ {s} : searcher'[t] = searcher[t]
    BY <1>4, <1>5 DEF SearchBegins
  <2>4. searcher[s] = "due" /\ searcher'[s] \in {"done", "waiting", "in"}
        /\ (searcher'[s] = "in" => ~requested)
    BY <1>4, <1>5 DEF SearchBegins
  <2>5. SearchType'
    BY <1>1, <1>4, <1>5, <2>1 DEF SearchBegins, SearchType
  <2>6. CountInv'
    BY <1>1, <2>1, <2>2, <2>3, <2>4 DEF CountInv
  <2>7. RequestInv' /\ StaleInv'
    BY <1>1, <2>1, <2>3, <2>4 DEF RequestInv, StaleInv, Ranging
  <2> QED
    BY <1>3, <2>5, <2>6, <2>7
<1>6. CASE SearchEnters(s)
  <2>1. searcher[s] = "waiting" /\ counter # -1 /\ counter' = counter + 1
        /\ searcher' = [searcher EXCEPT ![s] = "in"]
        /\ counted' = [counted EXCEPT ![s] = TRUE] /\ UNCHANGED stale
    BY <1>6 DEF SearchEnters
  <2>2. Counted' = Counted \union {s} /\ s \notin Counted
    BY <1>4, <2>1 DEF Counted, CountInv
  <2>3. rebuild \notin Excluding /\ counter = Cardinality(Counted)
    BY <2>1 DEF CountInv
  <2>4. Cardinality(Counted') = Cardinality(Counted) + 1
    BY <2>2, CountedFinite, FS_AddElement
  <2>5. \A t \in Searchers \ {s} : searcher'[t] = searcher[t] /\ counted'[t] = counted[t]
    BY <1>4, <2>1
  <2>6. searcher'[s] = "in" /\ counted'[s] = TRUE
    BY <1>4, <2>1
  <2>7. SearchType'
    <3>1. counter' \in Int
      BY <2>1, <2>3, CountedFinite
    <3> QED
      BY <1>1, <1>4, <2>1, <3>1 DEF SearchType
  <2>8. CountInv'
    BY <1>1, <2>1, <2>3, <2>4, <2>5, <2>6 DEF CountInv
  <2>9. RequestInv' /\ StaleInv'
    BY <1>1, <2>1, <2>5, <2>6 DEF RequestInv, StaleInv, Ranging
  <2> QED
    BY <1>3, <2>7, <2>8, <2>9
<1>7. CASE SearchLeaves(s)
  <2>1. searcher[s] = "in" /\ counter' = (IF counted[s] THEN counter - 1 ELSE counter)
        /\ searcher' = [searcher EXCEPT ![s] = "done"]
        /\ counted' = [counted EXCEPT ![s] = FALSE] /\ stale' = stale \ {s}
    BY <1>7 DEF SearchLeaves
  <2>2. Counted' = Counted \ {s} /\ (counted[s] <=> s \in Counted)
    BY <1>4, <2>1 DEF Counted
  <2>3. rebuild \notin Excluding /\ counter = Cardinality(Counted)
    <3>1. rebuild \notin Excluding
      BY <2>1, NobodyIn
    <3> QED
      BY <3>1 DEF CountInv
  <2>4. counter' = Cardinality(Counted') /\ counter' \in Int
    <3>1. IsFiniteSet(Counted) /\ Cardinality(Counted) \in Nat
      BY CountedFinite
    <3>2. Cardinality(Counted \ {s}) = IF s \in Counted THEN Cardinality(Counted) - 1
                                                         ELSE Cardinality(Counted)
      BY <3>1, FS_RemoveElement
    <3> HIDE DEF Counted
    <3>3. CASE counted[s]
      BY <2>1, <2>2, <2>3, <3>1, <3>2, <3>3
    <3>4. CASE ~counted[s]
      BY <2>1, <2>2, <2>3, <3>1, <3>2, <3>4
    <3> QED
      BY <3>3, <3>4
  <2>5. \A t \in Searchers \ {s} : searcher'[t] = searcher[t] /\ counted'[t] = counted[t]
    BY <1>4, <2>1
  <2>6. searcher'[s] = "done" /\ counted'[s] = FALSE
    BY <1>4, <2>1
  <2>7. stale' = stale
    BY <2>1, IkdAssumption DEF SearchType
  <2>8. SearchType'
    BY <1>1, <1>4, <2>1, <2>4, <2>7 DEF SearchType
  <2>9. CountInv'
    BY <1>1, <2>3, <2>4, <2>5, <2>6 DEF CountInv
  <2>10. RequestInv' /\ StaleInv'
    BY <1>1, <2>5, <2>6, <2>7 DEF RequestInv, StaleInv, Ranging
  <2> QED
    BY <1>3, <2>8, <2>9, <2>10
<1> QED
  BY <1>5, <1>6, <1>7

-----------------------------------------------------------------------------
(* The thread that inserts and deletes.                                    *)
LEMMA UserStep ==
  ASSUME SearchInv, fate = "running", Update \/ Choose PROVE SearchInv'
<1> USE DEF SearchInv
<1>1. UNCHANGED <<place, counter, rebuild, phase, searcher, counted>>
  BY DEF Update, Choose, ApplyDirectly, WantLock, ApplyLocked, RangeBegins, RangeEnters,
         RangeEnds, AddPoint, AddDownsampled, DeleteBox, DeleteAbove, PushAbove, Call,
         rebuildVars, searchVars
<1>2. Counted' = Counted
  BY <1>1 DEF Counted
<1>3. phase = "update"
  BY DEF Update, Choose, ApplyDirectly, WantLock, ApplyLocked, RangeBegins, RangeEnters,
         RangeEnds, AddPoint, AddDownsampled, DeleteBox, DeleteAbove, PushAbove, Call,
         PhaseInv, Ranging
<1>4. PhaseInv' /\ CountInv'
  BY <1>1, <1>2, <1>3 DEF PhaseInv, CountInv
<1>5. \A s \in Searchers : searcher[s] # "in"
  BY <1>3 DEF PhaseInv
<1>6. CASE Ranging
  <2>1. user' = "ready" /\ stale' = stale \ {"user"} /\ UNCHANGED <<requested, fate>>
    BY <1>6 DEF Ranging, Update, Choose, ApplyDirectly, WantLock, ApplyLocked, RangeBegins,
         RangeEnters, RangeEnds, AddPoint, AddDownsampled, DeleteBox, DeleteAbove, PushAbove,
         Call, rebuildVars
  <2>2. stale' = {}
    BY <2>1 DEF SearchType
  <2>3. SearchType'
    BY <1>1, <2>1, <2>2 DEF SearchType
  <2>4. RequestInv' /\ StaleInv'
    BY <1>1, <1>5, <2>1, <2>2 DEF RequestInv, StaleInv
  <2> QED
    BY <1>4, <2>3, <2>4
<1>7. CASE ~Ranging
  <2>1. stale = {}
    BY <1>7 DEF StaleInv
  <2>2. /\ user' \in {"ready", "lock", "searchlock", "range", "range locked"}
        /\ stale' = stale /\ requested' \in BOOLEAN /\ (requested => requested')
        /\ fate' # "freed"
        /\ place = "son" /\ user' = "range" => ~requested'
    <3>1. requested \in BOOLEAN
          /\ user \in {"ready", "lock", "searchlock", "range", "range locked"}
      BY DEF SearchType
    <3>2. CASE ApplyDirectly
      BY <3>1, <3>2 DEF ApplyDirectly, Applied, Requests
    <3>3. CASE WantLock \/ ApplyLocked
      BY <3>1, <3>3 DEF WantLock, ApplyLocked, Applied, rebuildVars
    <3>4. CASE RangeBegins \/ RangeEnters
      <4>1. stale' = stale /\ requested' = requested /\ fate' = fate
        BY <3>4 DEF RangeBegins, RangeEnters, rebuildVars
      <4>2. user' \in {"searchlock", "range", "range locked"}
            /\ (place = "son" /\ user' = "range" => ~requested)
        BY <3>4 DEF RangeBegins, RangeEnters
      <4> QED
        BY <3>1, <4>1, <4>2
    <3>5. CASE Choose
      BY <1>7, <3>1, <3>5 DEF Choose, AddPoint, AddDownsampled, DeleteBox, DeleteAbove,
         PushAbove, Call, rebuildVars, userVars, Ranging
    <3> QED
      BY <1>7, <3>2, <3>3, <3>4, <3>5 DEF Update, RangeEnds
  <2>3. SearchType'
    BY <1>1, <2>2 DEF SearchType
  <2>4. RequestInv' /\ StaleInv'
    BY <1>1, <1>5, <2>1, <2>2 DEF RequestInv, StaleInv
  <2> QED
    BY <1>4, <2>3, <2>4
<1> QED
  BY <1>6, <1>7

-----------------------------------------------------------------------------
(* The search lock does its work: search_mutex_counter counts every search *)
(* it has to.                                                              *)
THEOREM IkdSearchInvariant == Spec => []SearchInv
<1>1. SearchInv /\ [Next]_vars => SearchInv'
  <2> SUFFICES ASSUME SearchInv, [Next]_vars PROVE SearchInv'
    OBVIOUS
  <2>1. CASE UNCHANGED vars
    <3>1. Counted' = Counted
      BY <2>1 DEF vars, searchVars, Counted
    <3>2. SearchType' /\ CountInv'
      BY <2>1, <3>1 DEF SearchInv, vars, rebuildVars, searchVars, userVars, SearchType, CountInv
    <3>3. PhaseInv' /\ RequestInv' /\ StaleInv'
      BY <2>1 DEF SearchInv, vars, rebuildVars, searchVars, userVars, PhaseInv, RequestInv,
                  StaleInv, Ranging
    <3> QED
      BY <3>2, <3>3 DEF SearchInv
  <2>2. CASE fate = "running" /\ Running
    BY <2>2, RebuildStep, PhaseStep, SearcherStep, UserStep DEF Running, Search
  <2> QED
    BY <2>1, <2>2 DEF Next
<1> QED
  BY <1>1, InitSearch, PTL DEF Spec

(* No searcher is inside a subtree that is copied or replaced, nor in the  *)
(* nodes that are deleted: at most the range search of Add_Points at the   *)
(* root is.                                                                *)
THEOREM IkdSearchExcluded == Spec => []SearchExcluded
<1>1. SearchInv => SearchExcluded
  <2> SUFFICES ASSUME SearchInv PROVE SearchExcluded
    OBVIOUS
  <2>1. rebuild \in Excluding => \A s \in Searchers : searcher[s] # "in"
    BY NobodyIn
  <2>2. fate = "freed" => place = "root" /\ stale = {"user"}
    BY DEF SearchInv, StaleInv
  <2> QED
    BY <2>1, <2>2 DEF SearchExcluded, Excluding
<1> QED
  BY <1>1, IkdSearchInvariant, PTL

-----------------------------------------------------------------------------
(* What the operations do to a bag, one by one and as a log.               *)

LEMMA LeastNat ==
  ASSUME NEW S \in SUBSET Nat, S # {}
  PROVE  \E m \in S : \A n \in S : m <= n
<1> DEFINE R == {p \in Nat \X Nat : p[1] < p[2]}
<1>1. IsWellFoundedOn(R, Nat)
  BY NatLessThanWellFounded DEF OpToRel
<1>2. PICK m \in S : \A n \in S : <<n, m>> \notin R
  BY <1>1, WFMin
<1>3. ASSUME NEW n \in S PROVE m <= n
  <2>1. m \in Nat /\ n \in Nat /\ <<n, m>> \notin R
    BY <1>2
  <2>2. ~(n < m)
    BY <2>1
  <2> QED
    BY <2>1, <2>2
<1> QED
  BY <1>3

\* What the updating thread applies in one go, and what it has to do.
Runs  == {<<o>> : o \in Operations} \union {<<o, q>> : o, q \in Operations}
Steps == {Apply(os) : os \in Runs} \union {Unlocked(<<o>>) : o \in Operations}
           \union {Around(p) : p \in Points}

LEMMA RunType ==
  ASSUME NEW bag \in Bags, NEW o \in Operations
  PROVE  Run(bag, o) \in Bags
<1> DEFINE f == [p \in Points |-> CASE p \notin o.points -> bag[p]
                                  [] o.op = "ADD_POINT" -> bag[p] + 1
                                  [] OTHER -> 0]
<1>1. ASSUME NEW p \in Points
      PROVE  (CASE p \notin o.points -> bag[p]
                [] o.op = "ADD_POINT" -> bag[p] + 1
                [] OTHER -> 0) \in Nat
  <2>1. bag[p] \in Nat /\ bag[p] + 1 \in Nat /\ 0 \in Nat
    BY DEF Bags
  <2>2. CASE p \notin o.points
    BY <2>1, <2>2
  <2>3. CASE p \in o.points /\ o.op = "ADD_POINT"
    BY <2>1, <2>3
  <2>4. CASE p \in o.points /\ o.op # "ADD_POINT"
    BY <2>1, <2>4
  <2> QED
    BY <2>2, <2>3, <2>4
<1>2. f \in [Points -> Nat]
  BY <1>1
<1> QED
  BY <1>2 DEF Run, Bags

LEMMA RunOne == ASSUME NEW bag, NEW o PROVE RunAll(bag, <<o>>) = Run(bag, o)
<1>1. Len(<<o>>) = 1 /\ <<o>>[1] = o
  OBVIOUS
<1> QED
  BY <1>1 DEF RunAll

LEMMA RunTwo ==
  ASSUME NEW bag, NEW o, NEW q PROVE RunAll(bag, <<o, q>>) = Run(Run(bag, o), q)
<1>1. Len(<<o, q>>) = 2 /\ <<o, q>>[1] = o /\ <<o, q>>[2] = q
  OBVIOUS
<1> QED
  BY <1>1 DEF RunAll

LEMMA RunAllType ==
  ASSUME NEW bag \in Bags, NEW os \in Runs
  PROVE  RunAll(bag, os) \in Bags
<1>1. CASE os \in {<<o>> : o \in Operations}
  BY <1>1, RunOne, RunType
<1>2. CASE os \in {<<o, q>> : o, q \in Operations}
  <2>1. PICK o \in Operations, q \in Operations : os = <<o, q>>
    BY <1>2
  <2>2. Run(bag, o) \in Bags
    BY RunType
  <2> QED
    BY <2>1, <2>2, RunTwo, RunType
<1> QED
  BY <1>1, <1>2 DEF Runs

\* What is pushed down deletes every point.
LEMMA PushDownDeletes ==
  ASSUME NEW bag PROVE RunAll(bag, <<PushDown>>) = Empty
BY RunOne DEF Run, PushDown, Empty

\* The bags the subtree goes through on the way from base to bag, when the
\* operations of a log are repeated: stated as a sequence and not by recursion.
Brings(base, log, bag) ==
  \E t \in [1 .. Len(log) + 1 -> Bags] :
    /\ t[1] = base /\ t[Len(log) + 1] = bag
    /\ \A i \in 1 .. Len(log) : t[i + 1] = Run(t[i], log[i])

LEMMA BringsNothing ==
  ASSUME NEW base \in Bags, NEW bag
  PROVE  Brings(base, <<>>, bag) <=> base = bag
<1>1. Len(<<>>) = 0
  OBVIOUS
<1>2. ASSUME base = bag PROVE Brings(base, <<>>, bag)
  <2> DEFINE t == [i \in 1 .. 1 |-> base]
  <2>1. t \in [1 .. 1 -> Bags] /\ t[1] = base
    OBVIOUS
  <2>2. Len(<<>>) + 1 = 1 /\ \A i \in 1 .. Len(<<>>) : FALSE
    BY <1>1
  <2> HIDE DEF t
  <2> QED
    BY <1>2, <2>1, <2>2 DEF Brings
<1>3. ASSUME Brings(base, <<>>, bag) PROVE base = bag
  <2>1. Len(<<>>) + 1 = 1
    BY <1>1
  <2> QED
    BY <1>3, <2>1 DEF Brings
<1> QED
  BY <1>2, <1>3

\* One more operation is logged and done.
LEMMA BringsMore ==
  ASSUME NEW base, NEW log \in Seq(Operations), NEW bag, Brings(base, log, bag),
         NEW o \in Operations
  PROVE  Brings(base, Append(log, o), Run(bag, o))
<1> DEFINE n == Len(log)
<1>1. PICK t \in [1 .. n + 1 -> Bags] :
        /\ t[1] = base /\ t[n + 1] = bag
        /\ \A i \in 1 .. n : t[i + 1] = Run(t[i], log[i])
  BY Zenon DEF Brings
<1>2. /\ n \in Nat /\ Len(Append(log, o)) = n + 1
      /\ \A i \in 1 .. n : Append(log, o)[i] = log[i]
      /\ Append(log, o)[n + 1] = o
  BY AppendProperties, LenProperties
<1> DEFINE u == [i \in 1 .. n + 2 |-> IF i = n + 2 THEN Run(bag, o) ELSE t[i]]
<1>3. Run(bag, o) \in Bags
  <2>1. n + 1 \in 1 .. n + 1
    BY <1>2
  <2> QED
    BY <1>1, <2>1, RunType
<1>4. u \in [1 .. n + 2 -> Bags] /\ u[1] = base /\ u[n + 2] = Run(bag, o)
  <2>1. \A i \in 1 .. n + 2 : i # n + 2 => i \in 1 .. n + 1
    BY <1>2
  <2>2. 1 \in 1 .. n + 2 /\ n + 2 \in 1 .. n + 2 /\ 1 # n + 2
    BY <1>2
  <2> QED
    BY <1>1, <1>3, <2>1, <2>2
<1>5. ASSUME NEW i \in 1 .. n + 1 PROVE u[i + 1] = Run(u[i], Append(log, o)[i])
  <2>1. i \in 1 .. n + 2 /\ i + 1 \in 1 .. n + 2 /\ i # n + 2
    BY <1>2
  <2>2. CASE i = n + 1
    BY <1>1, <1>2, <2>1, <2>2
  <2>3. CASE i \in 1 .. n
    <3>1. i + 1 # n + 2
      BY <1>2, <2>3
    <3> QED
      BY <1>1, <1>2, <2>1, <2>3, <3>1
  <2> QED
    BY <1>2, <2>2, <2>3
<1>6. u \in [1 .. Len(Append(log, o)) + 1 -> Bags] /\ u[Len(Append(log, o)) + 1] = Run(bag, o)
      /\ \A i \in 1 .. Len(Append(log, o)) : u[i + 1] = Run(u[i], Append(log, o)[i])
  <2>1. (n + 1) + 1 = n + 2
    BY <1>2
  <2> HIDE DEF u
  <2> QED
    BY <1>2, <1>4, <1>5, <2>1
<1> HIDE DEF u
<1> QED
  BY <1>4, <1>6 DEF Brings

LEMMA PairIsAppend ==
  ASSUME NEW o \in Operations, NEW q \in Operations
  PROVE  <<o, q>> = <<o>> \o <<q>>
<1>1. /\ <<o>> \in Seq(Operations) /\ <<q>> \in Seq(Operations)
      /\ Len(<<o>>) = 1 /\ <<o>>[1] = o /\ Len(<<q>>) = 1 /\ <<q>>[1] = q
  OBVIOUS
<1> DEFINE both == <<o>> \o <<q>>
<1>2. /\ both \in Seq(Operations) /\ Len(both) = 1 + 1
      /\ \A i \in 1 .. 1 + 1 : both[i] = IF i <= 1 THEN <<o>>[i] ELSE <<q>>[i - 1]
  BY <1>1, ConcatProperties
<1> HIDE DEF both
<1>3. both[1] = o /\ both[2] = q /\ Len(both) = 2
  BY <1>1, <1>2
<1>4. <<o, q>> \in Seq(Operations) /\ Len(<<o, q>>) = 2 /\ <<o, q>>[1] = o /\ <<o, q>>[2] = q
  OBVIOUS
<1>5. \A i \in 1 .. 2 : i = 1 \/ i = 2
  OBVIOUS
<1>6. <<o, q>> = both
  BY <1>2, <1>3, <1>4, <1>5, SeqEqual
<1> QED
  BY <1>6 DEF both

LEMMA BringsRun ==
  ASSUME NEW base, NEW log \in Seq(Operations), NEW bag, Brings(base, log, bag),
         NEW os \in Runs
  PROVE  Brings(base, log \o os, RunAll(bag, os)) /\ log \o os \in Seq(Operations)
<1>1. ASSUME NEW o \in Operations, os = <<o>>
      PROVE  Brings(base, log \o os, RunAll(bag, os)) /\ log \o os \in Seq(Operations)
  <2>1. log \o os = Append(log, o) /\ Append(log, o) \in Seq(Operations)
    BY <1>1, AppendIsConcat, AppendProperties
  <2>2. RunAll(bag, os) = Run(bag, o)
    BY <1>1, RunOne
  <2>3. Brings(base, Append(log, o), Run(bag, o))
    BY BringsMore
  <2> QED
    BY <2>1, <2>2, <2>3
<1>2. ASSUME NEW o \in Operations, NEW q \in Operations, os = <<o, q>>
      PROVE  Brings(base, log \o os, RunAll(bag, os)) /\ log \o os \in Seq(Operations)
  <2>1. <<o>> \in Seq(Operations) /\ <<q>> \in Seq(Operations)
    OBVIOUS
  <2>2. log \o os = (log \o <<o>>) \o <<q>>
    BY <1>2, <2>1, PairIsAppend, ConcatAssociative
  <2>3. log \o <<o>> = Append(log, o) /\ Append(log, o) \in Seq(Operations)
    BY AppendIsConcat, AppendProperties
  <2>4. log \o os = Append(Append(log, o), q) /\ Append(Append(log, o), q) \in Seq(Operations)
    <3> DEFINE more == Append(log, o)
    <3>1. more \in Seq(Operations) /\ log \o os = more \o <<q>>
      BY <2>2, <2>3
    <3> HIDE DEF more
    <3>2. more \o <<q>> = Append(more, q) /\ Append(more, q) \in Seq(Operations)
      BY <3>1, AppendIsConcat, AppendProperties
    <3> QED
      BY <3>1, <3>2 DEF more
  <2>5. Brings(base, Append(log, o), Run(bag, o))
    BY BringsMore
  <2>6. Brings(base, Append(Append(log, o), q), Run(Run(bag, o), q))
    BY <2>3, <2>5, BringsMore
  <2>7. RunAll(bag, os) = Run(Run(bag, o), q)
    BY <1>2, RunTwo
  <2> QED
    BY <2>4, <2>6, <2>7
<1> QED
  BY <1>1, <1>2 DEF Runs

\* The front of the log is repeated.
LEMMA BringsHead ==
  ASSUME NEW base, NEW log \in Seq(Operations), log # <<>>, NEW bag,
         Brings(base, log, bag)
  PROVE  Brings(Run(base, Head(log)), Tail(log), bag)
<1> DEFINE n == Len(Tail(log))
<1>1. /\ n \in Nat /\ Len(log) = n + 1 /\ Head(log) = log[1]
      /\ \A i \in 1 .. n : Tail(log)[i] = log[i + 1]
  BY HeadTailProperties, LenProperties, EmptySeq
<1>2. PICK t \in [1 .. n + 2 -> Bags] :
        /\ t[1] = base /\ t[n + 2] = bag
        /\ \A i \in 1 .. n + 1 : t[i + 1] = Run(t[i], log[i])
  <2>1. (n + 1) + 1 = n + 2
    BY <1>1
  <2> QED
    BY <1>1, <2>1 DEF Brings
<1> DEFINE u == [i \in 1 .. n + 1 |-> t[i + 1]]
<1>3. u \in [1 .. n + 1 -> Bags] /\ u[1] = Run(base, Head(log)) /\ u[n + 1] = bag
  <2>1. \A i \in 1 .. n + 1 : i + 1 \in 1 .. n + 2
    BY <1>1
  <2>2. 1 \in 1 .. n + 1 /\ n + 1 \in 1 .. n + 1 /\ (n + 1) + 1 = n + 2
    BY <1>1
  <2> QED
    BY <1>1, <1>2, <2>1, <2>2
<1>4. \A i \in 1 .. n : u[i + 1] = Run(u[i], Tail(log)[i])
  BY <1>1, <1>2
<1> HIDE DEF u
<1> QED
  BY <1>3, <1>4 DEF Brings

-----------------------------------------------------------------------------
(* Why nothing is lost: the log takes the copy to what the others see.     *)

BagType ==
  /\ rebuild_flag \in BOOLEAN /\ working \in BOOLEAN /\ late \in BOOLEAN
  /\ live \in Bags /\ map \in Bags /\ new \in Bags
  /\ logger \in Seq(Operations) /\ current \in Operations /\ todo \in Seq(Steps)
  /\ pend \in {"no", "own", "above", "pushed"} /\ ops \in Nat
  /\ fate \in {"running", "emptied", "undeleted", "freed", "unlogged"}

\* When operations are logged, and when the lock is held.
StageInv ==
  /\ rebuild_flag <=> rebuild \notin {"idle", "begin", "free"}
  /\ working <=> rebuild \in {"quiet", "flatten", "flattened", "replay", "quiet again",
                              "swap", "swapped"}
  /\ rebuild \in {"clear", "free"} => ~requested

\* What a call waits for is the first thing it has to do, and what is pending
\* is pushed down before that.
TodoInv ==
  /\ user = "lock" => todo # <<>> /\ Head(todo).kind = "apply"
  /\ user \notin {"ready", "lock"} => todo # <<>> /\ Head(todo).kind = "around"
  /\ pend # "no" => map = Empty /\ (todo # <<>> => Head(todo) = Apply(<<PushDown>>))

\* The log takes the new subtree to the old one, which is as it should be; it is
\* empty unless the subtree has been copied and not yet replaced.
Copied == {"flattened", "build", "replay", "run", "quiet again", "swap"}
Repeated == IF rebuild = "run" THEN Run(new, current) ELSE new
LogInv ==
  /\ logger # <<>> => rebuild \in {"build", "replay", "run"}
  /\ pend = "no" => live = map
  /\ rebuild \in Copied => Brings(Repeated, logger, live)

KeptInv == BagType /\ StageInv /\ TodoInv /\ (fate = "running" /\ ~late => LogInv)

LEMMA InitKept == Init => KeptInv
<1> SUFFICES ASSUME Init PROVE KeptInv
  OBVIOUS
<1> USE DEF Init
<1>1. live \in Bags /\ Empty \in Bags
  <2>1. {0, 1} \subseteq Nat
    OBVIOUS
  <2> QED
    BY <2>1 DEF Bags, Empty
<1>2. PushDown \in Operations
  BY DEF Operations
<1>3. <<>> \in Seq(Operations) /\ <<>> \in Seq(Steps)
  OBVIOUS
<1>4. BagType
  BY <1>1, <1>2, <1>3 DEF BagType
<1> QED
  BY <1>4 DEF KeptInv, StageInv, TodoInv, LogInv, Copied

LEMMA RebuildKept ==
  ASSUME SearchInv, KeptInv, fate = "running", RebuildThread PROVE KeptInv'
<1> USE DEF KeptInv
<1>1. UNCHANGED <<place, user, todo, map, late, ops, pend>>
  BY DEF RebuildThread, userVars, Begin, Start, LockSearch, Flatten, Flattened, BuildTree, Pop,
         RunOperation, Replayed, Swap, Swapped, ClearFlag, Free
<1>2. TodoInv'
  BY <1>1 DEF TodoInv
<1>3. CASE Begin \/ Start \/ Swapped \/ ClearFlag \/ LockSearch("quiet", "flatten")
            \/ LockSearch("quiet again", "swap") \/ Replayed \/ Flattened
  <2>1. UNCHANGED <<logger, new, current, live, fate>>
    BY <1>3 DEF Begin, Start, Swapped, ClearFlag, LockSearch, Replayed, Flattened
  <2>2. BagType'
    BY <1>1, <1>3, <2>1
       DEF BagType, Begin, Start, Swapped, ClearFlag, LockSearch, Replayed, Flattened
  <2>3. StageInv'
    <3>1. rebuild_flag \in BOOLEAN /\ working \in BOOLEAN
      BY DEF BagType
    <3>2. CASE Begin
      BY <3>1, <3>2 DEF StageInv, Begin
    <3>3. CASE Start
      BY <3>1, <3>3 DEF StageInv, Start
    <3>4. CASE Swapped
      BY <3>1, <3>4 DEF StageInv, Swapped
    <3>5. CASE ClearFlag
      BY <3>1, <3>5 DEF StageInv, ClearFlag
    <3>6. CASE Flattened
      BY <3>1, <3>6 DEF StageInv, Flattened
    <3>7. CASE LockSearch("quiet", "flatten") \/ LockSearch("quiet again", "swap") \/ Replayed
      BY <3>1, <3>7 DEF StageInv, LockSearch, Replayed
    <3> QED
      BY <1>3, <3>2, <3>3, <3>4, <3>5, <3>6, <3>7
  <2>4. LogInv => LogInv'
    <3>1. /\ rebuild' \in Copied => rebuild \in Copied
          /\ rebuild # "run" /\ rebuild' # "run"
          /\ logger # <<>> => (rebuild \in {"build", "replay", "run"}
                               => rebuild' \in {"build", "replay", "run"})
      BY <1>3 DEF Copied, Begin, Start, Swapped, ClearFlag, LockSearch, Replayed, Flattened
    <3>2. Repeated' = Repeated
      BY <2>1, <3>1 DEF Repeated
    <3>3. Brings(Repeated, logger, live)' = Brings(Repeated, logger, live)
      BY <2>1, <3>2 DEF Brings
    <3> QED
      BY <1>1, <2>1, <3>1, <3>3 DEF LogInv
  <2> QED
    BY <1>1, <1>2, <2>1, <2>2, <2>3, <2>4
<1>4. CASE Flatten
  <2>1. BagType' /\ StageInv'
    BY <1>1, <1>4 DEF BagType, StageInv, Flatten
  <2>2. LogInv => LogInv'
    <3>1. ASSUME LogInv PROVE logger = <<>>
      BY <1>4, <3>1 DEF LogInv, Flatten
    <3>2. Repeated' = live /\ UNCHANGED <<live, logger>> /\ live \in Bags
      BY <1>4 DEF Flatten, Repeated, BagType
    <3>3. ASSUME LogInv PROVE Brings(Repeated, logger, live)'
      BY <3>1, <3>2, <3>3, BringsNothing
    <3> QED
      BY <1>1, <1>4, <3>1, <3>2, <3>3 DEF LogInv
  <2> QED
    BY <1>1, <1>2, <1>4, <2>1, <2>2 DEF Flatten
<1>5. CASE BuildTree
  <2>1. StageInv'
    BY <1>5 DEF StageInv, BuildTree
  <2>2. BagType'
    BY <1>1, <1>5 DEF BagType, BuildTree
  <2>3. CASE new = Empty
    BY <1>1, <1>2, <1>5, <2>1, <2>2, <2>3 DEF BuildTree
  <2>4. CASE new # Empty
    <3>1. UNCHANGED <<logger, new, current, live, fate>> /\ rebuild = "build" /\ rebuild' = "replay"
      BY <1>5, <2>4 DEF BuildTree
    <3>2. Repeated' = Repeated
      BY <3>1 DEF Repeated
    <3>3. Brings(Repeated, logger, live)' = Brings(Repeated, logger, live)
      BY <3>1, <3>2 DEF Brings
    <3> QED
      BY <1>1, <1>2, <2>1, <2>2, <3>1, <3>3 DEF LogInv, Copied
  <2> QED
    BY <2>3, <2>4
<1>6. CASE Pop
  <2>1. /\ rebuild = "replay" /\ rebuild' = "run" /\ logger # <<>>
        /\ current' = Head(logger) /\ logger' = Tail(logger) /\ UNCHANGED <<new, live, fate>>
    BY <1>6 DEF Pop
  <2>2. Head(logger) \in Operations /\ Tail(logger) \in Seq(Operations)
    BY <2>1, HeadTailProperties DEF BagType
  <2>3. BagType' /\ StageInv'
    BY <1>1, <1>6, <2>1, <2>2 DEF BagType, StageInv, Pop
  <2>4. LogInv => LogInv'
    <3>1. Repeated = new /\ Repeated' = Run(new, Head(logger))
      BY <2>1 DEF Repeated, Run
    <3>2. ASSUME LogInv PROVE Brings(Run(new, Head(logger)), Tail(logger), live)
      <4>1. Brings(new, logger, live)
        BY <2>1, <3>1, <3>2 DEF LogInv, Copied
      <4> QED
        BY <2>1, <4>1, BringsHead DEF BagType
    <3>3. Brings(Repeated, logger, live)' = Brings(Run(new, Head(logger)), Tail(logger), live)
      BY <2>1, <3>1 DEF Brings
    <3> QED
      BY <1>1, <2>1, <3>2, <3>3 DEF LogInv
  <2> QED
    BY <1>1, <1>2, <2>1, <2>3, <2>4
<1>7. CASE RunOperation
  <2>1. /\ rebuild = "run" /\ rebuild' = "replay" /\ new' = Run(new, current)
        /\ current' = PushDown /\ UNCHANGED <<logger, live, fate>>
    BY <1>7 DEF RunOperation
  <2>2. new' \in Bags /\ current' \in Operations
    BY <2>1, RunType DEF BagType, Operations
  <2>3. BagType' /\ StageInv'
    BY <1>1, <1>7, <2>1, <2>2 DEF BagType, StageInv, RunOperation
  <2>4. Repeated' = Repeated
    BY <2>1 DEF Repeated
  <2>5. Brings(Repeated, logger, live)' = Brings(Repeated, logger, live)
    BY <2>1, <2>4 DEF Brings
  <2>6. LogInv => LogInv'
    BY <1>1, <2>1, <2>5 DEF LogInv, Copied
  <2> QED
    BY <1>1, <1>2, <2>1, <2>3, <2>6
<1>8. CASE Swap
  <2>1. /\ rebuild = "swap" /\ rebuild' = "swapped" /\ live' = new
        /\ UNCHANGED <<logger, new, current>> /\ fate' \in {"running", "undeleted"}
    BY <1>8 DEF Swap, Updated
  <2>2. BagType' /\ StageInv'
    BY <1>1, <1>8, <2>1 DEF BagType, StageInv, Swap
  <2>3. ASSUME LogInv PROVE LogInv'
    <3>1. logger = <<>> /\ Brings(new, logger, live)
      BY <2>1, <2>3 DEF LogInv, Repeated, Copied
    <3>2. new = live
      BY <3>1, BringsNothing DEF BagType
    <3> QED
      BY <1>1, <2>1, <2>3, <3>1, <3>2 DEF LogInv, Copied
  <2> QED
    BY <1>1, <1>2, <2>1, <2>2, <2>3
<1>9. CASE Free
  <2>1. /\ rebuild = "free" /\ rebuild' = "idle" /\ new' = Empty
        /\ UNCHANGED <<logger, current, live>> /\ fate' \in {fate, "freed"}
    BY <1>9 DEF Free
  <2>2. Empty \in Bags
    BY DEF Empty, Bags
  <2>3. BagType' /\ StageInv'
    BY <1>1, <1>9, <2>1, <2>2 DEF BagType, StageInv, Free
  <2> QED
    BY <1>1, <1>2, <2>1, <2>3 DEF LogInv, Copied
<1> QED
  BY <1>3, <1>4, <1>5, <1>6, <1>7, <1>8, <1>9 DEF RebuildThread

LEMMA SearchKept ==
  ASSUME KeptInv,
         StartSearches \/ Search \/ EndSearches \/ PushAbove \/ WantLock \/ RangeBegins
           \/ RangeEnters
  PROVE  KeptInv'
<1> USE DEF KeptInv
<1>1. /\ UNCHANGED <<place, requested, rebuild_flag, logger, working, rebuild, new, current,
                     live, todo, map, late, ops, fate>>
      /\ pend' = pend \/ (pend = "above" /\ pend' = "pushed")
  BY DEF StartSearches, Search, SearchBegins, SearchEnters, SearchLeaves, EndSearches, PushAbove,
         WantLock, RangeBegins, RangeEnters, rebuildVars, searchVars, userVars
<1>2. BagType' /\ StageInv'
  BY <1>1 DEF BagType, StageInv
<1>3. TodoInv'
  BY <1>1 DEF StartSearches, Search, SearchBegins, SearchEnters, SearchLeaves, EndSearches,
         PushAbove, WantLock, RangeBegins, RangeEnters, userVars, TodoInv
<1>4. LogInv' = LogInv
  <2>1. Repeated' = Repeated
    BY <1>1 DEF Repeated, Run
  <2>2. Brings(Repeated, logger, live)' = Brings(Repeated, logger, live)
    BY <1>1, <2>1 DEF Brings
  <2> QED
    BY <1>1, <2>2 DEF LogInv
<1> QED
  BY <1>1, <1>2, <1>3, <1>4

-----------------------------------------------------------------------------
(* The updating thread: what it applies, to the subtree and to the map.    *)
LEMMA AppliedKeeps ==
  ASSUME BagType, TodoInv, todo # <<>>, NEW os \in Runs, Applied(os),
         pend # "no" => os = <<PushDown>>
  PROVE  /\ live' \in Bags /\ map' \in Bags /\ pend' = "no" /\ user' = "ready"
         /\ (pend = "no" => live = map) => live' = map'
<1>1. /\ live' = RunAll(live, os) /\ map' = RunAll(map, os) /\ user' = "ready"
      /\ pend' = IF os = <<PushDown>> THEN "no" ELSE pend
  BY DEF Applied
<1>2. live' \in Bags /\ map' \in Bags
  BY <1>1, RunAllType DEF BagType
<1>3. CASE pend = "no"
  BY <1>1, <1>2, <1>3
<1>4. CASE pend # "no"
  <2>1. live' = Empty /\ map' = Empty
    BY <1>1, <1>4, PushDownDeletes
  <2> QED
    BY <1>1, <1>2, <1>4, <2>1
<1> QED
  BY <1>3, <1>4

LEMMA StepKinds ==
  ASSUME NEW s \in Steps
  PROVE  /\ s.kind = "apply" => s.ops \in Runs
         /\ s.kind = "unlocked" => \E o \in Operations : s.ops = <<o>>
         /\ s.kind = "around" => s.point \in Points
<1>1. CASE s \in {Apply(os) : os \in Runs}
  BY <1>1 DEF Apply
<1>2. CASE s \in {Unlocked(<<o>>) : o \in Operations}
  BY <1>2 DEF Unlocked
<1>3. CASE s \in {Around(p) : p \in Points}
  BY <1>3 DEF Around
<1> QED
  BY <1>1, <1>2, <1>3 DEF Steps

LEMMA RunParts ==
  ASSUME NEW os \in Runs
  PROVE  /\ Head(os) \in Operations
         /\ Len(os) # 1 => \E o \in Operations : Tail(os) = <<o>>
<1>1. ASSUME NEW o \in Operations, os = <<o>> PROVE Head(os) = o /\ Len(os) = 1
  BY <1>1
<1>2. ASSUME NEW o \in Operations, NEW q \in Operations, os = <<o, q>>
      PROVE  Head(os) = o /\ Tail(os) = <<q>>
  <2>1. <<o>> \in Seq(Operations) /\ <<o>> # <<>> /\ Head(<<o>>) = o /\ Tail(<<o>>) = <<>>
    OBVIOUS
  <2>2. os = Append(<<o>>, q)
    BY <1>2, <2>1, PairIsAppend, AppendIsConcat
  <2>3. Tail(os) = Append(<<>>, q)
    BY <2>1, <2>2, HeadTailAppend
  <2> QED
    BY <1>2, <2>3
<1> QED
  BY <1>1, <1>2 DEF Runs

LEMMA ApplyDirectlyKept ==
  ASSUME SearchInv, KeptInv, fate = "running", ApplyDirectly PROVE KeptInv'
<1> USE DEF KeptInv
<1> DEFINE os == Head(todo).ops
           rest == IF Len(os) = 1 THEN <<>> ELSE <<Unlocked(Tail(os))>>
<1>1. /\ user = "ready" /\ todo # <<>>
      /\ Head(todo).kind = "unlocked" \/ (Head(todo).kind = "apply" /\ ~requested)
      /\ Applied(<<Head(os)>>) /\ todo' = rest \o Tail(todo)
      /\ requested' \in Requests
      /\ fate' = IF requested /\ rebuild \notin {"idle", "begin"} THEN "unlogged" ELSE fate
      /\ UNCHANGED <<place, rebuild_flag, logger, counter, working, rebuild, new, current,
                     searchVars, stale, late, ops>>
  BY DEF ApplyDirectly
<1>2. Head(todo) \in Steps /\ Tail(todo) \in Seq(Steps)
  BY <1>1, HeadTailProperties DEF BagType
<1>3. os \in Runs
  BY <1>1, <1>2, StepKinds DEF Runs
<1>4. Head(os) \in Operations /\ <<Head(os)>> \in Runs
  BY <1>3, RunParts DEF Runs
<1>5. rest \in Seq(Steps)
  <2>1. CASE Len(os) = 1
    <3>1. <<>> \in Seq(Steps)
      OBVIOUS
    <3> QED
      BY <2>1, <3>1
  <2>2. CASE Len(os) # 1
    <3>1. PICK o \in Operations : Tail(os) = <<o>>
      BY <1>3, <2>2, RunParts
    <3>2. Unlocked(Tail(os)) \in Steps
      BY <3>1 DEF Steps
    <3> QED
      BY <2>2, <3>2
  <2> QED
    BY <2>1, <2>2
<1>6. todo' \in Seq(Steps)
  BY <1>1, <1>2, <1>5, ConcatProperties
<1>7. pend # "no" => <<Head(os)>> = <<PushDown>>
  <2>1. Head(<<PushDown>>) = PushDown
    OBVIOUS
  <2> QED
    BY <1>1, <2>1 DEF TodoInv, Apply
<1>8. /\ live' \in Bags /\ map' \in Bags /\ pend' = "no" /\ user' = "ready"
      /\ (pend = "no" => live = map) => live' = map'
  BY <1>1, <1>4, <1>7, AppliedKeeps
<1> HIDE DEF os, rest
<1>9. BagType'
  <2>1. fate' \in {"running", "unlogged"}
    BY <1>1
  <2> QED
    BY <1>1, <1>6, <1>8, <2>1 DEF BagType
<1>10. StageInv'
  BY <1>1 DEF StageInv, Requests
<1>11. TodoInv'
  BY <1>8 DEF TodoInv
<1>12. ASSUME fate' = "running" /\ ~late', LogInv PROVE LogInv'
  <2>1. rebuild \notin Copied
    BY <1>1, <1>12 DEF SearchInv, RequestInv, Copied
  <2> QED
    BY <1>1, <1>8, <1>12, <2>1 DEF LogInv, Copied
<1> QED
  BY <1>1, <1>9, <1>10, <1>11, <1>12

LEMMA ApplyLockedKept ==
  ASSUME SearchInv, KeptInv, fate = "running", ApplyLocked PROVE KeptInv'
<1> USE DEF KeptInv
<1> DEFINE os == Head(todo).ops
<1>1. /\ user = "lock" /\ ~working
      /\ Applied(os) /\ todo' = Tail(todo)
      /\ logger' = IF rebuild_flag THEN logger \o os ELSE logger
      /\ late' = (late \/ (rebuild_flag /\ ~requested))
      /\ UNCHANGED <<place, requested, rebuild_flag, counter, working, rebuild, new, current,
                     searchVars, stale, ops, fate>>
  BY DEF ApplyLocked
<1>2. todo # <<>> /\ Head(todo).kind = "apply"
  BY <1>1 DEF TodoInv
<1>3. Head(todo) \in Steps /\ Tail(todo) \in Seq(Steps)
  BY <1>2, HeadTailProperties DEF BagType
<1>4. os \in Runs
  BY <1>2, <1>3, StepKinds
<1>5. pend # "no" => os = <<PushDown>>
  BY <1>2 DEF TodoInv, Apply
<1>6. /\ live' \in Bags /\ map' \in Bags /\ pend' = "no" /\ user' = "ready"
      /\ (pend = "no" => live = map) => live' = map'
      /\ live' = RunAll(live, os)
  BY <1>1, <1>2, <1>4, <1>5, AppliedKeeps DEF Applied
<1> HIDE DEF os
<1>7. logger' \in Seq(Operations)
  <2>1. ASSUME NEW o \in Operations, NEW q \in Operations
        PROVE  <<o>> \in Seq(Operations) /\ <<o, q>> \in Seq(Operations)
    OBVIOUS
  <2>2. os \in Seq(Operations)
    <3>1. CASE os \in {<<o>> : o \in Operations}
      <4>1. PICK o \in Operations : os = <<o>>
        BY <3>1
      <4>2. <<o>> \in Seq(Operations)
        BY <2>1
      <4> QED
        BY <4>1, <4>2
    <3>2. CASE os \in {<<o, q>> : o, q \in Operations}
      <4>1. PICK o \in Operations, q \in Operations : os = <<o, q>>
        BY <3>2
      <4>2. <<o, q>> \in Seq(Operations)
        BY <2>1
      <4> QED
        BY <4>1, <4>2
    <3> QED
      BY <1>4, <3>1, <3>2 DEF Runs
  <2>3. logger \o os \in Seq(Operations)
    BY <2>2, ConcatProperties DEF BagType
  <2> QED
    BY <1>1, <2>3 DEF BagType
<1>8. late' \in BOOLEAN
  BY <1>1
<1>9. BagType'
  BY <1>1, <1>3, <1>6, <1>7, <1>8 DEF BagType
<1>10. StageInv'
  BY <1>1 DEF StageInv
<1>11. TodoInv'
  BY <1>6 DEF TodoInv
<1>12. ASSUME ~late', LogInv PROVE LogInv'
  <2>1. ~late /\ (rebuild_flag => requested)
    BY <1>1, <1>12
  <2>2. rebuild_flag => rebuild \in {"build", "run"}
    BY <1>1, <2>1 DEF StageInv, SearchInv, SearchType
  <2>3. rebuild \in Copied => rebuild_flag
    BY DEF StageInv, Copied
  <2>4. Repeated' = Repeated
    BY <1>1 DEF Repeated, Run
  <2>5. CASE rebuild_flag
    <3>1. Brings(Repeated, logger, live)
      BY <1>12, <2>2, <2>5 DEF LogInv, Copied
    <3>2. Brings(Repeated, logger \o os, RunAll(live, os))
      BY <1>4, <3>1, BringsRun DEF BagType
    <3>3. Brings(Repeated, logger, live)' = Brings(Repeated, logger \o os, RunAll(live, os))
      BY <1>1, <1>6, <2>4, <2>5 DEF Brings
    <3> QED
      BY <1>1, <1>6, <1>12, <2>2, <2>5, <3>2, <3>3 DEF LogInv
  <2>6. CASE ~rebuild_flag
    BY <1>1, <1>6, <1>12, <2>3, <2>6 DEF LogInv, Copied
  <2> QED
    BY <2>5, <2>6
<1> QED
  BY <1>1, <1>9, <1>10, <1>11, <1>12

\* What the range search finds to do are operations on points there are.
LEMMA InsertedType ==
  ASSUME BagType, place \in {"root", "son"}, NEW p \in Points
  PROVE  Inserted(p) \in Seq(Steps)
<1> DEFINE cell    == CHOOSE c \in Cells : p \in c
           found   == {q \in cell : live[q] > 0}
           closer  == {q \in found : q < p}
           result  == IF closer = {} THEN p ELSE Min(closer)
           several == \E q, r \in found : q # r \/ live[q] > 1
           delete  == IF found = {} THEN <<>> ELSE <<DownDelete(cell)>>
           steps   == [i \in DOMAIN delete |-> Apply(<<delete[i]>>)]
<1>1. cell \in Cells /\ cell \subseteq Points
  BY IkdAssumption
<1>2. result \in Points
  <2>1. closer \subseteq Points /\ closer \subseteq Nat
    BY <1>1, IkdAssumption
  <2>2. CASE closer # {}
    <3> HIDE DEF closer
    <3>1. \E m \in closer : \A n \in closer : m <= n
      BY <2>1, <2>2, LeastNat
    <3>2. Min(closer) \in closer
      BY <3>1 DEF Min
    <3> QED
      BY <2>1, <2>2, <3>2
  <2> QED
    BY <2>2
<1>3. Inserted(p) = IF ~several /\ result # p THEN <<>>
                    ELSE IF place = "root" THEN <<Apply(delete \o <<Add(result)>>)>>
                    ELSE steps \o <<Apply(<<Add(result)>>)>>
  BY DEF Inserted
<1>4. Add(result) \in Operations /\ DownDelete(cell) \in Operations
  <2> HIDE DEF result, cell
  <2> QED
    BY <1>1, <1>2 DEF Operations
<1> HIDE DEF cell, found, result, several
<1>5. delete = <<>> \/ delete = <<DownDelete(cell)>>
  OBVIOUS
<1>6. <<>> \in Seq(Steps) /\ <<>> \in Seq(Operations)
  OBVIOUS
<1>7. delete \o <<Add(result)>> \in Runs
  <2>1. CASE delete = <<>>
    <3> DEFINE a == Add(result)
    <3>1. a \in Operations /\ <<a>> \in Seq(Operations)
      BY <1>4
    <3> HIDE DEF a
    <3>2. delete \o <<a>> = <<a>>
      BY <2>1, <3>1, ConcatEmptySeq
    <3>3. <<a>> \in Runs
      BY <3>1 DEF Runs
    <3>4. delete \o <<a>> \in Runs
      BY <3>2, <3>3
    <3> QED
      BY <3>4 DEF a
  <2>2. CASE delete = <<DownDelete(cell)>>
    <3>1. delete \o <<Add(result)>> = <<DownDelete(cell), Add(result)>>
      BY <1>4, <2>2, PairIsAppend
    <3> QED
      BY <1>4, <3>1 DEF Runs
  <2> QED
    BY <1>5, <2>1, <2>2
<1>8. steps \in Seq(Steps)
  <2>1. CASE delete = <<>>
    <3>1. DOMAIN delete = {}
      BY <2>1
    <3>2. steps = <<>>
      BY <3>1
    <3> QED
      BY <1>6, <3>2
  <2>2. CASE delete = <<DownDelete(cell)>>
    <3> DEFINE d == DownDelete(cell)
    <3>1. delete[1] = d /\ DOMAIN delete = 1 .. 1
      BY <2>2
    <3>2. Apply(<<d>>) \in Steps
      BY <1>4 DEF Steps, Runs
    <3>3. steps = [i \in 1 .. 1 |-> Apply(<<d>>)]
      BY <3>1
    <3> HIDE DEF d, delete
    <3> QED
      BY <3>2, <3>3
  <2> QED
    BY <1>5, <2>1, <2>2
<1> HIDE DEF delete, steps
<1>9. <<Apply(delete \o <<Add(result)>>)>> \in Seq(Steps)
  BY <1>7 DEF Steps
<1>10. <<Apply(<<Add(result)>>)>> \in Seq(Steps)
  BY <1>4 DEF Steps, Runs
<1>11. steps \o <<Apply(<<Add(result)>>)>> \in Seq(Steps)
  BY <1>8, <1>10, ConcatProperties
<1> QED
  BY <1>3, <1>6, <1>9, <1>11

LEMMA RangeEndsKept ==
  ASSUME SearchInv, KeptInv, RangeEnds PROVE KeptInv'
<1> USE DEF KeptInv
<1>1. /\ Ranging /\ user' = "ready" /\ todo' = Inserted(Head(todo).point)
      /\ UNCHANGED <<place, rebuildVars, live, pend, searchVars, map, late, ops, fate>>
  BY DEF RangeEnds
<1>2. todo # <<>> /\ Head(todo).kind = "around"
  BY <1>1 DEF TodoInv, Ranging
<1>3. Head(todo) \in Steps
  BY <1>2, HeadTailProperties DEF BagType
<1>4. Head(todo).point \in Points /\ place \in {"root", "son"}
  BY <1>2, <1>3, StepKinds, IkdAssumption DEF SearchInv, SearchType
<1>5. todo' \in Seq(Steps)
  BY <1>1, <1>4, InsertedType
<1>6. pend = "no"
  BY <1>2 DEF TodoInv, Apply, BagType
<1>7. BagType' /\ StageInv'
  BY <1>1, <1>5 DEF BagType, StageInv, rebuildVars
<1>8. TodoInv'
  BY <1>1, <1>6 DEF TodoInv
<1>9. LogInv' = LogInv
  <2>1. Repeated' = Repeated
    BY <1>1 DEF Repeated, Run, rebuildVars
  <2>2. Brings(Repeated, logger, live)' = Brings(Repeated, logger, live)
    BY <1>1, <2>1 DEF Brings, rebuildVars
  <2> QED
    BY <1>1, <2>2 DEF LogInv, rebuildVars
<1> QED
  BY <1>1, <1>7, <1>8, <1>9

LEMMA CallKept ==
  ASSUME KeptInv, NEW s \in Steps, Call(<<s>>) PROVE KeptInv'
<1> USE DEF KeptInv
<1> DEFINE before == IF pend = "no" THEN <<>> ELSE <<Apply(<<PushDown>>)>>
<1>1. /\ user = "ready" /\ todo' = before \o <<s>> /\ ops' = ops + 1
      /\ UNCHANGED <<place, rebuildVars, live, pend, searchVars, stale, user, map, late, fate>>
  BY DEF Call
<1>2. Apply(<<PushDown>>) \in Steps
  BY DEF Steps, Runs, Operations
<1>3. /\ todo' \in Seq(Steps)
      /\ pend # "no" => Head(todo') = Apply(<<PushDown>>)
  <2> DEFINE push == Apply(<<PushDown>>)
  <2>1. push \in Steps /\ <<s>> \in Seq(Steps) /\ Len(<<s>>) = 1
    BY <1>2
  <2> HIDE DEF push
  <2>2. CASE pend = "no"
    <3>1. todo' = <<>> \o <<s>>
      BY <1>1, <2>2
    <3> QED
      BY <2>1, <2>2, <3>1, ConcatEmptySeq
  <2>3. CASE pend # "no"
    <3>1. todo' = <<push>> \o <<s>>
      BY <1>1, <2>3 DEF push
    <3>2. <<push>> \in Seq(Steps) /\ Len(<<push>>) = 1 /\ <<push>>[1] = push
      BY <2>1
    <3> DEFINE both == <<push>> \o <<s>>
    <3>3. /\ both \in Seq(Steps)
          /\ \A i \in 1 .. 1 + 1 : both[i] = IF i <= 1 THEN <<push>>[i] ELSE <<s>>[i - 1]
      BY <2>1, <3>2, ConcatProperties
    <3> HIDE DEF both
    <3>4. both[1] = push
      BY <3>2, <3>3
    <3>5. todo' = both /\ Head(both) = both[1]
      BY <3>1 DEF both
    <3> QED
      BY <3>3, <3>4, <3>5 DEF push
  <2> QED
    BY <2>2, <2>3
<1> HIDE DEF before
<1>4. BagType' /\ StageInv'
  <2>1. ops' \in Nat
    BY <1>1 DEF BagType
  <2>2. BagType'
    BY <1>1, <1>3, <2>1 DEF BagType, rebuildVars
  <2>3. StageInv'
    BY <1>1 DEF StageInv, rebuildVars
  <2> QED
    BY <2>2, <2>3
<1>5. TodoInv'
  BY <1>1, <1>3 DEF TodoInv
<1>6. LogInv' = LogInv
  <2>1. Repeated' = Repeated
    BY <1>1 DEF Repeated, Run, rebuildVars
  <2>2. Brings(Repeated, logger, live)' = Brings(Repeated, logger, live)
    BY <1>1, <2>1 DEF Brings, rebuildVars
  <2> QED
    BY <1>1, <2>2 DEF LogInv, rebuildVars
<1> QED
  BY <1>1, <1>4, <1>5, <1>6

LEMMA DeleteAboveKept ==
  ASSUME SearchInv, KeptInv, DeleteAbove PROVE KeptInv'
<1> USE DEF KeptInv
<1>1. /\ user = "ready" /\ todo = <<>> /\ map' = Empty /\ ops' = ops + 1
      /\ pend' \in {"own", "above"}
      /\ UNCHANGED <<place, rebuildVars, live, searchVars, stale, userVars, late, fate>>
  BY DEF DeleteAbove
<1>2. map' \in Bags
  BY <1>1 DEF Empty, Bags
<1>3. BagType' /\ StageInv'
  <2>1. ops' \in Nat /\ pend' \in {"no", "own", "above", "pushed"}
    BY <1>1 DEF BagType
  <2>2. BagType'
    BY <1>1, <1>2, <2>1 DEF BagType, rebuildVars, userVars
  <2>3. StageInv'
    BY <1>1 DEF StageInv, rebuildVars
  <2> QED
    BY <2>2, <2>3
<1>4. TodoInv'
  BY <1>1 DEF TodoInv, userVars
<1>5. LogInv => LogInv'
  <2>1. Repeated' = Repeated
    BY <1>1 DEF Repeated, Run, rebuildVars
  <2>2. Brings(Repeated, logger, live)' = Brings(Repeated, logger, live)
    BY <1>1, <2>1 DEF Brings, rebuildVars
  <2> QED
    BY <1>1, <2>2 DEF LogInv, rebuildVars
<1> QED
  BY <1>1, <1>3, <1>4, <1>5

LEMMA ChooseKept ==
  ASSUME SearchInv, KeptInv, Choose PROVE KeptInv'
<1>1. ASSUME NEW p \in Points, AddPoint(p) \/ AddDownsampled(p) PROVE KeptInv'
  <2>1. Apply(<<Add(p)>>) \in Steps /\ Around(p) \in Steps
    BY DEF Steps, Runs, Operations
  <2> QED
    BY <1>1, <2>1, CallKept DEF AddPoint, AddDownsampled
<1>2. ASSUME NEW box \in Boxes, DeleteBox(box) PROVE KeptInv'
  <2>1. Apply(<<Delete(box)>>) \in Steps
    BY DEF Steps, Runs, Operations
  <2> QED
    BY <1>2, <2>1, CallKept DEF DeleteBox
<1> QED
  BY <1>1, <1>2, DeleteAboveKept, SearchKept DEF Choose

-----------------------------------------------------------------------------
(* Every variable of the rebuild keeps its type, the two locks and the log *)
(* follow the stages of the rebuild, and as long as nothing was logged     *)
(* late the log takes the new subtree to the old one.                      *)
THEOREM IkdKeptInvariant == Spec => []KeptInv
<1>1. SearchInv /\ KeptInv /\ [Next]_vars => KeptInv'
  <2> SUFFICES ASSUME SearchInv, KeptInv, [Next]_vars PROVE KeptInv'
    OBVIOUS
  <2>1. CASE UNCHANGED vars
    <3>1. Repeated' = Repeated
      BY <2>1 DEF vars, rebuildVars, Repeated, Run
    <3>2. Brings(Repeated, logger, live)' = Brings(Repeated, logger, live)
      BY <2>1, <3>1 DEF vars, rebuildVars, Brings
    <3>3. LogInv' = LogInv
      BY <2>1, <3>2 DEF vars, rebuildVars, LogInv
    <3>4. BagType' /\ StageInv' /\ TodoInv'
      BY <2>1 DEF KeptInv, vars, rebuildVars, userVars, BagType, StageInv, TodoInv
    <3> QED
      BY <2>1, <3>3, <3>4 DEF KeptInv, vars
  <2>2. CASE fate = "running" /\ Running
    BY <2>2, RebuildKept, SearchKept, ApplyDirectlyKept, ApplyLockedKept, RangeEndsKept,
       ChooseKept DEF Running, Update
  <2> QED
    BY <2>1, <2>2 DEF Next
<1> QED
  BY <1>1, InitKept, IkdSearchInvariant, PTL DEF Spec

(* Whatever the odometry inserts and deletes while a subtree is rebuilt,   *)
(* the tree holds the points the operations leave, each as often; but for  *)
(* an operation logged after the end of a rebuild and before its flag is   *)
(* reset.  For any points, cells, boxes, searchers and number of calls.    *)
THEOREM IkdNothingLost == Spec => []NothingLost
<1>1. KeptInv => NothingLost
  <2> SUFFICES ASSUME KeptInv, fate = "running", ~late
               PROVE  Content = map /\ (rebuild \in {"idle", "begin"} => logger = <<>>)
    BY DEF NothingLost
  <2>1. LogInv /\ TodoInv /\ BagType
    BY DEF KeptInv
  <2>2. rebuild \in {"idle", "begin"} => logger = <<>>
    BY <2>1 DEF LogInv
  <2>3. Content = map
    BY <2>1 DEF LogInv, TodoInv, Content
  <2> QED
    BY <2>2, <2>3
<1> QED
  BY <1>1, IkdKeptInvariant, PTL
=============================================================================
