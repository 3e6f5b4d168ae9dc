------------------------------ MODULE MCChanges ------------------------------
(* Three components that do not touch each other's state, one per behaviour. *)
EXTENDS DatabaseRepair, Configuration, Expansion, TLC

CONSTANTS a, A, ax, b, B, bad, u, us, ub, uc, ka, kA, kb, kB, kx, i

\* "a", "A" and "a " have one word, "a b", "a B" and one that is not UTF-8 have two.
SmallWordsOf == [q \in Queries |-> IF q \in {a, A, ax} THEN 1 ELSE 2]
SmallWordsUnder == [k \in Keys |-> IF k \in {kb, kB} THEN 2 ELSE 1]
SmallChomped == [q \in Queries |-> IF q = ax THEN a ELSE q]
SmallLowered == [q \in Queries |-> IF q = A THEN a ELSE IF q = B THEN b ELSE q]
SmallUnslashed == [x \in Urls |-> IF x = us THEN u ELSE x]
SmallConverted == [x \in Urls |-> IF x = ub THEN u ELSE IF x = uc THEN NONE ELSE x]
SmallRadius == [q \in Queries |-> CASE q = A -> kA :> 0
                                    [] q \in {a, ax} -> ka :> 0
                                    [] q = b -> kb :> 0 @@ ka :> 1
                                    [] OTHER -> kB :> 0 @@ ka :> 1]
one(q, r, x, n) == q :> [radius |-> r, urls |-> x :> n]
none(q, r) == q :> [radius |-> r, urls |-> [y \in {} |-> 0]]
File(recs) == [k \in AllKeys |-> IF k \in DOMAIN recs THEN recs[k] ELSE NONE]
visits(n) == i :> one(NONE, 0, NONE, n)
Old(v, recs) == [version |-> v, recs |-> File(recs)]
OldSmall == {
  Old(0, ka :> (one(ax, 0, us, 1) @@ none(b, 1) @@ none(bad, 1))
         @@ kb :> one(b, 0, u, 1) @@ visits(2)),
  Old(0, ka :> one(a, 0, u, 1)),
  Old(0, ka :> one(a, 0, u, 1) @@ visits(1)),
  Old(0, kx :> one(bad, 1, u, 1) @@ kA :> one(A, 0, u, 1) @@ visits(1)),
  Old(0, kA :> one(A, 0, u, 1) @@ kB :> one(bad, 0, u, 1)),
  Old(4, ka :> one(a, 0, u, 1) @@ kB :> one(bad, 0, u, 1)),
  Old(3, ka :> (one(a, 0, ub, 1) @@ none(B, 1) @@ none(b, 1))
         @@ kA :> one(A, 0, us, 2) @@ visits(1)),
  Old(5, ka :> one(a, 0, uc, 1) @@ kB :> one(B, 0, u, 2) @@ kA :> one(A, 0, u, 1))}

SmallSets == {1 :> {1} @@ 0 :> {1}, 2 :> {1}}
SmallSearches ==
    [engines : SmallSets, horizon : {2}, ccheck : {""}, prs : {FALSE}]
    \cup [engines : SmallSets, horizon : {1}, ccheck : {"yes"}, prs : {FALSE}]
    \cup [engines : {3 :> {1}}, horizon : {1}, ccheck : {"no"}, prs : {FALSE}]
    \cup [engines : {2 :> {1}}, horizon : {-1}, ccheck : {""}, prs : {FALSE}]
    \cup [engines : {2 :> {1}}, horizon : {1, BAD}, ccheck : {""}, prs : {TRUE}]

VARIABLE part
allVars == <<part, repairVars, confVars, expansionVars>>

RepairRests ==
    /\ file = NoRecords /\ version = 6 /\ far = 6 /\ remote = FALSE /\ tmp = NoRecords
    /\ stage = "serve" /\ walking = FALSE /\ seen = 6 /\ ferr = 0 /\ ahead = {}
    /\ hand = NONE /\ crashes = 0 /\ lost = {} /\ failed = FALSE /\ missed = FALSE
    /\ origin = NoRecords
ConfRests == ConfInit /\ object = "proxy" /\ disk.says = CHOOSE c \in Contents : TRUE
ExpansionRests == ExpansionInit /\ engines = 2 :> {1}

Init == \/ part = "repair" /\ RepairInit /\ ConfRests /\ ExpansionRests
        \/ part = "conf" /\ RepairRests /\ ConfInit /\ ExpansionRests
        \/ part = "expansion" /\ RepairRests /\ ConfRests /\ ExpansionInit

RepairPart(step) == /\ part = "repair" /\ step
                    /\ UNCHANGED <<part, confVars, expansionVars>>
ConfPart(step) == /\ part = "conf" /\ step
                  /\ UNCHANGED <<part, repairVars, expansionVars>>
ExpansionPart(step) == /\ part = "expansion" /\ step
                       /\ UNCHANGED <<part, repairVars, confVars>>

Next == RepairPart(RepairNext) \/ ConfPart(ConfNext) \/ ExpansionPart(ExpansionNext)

Fairness == WF_allVars(RepairPart(RepairStep) \/ ConfPart(ConfSteps)
                       \/ ExpansionPart(ExpansionStep))

Fair == Init /\ [][Next]_allVars /\ Fairness

-----------------------------------------------------------------------------
\* Each of them comes to rest: a start ends although the fixes meet what they have
\* written, calls end but for the three known waits, and so do searches with their
\* threads (user_db_fix.cpp, configuration_spec.cpp, websearch.cpp 1142-1345).
ChangesEnd == RepairEnds /\ CallsEnd /\ SearchesEnd
============================================================================
