-------------------------- MODULE Untangle_proofs --------------------------
(***************************************************************************)
(* What holds of untangle.py's commands for every number of agents, passes, *)
(* edits, directories and changes: the changes of two items are in the      *)
(* working tree together only after two agents have passed the check of the *)
(* tree before either changed it; a record of the plan is lost only to a    *)
(* tick that had read before it was made; what a scan reports as stale or   *)
(* unmerged was so when the scan began to ask.                              *)
(***************************************************************************)
EXTENDS UntangleCommands, FiniteSetTheorems, SequenceTheorems,
        WellFoundedInduction, TLAPS

-----------------------------------------------------------------------------
(* One item at a time *)

Phases == {"idle", "next", "offered", "worked", "tick", "write"}

PhasesOK == pc \in [Agents -> Phases]

\* Of the agents that have met nobody, one holds an offer, and only while the
\* tree is clean; and the tree holds the changes of one item
Alone ==
    met \/ /\ \A p, q \in Agents : pc[p] = "offered" /\ pc[q] = "offered" => p = q
           /\ \A p \in Agents : pc[p] = "offered" => uncommitted = {}
           /\ \A c, d \in uncommitted : c = d

OneInv == PhasesOK /\ Alone

LEMMA InitOne == ASSUME Init PROVE OneInv
BY DEF Init, OneInv, PhasesOK, Phases, Alone

\* An agent that goes elsewhere than to an offer, and leaves the tree alone or
\* takes changes out of it, disturbs nothing
LEMMA AwayKeeps ==
    ASSUME OneInv, NEW p \in Agents, NEW s \in Phases \ {"offered"},
           pc' = [pc EXCEPT ![p] = s], uncommitted' \subseteq uncommitted, met' = met
    PROVE  OneInv'
<1>1. \A q \in Agents : pc'[q] = "offered" => pc[q] = "offered"
    BY DEF OneInv, PhasesOK
<1> QED BY <1>1 DEF OneInv, PhasesOK, Alone

LEMMA NextOne == ASSUME OneInv, [Next]_vars PROVE OneInv'
<1> USE DEF At, Go
<1>1. ASSUME NEW p \in Agents, ReadForNext(p) PROVE OneInv'
    BY <1>1, AwayKeeps DEF ReadForNext, treeVars, Phases
<1>2. ASSUME NEW p \in Agents, plan_next(p) PROVE OneInv'
    <2>1. CASE MayOffer(p) /\ ~working_tree_dirty
        <3>1. /\ pc' = [pc EXCEPT ![p] = "offered"] /\ uncommitted' = uncommitted
              /\ uncommitted = {}
              /\ met' = (met \/ \E q \in Agents \ {p} : pc[q] = "offered")
            BY <1>2, <2>1 DEF plan_next, Offer, working_tree_dirty, treeVars
        <3> QED BY <3>1 DEF OneInv, PhasesOK, Phases, Alone
    <2>2. CASE ~(MayOffer(p) /\ ~working_tree_dirty)
        BY <1>2, <2>2, AwayKeeps DEF plan_next, Refused, Ends, treeVars, Phases
    <2> QED BY <2>1, <2>2
<1>3. ASSUME NEW p \in Agents, Work(p) PROVE OneInv'
    <2>1. CASE uncommitted' = uncommitted \cup {offered[p]} /\ Go(p, "worked")
        <3>1. pc[p] = "offered" /\ met' = met /\ pc' = [pc EXCEPT ![p] = "worked"]
            BY <1>3, <2>1 DEF Work
        <3>2. ASSUME ~met PROVE uncommitted = {} /\ \A q \in Agents \ {p} : pc[q] # "offered"
            BY <3>1, <3>2 DEF OneInv, Alone
        <3> QED BY <2>1, <3>1, <3>2 DEF OneInv, PhasesOK, Phases, Alone
    <2>2. CASE Ends(p) /\ UNCHANGED uncommitted
        BY <1>3, <2>2, AwayKeeps DEF Work, Ends, Phases
    <2> QED BY <1>3, <2>1, <2>2 DEF Work
<1>4. ASSUME NEW p \in Agents, Revert(p) PROVE OneInv'
    BY <1>4, AwayKeeps DEF Revert, Ends, Phases
<1>5. ASSUME NEW p \in Agents, ReadForTick(p) PROVE OneInv'
    BY <1>5, AwayKeeps DEF ReadForTick, treeVars, Phases
<1>6. ASSUME NEW p \in Agents, plan_tick(p) PROVE OneInv'
    <2>1. \E s \in {"write", "idle"} : pc' = [pc EXCEPT ![p] = s]
        BY <1>6 DEF plan_tick, Ends
    <2> QED BY <1>6, <2>1, AwayKeeps DEF plan_tick, treeVars, Phases
<1>7. ASSUME NEW p \in Agents, atomic_write(p) PROVE OneInv'
    BY <1>7, AwayKeeps DEF atomic_write, treeVars, Phases
<1>8. ASSUME NEW p \in Agents, Die(p) PROVE OneInv'
    BY <1>8, AwayKeeps DEF Die, Ends, Phases
<1>9. ASSUME Commit PROVE OneInv'
    BY <1>9 DEF Commit, agentVars, OneInv, PhasesOK, Alone
<1>10. ASSUME Decide \/ Quote PROVE OneInv'
    <2>1. UNCHANGED <<treeVars, agentVars, met>>
        BY <1>10 DEF Decide, Quote, Saved
    <2> QED BY <2>1 DEF treeVars, agentVars, OneInv, PhasesOK, Alone
<1>11. ASSUME UNCHANGED vars PROVE OneInv'
    BY <1>11 DEF vars, treeVars, agentVars, OneInv, PhasesOK, Alone
<1> QED BY <1>1, <1>2, <1>3, <1>4, <1>5, <1>6, <1>7, <1>8, <1>9, <1>10, <1>11 DEF Next

\* One item's changes at a time in the working tree (plan_next refuses a dirty
\* tree), for every number of agents, unless two of them were offered an item at
\* the same time
THEOREM ChangesOneItemAtATime == CommandSpec => []OneAtATime
<1>1. ASSUME OneInv PROVE OneAtATime
    <2>1. CASE met
        BY <2>1 DEF OneAtATime
    <2>2. CASE uncommitted = {}
        <3>1. Cardinality(uncommitted) = 0
            BY <2>2, FS_EmptySet
        <3> QED BY <3>1 DEF OneAtATime
    <2>3. CASE ~met /\ uncommitted # {}
        <3>1. PICK c : c \in uncommitted
            BY <2>3
        <3>2. uncommitted = {c}
            BY <1>1, <2>3, <3>1 DEF OneInv, Alone
        <3>3. Cardinality(uncommitted) = 1
            BY <3>2, FS_Singleton
        <3> QED BY <3>3 DEF OneAtATime
    <2> QED BY <2>1, <2>2, <2>3
<1>2. CommandInit => OneInv
    BY InitOne DEF CommandInit
<1>3. OneInv /\ [main]_commandVars => OneInv'
    BY NextOne DEF main, commandVars
<1> QED BY <1>1, <1>2, <1>3, PTL DEF CommandSpec


-----------------------------------------------------------------------------
(* The lines of a plan, and what a tick does to them *)

Kinds == {"heading", "thread", "item", "done", "parked"}
Words == EXPECTED_SECTIONS \cup
         {"", " ", "x", "T1", "T2", "C1", "C2", "H1", "spine", "side-quest", "keep", "pending", "park"}
Line == [kind : Kinds, id : Words, ref : Words, mark : Words]

LEMMA FirstIsLeast ==
    ASSUME NEW s \in SUBSET Nat, s # {}
    PROVE  First(s) \in s /\ \A k \in s : First(s) <= k
<1>1. IsWellFoundedOn(OpToRel(<, Nat), Nat)
    BY NatLessThanWellFounded
<1>2. PICK a \in s : \A b \in s : ~(<<b, a>> \in OpToRel(<, Nat))
    BY <1>1, WFMin
<1>3. \A b \in s : ~(b < a)
    BY <1>2 DEF OpToRel
<1>4. \A b \in s : a <= b
    BY <1>3
<1> QED BY <1>4 DEF First

LEMMA Inserted ==
    ASSUME NEW doc \in Seq(Line), NEW l \in Line, NEW i \in 1 .. Len(doc) + 1
    PROVE  /\ InsertAt(doc, i, l) \in Seq(Line) /\ Len(InsertAt(doc, i, l)) = Len(doc) + 1
           /\ \A k \in 1 .. Len(doc) + 1 : InsertAt(doc, i, l)[k] =
                 (IF k < i THEN doc[k] ELSE IF k = i THEN l ELSE doc[k - 1])
<1> DEFINE before == SubSeq(doc, 1, i - 1)
           first == before \o <<l>>
           after == SubSeq(doc, i, Len(doc))
           all == first \o after
<1>1. /\ before \in Seq(Line) /\ Len(before) = i - 1
      /\ \A k \in 1 .. i - 1 : before[k] = doc[k]
    OBVIOUS
<1>2. /\ after \in Seq(Line) /\ Len(after) = Len(doc) - i + 1
      /\ \A k \in 1 .. Len(doc) - i + 1 : after[k] = doc[i + k - 1]
    OBVIOUS
<1>3. InsertAt(doc, i, l) = all
    BY DEF InsertAt
<1> HIDE DEF before
<1>4. /\ first \in Seq(Line) /\ Len(first) = i
      /\ \A k \in 1 .. i : first[k] = (IF k < i THEN doc[k] ELSE l)
    BY <1>1
<1> HIDE DEF first, after
<1>5. /\ all \in Seq(Line) /\ Len(all) = Len(first) + Len(after)
      /\ \A k \in 1 .. Len(first) + Len(after) : all[k] =
            (IF k <= Len(first) THEN first[k] ELSE after[k - Len(first)])
    BY <1>2, <1>4, ConcatProperties
<1> HIDE DEF all
<1>6. ASSUME NEW k \in 1 .. Len(doc) + 1
      PROVE  all[k] = (IF k < i THEN doc[k] ELSE IF k = i THEN l ELSE doc[k - 1])
    <2>1. Len(first) + Len(after) = Len(doc) + 1
        BY <1>2, <1>4
    <2>2. CASE k <= i
        BY <1>4, <1>5, <2>1, <2>2
    <2>3. CASE k > i
        <3>1. k - i \in 1 .. Len(doc) - i + 1 /\ i + (k - i) - 1 = k - 1
            BY <2>3
        <3>2. after[k - i] = doc[k - 1]
            BY <1>2, <3>1
        <3> QED BY <1>4, <1>5, <2>1, <2>3, <3>2
    <2> QED BY <2>2, <2>3
<1>7. Len(all) = Len(doc) + 1
    BY <1>2, <1>4, <1>5
<1> QED BY <1>3, <1>5, <1>6, <1>7

LEMMA Removed ==
    ASSUME NEW doc \in Seq(Line), NEW i \in 1 .. Len(doc)
    PROVE  RemoveAt(doc, i) \in Seq(Line)
BY DEF RemoveAt


\* The plan with the item at a place ticked: the lines after it move down by one
Shifted(i, k) == IF k <= i THEN k ELSE k + 1

LEMMA MarkedLine ==
    ASSUME NEW l \in Line
    PROVE  LET m == [l EXCEPT !.mark = "x"] IN
           m \in Line /\ m.kind = l.kind /\ m.id = l.id /\ m.mark = "x"
BY DEF Line, Words

LEMMA MarkedLines ==
    ASSUME NEW doc \in Seq(Line), NEW i \in 1 .. Len(doc),
           NEW marked, marked = [doc EXCEPT ![i].mark = "x"]
    PROVE  /\ marked \in Seq(Line) /\ Len(marked) = Len(doc)
           /\ \A k \in 1 .. Len(doc) : /\ marked[k].kind = doc[k].kind /\ marked[k].id = doc[k].id
                                       /\ marked[k].mark = (IF k = i THEN "x" ELSE doc[k].mark)
<1> DEFINE l == [doc[i] EXCEPT !.mark = "x"]
<1>1. l \in Line /\ l.kind = doc[i].kind /\ l.id = doc[i].id /\ l.mark = "x"
    BY MarkedLine
<1>2. marked = [doc EXCEPT ![i] = l]
    OBVIOUS
<1> HIDE DEF l
<1>3. /\ marked \in Seq(Line) /\ Len(marked) = Len(doc)
      /\ \A k \in 1 .. Len(doc) : marked[k] = IF k = i THEN l ELSE doc[k]
    BY <1>1, <1>2, ExceptSeq
<1> QED BY <1>1, <1>3

TickedAt(doc, i) == InsertAt([doc EXCEPT ![i].mark = "x"], i + 1, DoneLine)

LEMMA TickedLines ==
    ASSUME NEW doc \in Seq(Line), NEW i \in DOMAIN doc, doc[i].kind = "item",
           NEW new, new = TickedAt(doc, i)
    PROVE  /\ new \in Seq(Line) /\ Len(new) = Len(doc) + 1 /\ new[i + 1] = DoneLine
           /\ \A k \in 1 .. Len(doc) :
                 /\ new[Shifted(i, k)].kind = doc[k].kind /\ new[Shifted(i, k)].id = doc[k].id
                 /\ new[Shifted(i, k)].mark = (IF k = i THEN "x" ELSE doc[k].mark)
           /\ \A k \in 1 .. Len(new) : k # i + 1 =>
                 \E j \in 1 .. Len(doc) : k = Shifted(i, j)
<1>1. i \in 1 .. Len(doc) /\ Len(doc) \in Nat
    BY LenProperties
<1>7. DoneLine \in Line
    BY DEF DoneLine, Line, Kinds, Words
<1>2. PICK marked : marked = [doc EXCEPT ![i].mark = "x"]
    OBVIOUS
<1>9. new = InsertAt(marked, i + 1, DoneLine)
    BY <1>2 DEF TickedAt
<1>3. /\ marked \in Seq(Line) /\ Len(marked) = Len(doc)
      /\ \A k \in 1 .. Len(doc) : /\ marked[k].kind = doc[k].kind /\ marked[k].id = doc[k].id
                                  /\ marked[k].mark = (IF k = i THEN "x" ELSE doc[k].mark)
    BY <1>1, <1>2, MarkedLines
<1>8. /\ new \in Seq(Line) /\ Len(new) = Len(doc) + 1
      /\ \A k \in 1 .. Len(doc) + 1 : new[k] =
            (IF k < i + 1 THEN marked[k] ELSE IF k = i + 1 THEN DoneLine ELSE marked[k - 1])
    <2>1. i + 1 \in 1 .. Len(marked) + 1
        BY <1>1, <1>3
    <2>2. /\ InsertAt(marked, i + 1, DoneLine) \in Seq(Line)
          /\ Len(InsertAt(marked, i + 1, DoneLine)) = Len(marked) + 1
          /\ \A k \in 1 .. Len(marked) + 1 : InsertAt(marked, i + 1, DoneLine)[k] =
                (IF k < i + 1 THEN marked[k] ELSE IF k = i + 1 THEN DoneLine ELSE marked[k - 1])
        BY <1>3, <1>7, <2>1, Inserted
    <2> QED BY <1>3, <1>9, <2>2
<1>4. \A k \in 1 .. Len(doc) : new[Shifted(i, k)] = marked[k]
    BY <1>1, <1>8 DEF Shifted
<1>5. ASSUME NEW k \in 1 .. Len(new), k # i + 1
      PROVE  \E j \in 1 .. Len(doc) : k = Shifted(i, j)
    <2>1. CASE k <= i
        BY <1>1, <1>8, <1>5, <2>1 DEF Shifted
    <2>2. CASE k > i
        <3>1. k - 1 \in 1 .. Len(doc) /\ k = Shifted(i, k - 1)
            BY <1>1, <1>8, <1>5, <2>2 DEF Shifted
        <3> QED BY <3>1
    <2> QED BY <1>1, <1>8, <2>1, <2>2
<1>6. new[i + 1] = DoneLine
    BY <1>1, <1>8
<1> QED BY <1>3, <1>8, <1>4, <1>5, <1>6

LEMMA TickedSections ==
    ASSUME NEW doc \in Seq(Line), NEW i \in DOMAIN doc, doc[i].kind = "item",
           NEW new, new = TickedAt(doc, i),
           NEW n, NEW j \in Section(doc, n)
    PROVE  Shifted(i, j) \in Section(new, n) /\ j \in 1 .. Len(doc)
<1>1. /\ Len(new) = Len(doc) + 1 /\ new[i + 1].kind = "done"
      /\ \A k \in 1 .. Len(doc) : /\ new[Shifted(i, k)].kind = doc[k].kind
                                  /\ new[Shifted(i, k)].id = doc[k].id
      /\ \A k \in 1 .. Len(new) : k # i + 1 => \E m \in 1 .. Len(doc) : k = Shifted(i, m)
      /\ i \in 1 .. Len(doc) /\ Len(doc) \in Nat
      /\ DOMAIN doc = 1 .. Len(doc) /\ DOMAIN new = 1 .. Len(new)
    <2>1. /\ new \in Seq(Line) /\ Len(new) = Len(doc) + 1 /\ new[i + 1] = DoneLine
          /\ \A k \in 1 .. Len(doc) : /\ new[Shifted(i, k)].kind = doc[k].kind
                                      /\ new[Shifted(i, k)].id = doc[k].id
          /\ \A k \in 1 .. Len(new) : k # i + 1 => \E m \in 1 .. Len(doc) : k = Shifted(i, m)
        BY TickedLines
    <2>2. /\ i \in 1 .. Len(doc) /\ Len(doc) \in Nat
          /\ DOMAIN doc = 1 .. Len(doc) /\ DOMAIN new = 1 .. Len(new)
        BY <2>1, LenProperties
    <2>3. DoneLine.kind = "done"
        BY DEF DoneLine
    <2> QED BY <2>1, <2>2, <2>3
<1>2. PICK start \in LastHeading(doc, n) :
          j \in start + 1 .. Len(doc) /\ \A k \in start + 1 .. j : doc[k].kind # "heading"
    BY DEF Section
<1>3. /\ start \in 1 .. Len(doc) /\ doc[start].kind = "heading" /\ doc[start].id = n
      /\ \A k \in 1 .. Len(doc) : doc[k].kind = "heading" /\ doc[k].id = n => k <= start
    BY <1>1, <1>2 DEF LastHeading, Headings
<1>4. Shifted(i, start) \in LastHeading(new, n)
    <2>1. Shifted(i, start) \in 1 .. Len(new)
        BY <1>1, <1>3 DEF Shifted
    <2>2. ASSUME NEW k \in 1 .. Len(new), new[k].kind = "heading", new[k].id = n
          PROVE  k <= Shifted(i, start)
        <3>1. PICK m \in 1 .. Len(doc) : k = Shifted(i, m)
            BY <1>1, <2>2
        <3>2. m <= start
            BY <1>1, <1>3, <2>2, <3>1
        <3> QED BY <1>1, <1>3, <3>1, <3>2 DEF Shifted
    <2> QED BY <1>1, <1>3, <2>1, <2>2 DEF LastHeading, Headings
<1>5. Shifted(i, j) \in Shifted(i, start) + 1 .. Len(new)
    BY <1>1, <1>2, <1>3 DEF Shifted
<1>6. ASSUME NEW k \in Shifted(i, start) + 1 .. Shifted(i, j) PROVE new[k].kind # "heading"
    <2>1. CASE k = i + 1
        BY <1>1, <2>1
    <2>2. CASE k # i + 1
        <3>1. k \in 1 .. Len(new)
            BY <1>1, <1>2, <1>3, <1>6 DEF Shifted
        <3>2. PICK m \in 1 .. Len(doc) : k = Shifted(i, m)
            BY <1>1, <2>2, <3>1
        <3>3. m \in start + 1 .. j
            BY <1>1, <1>2, <1>3, <1>6, <3>2 DEF Shifted
        <3> QED BY <1>1, <1>2, <3>2, <3>3
    <2> QED BY <2>1, <2>2
<1> QED BY <1>2, <1>3, <1>4, <1>5, <1>6 DEF Section

LEMMA TextSections ==
    ASSUME NEW doc \in Seq(Line), NEW n
    PROVE  \A k \in Section(doc, n) : k \in 1 .. Len(doc) /\ k \in DOMAIN doc
<1>1. LastHeading(doc, n) \subseteq 1 .. Len(doc) /\ DOMAIN doc = 1 .. Len(doc)
    BY LenProperties DEF LastHeading, Headings
<1> QED BY <1>1 DEF Section

LEMMA TickKeepsRecords ==
    ASSUME NEW doc \in Seq(Line), NEW c, Alike(doc, c) # {}
    PROVE  /\ Ticked(doc, c) \in Seq(Line)
           /\ Records(doc) \subseteq Records(Ticked(doc, c))
           /\ First(Alike(doc, c)) \in Checklist(doc) => <<"done", c>> \in Records(Ticked(doc, c))
<1> DEFINE i == First(Alike(doc, c))
           new == Ticked(doc, c)
<1>1. i \in DOMAIN doc /\ doc[i].kind = "item" /\ doc[i].id = c
    <2>1. Alike(doc, c) \in SUBSET Nat
        BY DEF Alike
    <2>2. i \in Alike(doc, c)
        BY <2>1, FirstIsLeast
    <2> QED BY <2>2 DEF Alike
<1>2. new = TickedAt(doc, i)
    BY DEF Ticked, TickedAt
<1> HIDE DEF i, new
<1>3. /\ new \in Seq(Line) /\ DOMAIN doc = 1 .. Len(doc)
      /\ \A k \in 1 .. Len(doc) :
            /\ new[Shifted(i, k)].kind = doc[k].kind /\ new[Shifted(i, k)].id = doc[k].id
            /\ new[Shifted(i, k)].mark = (IF k = i THEN "x" ELSE doc[k].mark)
    <2>1. DOMAIN doc = 1 .. Len(doc)
        BY LenProperties
    <2> QED BY <1>1, <1>2, <2>1, TickedLines
<1>4. \A n : \A k \in Section(doc, n) : Shifted(i, k) \in Section(new, n) /\ k \in 1 .. Len(doc)
    BY <1>1, <1>2, TickedSections
<1>5. ASSUME NEW k \in Checklist(doc), k = i \/ doc[k].mark = "x"
      PROVE  <<"done", doc[k].id>> \in Records(new)
    <2>1. k \in Section(doc, "Checklist") /\ doc[k].kind = "item"
        BY DEF Checklist
    <2>2. Shifted(i, k) \in Checklist(new) /\ new[Shifted(i, k)].mark = "x"
        BY <1>3, <1>4, <1>5, <2>1 DEF Checklist
    <2>3. new[Shifted(i, k)].id = doc[k].id
        BY <1>3, <1>4, <2>1
    <2> QED BY <2>2, <2>3 DEF Records, Open
<1>6. ASSUME NEW k \in Threads(doc) PROVE <<doc[k].id, doc[k].mark>> \in Records(new)
    <2>1. k \in Section(doc, "Threads") /\ doc[k].kind = "thread"
        BY DEF Threads
    <2>2. k # i
        BY <1>1, <2>1
    <2>3. Shifted(i, k) \in Threads(new) /\ new[Shifted(i, k)].mark = doc[k].mark
          /\ new[Shifted(i, k)].id = doc[k].id
        BY <1>3, <1>4, <2>1, <2>2 DEF Threads
    <2> QED BY <2>3 DEF Records
<1>7. Records(doc) \subseteq Records(new)
    <2> SUFFICES ASSUME NEW r \in Records(doc) PROVE r \in Records(new)
        OBVIOUS
    <2>1. CASE \E k \in Checklist(doc) \ Open(doc) : r = <<"done", doc[k].id>>
        BY <1>5, <2>1 DEF Open
    <2>2. CASE \E k \in Threads(doc) : r = <<doc[k].id, doc[k].mark>>
        BY <1>6, <2>2
    <2> QED BY <2>1, <2>2 DEF Records
<1> QED BY <1>1, <1>3, <1>5, <1>7 DEF i, new


-----------------------------------------------------------------------------
(* No record is lost but to a tick that had read before it was made *)

PlanOK == /\ PhasesOK /\ plan \in Seq(Line) /\ text \in [Agents -> Seq(Line)]
          /\ since = [p \in Agents |-> since[p]] /\ offered = [p \in Agents |-> offered[p]]

\* What is in the plan and was not saved since a tick has read, the tick has read
HasRead(p) == pc[p] \in {"tick", "write"} => Records(plan) \ since[p] \subseteq Records(text[p])
\* A tick that is about to save has found its item
HasItem(p) == pc[p] = "write" => Alike(text[p], offered[p]) # {}

RecordsInv == PlanOK /\ RecordsKept /\ \A p \in Agents : HasRead(p) /\ HasItem(p)

LEMMA DecidedLines ==
    ASSUME NEW doc \in Seq(Line), NEW i \in 1 .. Len(doc), NEW d \in {"keep", "park", "pending"}
    PROVE  WithDecision(doc, i, d) \in Seq(Line)
<1> DEFINE l == [doc[i] EXCEPT !.mark = d]
           idea == {k \in DOMAIN doc : doc[k].kind = "parked" /\ doc[k].id = doc[i].id}
<1>1. l \in Line
    <2>1. doc[i] \in Line
        OBVIOUS
    <2> QED BY <2>1 DEF Line, Words
<1>2. [doc EXCEPT ![i].mark = d] = [doc EXCEPT ![i] = l]
    OBVIOUS
<1> HIDE DEF l
<1>3. /\ [doc EXCEPT ![i] = l] \in Seq(Line) /\ Len([doc EXCEPT ![i] = l]) = Len(doc)
    BY <1>1, ExceptSeq
<1>4. ASSUME NEW decided, decided = [doc EXCEPT ![i] = l]
      PROVE  /\ Append(decided, Parked(doc[i].id)) \in Seq(Line)
             /\ idea # {} => RemoveAt(decided, First(idea)) \in Seq(Line)
    <2>1. decided \in Seq(Line) /\ Len(decided) = Len(doc)
        BY <1>3, <1>4
    <2>2. Parked(doc[i].id) \in Line
        <3>1. doc[i] \in Line
            OBVIOUS
        <3>3. doc[i].id \in Words
            BY ONLY <3>1 DEF Line
        <3> QED BY ONLY <3>3 DEF Parked, Line, Kinds, Words
    <2>3. ASSUME idea # {} PROVE First(idea) \in 1 .. Len(decided)
        <3>1. idea \in SUBSET Nat /\ DOMAIN doc = 1 .. Len(doc)
            BY LenProperties
        <3>2. First(idea) \in idea
            BY <2>3, <3>1, FirstIsLeast
        <3> QED BY <2>1, <3>1, <3>2
    <2>4. Append(decided, Parked(doc[i].id)) \in Seq(Line)
        BY <2>1, <2>2, AppendProperties
    <2> HIDE DEF idea
    <2> QED BY <2>1, <2>3, <2>4, Removed
<1> QED BY <1>2, <1>3, <1>4 DEF WithDecision

LEMMA NineLines ==
    ASSUME NEW S, NEW a \in S, NEW b \in S, NEW c \in S, NEW d \in S, NEW e \in S,
           NEW f \in S, NEW g \in S, NEW h \in S, NEW i \in S
    PROVE  <<a, b, c, d, e, f, g, h, i>> \in Seq(S)
OBVIOUS

LEMMA InitRecords == ASSUME Init PROVE RecordsInv
<1>1. ASSUME NEW d \in {"pending", "park"} PROVE Survey(d) \in Seq(Line)
    <2>1. \A n \in EXPECTED_SECTIONS : Heading(n) \in Line
        BY DEF Heading, Line, Kinds, Words
    <2>2. Thread("T1", "spine", "keep") \in Line /\ Thread("T2", "side-quest", d) \in Line
        BY DEF Thread, Line, Kinds, Words
    <2>3. Item("C1", "H1", " ") \in Line /\ Item("C2", "T2", " ") \in Line
        BY DEF Item, Line, Kinds, Words
    <2>4. Parked("T2") \in Line
        BY DEF Parked, Line, Kinds, Words
    <2>5. /\ Heading("Spine") \in Line /\ Heading("Threads") \in Line
          /\ Heading("Checklist") \in Line /\ Heading("Foundations") \in Line
          /\ Heading("Suggested next moves") \in Line
        BY <2>1 DEF EXPECTED_SECTIONS
    <2>6. << Heading("Spine"), Heading("Threads"), Thread("T1", "spine", "keep"),
             Thread("T2", "side-quest", d), Heading("Checklist"), Item("C1", "H1", " "),
             Item("C2", "T2", " "), Heading("Foundations"),
             Heading("Suggested next moves") >> \in Seq(Line)
        BY <2>2, <2>3, <2>5, NineLines
    <2>7. (IF d = "park" THEN <<Parked("T2")>> ELSE <<>>) \in Seq(Line)
        BY <2>4
    <2> QED BY <2>6, <2>7, ConcatProperties DEF Survey
<1>2. plan \in Seq(Line)
    BY <1>1 DEF Init
<1>3. text \in [Agents -> Seq(Line)]
    BY EmptySeq DEF Init
<1> QED BY <1>2, <1>3 DEF Init, RecordsInv, PlanOK, PhasesOK, Phases, RecordsKept, HasRead, HasItem

\* A step that leaves the plan alone: an agent forgets, reads, or goes on
LEMMA StepKeepsRecords ==
    ASSUME RecordsInv, UNCHANGED <<plan, live>>, NEW p \in Agents, NEW s \in Phases,
           pc' = [pc EXCEPT ![p] = s], NEW new \in Seq(Line), text' = [text EXCEPT ![p] = new],
           NEW saved, since' = [since EXCEPT ![p] = saved],
           NEW item, offered' = [offered EXCEPT ![p] = item],
           s \in {"tick", "write"} => Records(plan) \ saved \subseteq Records(new),
           s = "write" => Alike(new, item) # {}
    PROVE  RecordsInv'
<1>1. /\ pc' \in [Agents -> Phases] /\ plan' \in Seq(Line) /\ text' \in [Agents -> Seq(Line)]
      /\ pc'[p] = s /\ text'[p] = new /\ since'[p] = saved /\ offered'[p] = item
      /\ \A q \in Agents \ {p} : /\ pc'[q] = pc[q] /\ text'[q] = text[q]
                                 /\ since'[q] = since[q] /\ offered'[q] = offered[q]
    BY DEF RecordsInv, PlanOK, PhasesOK
<1>2. since' = [q \in Agents |-> since'[q]] /\ offered' = [q \in Agents |-> offered'[q]]
    BY DEF RecordsInv, PlanOK
<1>3. PlanOK'
    BY <1>1, <1>2 DEF PlanOK, PhasesOK
<1>4. RecordsKept'
    BY DEF RecordsInv, RecordsKept
<1>5. \A q \in Agents : HasRead(q)' /\ HasItem(q)'
    BY <1>1 DEF RecordsInv, HasRead, HasItem
<1> QED BY <1>3, <1>4, <1>5 DEF RecordsInv

\* A save: what is new in the plan, a tick under way has not read
LEMMA SaveKeepsRecords ==
    ASSUME RecordsInv, plan' \in Seq(Line), Saving(Records(plan') \ Records(plan)),
           RecordsKept', PhasesOK', text' \in [Agents -> Seq(Line)],
           offered' = [q \in Agents |-> offered'[q]],
           \A q \in Agents : pc'[q] \in {"tick", "write"} =>
               pc'[q] = pc[q] /\ text'[q] = text[q] /\ offered'[q] = offered[q]
    PROVE  RecordsInv'
<1>1. since' = [q \in Agents |-> IF pc'[q] \in {"tick", "write"}
                                 THEN since[q] \cup (Records(plan') \ Records(plan)) ELSE {}]
    BY DEF Saving
<1>2. since' = [q \in Agents |-> since'[q]]
    BY <1>1
<1>3. \A q \in Agents : HasRead(q)' /\ HasItem(q)'
    BY <1>1 DEF RecordsInv, HasRead, HasItem
<1> QED BY <1>2, <1>3 DEF RecordsInv, PlanOK

LEMMA NextRecords == ASSUME RecordsInv, [Next]_vars PROVE RecordsInv'
<1> USE DEF At, Go
<1>0. /\ pc \in [Agents -> Phases] /\ plan \in Seq(Line) /\ text \in [Agents -> Seq(Line)]
      /\ since = [p \in Agents |-> since[p]] /\ offered = [p \in Agents |-> offered[p]]
      /\ \A p \in Agents : HasRead(p) /\ HasItem(p)
    BY DEF RecordsInv, PlanOK, PhasesOK
<1>1. ASSUME NEW p \in Agents, NEW s \in Phases \ {"tick", "write"}, pc' = [pc EXCEPT ![p] = s],
             text' = text \/ text' = [text EXCEPT ![p] = <<>>] \/ text' = [text EXCEPT ![p] = plan],
             since' = since \/ since' = [since EXCEPT ![p] = {}],
             NEW item, offered' = [offered EXCEPT ![p] = item], UNCHANGED <<plan, live>>
      PROVE  RecordsInv'
    <2>1. \E new \in Seq(Line) : text' = [text EXCEPT ![p] = new]
        <3>1. <<>> \in Seq(Line)
            BY EmptySeq
        <3>2. text = [text EXCEPT ![p] = text[p]] /\ text[p] \in Seq(Line)
            BY <1>0
        <3> QED BY <1>0, <1>1, <3>1, <3>2, Zenon
    <2>2. \E saved : since' = [since EXCEPT ![p] = saved]
        <3>1. since = [since EXCEPT ![p] = since[p]]
            BY <1>0
        <3> QED BY <1>1, <3>1
    <2> QED BY <1>1, <2>1, <2>2, StepKeepsRecords
<1>2. \A p \in Agents : offered = [offered EXCEPT ![p] = offered[p]]
    BY <1>0
<1>3. ASSUME NEW p \in Agents, ReadForNext(p) PROVE RecordsInv'
    BY <1>1, <1>2, <1>3 DEF ReadForNext, Read, Phases
<1>4. ASSUME NEW p \in Agents, plan_next(p) PROVE RecordsInv'
    <2>1. CASE Offer(p)
        BY <1>1, <1>4, <2>1 DEF plan_next, Offer, Phases
    <2>2. CASE Refused(p)
        BY <1>1, <1>4, <2>2 DEF plan_next, Refused, Ends, Phases
    <2> QED BY <1>4, <2>1, <2>2 DEF plan_next
<1>5. ASSUME NEW p \in Agents, Work(p) PROVE RecordsInv'
    <2>1. CASE Go(p, "worked") /\ UNCHANGED <<text, offered, since>>
        BY <1>1, <1>2, <1>5, <2>1 DEF Work, Phases
    <2>2. CASE Ends(p)
        BY <1>1, <1>5, <2>2 DEF Work, Ends, Phases
    <2> QED BY <1>5, <2>1, <2>2 DEF Work
<1>6. ASSUME NEW p \in Agents, Revert(p) \/ Die(p) PROVE RecordsInv'
    BY <1>1, <1>6 DEF Revert, Die, Ends, Phases
<1>7. ASSUME NEW p \in Agents, ReadForTick(p) PROVE RecordsInv'
    <2>1. /\ pc' = [pc EXCEPT ![p] = "tick"] /\ text' = [text EXCEPT ![p] = plan]
          /\ since' = [since EXCEPT ![p] = {}] /\ offered' = [offered EXCEPT ![p] = offered[p]]
          /\ UNCHANGED <<plan, live>>
        BY <1>2, <1>7 DEF ReadForTick, Read
    <2> QED BY <1>0, <2>1, StepKeepsRecords DEF Phases
<1>8. ASSUME NEW p \in Agents, plan_tick(p) PROVE RecordsInv'
    <2>1. CASE Reads(p) /\ Go(p, "write") /\ UNCHANGED <<text, offered, since>>
        <3>1. /\ text' = [text EXCEPT ![p] = text[p]] /\ since' = [since EXCEPT ![p] = since[p]]
              /\ offered' = [offered EXCEPT ![p] = offered[p]]
            BY <1>0, <1>2, <2>1
        <3>2. Alike(text[p], offered[p]) # {}
            <4>1. PICK i \in Open(text[p]) : text[p][i].id = offered[p]
                BY <2>1 DEF Reads, MayTick
            <4>2. i \in DOMAIN text[p] /\ text[p][i].kind = "item"
                BY <1>0, <4>1, TextSections DEF Open, Checklist
            <4> QED BY <4>1, <4>2 DEF Alike
        <3>3. Records(plan) \ since[p] \subseteq Records(text[p])
            BY <1>0, <1>8 DEF plan_tick, HasRead
        <3>4. UNCHANGED <<plan, live>>
            BY <1>8 DEF plan_tick
        <3> QED BY <1>0, <2>1, <3>1, <3>2, <3>3, <3>4, StepKeepsRecords DEF Phases
    <2>2. CASE Ends(p)
        BY <1>1, <1>8, <2>2 DEF plan_tick, Ends, Phases
    <2> QED BY <1>8, <2>1, <2>2 DEF plan_tick
<1>9. ASSUME NEW p \in Agents, atomic_write(p) PROVE RecordsInv'
    <2> DEFINE c == offered[p]
    <2>1. pc[p] = "write" /\ pc' = [pc EXCEPT ![p] = "idle"] /\ plan' = Ticked(text[p], c)
        BY <1>9 DEF atomic_write
    <2>2. /\ plan' \in Seq(Line) /\ Records(text[p]) \subseteq Records(plan')
          /\ First(Alike(text[p], c)) \in Checklist(text[p]) => <<"done", c>> \in Records(plan')
        <3>1. text[p] \in Seq(Line) /\ Alike(text[p], c) # {}
            BY <1>0, <2>1 DEF HasItem
        <3> QED BY <2>1, <3>1, TickKeepsRecords
    <2>3. live \ since[p] \subseteq Records(plan')
        <3>1. Records(plan) \ since[p] \subseteq Records(text[p])
            BY <1>0, <2>1 DEF HasRead
        <3>2. live \subseteq Records(plan)
            BY DEF RecordsInv, RecordsKept
        <3> QED BY <2>2, <3>1, <3>2
    <2>4. RecordsKept'
        <3>1. live' = (live \ since[p]) \cup (IF First(Alike(text[p], c)) \in Checklist(text[p])
                                              THEN {<<"done", c>>} ELSE {})
            BY <1>9 DEF atomic_write
        <3> QED BY <2>2, <2>3, <3>1 DEF RecordsKept
    <2>5. Saving(Records(plan') \ Records(plan)) /\ text' = [text EXCEPT ![p] = <<>>]
          /\ offered' = [offered EXCEPT ![p] = ""]
        BY <1>9 DEF atomic_write
    <2>6. PhasesOK' /\ text' \in [Agents -> Seq(Line)] /\ offered' = [q \in Agents |-> offered'[q]]
        <3>1. <<>> \in Seq(Line)
            BY EmptySeq
        <3> QED BY <1>0, <2>1, <2>5, <3>1 DEF PhasesOK, Phases
    <2>7. \A q \in Agents : pc'[q] \in {"tick", "write"} =>
              pc'[q] = pc[q] /\ text'[q] = text[q] /\ offered'[q] = offered[q]
        BY <1>0, <2>1, <2>5
    <2> QED BY <2>2, <2>4, <2>5, <2>6, <2>7, SaveKeepsRecords
<1>10. ASSUME NEW doc \in Seq(Line), Saved(doc) PROVE RecordsInv'
    <2>1. /\ plan' = doc /\ UNCHANGED <<pc, text, offered>>
          /\ Saving(Records(plan') \ Records(plan)) /\ RecordsKept'
        BY <1>10 DEF Saved, agentVars, RecordsKept
    <2>2. PhasesOK' /\ text' \in [Agents -> Seq(Line)] /\ offered' = [q \in Agents |-> offered'[q]]
        BY <1>0, <2>1 DEF PhasesOK
    <2> QED BY <1>10, <2>1, <2>2, SaveKeepsRecords
<1>11. ASSUME Decide PROVE RecordsInv'
    <2>1. PICK i \in Threads(plan), d \in {"keep", "park", "pending"} :
              Saved(WithDecision(plan, i, d))
        BY <1>11 DEF Decide
    <2>2. i \in 1 .. Len(plan)
        BY <1>0, <2>1, TextSections DEF Threads
    <2> QED BY <1>0, <1>10, <2>1, <2>2, DecidedLines
<1>12. ASSUME Quote PROVE RecordsInv'
    <2>1. PICK i \in Open(plan) : Saved(InsertAt(plan, 2, plan[i]))
        BY <1>12 DEF Quote
    <2>2. i \in 1 .. Len(plan)
        BY <1>0, <2>1, TextSections DEF Open, Checklist
    <2>3. plan[i] \in Line /\ 2 \in 1 .. Len(plan) + 1
        BY <1>0, <2>2
    <2> QED BY <1>0, <1>10, <2>1, <2>3, Inserted
<1>13. ASSUME UNCHANGED <<plan, agentVars, live, since>> PROVE RecordsInv'
    BY <1>13 DEF agentVars, RecordsInv, PlanOK, PhasesOK, RecordsKept, HasRead, HasItem
<1>14. ASSUME Commit \/ UNCHANGED vars PROVE RecordsInv'
    BY <1>13, <1>14 DEF Commit, vars
<1> QED BY <1>3, <1>4, <1>5, <1>6, <1>7, <1>8, <1>9, <1>11, <1>12, <1>14 DEF Next

\* A decision or a tick that was recorded stays in the plan until the user
\* changes it, or a tick that had read the plan before replaces it (plan_tick
\* reads the plan anew, atomic_write replaces it whole)
THEOREM RecordsAreKept == CommandSpec => []RecordsKept
<1>1. CommandInit => RecordsInv
    BY InitRecords DEF CommandInit
<1>2. RecordsInv /\ [main]_commandVars => RecordsInv'
    BY NextRecords DEF main, commandVars
<1>3. RecordsInv => RecordsKept
    BY DEF RecordsInv
<1> QED BY <1>1, <1>2, <1>3, PTL DEF CommandSpec


-----------------------------------------------------------------------------
(* What a scan reports *)

FoundOK ==
    found = [answered |-> found.answered, directories |-> found.directories, date |-> found.date,
             log |-> found.log, listing |-> found.listing, rest |-> found.rest,
             subjects |-> found.subjects, prs |-> found.prs, tips |-> found.tips,
             items |-> found.items]

\* The questions are asked in order, and only the ones that depend on a failed
\* one are left out
InOrder ==
    /\ asked \in Nat
    /\ Has("date") => asked >= 2
    /\ Has("log") => asked >= 3
    /\ Has("branches") => asked >= 4
    /\ Has("subjects") => asked >= 5
    /\ asked = 2 => Has("date")
    /\ asked = 4 => Has("branches")

\* Unless HEAD is rewound, what it held when its date was read is in the log, and
\* what it held when the branches were listed is among the subjects
SeesLater ==
    ~rewound =>
        /\ Has("date") => dated \subseteq history
        /\ Has("log") => dated \subseteq found.log
        /\ Has("branches") => listed \subseteq history
        /\ Has("subjects") =>
              \A c \in listed : c.subject \in found.subjects /\ (c.pr # 0 => c.pr \in found.prs)

ScanInv == FoundOK /\ InOrder /\ SeesLater

LEMMA InitScan == ASSUME ScanInit PROVE ScanInv
BY DEF ScanInit, ScanInv, FoundOK, InOrder, SeesLater, Has

\* A step that answers no question
Same == /\ FoundOK' /\ found'.answered = found.answered /\ found'.log = found.log
        /\ found'.subjects = found.subjects /\ found'.prs = found.prs

LEMMA NoAnswerKeeps ==
    ASSUME ScanInv, UNCHANGED <<dated, listed>>, Same,
           asked' \in Nat, asked' >= asked \/ (asked >= 5 /\ asked' >= 5),
           asked' = 2 => asked = 2, asked' = 4 => asked = 4,
           ~rewound' => ~rewound /\ history \subseteq history'
    PROVE  ScanInv'
<1>1. \A q : Has(q)' = Has(q)
    BY DEF Has, Same
<1>2. InOrder'
    BY <1>1 DEF ScanInv, InOrder
<1>3. SeesLater'
    BY <1>1 DEF ScanInv, SeesLater, Same
<1> QED BY <1>2, <1>3 DEF ScanInv, Same

LEMMA AskedIs ==
    ASSUME InOrder, NEW q, Asks(q)
    PROVE  /\ asked \in 0 .. 4
           /\ q = "files" => asked = 0
           /\ q = "date" => asked = 1
           /\ q = "log" => asked = 2
           /\ q = "branches" => asked = 3
           /\ q = "subjects" => asked = 4
<1>1. asked \in Nat /\ asked < 5 /\ Questions[asked + 1] = q
    <2>1. Len(Questions) = 5
        BY DEF Questions
    <2> QED BY <2>1 DEF InOrder, Asks
<1>2. /\ Questions[1] = "files" /\ Questions[2] = "date" /\ Questions[3] = "log"
      /\ Questions[4] = "branches" /\ Questions[5] = "subjects"
    BY DEF Questions
<1>3. /\ asked = 0 => q = "files"
      /\ asked = 1 => q = "date"
      /\ asked = 2 => q = "log"
      /\ asked = 3 => q = "branches"
      /\ asked = 4 => q = "subjects"
    BY <1>1, <1>2
<1>4. asked = 0 \/ asked = 1 \/ asked = 2 \/ asked = 3 \/ asked = 4
    BY <1>1
<1> QED BY <1>3, <1>4

LEMMA NextScan == ASSUME ScanInv, [ScanNext]_scanVars PROVE ScanInv'
<1>0. FoundOK /\ InOrder /\ SeesLater
    BY DEF ScanInv
<1>1. ASSUME walk PROVE ScanInv'
    <2>1. asked = 0 /\ asked' = 1
        BY <1>0, <1>1, AskedIs DEF walk, Learns
    <2>2. /\ found' = [found EXCEPT !.directories = present, !.answered = @ \cup {"files"}]
          /\ UNCHANGED <<history, rewound, dated, listed>>
        BY <1>1 DEF walk, Learns, repository
    <2>9. /\ FoundOK' /\ found'.answered = found.answered \cup {"files"}
          /\ found'.log = found.log /\ found'.subjects = found.subjects
          /\ found'.prs = found.prs
        BY <1>0, <2>2 DEF FoundOK
    <2>4. \A q : Has(q)' <=> Has(q) \/ q = "files"
        BY <2>9 DEF Has
    <2>5. InOrder'
        BY <1>0, <2>1, <2>4 DEF InOrder
    <2>6. SeesLater'
        BY <1>0, <2>1, <2>2, <2>9, <2>4 DEF SeesLater, InOrder
    <2> QED BY <2>5, <2>6, <2>9 DEF ScanInv
<1>2. ASSUME HeadDate PROVE ScanInv'
    <2>1. asked = 1 /\ asked' = 2
        BY <1>0, <1>2, AskedIs DEF HeadDate, Learns
    <2>2. /\ found' = [found EXCEPT !.date = top.date, !.answered = @ \cup {"date"}]
          /\ dated' = history /\ UNCHANGED <<history, rewound, listed>>
        BY <1>2 DEF HeadDate, Learns, repository
    <2>9. /\ FoundOK' /\ found'.answered = found.answered \cup {"date"}
          /\ found'.log = found.log /\ found'.subjects = found.subjects
          /\ found'.prs = found.prs
        BY <1>0, <2>2 DEF FoundOK
    <2>4. \A q : Has(q)' <=> Has(q) \/ q = "date"
        BY <2>9 DEF Has
    <2>5. InOrder'
        BY <1>0, <2>1, <2>4 DEF InOrder
    <2>6. SeesLater'
        BY <1>0, <2>1, <2>2, <2>9, <2>4 DEF SeesLater, InOrder
    <2> QED BY <2>5, <2>6, <2>9 DEF ScanInv
<1>3. ASSUME Log PROVE ScanInv'
    <2>1. asked = 2 /\ asked' = 3
        BY <1>0, <1>3, AskedIs DEF Log, Learns
    <2>2. /\ found' = [found EXCEPT !.log = history, !.answered = @ \cup {"log"}]
          /\ UNCHANGED <<history, rewound, dated, listed>>
        BY <1>3 DEF Log, Learns, repository
    <2>9. /\ FoundOK' /\ found'.answered = found.answered \cup {"log"}
          /\ found'.log = history /\ found'.subjects = found.subjects
          /\ found'.prs = found.prs
        BY <1>0, <2>2 DEF FoundOK
    <2>4. \A q : Has(q)' <=> Has(q) \/ q = "log"
        BY <2>9 DEF Has
    <2>5. InOrder'
        BY <1>0, <2>1, <2>4 DEF InOrder
    <2>6. SeesLater'
        BY <1>0, <2>1, <2>2, <2>9, <2>4 DEF SeesLater, InOrder
    <2> QED BY <2>5, <2>6, <2>9 DEF ScanInv
<1>4. ASSUME ListBranches PROVE ScanInv'
    <2>1. asked = 3 /\ asked' = 4
        BY <1>0, <1>4, AskedIs DEF ListBranches, Learns
    <2>2. PICK lines : found' = [found EXCEPT !.listing = branches, !.rest = lines,
                                              !.answered = @ \cup {"branches"}]
        BY <1>4 DEF ListBranches, Learns
    <2>3. listed' = history /\ UNCHANGED <<history, rewound, dated>>
        BY <1>4 DEF ListBranches, Learns, repository
    <2>9. /\ FoundOK' /\ found'.answered = found.answered \cup {"branches"}
          /\ found'.log = found.log /\ found'.subjects = found.subjects
          /\ found'.prs = found.prs
        BY <1>0, <2>2 DEF FoundOK
    <2>4. \A q : Has(q)' <=> Has(q) \/ q = "branches"
        BY <2>9 DEF Has
    <2>5. InOrder'
        BY <1>0, <2>1, <2>4 DEF InOrder
    <2>6. SeesLater'
        BY <1>0, <2>1, <2>2, <2>3, <2>9, <2>4 DEF SeesLater, InOrder
    <2> QED BY <2>5, <2>6, <2>9 DEF ScanInv
<1>5. ASSUME Subjects PROVE ScanInv'
    <2>1. asked = 4 /\ asked' = 5
        BY <1>0, <1>5, AskedIs DEF Subjects, Learns
    <2>2. /\ found' = [found EXCEPT !.subjects = {c.subject : c \in history},
                                    !.prs = {c.pr : c \in history} \ {0},
                                    !.answered = @ \cup {"subjects"}]
          /\ UNCHANGED <<history, rewound, dated, listed>>
        BY <1>5 DEF Subjects, Learns, repository
    <2>9. /\ FoundOK' /\ found'.answered = found.answered \cup {"subjects"}
          /\ found'.log = found.log /\ found'.subjects = {c.subject : c \in history}
          /\ found'.prs = {c.pr : c \in history} \ {0}
        BY <1>0, <2>2 DEF FoundOK
    <2>4. \A q : Has(q)' <=> Has(q) \/ q = "subjects"
        BY <2>9 DEF Has
    <2>5. InOrder'
        BY <1>0, <2>1, <2>4 DEF InOrder
    <2>6. SeesLater'
        BY <1>0, <2>1, <2>2, <2>9, <2>4 DEF SeesLater, InOrder
    <2> QED BY <2>5, <2>6, <2>9 DEF ScanInv
<1>6. ASSUME Fails PROVE ScanInv'
    <2>1. (asked \in {1, 2} /\ asked' = 3) \/ (asked \in {3, 4} /\ asked' = 5)
        <3>1. CASE Asks("date") /\ asked' = 3
            BY <1>0, <3>1, AskedIs
        <3>2. CASE Asks("log") /\ asked' = 3
            BY <1>0, <3>2, AskedIs
        <3>3. CASE Asks("branches") /\ asked' = 5
            BY <1>0, <3>3, AskedIs
        <3>4. CASE Asks("subjects") /\ asked' = 5
            BY <1>0, <3>4, AskedIs
        <3> QED BY <1>6, <3>1, <3>2, <3>3, <3>4 DEF Fails
    <2>2. UNCHANGED <<history, rewound, found, dated, listed>>
        BY <1>6 DEF Fails, repository
    <2>3. \A q : Has(q)' = Has(q)
        BY <2>2 DEF Has
    <2>4. InOrder' /\ FoundOK'
        BY <1>0, <2>1, <2>2, <2>3 DEF InOrder, FoundOK
    <2>5. SeesLater'
        BY <1>0, <2>2, <2>3 DEF SeesLater
    <2> QED BY <2>4, <2>5 DEF ScanInv
<1>7. ASSUME TipOf PROVE ScanInv'
    <2>1. asked = 5 /\ asked' \in {5, 6} /\ UNCHANGED <<history, rewound, dated, listed>>
        BY <1>7 DEF TipOf, Questions, repository
    <2>2. \/ found' = [found EXCEPT !.tips = @ \cup {branches[Head(found.rest)]}]
          \/ Passed({})
        BY <1>7 DEF TipOf
    <2>3. Same
        BY <1>0, <2>2 DEF Same, Passed, FoundOK
    <2> QED BY <2>1, <2>3, NoAnswerKeeps
<1>8. ASSUME IsAncestor PROVE ScanInv'
    <2>1. asked = 6 /\ asked' = 5 /\ UNCHANGED <<history, rewound, dated, listed>>
        BY <1>8 DEF IsAncestor, Questions, repository
    <2>2. \E item : Passed(item)
        BY <1>8 DEF IsAncestor
    <2>3. Same
        BY <1>0, <2>2 DEF Same, Passed, FoundOK
    <2> QED BY <2>1, <2>3, NoAnswerKeeps
<1>9. ASSUME Others PROVE ScanInv'
    <2>1. Change
        BY <1>9 DEF Others, CommitOn, Merge, Squash, HeadGets, Push, Delete, Rewind
    <2>2. UNCHANGED <<asked, found, dated, listed>>
        BY <2>1 DEF Change
    <2>3. ~rewound' => ~rewound /\ history \subseteq history'
        BY <1>9 DEF Others, CommitOn, Merge, Squash, HeadGets, Push, Delete, Rewind
    <2>4. Same /\ asked' \in Nat
        BY <1>0, <2>2 DEF Same, FoundOK, InOrder
    <2>5. asked' >= asked /\ asked' = asked
        BY <2>2, <2>4
    <2> QED BY <2>2, <2>3, <2>4, <2>5, NoAnswerKeeps
<1>10. ASSUME UNCHANGED scanVars PROVE ScanInv'
    <2>1. UNCHANGED <<history, rewound, asked, found, dated, listed>>
        BY <1>10 DEF scanVars, repository
    <2>2. Same /\ asked' \in Nat
        BY <1>0, <2>1 DEF Same, FoundOK, InOrder
    <2>3. asked' >= asked /\ asked' = asked /\ history \subseteq history'
        BY <2>1, <2>2
    <2> QED BY <2>1, <2>2, <2>3, NoAnswerKeeps
<1> QED BY <1>1, <1>2, <1>3, <1>4, <1>5, <1>6, <1>7, <1>8, <1>9, <1>10 DEF ScanNext

LEMMA ScanInvariant == CommandSpec => []ScanInv
<1>1. CommandInit => ScanInv
    BY InitScan DEF CommandInit
<1>2. ScanInv /\ [main]_commandVars => ScanInv'
    BY NextScan DEF main, commandVars
<1> QED BY <1>1, <1>2, PTL DEF CommandSpec

\* A directory reported as stale had no younger commit when HEAD's date was read,
\* whatever arrived afterwards (the log is read after the date), unless HEAD was
\* rewound
THEOREM StaleWasStale == CommandSpec => []StaleIsStale
<1>1. ScanInv => StaleIsStale
    BY DEF ScanInv, SeesLater, StaleIsStale, Stale, Dated, InLog
<1> QED BY <1>1, ScanInvariant, PTL

\* A branch reported as unmerged was neither merged nor squashed when the branches
\* were listed (the subjects are read after the listing), unless HEAD was rewound
THEOREM UnmergedWasOpen == CommandSpec => []UnmergedIsOpen
<1>1. ScanInv => UnmergedIsOpen
    <2> SUFFICES ASSUME ScanInv, ~rewound, Has("subjects"), NEW name \in Unmerged
                 PROVE  /\ found.listing[name] \notin listed
                        /\ \A c \in listed : /\ c.subject # found.listing[name].subject
                                             /\ c.pr # 0 => c.pr # PullRequest(name)
        BY DEF UnmergedIsOpen
    <2>1. /\ found.listing[name].subject \notin found.subjects
          /\ PullRequest(name) \notin found.prs
        BY DEF Unmerged, InHeadHistory
    <2>2. \A c \in listed : c.subject \in found.subjects /\ (c.pr # 0 => c.pr \in found.prs)
        BY DEF ScanInv, SeesLater
    <2> QED BY <2>1, <2>2
<1> QED BY <1>1, ScanInvariant, PTL
=============================================================================
